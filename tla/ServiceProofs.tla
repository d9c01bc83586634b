---------------------------- MODULE ServiceProofs ----------------------------
(***************************************************************************)
(* The services around the server account for what they keep, for any      *)
(* number of callers, ids, leases, keys, bytes and clock readings: the     *)
(* file transfers, the resource broker, the rate limiter, the migrations   *)
(* and the upgrade command, whose versions are in one order.               *)
(***************************************************************************)
EXTENDS FileTransferHTTPHandler, ResourceBroker, RateLimiter, Migrations, Upgrade, FiniteSetTheorems,
        WellFoundedInduction, TLAPS

(***************************************************************************)
(* FileTransferStore and its handler: files, entries and answers.  The     *)
(* invariant is stated id by id: a step of a call concerns one id, and     *)
(* prunes or closes others.                                                *)
(***************************************************************************)
TransferSpec == TransferInit /\ [][TransferNext]_transferVars

\* What a call does to its id.  A call at one of Sole's steps is the only such call.
Begun == {"stage", "begin"}
Importing == {"probe", "import", "discard"}
Writing == {"append", "written", "remove", "release"}
Sole == Begun \cup Importing \cup Writing \cup {"download", "take"}

Vias == {"app", "import", "POST", "GET", "HEAD", "PATCH"}
Results == {"none", "ok", "failed", "notfound", "expired"}
CallRecords ==
  [at : Sole \cup {"idle", "consume", "returned"}, via : Vias, id : Ids \cup {NoId},
   size : Nat, n : Nat, result : Results]
Entries ==
  [kind : {"none", "staged", "upload"}, size : Nat, offset : Nat, complete : BOOLEAN,
   busy : BOOLEAN, expires : Nat]
Files == {NoFile} \cup [size : Nat, good : BOOLEAN]

TransferTypeOK ==
  /\ entries \in [Ids -> Entries]
  /\ disk \in [Ids -> Files]
  /\ ids \in [Ids -> {"new", "secret", "known"}]
  /\ call \in [Calls -> CallRecords]
  /\ \A c \in Calls : call[c].at # "idle" => call[c].id \in Ids
  /\ closing \in {"no", "waiting", "done"}
  /\ clock \in Nat
  /\ told \in SUBSET [of : {"download", "upload"}, id : Ids]

\* An entry and the file below it.
EntryFits(i) ==
  /\ entries[i].kind = "none" => entries[i] = NoEntry
  /\ ids[i] = "new" => ~Exists(i) /\ disk[i] = NoFile
  /\ Exists(i) =>
       /\ disk[i] # NoFile
       /\ entries[i].complete <=> entries[i].offset = entries[i].size
       /\ entries[i].kind = "staged" => entries[i].complete
       /\ entries[i].complete => disk[i] = File(entries[i].size, TRUE)
       /\ ~entries[i].busy => disk[i].size = entries[i].offset

\* Who may know the id a call works on: nobody else until the call has returned it.
SecretKept(c, i) ==
  /\ call[c].at \in Begun \cup Importing => ids[i] = "secret"
  /\ call[c].at \in Importing => call[c].via = "import"
  /\ call[c].at \in Writing => ids[i] = IF call[c].via = "import" THEN "secret" ELSE "known"
  /\ call[c].at \in {"download", "take", "consume", "returned"} => ids[i] = "known"

\* The kind of entry an HTTP client asks for, and will not find once it was told so.
Asked(of) == IF of = "download" THEN "staged" ELSE "upload"

\* What a call relies on, although it has let go of the mutex.  An entry can be gone
\* under a call that reads or writes its file, but then the file is gone too.
CallFits(c, i) ==
  /\ call[c].at # "idle" /\ SecretKept(c, i)
  /\ call[c].at \in Begun => ~Exists(i) /\ disk[i] = File(0, TRUE)
  /\ call[c].at \in Writing /\ ~Exists(i) => disk[i] = NoFile
  /\ call[c].at \in Writing /\ Exists(i) =>
       /\ entries[i].kind = "upload" /\ entries[i].busy /\ ~entries[i].complete
       /\ disk[i].size = call[c].n
  /\ call[c].at = "append" /\ Exists(i) =>
       entries[i].size = call[c].size /\ entries[i].offset = call[c].n
  /\ call[c].at \in {"written", "remove", "release"} => call[c].result \in {"ok", "failed"}
  /\ call[c].at = "release" /\ Exists(i) =>
       call[c].n <= call[c].size /\ (call[c].n = call[c].size => disk[i].good)
  /\ call[c].at = "download" =>
       IF Exists(i) THEN entries[i].kind = "staged" /\ entries[i].busy ELSE disk[i] = NoFile
  /\ call[c].at = "take" => ~Exists(i)
  /\ call[c].at = "returned" => entries[i].kind # Asked(Surface(call[c].via))

OneCall(i) ==
  \A c, d \in Calls : /\ call[c].id = i /\ call[c].at \in Sole
                      /\ call[d].id = i /\ call[d].at \in Sole
                      => c = d

FileKept(i) ==
  disk[i] # NoFile => Exists(i) \/ \E c \in Calls : Working(c, i)

IdInv(i) ==
  /\ EntryFits(i)
  /\ \A c \in Calls : call[c].id = i => CallFits(c, i)
  /\ OneCall(i)
  /\ FileKept(i)
  /\ closing = "done" => ~Exists(i) /\ disk[i] = NoFile
  /\ \A t \in told : t.id = i => ids[i] = "known" /\ entries[i].kind # Asked(t.of)

TransferIInv ==
  /\ TransferTypeOK
  /\ closing = "done" => Active = {}
  /\ \A i \in Ids : IdInv(i)
\* Nobody but c has its hands on i.
Alone(c, i) == \A d \in Calls \ {c} : call[d].id = i => call[d].at \notin Sole

\* Entry and file of i stay, or go together.
Kept(i) == entries'[i] = entries[i] /\ disk'[i] = disk[i]
Dropped(i) == Exists(i) /\ entries'[i] = NoEntry /\ disk'[i] = NoFile

\* A step of call c that concerns i.
Concerns(c, i) ==
  /\ call' \in [Calls -> CallRecords] /\ (call'[c].at # "idle" => call'[c].id \in Ids)
  /\ \A d \in Calls \ {c} : call'[d] = call[d]
  /\ call[c].id \in {NoId, i} /\ call'[c].id \in {NoId, i}
  /\ \A j \in Ids \ {i} : ids'[j] = ids[j] /\ (Kept(j) \/ Dropped(j))
  /\ closing' = closing /\ clock' = clock
  /\ closing = "done" /\ c \notin Active => c \notin Active'

-----------------------------------------------------------------------------
\* The records the store builds, and what they hold.
LEMMA EntryRecord ==
  ASSUME NEW kind \in {"staged", "upload"}, NEW size \in Nat, NEW offset \in Nat,
         NEW e, e = Entry(kind, size, offset), clock \in Nat, TransferAssumption
  PROVE  /\ e \in Entries /\ e # NoEntry
         /\ e.kind = kind /\ e.size = size /\ e.offset = offset
         /\ offset = size => e.complete
         /\ offset # size => ~e.complete
         /\ ~e.busy
  <1>1. PICK done \in BOOLEAN : done = (offset = size)
    OBVIOUS
  <1>2. PICK until \in Nat : until = clock + TTL
    BY DEF TransferAssumption
  <1>3. e = [kind |-> kind, size |-> size, offset |-> offset, complete |-> done,
             busy |-> FALSE, expires |-> until]
    BY <1>1, <1>2, Zenon DEF Entry
  <1>4. e \in Entries
    BY <1>3 DEF Entries
  <1>5. e.kind = kind /\ e.size = size /\ e.offset = offset /\ ~e.busy
    BY <1>3
  <1>6. e.complete = done
    BY <1>3
  <1>7. e # NoEntry
    <2>1. NoEntry.kind = "none"
      BY DEF NoEntry
    <2> QED  BY <1>5, <2>1
  <1> QED  BY <1>1, <1>4, <1>5, <1>6, <1>7

\* Marking an entry busy changes nothing else of it.
LEMMA MarkedBusy ==
  ASSUME NEW e \in Entries, NEW m, m = [e EXCEPT !.busy = TRUE]
  PROVE  /\ m \in Entries /\ m.busy
         /\ m.kind = e.kind /\ m.size = e.size /\ m.offset = e.offset
         /\ m.complete = e.complete
  BY DEF Entries

\* Nor does marking it free again.
LEMMA MarkedFree ==
  ASSUME NEW e \in Entries, NEW m, m = [e EXCEPT !.busy = FALSE]
  PROVE  /\ m \in Entries /\ ~m.busy
         /\ m.kind = e.kind /\ m.size = e.size /\ m.offset = e.offset
         /\ m.complete = e.complete
  BY DEF Entries

\* An absent entry is a record like the others, of no kind.
LEMMA AbsentEntry == NoEntry \in Entries /\ NoEntry.kind = "none"
  BY DEF NoEntry, Entries

\* A file that is there has a length and right or wrong bytes.
LEMMA FileRecord ==
  ASSUME NEW n \in Nat, NEW good \in BOOLEAN
  PROVE  /\ File(n, good) \in Files /\ File(n, good) # NoFile
         /\ File(n, good).size = n /\ File(n, good).good = good
  BY DEF File, Files, NoFile

\* A file is known by its length and its bytes.
LEMMA FileIs ==
  ASSUME NEW f \in Files, f # NoFile
  PROVE  /\ f.size \in Nat /\ f.good \in BOOLEAN
         /\ f.good => f = File(f.size, TRUE)
  BY DEF File, Files, NoFile

\* What a call remembers.
LEMMA CallRecord ==
  ASSUME NEW at \in Sole \cup {"idle", "consume", "returned"}, NEW via \in Vias,
         NEW id \in Ids \cup {NoId}, NEW size \in Nat, NEW n \in Nat,
         NEW k, k = Call(at, via, id, size, n)
  PROVE  /\ k \in CallRecords
         /\ k.at = at /\ k.via = via /\ k.id = id /\ k.size = size /\ k.n = n
  BY DEF Call, CallRecords, Results

\* Return ends the call: it is free again, or waits to say that the transfer is gone.
LEMMA ReturnEnds ==
  ASSUME TransferTypeOK, TransferAssumption, NEW c \in Calls, NEW via \in Vias, NEW i \in Ids, NEW result,
         Return(c, via, i, result)
  PROVE  /\ call' \in [Calls -> CallRecords]
         /\ \A d \in Calls \ {c} : call'[d] = call[d]
         /\ \/ call'[c].at = "idle" /\ call'[c].id = NoId
            \/ /\ call'[c].at = "returned" /\ call'[c].id = i /\ call'[c].via = via
               /\ result \in {"notfound", "expired"} /\ via \in {"GET", "HEAD", "PATCH"}
         /\ ids' \in [Ids -> {"new", "secret", "known"}]
         /\ \A j \in Ids \ {i} : ids'[j] = ids[j]
         /\ ids'[i] = IF result = "ok" THEN "known" ELSE ids[i]
  <1> DEFINE told404 == [Call("returned", via, i, 0, 0) EXCEPT !.result = result]
             next == IF result \in {"notfound", "expired"} /\ via \in {"GET", "HEAD", "PATCH"}
                     THEN told404 ELSE Idle
  <1>1. /\ Idle \in CallRecords /\ Idle.at = "idle" /\ Idle.id = NoId
    BY DEF Idle, Call, CallRecords, Vias, Results
  <1>2. result \in {"notfound", "expired"} =>
          /\ told404 \in CallRecords /\ told404.at = "returned" /\ told404.id = i
          /\ told404.via = via
    BY DEF Call, CallRecords, Results
  <1>3. call' = [call EXCEPT ![c] = next]
    BY DEF Return, Goto
  <1> HIDE DEF told404
  <1>4. next \in CallRecords
    BY <1>1, <1>2
  <1>5. ids' = IF result = "ok" THEN [ids EXCEPT ![i] = "known"] ELSE ids
    BY DEF Return
  <1>6. /\ call' \in [Calls -> CallRecords] /\ call'[c] = next
        /\ \A d \in Calls \ {c} : call'[d] = call[d]
    BY <1>3, <1>4 DEF TransferTypeOK
  <1>7. /\ ids' \in [Ids -> {"new", "secret", "known"}]
        /\ \A j \in Ids \ {i} : ids'[j] = ids[j]
        /\ ids'[i] = IF result = "ok" THEN "known" ELSE ids[i]
    BY <1>5 DEF TransferTypeOK
  <1> QED  BY <1>1, <1>2, <1>6, <1>7

\* Dropping entries takes their files along and nothing else.
LEMMA DropRemoves ==
  ASSUME TransferTypeOK, NEW gone, Drop(gone)
  PROVE  /\ entries' \in [Ids -> Entries] /\ disk' \in [Ids -> Files]
         /\ \A j \in Ids : /\ j \in gone => entries'[j] = NoEntry /\ disk'[j] = NoFile
                           /\ j \notin gone => Kept(j)
  BY AbsentEntry DEF Drop, TransferTypeOK, Kept, Files

-----------------------------------------------------------------------------
\* An id that a step leaves alone, or prunes, keeps its invariant.
LEMMA OtherIds ==
  ASSUME TransferTypeOK, NEW j \in Ids, IdInv(j), Kept(j) \/ Dropped(j), ids'[j] = ids[j],
         \A d \in Calls : call[d].id = j \/ call'[d].id = j => call'[d] = call[d],
         closing' = "done" => closing = "done", \A t \in told' : t.id = j => t \in told
  PROVE  IdInv(j)'
  <1>1. CASE Kept(j)
    <2>1. EntryFits(j)'
      BY <1>1 DEF Kept, IdInv, EntryFits, Exists
    <2>2. ASSUME NEW d \in Calls, call'[d].id = j  PROVE CallFits(d, j)'
      <3>1. call'[d] = call[d] /\ CallFits(d, j)
        BY <2>2 DEF IdInv
      <3> QED  BY <1>1, <3>1 DEF Kept, CallFits, SecretKept, Exists
    <2>3. OneCall(j)'
      BY DEF IdInv, OneCall
    <2>4. FileKept(j)' /\ (closing' = "done" => ~Exists(j)' /\ disk'[j] = NoFile)
      <3>1. \A d \in Calls : Working(d, j) => Working(d, j)'
        BY DEF Working
      <3> QED  BY <1>1, <3>1 DEF Kept, IdInv, FileKept, Exists
    <2>5. \A t \in told' : t.id = j => ids'[j] = "known" /\ entries'[j].kind # Asked(t.of)
      BY <1>1 DEF Kept, IdInv
    <2> QED  BY <2>1, <2>2, <2>3, <2>4, <2>5 DEF IdInv
  <1>2. CASE Dropped(j)
    <2>1. EntryFits(j)'
      BY <1>2, AbsentEntry DEF Dropped, EntryFits, Exists
    <2>2. \A d \in Calls : call'[d].id = j => CallFits(d, j)'
      BY <1>2, AbsentEntry DEF Dropped, IdInv, CallFits, SecretKept, Exists, Asked
    <2>3. OneCall(j)'
      BY DEF IdInv, OneCall
    <2>4. FileKept(j)' /\ ~Exists(j)' /\ disk'[j] = NoFile
      BY <1>2 DEF Dropped, FileKept, Exists
    <2>5. \A t \in told' : t.id = j => ids'[j] = "known" /\ entries'[j].kind # Asked(t.of)
      BY <1>2, AbsentEntry DEF Dropped, IdInv, Asked
    <2> QED  BY <2>1, <2>2, <2>3, <2>4, <2>5 DEF IdInv
  <1> QED  BY <1>1, <1>2

\* A step that concerns i and keeps its invariant keeps everybody's.
LEMMA ConcernsOne ==
  ASSUME TransferIInv, TransferAssumption, NEW c \in Calls, NEW i \in Ids, Concerns(c, i),
         entries' \in [Ids -> Entries], disk' \in [Ids -> Files],
         ids' \in [Ids -> {"new", "secret", "known"}], told' = told,
         IdInv(i)'
  PROVE  TransferIInv'
  <1>1. TransferTypeOK'
    BY DEF TransferIInv, TransferTypeOK, Concerns
  <1>2. ASSUME NEW j \in Ids \ {i}  PROVE IdInv(j)'
    <2>1. \A d \in Calls : call[d].id = j \/ call'[d].id = j => call'[d] = call[d]
      BY <1>2 DEF Concerns, TransferAssumption
    <2> QED  BY <1>2, <2>1, OtherIds DEF Concerns, TransferIInv
  <1>3. (closing = "done" => Active = {})'
    BY DEF TransferIInv, Concerns, Active
  <1> QED  BY <1>1, <1>2, <1>3 DEF TransferIInv

\* c alone has hands on i: the others that know i only look at it, and an entry of a
\* known id can go but never come back.
LEMMA AloneStep ==
  ASSUME TransferTypeOK, NEW c \in Calls, NEW i \in Ids, IdInv(i), Alone(c, i),
         \A d \in Calls \ {c} : call'[d] = call[d],
         EntryFits(i)', call'[c].id = i => CallFits(c, i)', FileKept(i)',
         ids[i] = "known" => entries'[i].kind \in {entries[i].kind, "none"},
         ids[i] = "known" => ids'[i] = "known",
         closing' = "done" => ~Exists(i)' /\ disk'[i] = NoFile,
         told' = told
  PROVE  IdInv(i)'
  <1>1. ASSUME NEW d \in Calls \ {c}, call'[d].id = i  PROVE CallFits(d, i)' /\ call'[d].at \notin Sole
    <2>1. call'[d] = call[d] /\ call[d].id = i /\ call[d].at \notin Sole /\ CallFits(d, i)
      BY <1>1 DEF Alone, IdInv
    <2>2. call[d].at \in {"consume", "returned"}
      BY <2>1 DEF TransferTypeOK, CallRecords, CallFits
    <2>3. ids[i] = "known" /\ ids'[i] = "known"
      BY <2>1, <2>2 DEF CallFits, SecretKept
    <2> QED  BY <2>1, <2>2, <2>3 DEF CallFits, SecretKept, Sole, Begun, Importing, Writing, Asked
  <1>2. OneCall(i)'
    BY <1>1 DEF OneCall
  <1>3. \A t \in told' : t.id = i => ids'[i] = "known" /\ entries'[i].kind # Asked(t.of)
    BY DEF IdInv, Asked
  <1> QED  BY <1>1, <1>2, <1>3 DEF IdInv

\* c only looks at i, or finds it expired: calls that have their hands on i go on.
LEMMA GuestStep ==
  ASSUME TransferTypeOK, NEW c \in Calls, NEW i \in Ids, IdInv(i), call[c].at \notin Sole,
         \A d \in Calls \ {c} : call'[d] = call[d],
         Kept(i) \/ Dropped(i), ids'[i] = ids[i], closing' = closing, told' = told,
         call'[c].at \notin Sole, call'[c].id = i => CallFits(c, i)'
  PROVE  IdInv(i)'
  <1>1. ASSUME NEW d \in Calls \ {c}, call'[d].id = i  PROVE CallFits(d, i)'
    <2>1. call'[d] = call[d] /\ CallFits(d, i)
      BY <1>1 DEF IdInv
    <2>2. CASE Kept(i)
      BY <2>1, <2>2 DEF CallFits, SecretKept, Kept, Exists
    <2>3. CASE Dropped(i)
      BY <2>1, <2>3, AbsentEntry DEF CallFits, SecretKept, Dropped, Exists, Asked
    <2> QED  BY <2>2, <2>3
  <1>2. EntryFits(i)'
    <2>1. CASE Kept(i)
      BY <2>1 DEF IdInv, EntryFits, Kept, Exists
    <2>2. CASE Dropped(i)
      BY <2>2, AbsentEntry DEF EntryFits, Dropped, Exists
    <2> QED  BY <2>1, <2>2
  <1>3. OneCall(i)'
    BY DEF OneCall, IdInv
  <1>4. FileKept(i)' /\ (closing' = "done" => ~Exists(i)' /\ disk'[i] = NoFile)
    <2>1. CASE Kept(i)
      <3>1. \A d \in Calls : Working(d, i) => Working(d, i)'
        BY DEF Working, Sole, Begun
      <3> QED  BY <2>1, <3>1 DEF IdInv, FileKept, Kept, Exists
    <2>2. CASE Dropped(i)
      BY <2>2 DEF FileKept, Dropped, Exists
    <2> QED  BY <2>1, <2>2
  <1>5. \A t \in told' : t.id = i => ids'[i] = "known" /\ entries'[i].kind # Asked(t.of)
    BY AbsentEntry DEF IdInv, Asked, Kept, Dropped
  <1> QED  BY <1>1, <1>2, <1>3, <1>4, <1>5 DEF IdInv

\* Who is alone: a call at one of Sole's steps; one that creates the id; and one that
\* finds an entry that is not busy.
LEMMA SoleIsAlone ==
  ASSUME NEW c \in Calls, NEW i \in Ids, IdInv(i), call[c].id = i, call[c].at \in Sole
  PROVE  Alone(c, i)
  BY DEF IdInv, OneCall, Alone

\* A new id is nobody's.
LEMMA NewIsAlone ==
  ASSUME TransferTypeOK, NEW i \in Ids, IdInv(i), ids[i] = "new"
  PROVE  \A d \in Calls : call[d].id # i
  <1> SUFFICES ASSUME NEW d \in Calls, call[d].id = i  PROVE FALSE
    OBVIOUS
  <1>1. CallFits(d, i) /\ call[d] \in CallRecords
    BY DEF IdInv, TransferTypeOK
  <1> QED  BY <1>1 DEF CallFits, SecretKept, CallRecords, Sole, Begun, Importing, Writing

\* Whoever reads or writes a file keeps its entry busy, as long as there is one.
LEMMA FreeIsAlone ==
  ASSUME TransferTypeOK, NEW c \in Calls, NEW i \in Ids, IdInv(i),
         Exists(i), ~entries[i].busy, ids[i] = "known"
  PROVE  Alone(c, i)
  <1> SUFFICES ASSUME NEW d \in Calls \ {c}, call[d].id = i, call[d].at \in Sole  PROVE FALSE
    BY DEF Alone
  <1>1. CallFits(d, i)
    BY DEF IdInv
  <1> QED  BY <1>1 DEF CallFits, SecretKept, Sole, Begun, Importing, Writing
-----------------------------------------------------------------------------
\* A call that is idle has no id.
LEMMA IdleHasNoId ==
  ASSUME TransferIInv, NEW c \in Calls, call[c].at = "idle"
  PROVE  call[c].id = NoId
  BY DEF TransferIInv, TransferTypeOK, CallRecords, IdInv, CallFits

\* A call that goes on remembers its id.
LEMMA MovedCall ==
  ASSUME NEW k \in CallRecords, NEW at \in Sole, NEW m, m = [k EXCEPT !.at = at]
  PROVE  /\ m \in CallRecords /\ m.at = at /\ m.via = k.via /\ m.id = k.id
         /\ m.size = k.size /\ m.n = k.n /\ m.result = k.result
  BY DEF CallRecords

\* A call that returns concerns the id it returns.
LEMMA ReturnConcerns ==
  ASSUME TransferIInv, TransferAssumption, NEW c \in Calls, NEW via \in Vias, NEW i \in Ids,
         NEW result, Return(c, via, i, result), call[c].id \in {NoId, i}, Stays,
         \A j \in Ids \ {i} : Kept(j) \/ Dropped(j)
  PROVE  Concerns(c, i)
  BY ReturnEnds DEF TransferIInv, Concerns, Active, Stays

\* A call that goes on concerns the id it goes on with.
LEMMA GotoConcerns ==
  ASSUME TransferIInv, NEW c \in Calls, NEW i \in Ids, NEW k \in CallRecords, Goto(c, k), k.id = i,
         call[c].id \in {NoId, i}, Stays,
         \A j \in Ids \ {i} : ids'[j] = ids[j] /\ (Kept(j) \/ Dropped(j)),
         closing = "done" => c \in Active \/ k.at \in {"consume", "discard"}
  PROVE  Concerns(c, i) /\ call'[c] = k
  <1>1. /\ call' \in [Calls -> CallRecords] /\ call'[c] = k
        /\ \A d \in Calls \ {c} : call'[d] = call[d]
    BY DEF Goto, TransferIInv, TransferTypeOK
  <1> QED  BY <1>1 DEF Concerns, Active, Stays

\* What a step of a call on id i may rely on.
LEMMA OfId ==
  ASSUME TransferIInv, NEW c \in Calls, NEW i \in Ids
  PROVE  /\ TransferTypeOK /\ IdInv(i) /\ EntryFits(i) /\ FileKept(i)
         /\ entries[i] \in Entries /\ disk[i] \in Files /\ call[c] \in CallRecords
         /\ call[c].id = i => CallFits(c, i)
         /\ call[c].via \in Vias /\ call[c].size \in Nat /\ call[c].n \in Nat
  BY DEF TransferIInv, TransferTypeOK, IdInv, CallRecords

\* Stage and BeginUpload create a file under an id that nobody knows.
LEMMA CreateStep ==
  ASSUME TransferIInv, TransferAssumption, told' = told, NEW c \in Calls, NEW at \in Begun,
         NEW via \in Vias, NEW size \in Nat, Create(c, Call(at, via, NoId, size, 0))
  PROVE  TransferIInv'
  <1>1. PICK new \in Ids :
          /\ ids[new] = "new"
          /\ entries' = [i \in Ids |-> IF i \in Pruned THEN NoEntry ELSE entries[i]]
          /\ disk' = [i \in Ids |-> IF i = new THEN File(0, TRUE)
                                    ELSE IF i \in Pruned THEN NoFile ELSE disk[i]]
          /\ ids' = [ids EXCEPT ![new] = "secret"]
          /\ Goto(c, [Call(at, via, NoId, size, 0) EXCEPT !.id = new])
    BY DEF Create
  <1>2. At(c, "idle") /\ ~closed /\ Stays
    BY DEF Create
  <1> DEFINE k == [Call(at, via, NoId, size, 0) EXCEPT !.id = new]
  <1>3. k \in CallRecords /\ k.at = at /\ k.id = new
    BY DEF Call, CallRecords, Results, Sole
  <1>4. /\ TransferTypeOK /\ IdInv(new) /\ ~Exists(new)
        /\ \A d \in Calls : call[d].id # new
    BY <1>1, OfId, NewIsAlone DEF EntryFits
  <1>5. \A j \in Ids \ {new} : ids'[j] = ids[j] /\ (Kept(j) \/ Dropped(j))
    BY <1>1, <1>4 DEF TransferTypeOK, Kept, Dropped, Pruned
  <1>6. /\ entries' \in [Ids -> Entries] /\ disk' \in [Ids -> Files]
        /\ ids' \in [Ids -> {"new", "secret", "known"}]
    BY <1>1, <1>4, AbsentEntry, FileRecord DEF TransferTypeOK, Files
  <1> HIDE DEF k
  <1>7. Concerns(c, new) /\ call'[c] = k
    BY <1>1, <1>2, <1>3, <1>5, IdleHasNoId, GotoConcerns DEF At, closed, k
  <1>8. ids'[new] = "secret" /\ ~Exists(new)' /\ disk'[new] = File(0, TRUE)
    BY <1>1, <1>4 DEF TransferTypeOK, Pruned, Exists
  <1>9. EntryFits(new)'
    BY <1>8, <1>4, AbsentEntry DEF EntryFits, Exists
  <1>10. CallFits(c, new)'
    BY <1>3, <1>7, <1>8 DEF CallFits, SecretKept, Begun, Importing, Writing
  <1>11. FileKept(new)'
    BY <1>3, <1>7 DEF FileKept, Working, Begun
  <1>12. IdInv(new)'
    BY <1>1, <1>2, <1>4, <1>7, <1>9, <1>10, <1>11, AloneStep DEF Alone, Concerns, closed
  <1> QED  BY <1>6, <1>7, <1>12, ConcernsOne

\* A call that is alone with its id leaves it in order and returns.
LEMMA SoleReturns ==
  ASSUME TransferIInv, TransferAssumption, told' = told, NEW c \in Calls, NEW i \in Ids,
         call[c].id = i, call[c].at \in Sole, NEW via \in Vias,
         NEW result, result \notin {"notfound", "expired"}, Return(c, via, i, result), Stays,
         entries' \in [Ids -> Entries], disk' \in [Ids -> Files],
         \A j \in Ids \ {i} : Kept(j),
         EntryFits(i)', disk'[i] # NoFile => Exists(i)',
         ids[i] = "known" => entries'[i].kind \in {entries[i].kind, "none"},
         closing = "done" => ~Exists(i)' /\ disk'[i] = NoFile
  PROVE  TransferIInv'
  <1>1. TransferTypeOK /\ IdInv(i) /\ Alone(c, i)
    BY OfId, SoleIsAlone
  <1>2. Concerns(c, i)
    BY ReturnConcerns
  <1>3. /\ call'[c].id = NoId
        /\ ids' \in [Ids -> {"new", "secret", "known"}]
        /\ ids'[i] \in {ids[i], "known"}
    BY <1>1, ReturnEnds
  <1>4. FileKept(i)'
    BY DEF FileKept
  <1>5. IdInv(i)'
    BY <1>1, <1>2, <1>3, <1>4, AloneStep DEF Concerns, TransferAssumption
  <1> QED  BY <1>2, <1>3, <1>5, ConcernsOne

\* A call that is alone with its id goes on with it.
LEMMA SoleGoes ==
  ASSUME TransferIInv, TransferAssumption, told' = told, NEW c \in Calls, NEW i \in Ids,
         call[c].id \in {NoId, i}, Alone(c, i), NEW k \in CallRecords, Goto(c, k), k.id = i,
         k.at \in Sole, closing = "done" => c \in Active \/ k.at = "discard",
         UNCHANGED ids, Stays,
         entries' \in [Ids -> Entries], disk' \in [Ids -> Files],
         \A j \in Ids \ {i} : Kept(j),
         EntryFits(i)', call'[c] = k => CallFits(c, i)' /\ FileKept(i)',
         ids[i] = "known" => entries'[i].kind \in {entries[i].kind, "none"},
         closing = "done" => ~Exists(i)' /\ disk'[i] = NoFile
  PROVE  TransferIInv'
  <1>1. TransferTypeOK /\ IdInv(i)
    BY OfId
  <1>2. Concerns(c, i) /\ call'[c] = k
    BY GotoConcerns
  <1>3. IdInv(i)'
    BY <1>1, <1>2, AloneStep DEF Concerns
  <1> QED  BY <1>1, <1>2, <1>3, ConcernsOne DEF TransferTypeOK

\* A call that only looked at an id, or found it expired, returns.
LEMMA GuestReturns ==
  ASSUME TransferIInv, TransferAssumption, told' = told, NEW c \in Calls, NEW i \in Ids,
         call[c].id \in {NoId, i}, call[c].at \notin Sole, ids[i] = "known", NEW via \in Vias,
         NEW result, Return(c, via, i, result), Stays,
         (Dropped(i) /\ Drop({i})) \/ UNCHANGED <<entries, disk>>,
         result \in {"notfound", "expired"} => entries'[i].kind # Asked(Surface(via))
  PROVE  TransferIInv'
  <1>1. TransferTypeOK /\ IdInv(i)
    BY OfId
  <1>2. /\ entries' \in [Ids -> Entries] /\ disk' \in [Ids -> Files]
        /\ Kept(i) \/ Dropped(i)
        /\ \A j \in Ids \ {i} : Kept(j)
    <2>1. CASE UNCHANGED <<entries, disk>>
      BY <1>1, <2>1 DEF TransferTypeOK, Kept
    <2>2. CASE Dropped(i) /\ Drop({i})
      BY <1>1, <2>2, DropRemoves
    <2> QED  BY <2>1, <2>2
  <1>3. Concerns(c, i)
    BY <1>2, ReturnConcerns
  <1>4. /\ \/ call'[c].at = "idle" /\ call'[c].id = NoId
           \/ /\ call'[c].at = "returned" /\ call'[c].via = via
              /\ result \in {"notfound", "expired"}
        /\ ids' \in [Ids -> {"new", "secret", "known"}] /\ ids'[i] = ids[i]
    BY <1>1, ReturnEnds
  <1>5. call'[c].id = i => CallFits(c, i)'
    BY <1>4 DEF CallFits, SecretKept, Begun, Importing, Writing, TransferAssumption
  <1>6. call'[c].at \notin Sole
    BY <1>4 DEF Sole, Begun, Importing, Writing
  <1>7. IdInv(i)'
    BY <1>1, <1>2, <1>3, <1>4, <1>5, <1>6, GuestStep DEF Concerns
  <1> QED  BY <1>2, <1>3, <1>4, <1>7, ConcernsOne

\* A call that is alone with its id removes the entry and the file and returns.
LEMMA DropAndReturn ==
  ASSUME TransferIInv, TransferAssumption, told' = told, NEW c \in Calls, NEW i \in Ids,
         call[c].id = i, call[c].at \in Sole, NEW via \in Vias,
         NEW result, result \notin {"notfound", "expired"},
         Drop({i}), Return(c, via, i, result), Stays
  PROVE  TransferIInv'
  <1>1. /\ entries' \in [Ids -> Entries] /\ disk' \in [Ids -> Files]
        /\ entries'[i] = NoEntry /\ disk'[i] = NoFile
        /\ \A j \in Ids \ {i} : Kept(j)
    BY OfId, DropRemoves
  <1>2. EntryFits(i)' /\ ~Exists(i)'
    BY <1>1, AbsentEntry DEF EntryFits, Exists
  <1> QED  BY <1>1, <1>2, SoleReturns, AbsentEntry

\* Stage enters the file it has copied, or removes it.
LEMMA StageEndsStep ==
  ASSUME TransferIInv, TransferAssumption, told' = told, NEW c \in Calls, StageEnds(c)
  PROVE  TransferIInv'
  <1>1. PICK i \in Ids : i = call[c].id
    BY DEF StageEnds, At, TransferIInv, TransferTypeOK
  <1>2. /\ TransferTypeOK /\ IdInv(i) /\ EntryFits(i) /\ CallFits(c, i) /\ Alone(c, i)
        /\ call[c].at = "stage" /\ call[c].at \in Sole /\ "app" \in Vias
    BY <1>1, OfId, SoleIsAlone DEF StageEnds, At, Sole, Begun, Vias
  <1>3. CASE Return(c, "app", i, "failed") /\ Drop({i})
    BY <1>1, <1>2, <1>3, DropAndReturn DEF StageEnds
  <1>4. ASSUME NEW n \in 0..MaxBytes, ~closed,
               entries' = [entries EXCEPT ![i] = Entry("staged", n, n)],
               disk' = [disk EXCEPT ![i] = File(n, TRUE)], Return(c, "app", i, "ok")
        PROVE  TransferIInv'
    <2>1. n \in Nat /\ clock \in Nat
      BY <1>2 DEF TransferAssumption, TransferTypeOK
    <2>0. PICK e : e = Entry("staged", n, n)
      OBVIOUS
    <2>e. /\ e \in Entries /\ e # NoEntry /\ e.kind = "staged" /\ e.size = n /\ e.offset = n
          /\ e.complete
      BY <2>0, <2>1, EntryRecord
    <2>f. PICK f \in Files : f = File(n, TRUE) /\ f # NoFile /\ f.size = n
      BY <2>1, FileRecord
    <2>2. /\ entries' \in [Ids -> Entries] /\ disk' \in [Ids -> Files]
          /\ entries'[i] = e /\ disk'[i] = f
          /\ \A j \in Ids \ {i} : Kept(j)
      BY <1>1, <1>2, <1>4, <2>0, <2>e, <2>f DEF TransferTypeOK, Kept
    <2>3. ids[i] # "known" /\ closing # "done" /\ ids'[i] = "known"
      BY <1>1, <1>2, <1>4, ReturnEnds DEF CallFits, SecretKept, Begun, closed
    <2>4. EntryFits(i)' /\ Exists(i)'
      BY <2>2, <2>3, <2>e, <2>f DEF EntryFits, Exists
    <2> QED  BY <1>1, <1>2, <1>4, <2>2, <2>3, <2>4, SoleReturns DEF StageEnds
  <1> QED  BY <1>1, <1>3, <1>4 DEF StageEnds

\* BeginUpload enters the upload, or removes its file.
LEMMA BeginUploadEndsStep ==
  ASSUME TransferIInv, TransferAssumption, told' = told, NEW c \in Calls, BeginUploadEnds(c)
  PROVE  TransferIInv'
  <1>1. PICK i \in Ids : i = call[c].id
    BY DEF BeginUploadEnds, At, TransferIInv, TransferTypeOK
  <1>2. PICK via \in Vias, size \in Nat : via = call[c].via /\ size = call[c].size
    BY <1>1, OfId
  <1>3. /\ TransferTypeOK /\ IdInv(i) /\ CallFits(c, i) /\ Alone(c, i)
        /\ call[c] \in CallRecords /\ call[c].at = "begin" /\ call[c].at \in Sole
    BY <1>1, OfId, SoleIsAlone DEF BeginUploadEnds, At, Sole, Begun
  <1>4. /\ ids[i] = "secret" /\ disk[i] = File(0, TRUE) /\ Stays
    BY <1>3 DEF CallFits, SecretKept, Begun, BeginUploadEnds
  <1>5. CASE \E result \in {"closed", "checksum"} : Return(c, via, i, result) /\ Drop({i})
    BY <1>1, <1>3, <1>4, <1>5, DropAndReturn
  <1>6. CASE /\ ~closed
             /\ entries' = [entries EXCEPT ![i] = Entry("upload", size, 0)]
             /\ UNCHANGED disk
             /\ \/ Return(c, via, i, "ok")
                \/ /\ via = "import" /\ UNCHANGED ids
                   /\ \E at \in {"probe", "import"} : Goto(c, [call[c] EXCEPT !.at = at])
    <2>1. PICK e : e = Entry("upload", size, 0)
      OBVIOUS
    <2>2. /\ e \in Entries /\ e # NoEntry /\ e.kind = "upload" /\ e.size = size /\ e.offset = 0
          /\ e.complete <=> size = 0
      BY <1>3, <2>1, EntryRecord DEF TransferTypeOK
    <2>3. /\ entries' \in [Ids -> Entries] /\ disk' \in [Ids -> Files]
          /\ entries'[i] = e /\ disk'[i] = File(0, TRUE)
          /\ \A j \in Ids \ {i} : Kept(j)
      BY <1>3, <1>4, <1>6, <2>1, <2>2 DEF TransferTypeOK, Kept
    <2>4. File(0, TRUE) # NoFile /\ File(0, TRUE).size = 0
      BY FileRecord
    <2>5. ids'[i] # "new" => EntryFits(i)' /\ Exists(i)'
      BY <2>2, <2>3, <2>4 DEF EntryFits, Exists
    <2>6. CASE Return(c, via, i, "ok")
      <3>1. ids'[i] = "known"
        BY <1>3, <2>6, ReturnEnds
      <3> QED  BY <1>1, <1>3, <1>4, <1>6, <2>3, <2>5, <2>6, <3>1, SoleReturns DEF closed
    <2>7. ASSUME via = "import", NEW at \in {"probe", "import"},
                 Goto(c, [call[c] EXCEPT !.at = at]), UNCHANGED ids
          PROVE  TransferIInv'
      <3>0. PICK k : k = [call[c] EXCEPT !.at = at]
        OBVIOUS
      <3>1. k \in CallRecords /\ k.at = at /\ k.via = "import" /\ k.id = i
        <4>1. at \in Sole
          BY DEF Sole, Importing
        <4>2. k \in CallRecords /\ k.at = at /\ k.via = call[c].via /\ k.id = call[c].id
          BY <1>3, <3>0, <4>1, MovedCall
        <4> QED  BY <1>1, <1>2, <2>7, <4>2
      <3>2. k.at \in Sole
        BY <3>1 DEF Sole, Importing
      <3>3. call'[c] = k => CallFits(c, i)' /\ FileKept(i)'
        BY <1>4, <2>5, <2>7, <3>1 DEF CallFits, SecretKept, FileKept, Begun, Importing, Writing
      <3> QED
        BY <1>1, <1>3, <1>4, <1>6, <2>3, <2>5, <2>7, <3>0, <3>1, <3>2, <3>3, SoleGoes DEF closed
    <2> QED  BY <1>6, <2>6, <2>7
  <1> QED  BY <1>1, <1>2, <1>5, <1>6 DEF BeginUploadEnds
\* ImportUpload reads past the end of an empty file, and gives up or returns.
LEMMA ImportProbeStep ==
  ASSUME TransferIInv, TransferAssumption, told' = told, NEW c \in Calls,
         ImportProbe(c) \/ Discard(c)
  PROVE  TransferIInv'
  <1>1. PICK i \in Ids : i = call[c].id
    BY DEF ImportProbe, Discard, At, TransferIInv, TransferTypeOK
  <1>2. /\ TransferTypeOK /\ IdInv(i) /\ EntryFits(i) /\ CallFits(c, i) /\ Alone(c, i) /\ FileKept(i)
        /\ call[c] \in CallRecords /\ call[c].at \in {"probe", "discard"} /\ call[c].at \in Sole
        /\ "import" \in Vias
    BY <1>1, OfId, SoleIsAlone DEF ImportProbe, Discard, At, Sole, Importing, Vias
  <1>3. CASE Discard(c)
    BY <1>1, <1>2, <1>3, DropAndReturn DEF Discard
  <1>4. CASE ImportProbe(c)
    <2>1. /\ entries' = entries /\ disk' = disk /\ Stays
          /\ \A j \in Ids \ {i} : Kept(j)
      BY <1>4 DEF ImportProbe, Kept
    <2>2. ids[i] = "secret" /\ call[c].via = "import"
      BY <1>2 DEF CallFits, SecretKept, Importing
    <2>3. disk[i] # NoFile => Exists(i)
      <3>1. ASSUME NEW d \in Calls, Working(d, i)  PROVE FALSE
        BY <1>1, <1>2, <3>1 DEF Working, Alone, Sole, Begun
      <3> QED  BY <1>2, <3>1 DEF FileKept
    <2>4. ids'[i] # "new" => EntryFits(i)'
      BY <1>2, <2>1 DEF EntryFits, Exists
    <2>5. CASE Return(c, "import", i, "ok")
      <3>1. ids'[i] = "known"
        BY <1>2, <2>5, ReturnEnds
      <3> QED  BY <1>1, <1>2, <2>1, <2>2, <2>3, <2>4, <2>5, <3>1, SoleReturns
               DEF TransferTypeOK, IdInv, Exists
    <2>6. CASE Goto(c, [call[c] EXCEPT !.at = "discard"]) /\ UNCHANGED ids
      <3>1. PICK k : k = [call[c] EXCEPT !.at = "discard"]
        OBVIOUS
      <3>2. k \in CallRecords /\ k.at = "discard" /\ k.via = "import" /\ k.id = i /\ k.at \in Sole
        BY <1>1, <1>2, <2>2, <3>1, MovedCall DEF Sole, Importing
      <3>3. call'[c] = k => CallFits(c, i)' /\ FileKept(i)'
        BY <2>1, <2>2, <2>3, <2>6, <3>2
        DEF CallFits, SecretKept, FileKept, Exists, Begun, Importing, Writing
      <3> QED  BY <1>1, <1>2, <2>1, <2>2, <2>4, <2>6, <3>1, <3>2, <3>3, SoleGoes
               DEF TransferTypeOK, IdInv, Exists
    <2> QED  BY <1>1, <1>4, <2>5, <2>6 DEF ImportProbe
  <1> QED  BY <1>3, <1>4

\* A status request finds the upload, or finds out that it is gone.
LEMMA UploadStatusStep ==
  ASSUME TransferIInv, TransferAssumption, told' = told, NEW c \in Calls, NEW i \in Ids,
         UploadStatus(c, i)
  PROVE  TransferIInv'
  <1>1. PICK result :
          /\ result = IF closed                          THEN "closed"
                      ELSE IF entries[i].kind # "upload" THEN "notfound"
                      ELSE IF Expired(i)                 THEN "expired"
                      ELSE "ok"
          /\ Return(c, "HEAD", i, result)
          /\ IF result = "expired" THEN Drop({i}) ELSE UNCHANGED <<entries, disk>>
    BY DEF UploadStatus
  <1>2. /\ Free(c, i) /\ Stays /\ TransferTypeOK /\ EntryFits(i)
        /\ call[c].at = "idle" /\ call[c].id = NoId /\ call[c].at \notin Sole
        /\ ids[i] = "known" /\ "HEAD" \in Vias
    BY OfId, IdleHasNoId
    DEF UploadStatus, Free, At, Known, Sole, Begun, Importing, Writing, Vias
  <1>3. result \in {"closed", "notfound", "expired", "ok"}
    BY <1>1
  <1>4. Asked(Surface("HEAD")) = "upload"
    BY DEF Asked, Surface
  <1>5. result = "notfound" => entries[i].kind # "upload"
    BY <1>1
  <1>6. result = "expired" => Exists(i)
    BY <1>1, AbsentEntry DEF Exists
  <1>7. CASE result = "expired"
    <2>1. Drop({i}) /\ entries'[i] = NoEntry /\ disk'[i] = NoFile /\ Dropped(i)
      BY <1>1, <1>2, <1>6, <1>7, DropRemoves DEF Dropped
    <2> QED  BY <1>1, <1>2, <1>4, <2>1, GuestReturns, AbsentEntry
  <1>8. CASE result # "expired"
    BY <1>1, <1>2, <1>4, <1>5, <1>8, GuestReturns
  <1> QED  BY <1>7, <1>8
\* An append that passes the checks is alone with the upload and marks it busy.
LEMMA AppendGoes ==
  ASSUME TransferIInv, TransferAssumption, told' = told, NEW c \in Calls, NEW i \in Ids,
         NEW via \in Vias, NEW offset \in Nat, call[c].id \in {NoId, i}, Alone(c, i),
         ids[i] = IF via = "import" THEN "secret" ELSE "known",
         AppendUpload(c, via, i, offset), AppendChecks(i, offset) = "go"
  PROVE  TransferIInv'
  <1>1. /\ entries' = [entries EXCEPT ![i].busy = TRUE]
        /\ Goto(c, Call("append", via, i, entries[i].size, offset))
        /\ UNCHANGED <<disk, ids>> /\ Stays
    BY DEF AppendUpload
  <1>2. /\ closing = "no" /\ entries[i].kind = "upload" /\ ~entries[i].busy
        /\ offset = entries[i].offset /\ ~entries[i].complete
    BY DEF AppendChecks, closed
  <1>3. /\ TransferTypeOK /\ EntryFits(i) /\ entries[i] \in Entries /\ entries[i].size \in Nat
    BY OfId DEF Entries
  <1>4. PICK m : m = [entries[i] EXCEPT !.busy = TRUE]
    OBVIOUS
  <1>5. /\ m \in Entries /\ m.busy /\ m.kind = "upload" /\ m.size = entries[i].size
        /\ m.offset = offset /\ ~m.complete
    BY <1>2, <1>3, <1>4, MarkedBusy
  <1>6. Exists(i) /\ m # NoEntry
    BY <1>2, <1>5, AbsentEntry DEF Exists
  <1>7. PICK k : k = Call("append", via, i, entries[i].size, offset)
    OBVIOUS
  <1>8. /\ k \in CallRecords /\ k.at = "append" /\ k.via = via /\ k.id = i
        /\ k.size = entries[i].size /\ k.n = offset /\ k.at \in Sole
    <2>1. "append" \in Sole
      BY DEF Sole, Writing
    <2> QED  BY <1>3, <1>7, <2>1, CallRecord
  <1>9. /\ entries' \in [Ids -> Entries] /\ disk' = disk /\ disk' \in [Ids -> Files]
        /\ entries'[i] = m /\ \A j \in Ids \ {i} : Kept(j)
    BY <1>1, <1>3, <1>4, <1>5 DEF TransferTypeOK, Kept
  <1>10. disk[i] # NoFile /\ disk[i].size = offset /\ offset # entries[i].size
    BY <1>2, <1>3, <1>6 DEF EntryFits
  <1>11. EntryFits(i)'
    BY <1>1, <1>3, <1>5, <1>6, <1>9, <1>10 DEF EntryFits, Exists
  <1>12. call'[c] = k => CallFits(c, i)' /\ FileKept(i)'
    BY <1>1, <1>5, <1>6, <1>8, <1>9, <1>10
    DEF CallFits, SecretKept, FileKept, Exists, Begun, Importing, Writing
  <1> QED  BY <1>1, <1>2, <1>5, <1>7, <1>8, <1>9, <1>11, <1>12, SoleGoes

\* The append of a client: what it finds, it finds of an id that it was given.
LEMMA AppendStep ==
  ASSUME TransferIInv, TransferAssumption, told' = told, NEW c \in Calls, NEW i \in Ids,
         NEW offset \in Nat, UploadAppend(c, i, offset)
  PROVE  TransferIInv'
  <1>1. /\ AppendUpload(c, "PATCH", i, offset) /\ Stays /\ TransferTypeOK /\ IdInv(i) /\ EntryFits(i)
        /\ call[c].at = "idle" /\ call[c].id = NoId /\ call[c].at \notin Sole
        /\ ids[i] = "known" /\ "PATCH" \in Vias
    BY OfId, IdleHasNoId
    DEF UploadAppend, AppendUpload, Free, At, Known, Sole, Begun, Importing, Writing, Vias
  <1>2. CASE AppendChecks(i, offset) = "go"
    <2>1. Exists(i) /\ ~entries[i].busy
      BY <1>2, AbsentEntry DEF AppendChecks, Exists
    <2>2. Alone(c, i)
      BY <1>1, <2>1, FreeIsAlone
    <2> QED  BY <1>1, <1>2, <2>2, AppendGoes
  <1>3. CASE AppendChecks(i, offset) # "go"
    <2>1. PICK result :
            /\ result = AppendChecks(i, offset)
            /\ Return(c, "PATCH", i, result)
            /\ IF result = "expired" THEN Drop({i}) ELSE UNCHANGED <<entries, disk>>
      BY <1>1, <1>3 DEF AppendUpload
    <2>2. /\ Asked(Surface("PATCH")) = "upload"
          /\ result = "notfound" => entries[i].kind # "upload"
          /\ result = "expired" => Exists(i)
      BY <2>1, AbsentEntry DEF Asked, Surface, AppendChecks, Exists
    <2>3. CASE result = "expired"
      <3>1. Drop({i}) /\ entries'[i] = NoEntry /\ disk'[i] = NoFile /\ Dropped(i)
        BY <1>1, <2>1, <2>2, <2>3, DropRemoves DEF Dropped
      <3> QED  BY <1>1, <2>1, <2>2, <3>1, GuestReturns, AbsentEntry
    <2>4. CASE result # "expired"
      BY <1>1, <2>1, <2>2, <2>4, GuestReturns
    <2> QED  BY <2>3, <2>4
  <1> QED  BY <1>2, <1>3

\* The append of an import: the upload is still a secret of the call, but may have
\* expired, or the store may have been closed.
LEMMA ImportAppendStep ==
  ASSUME TransferIInv, TransferAssumption, told' = told, NEW c \in Calls, ImportAppend(c)
  PROVE  TransferIInv'
  <1>1. PICK i \in Ids : i = call[c].id
    BY DEF ImportAppend, At, TransferIInv, TransferTypeOK
  <1>2. /\ AppendUpload(c, "import", i, 0) /\ Stays /\ TransferTypeOK /\ IdInv(i) /\ EntryFits(i)
        /\ CallFits(c, i) /\ Alone(c, i) /\ FileKept(i)
        /\ call[c].at = "import" /\ call[c].at \in Sole /\ "import" \in Vias
    BY <1>1, OfId, SoleIsAlone DEF ImportAppend, AppendUpload, At, Sole, Importing, Vias
  <1>3. ids[i] = "secret"
    BY <1>2 DEF CallFits, SecretKept, Importing
  <1>4. CASE AppendChecks(i, 0) = "go"
    BY <1>1, <1>2, <1>3, <1>4, AppendGoes
  <1>5. CASE AppendChecks(i, 0) # "go"
    <2>1. PICK result :
            /\ result = AppendChecks(i, 0)
            /\ Return(c, "import", i, result)
            /\ IF result = "expired" THEN Drop({i}) ELSE UNCHANGED <<entries, disk>>
      BY <1>2, <1>5 DEF AppendUpload
    <2>2. /\ entries' \in [Ids -> Entries] /\ disk' \in [Ids -> Files]
          /\ Kept(i) \/ (entries'[i] = NoEntry /\ disk'[i] = NoFile)
          /\ \A j \in Ids \ {i} : Kept(j)
      <3>1. CASE result = "expired"
        BY <1>2, <2>1, <3>1, DropRemoves
      <3>2. CASE result # "expired"
        <4>1. entries' = entries /\ disk' = disk
          BY <2>1, <3>2
        <4>2. \A j \in Ids : Kept(j)
          BY <4>1 DEF Kept
        <4> QED  BY <1>2, <4>1, <4>2 DEF TransferTypeOK
      <3> QED  BY <3>1, <3>2
    <2>3. /\ call' \in [Calls -> CallRecords] /\ call'[c].id = NoId
          /\ ids' \in [Ids -> {"new", "secret", "known"}] /\ ids'[i] \in {"secret", "known"}
      BY <1>2, <1>3, <2>1, ReturnEnds
    <2>4. Concerns(c, i)
      BY <1>1, <1>2, <2>1, <2>2, ReturnConcerns
    <2>5. disk[i] # NoFile => Exists(i)
      <3>1. ASSUME NEW d \in Calls, Working(d, i)  PROVE FALSE
        BY <1>1, <1>2, <3>1 DEF Working, Alone, Sole, Begun
      <3> QED  BY <1>2, <3>1 DEF FileKept
    <2>6. EntryFits(i)' /\ FileKept(i)' /\ (closing = "done" => ~Exists(i)' /\ disk'[i] = NoFile)
      <3>1. CASE Kept(i)
        BY <1>2, <2>3, <2>5, <3>1 DEF EntryFits, FileKept, Exists, Kept, IdInv
      <3>2. CASE entries'[i] = NoEntry /\ disk'[i] = NoFile
        BY <3>2, AbsentEntry DEF EntryFits, FileKept, Exists
      <3> QED  BY <2>2, <3>1, <3>2
    <2>7. IdInv(i)'
      BY <1>2, <1>3, <2>3, <2>4, <2>6, AloneStep DEF Concerns, TransferAssumption
    <2> QED  BY <2>2, <2>3, <2>4, <2>7, ConcernsOne
  <1> QED  BY <1>4, <1>5
\* What a call that writes to an upload may rely on.
LEMMA WriterOf ==
  ASSUME TransferIInv, NEW c \in Calls, call[c].at \in Writing
  PROVE  \E i \in Ids :
           /\ call[c].id = i /\ call[c].at \in Sole /\ Alone(c, i) /\ CallFits(c, i)
           /\ TransferTypeOK /\ IdInv(i) /\ EntryFits(i)
           /\ call[c] \in CallRecords /\ entries[i] \in Entries /\ disk[i] \in Files
           /\ call[c].via \in Vias /\ call[c].size \in Nat /\ call[c].n \in Nat
           /\ ids[i] # "new" /\ c \in Active /\ closing # "done"
  <1>1. PICK i \in Ids : call[c].id = i
    BY DEF TransferIInv, TransferTypeOK, Writing
  <1>2. call[c].at \in Sole /\ c \in Active
    BY DEF Sole, Writing, Active
  <1>3. CallFits(c, i) /\ Alone(c, i)
    BY <1>1, <1>2, OfId, SoleIsAlone
  <1>4. ids[i] # "new"
    BY <1>3 DEF CallFits, SecretKept
  <1>5. closing # "done"
    BY <1>2 DEF TransferIInv
  <1> QED  BY <1>1, <1>2, <1>3, <1>4, <1>5, OfId

\* The copy writes to the file, if it is still there.
LEMMA AppendCopiesStep ==
  ASSUME TransferIInv, TransferAssumption, told' = told, NEW c \in Calls, AppendCopies(c)
  PROVE  TransferIInv'
  <1>0. call[c].at = "append" /\ call[c].at \in Writing
    BY DEF AppendCopies, At, Writing
  <1>1. PICK i \in Ids :
          /\ call[c].id = i /\ call[c].at \in Sole /\ Alone(c, i) /\ CallFits(c, i)
          /\ TransferTypeOK /\ IdInv(i) /\ EntryFits(i)
          /\ call[c] \in CallRecords /\ entries[i] \in Entries /\ disk[i] \in Files
          /\ call[c].via \in Vias /\ call[c].size \in Nat /\ call[c].n \in Nat
          /\ ids[i] # "new" /\ c \in Active /\ closing # "done"
    BY <1>0, WriterOf
  <1>2. PICK n \in call[c].n..(call[c].size + 1), right \in BOOLEAN, interrupted \in BOOLEAN :
          /\ disk' = IF disk[i] = NoFile THEN disk
                     ELSE [disk EXCEPT ![i] = File(n, @.good /\ right)]
          /\ Goto(c, [call[c] EXCEPT !.at = "written", !.n = n,
                                     !.result = IF interrupted THEN "failed" ELSE "ok"])
    BY <1>1 DEF AppendCopies
  <1>3. entries' = entries /\ ids' = ids /\ Stays /\ n \in Nat
    BY <1>1 DEF AppendCopies
  <1>4. PICK result \in {"ok", "failed"} : result = IF interrupted THEN "failed" ELSE "ok"
    OBVIOUS
  <1>5. PICK good \in BOOLEAN : good = (disk[i].good /\ right)
    OBVIOUS
  <1>6. PICK f : f = File(n, good)
    OBVIOUS
  <1>7. f \in Files /\ f # NoFile /\ f.size = n
    BY <1>3, <1>6, FileRecord
  <1>8. PICK k : k = [call[c] EXCEPT !.at = "written", !.n = n, !.result = result]
    OBVIOUS
  <1>9. /\ k \in CallRecords /\ k.at = "written" /\ k.via = call[c].via /\ k.id = i /\ k.n = n
        /\ k.result = result /\ k.at \in Sole
    BY <1>1, <1>3, <1>8 DEF CallRecords, Sole, Writing, Results
  <1>10. /\ disk' \in [Ids -> Files]
         /\ disk'[i] = IF disk[i] = NoFile THEN NoFile ELSE f
         /\ \A j \in Ids \ {i} : Kept(j)
    <2>1. CASE disk[i] = NoFile
      BY <1>1, <1>2, <1>3, <2>1 DEF TransferTypeOK, Kept
    <2>2. CASE disk[i] # NoFile
      <3>1. disk' = [disk EXCEPT ![i] = f]
        BY <1>2, <1>5, <1>6, <2>2, Zenon DEF TransferTypeOK
      <3> QED  BY <1>1, <1>3, <1>7, <2>2, <3>1 DEF TransferTypeOK, Kept
    <2> QED  BY <2>1, <2>2
  <1>11. /\ Exists(i)' <=> Exists(i)
         /\ Exists(i) => /\ entries[i].kind = "upload" /\ entries[i].busy
                         /\ ~entries[i].complete /\ disk[i] # NoFile
         /\ ~Exists(i) => disk[i] = NoFile
    BY <1>0, <1>1, <1>3 DEF CallFits, EntryFits, Exists
  <1>12. EntryFits(i)'
    BY <1>1, <1>3, <1>7, <1>10, <1>11 DEF EntryFits, Exists
  <1>13. SecretKept(c, i) => (call'[c] = k => SecretKept(c, i)')
    BY <1>0, <1>3, <1>9 DEF SecretKept, Begun, Importing, Writing
  <1>14. call'[c] = k => CallFits(c, i)' /\ FileKept(i)'
    BY <1>1, <1>3, <1>7, <1>9, <1>10, <1>11, <1>13
    DEF CallFits, FileKept, Exists, Begun, Writing
  <1>15. Goto(c, k)
    BY <1>2, <1>4, <1>8
  <1> QED  BY <1>1, <1>3, <1>9, <1>10, <1>12, <1>14, <1>15, SoleGoes DEF TransferTypeOK

\* The outcome of the verification is remembered without the mutex.
LEMMA AppendVerifiesStep ==
  ASSUME TransferIInv, TransferAssumption, told' = told, NEW c \in Calls, AppendVerifies(c)
  PROVE  TransferIInv'
  <1>0. call[c].at = "written" /\ call[c].at \in Writing
    BY DEF AppendVerifies, At, Writing
  <1>1. PICK i \in Ids :
          /\ call[c].id = i /\ call[c].at \in Sole /\ Alone(c, i) /\ CallFits(c, i)
          /\ TransferTypeOK /\ IdInv(i) /\ EntryFits(i)
          /\ call[c] \in CallRecords /\ entries[i] \in Entries /\ disk[i] \in Files
          /\ call[c].via \in Vias /\ call[c].size \in Nat /\ call[c].n \in Nat
          /\ ids[i] # "new" /\ c \in Active /\ closing # "done"
    BY <1>0, WriterOf
  <1>2. PICK at \in {"remove", "release"} :
          /\ Goto(c, [call[c] EXCEPT !.at = at])
          /\ at = "release" => Verifies(i, call[c].n, call[c].size)
    BY <1>1 DEF AppendVerifies
  <1>3. /\ entries' = entries /\ disk' = disk /\ ids' = ids /\ Stays
        /\ \A j \in Ids \ {i} : Kept(j)
    BY DEF AppendVerifies, Kept
  <1>4. PICK k : k = [call[c] EXCEPT !.at = at]
    OBVIOUS
  <1>5. at \in Sole /\ at \in Writing
    BY DEF Sole, Writing
  <1>6. /\ k \in CallRecords /\ k.at = at /\ k.via = call[c].via /\ k.id = i /\ k.n = call[c].n
        /\ k.size = call[c].size /\ k.result = call[c].result
    BY <1>1, <1>4, <1>5, MovedCall
  <1>7. EntryFits(i)'
    BY <1>1, <1>3 DEF EntryFits, Exists
  <1>8. call'[c] = k => SecretKept(c, i)'
    BY <1>0, <1>1, <1>3, <1>6 DEF CallFits, SecretKept, Begun, Importing, Writing
  <1>9. call'[c] = k => CallFits(c, i)' /\ FileKept(i)'
    BY <1>0, <1>1, <1>2, <1>3, <1>6, <1>8
    DEF CallFits, FileKept, Exists, Verifies, Begun, Writing
  <1> QED  BY <1>1, <1>2, <1>3, <1>4, <1>5, <1>6, <1>7, <1>9, SoleGoes DEF TransferTypeOK

\* releaseUpload writes back an entry that is still there: what it says is what the
\* call has written, or found when the file could not be opened.
LEMMA ReleaseFits ==
  ASSUME TransferIInv, TransferAssumption, NEW c \in Calls, NEW i \in Ids, call[c].id = i,
         call[c].at \in {"append", "release"},
         entries' = releaseUpload(i, call[c].size, call[c].n), UNCHANGED disk
  PROVE  /\ entries' \in [Ids -> Entries] /\ disk' \in [Ids -> Files]
         /\ \A j \in Ids \ {i} : Kept(j)
         /\ Exists(i)' <=> Exists(i)
         /\ entries'[i].kind = entries[i].kind
         /\ disk'[i] # NoFile => Exists(i)'
         /\ ids'[i] # "new" => EntryFits(i)'
  <1>1. /\ TransferTypeOK /\ EntryFits(i) /\ CallFits(c, i) /\ disk[i] \in Files
        /\ call[c].size \in Nat /\ call[c].n \in Nat /\ call[c].at \in Writing
    BY OfId DEF Writing
  <1>2. CASE ~Exists(i)
    <2>1. entries' = entries /\ disk' = disk /\ disk[i] = NoFile
      BY <1>1, <1>2 DEF releaseUpload, CallFits
    <2>2. \A j \in Ids : Kept(j)
      BY <2>1 DEF Kept
    <2>3. ids'[i] # "new" => EntryFits(i)'
      BY <1>1, <2>1 DEF EntryFits, Exists
    <2> QED  BY <1>1, <1>2, <2>1, <2>2, <2>3 DEF TransferTypeOK, Exists
  <1>3. CASE Exists(i)
    <2>1. PICK size \in Nat, n \in Nat : size = call[c].size /\ n = call[c].n
      BY <1>1
    <2>2. PICK e : e = Entry("upload", size, n)
      OBVIOUS
    <2>3. /\ e \in Entries /\ e # NoEntry /\ e.kind = "upload" /\ e.size = size /\ e.offset = n
          /\ n = size => e.complete
          /\ n # size => ~e.complete
          /\ ~e.busy
      BY <1>1, <2>1, <2>2, EntryRecord DEF TransferTypeOK
    <2>4. /\ entries' \in [Ids -> Entries] /\ entries'[i] = e
          /\ disk' = disk /\ \A j \in Ids \ {i} : Kept(j)
      BY <1>1, <1>3, <2>1, <2>2, <2>3 DEF TransferTypeOK, releaseUpload, Kept
    <2>5. /\ entries[i].kind = "upload" /\ disk[i] # NoFile /\ disk[i].size = n
          /\ n = size => disk[i].good
      BY <1>1, <1>3, <2>1 DEF CallFits, EntryFits
    <2>6. n = size => disk[i] = File(size, TRUE)
      BY <1>1, <2>5, FileIs
    <2>7. ids'[i] # "new" => EntryFits(i)'
      BY <2>3, <2>4, <2>5, <2>6 DEF EntryFits, Exists
    <2> QED  BY <1>1, <1>3, <2>3, <2>4, <2>5, <2>7 DEF TransferTypeOK, Exists
  <1> QED  BY <1>2, <1>3

\* The end of an append: the upload is released or removed.
LEMMA AppendEndsStep ==
  ASSUME TransferIInv, TransferAssumption, told' = told, NEW c \in Calls,
         AppendFailsToOpen(c) \/ AppendReleases(c) \/ AppendRemoves(c)
  PROVE  TransferIInv'
  <1>0. call[c].at \in {"append", "release", "remove"} /\ call[c].at \in Writing
    BY DEF AppendFailsToOpen, AppendReleases, AppendRemoves, At, Writing
  <1>1. PICK i \in Ids :
          /\ call[c].id = i /\ call[c].at \in Sole /\ Alone(c, i) /\ CallFits(c, i)
          /\ TransferTypeOK /\ IdInv(i) /\ EntryFits(i)
          /\ call[c] \in CallRecords /\ entries[i] \in Entries /\ disk[i] \in Files
          /\ call[c].via \in Vias /\ call[c].size \in Nat /\ call[c].n \in Nat
          /\ ids[i] # "new" /\ c \in Active /\ closing # "done"
    BY <1>0, WriterOf
  <1>2. CASE AppendRemoves(c)
    <2>1. Drop({i}) /\ Return(c, call[c].via, i, "failed") /\ Stays
      BY <1>1, <1>2 DEF AppendRemoves, RemovesUpload
    <2> QED  BY <1>1, <2>1, DropAndReturn
  <1>3. ASSUME call[c].at \in {"append", "release"},
               entries' = releaseUpload(i, call[c].size, call[c].n), UNCHANGED disk, Stays,
               NEW result \in {"ok", "failed"}, Return(c, call[c].via, i, result)
        PROVE  TransferIInv'
    <2>1. ids'[i] # "new"
      BY <1>1, <1>3, ReturnEnds
    <2>2. /\ entries' \in [Ids -> Entries] /\ disk' \in [Ids -> Files]
          /\ \A j \in Ids \ {i} : Kept(j)
          /\ entries'[i].kind = entries[i].kind
          /\ disk'[i] # NoFile => Exists(i)'
          /\ EntryFits(i)'
      BY <1>1, <1>3, <2>1, ReleaseFits
    <2> QED  BY <1>1, <1>3, <2>2, SoleReturns
  <1>4. CASE AppendFailsToOpen(c)
    BY <1>1, <1>3, <1>4 DEF AppendFailsToOpen, At
  <1>5. CASE AppendReleases(c)
    <2>1. /\ call[c].at = "release" /\ UNCHANGED disk /\ Stays
          /\ entries' = releaseUpload(i, call[c].size, call[c].n)
          /\ call[c].result \in {"ok", "failed"}
      BY <1>1, <1>5 DEF AppendReleases, At, CallFits
    <2>2. CASE \E result \in {"ok", "failed"} : Return(c, call[c].via, i, result)
      BY <1>3, <2>1, <2>2
    <2>3. CASE /\ call[c].via = "import"
               /\ Goto(c, [call[c] EXCEPT !.at = "discard"]) /\ UNCHANGED ids
      <3>1. PICK k : k = [call[c] EXCEPT !.at = "discard"]
        OBVIOUS
      <3>2. k \in CallRecords /\ k.at = "discard" /\ k.via = "import" /\ k.id = i /\ k.at \in Sole
        <4>1. "discard" \in Sole
          BY DEF Sole, Importing
        <4> QED  BY <1>1, <2>3, <3>1, <4>1, MovedCall
      <3>3. ids'[i] = "secret"
        BY <1>0, <1>1, <2>3 DEF CallFits, SecretKept
      <3>4. /\ entries' \in [Ids -> Entries] /\ disk' \in [Ids -> Files]
            /\ \A j \in Ids \ {i} : Kept(j)
            /\ entries'[i].kind = entries[i].kind
            /\ disk'[i] # NoFile => Exists(i)'
            /\ EntryFits(i)'
        BY <1>1, <2>1, <3>3, ReleaseFits
      <3>5. call'[c] = k => CallFits(c, i)' /\ FileKept(i)'
        BY <3>2, <3>3, <3>4 DEF CallFits, SecretKept, FileKept, Begun, Importing, Writing
      <3> QED  BY <1>1, <2>1, <2>3, <3>1, <3>2, <3>4, <3>5, SoleGoes
    <2> QED  BY <1>1, <1>5, <2>1, <2>2, <2>3 DEF AppendReleases
  <1> QED  BY <1>2, <1>4, <1>5
\* ConsumeUpload looks at an upload before it takes it.
LEMMA ConsumeUploadStep ==
  ASSUME TransferIInv, TransferAssumption, told' = told, NEW c \in Calls, NEW i \in Ids,
         ConsumeUpload(c, i)
  PROVE  TransferIInv'
  <1>1. /\ UNCHANGED <<entries, disk>> /\ Stays /\ TransferTypeOK /\ IdInv(i)
        /\ call[c].at = "idle" /\ call[c].id = NoId /\ call[c].at \notin Sole
        /\ ids[i] = "known" /\ "app" \in Vias
    BY OfId, IdleHasNoId
    DEF ConsumeUpload, Free, At, Known, Sole, Begun, Importing, Writing, Vias
  <1>2. CASE Return(c, "app", i, "invalid")
    BY <1>1, <1>2, GuestReturns
  <1>3. CASE Goto(c, Call("consume", "app", i, 0, 0)) /\ UNCHANGED ids
    <2>1. PICK k : k = Call("consume", "app", i, 0, 0)
      OBVIOUS
    <2>2. k \in CallRecords /\ k.at = "consume" /\ k.id = i
      BY <1>1, <2>1 DEF Call, CallRecords, Results
    <2>3. \A j \in Ids : Kept(j)
      BY <1>1 DEF Kept
    <2>4. Concerns(c, i) /\ call'[c] = k
      BY <1>1, <1>3, <2>1, <2>2, <2>3, GotoConcerns
    <2>5. CallFits(c, i)' /\ call'[c].at \notin Sole
      BY <1>1, <1>3, <2>2, <2>4 DEF CallFits, SecretKept, Sole, Begun, Importing, Writing
    <2>6. IdInv(i)'
      BY <1>1, <1>3, <2>3, <2>4, <2>5, GuestStep DEF Concerns
    <2> QED  BY <1>1, <1>3, <2>4, <2>6, ConcernsOne DEF TransferTypeOK
  <1> QED  BY <1>2, <1>3 DEF ConsumeUpload

\* Take removes the entry first; the file is left to the call.
LEMMA TakeFromStep ==
  ASSUME TransferIInv, TransferAssumption, told' = told, NEW c \in Calls, NEW i \in Ids,
         call[c].id \in {NoId, i}, call[c].at \in {"idle", "consume"}, ids[i] = "known",
         TakeFrom(c, i)
  PROVE  TransferIInv'
  <1>1. PICK result :
          /\ result = IF closed                    THEN "closed"
                      ELSE IF ~Exists(i)           THEN "notfound"
                      ELSE IF ~entries[i].complete THEN "incomplete"
                      ELSE IF entries[i].busy      THEN "busy"
                      ELSE IF Expired(i)           THEN "expired"
                      ELSE "go"
          /\ \/ result \notin {"expired", "go"} /\ Refuse(c, "app", i, result)
             \/ result = "expired" /\ Drop({i}) /\ Return(c, "app", i, "expired")
             \/ result = "go" /\ Drop({i}) /\ Return(c, "app", i, "failed")
             \/ /\ result = "go"
                /\ entries' = [entries EXCEPT ![i] = NoEntry]
                /\ Goto(c, Call("take", "app", i, 0, 0))
                /\ UNCHANGED <<disk, ids>>
    BY DEF TakeFrom
  <1>2. /\ Stays /\ TransferTypeOK /\ IdInv(i) /\ EntryFits(i)
        /\ call[c].at \notin Sole /\ "app" \in Vias
    BY OfId DEF TakeFrom, Sole, Begun, Importing, Writing, Vias
  <1>3. result = "notfound" => ~Exists(i)
    BY <1>1
  <1>4. result \in {"expired", "go"} =>
          Exists(i) /\ ~entries[i].busy /\ closing = "no"
    BY <1>1 DEF closed
  <1>5. CASE result \notin {"expired", "go"} /\ Refuse(c, "app", i, result)
    <2>1. result = "notfound" => entries'[i].kind = "none"
      BY <1>3, <1>5, AbsentEntry DEF Refuse, Exists
    <2> QED  BY <1>2, <1>5, <2>1, GuestReturns DEF Refuse, Asked
  <1>6. ASSUME result \in {"expired", "go"}, Drop({i}), NEW answer, Return(c, "app", i, answer)
        PROVE  TransferIInv'
    <2>1. Dropped(i) /\ entries'[i].kind = "none"
      BY <1>2, <1>4, <1>6, DropRemoves, AbsentEntry DEF Dropped
    <2> QED  BY <1>2, <1>6, <2>1, GuestReturns DEF Asked
  <1>7. CASE /\ result = "go"
             /\ entries' = [entries EXCEPT ![i] = NoEntry]
             /\ Goto(c, Call("take", "app", i, 0, 0))
             /\ UNCHANGED <<disk, ids>>
    <2>1. PICK k : k = Call("take", "app", i, 0, 0)
      OBVIOUS
    <2>2. k \in CallRecords /\ k.at = "take" /\ k.id = i /\ k.at \in Sole
      <3>1. "take" \in Sole
        BY DEF Sole
      <3> QED  BY <1>2, <2>1, <3>1, CallRecord
    <2>3. /\ entries' \in [Ids -> Entries] /\ entries'[i] = NoEntry /\ disk' = disk
          /\ \A j \in Ids \ {i} : Kept(j)
      BY <1>2, <1>7, AbsentEntry DEF TransferTypeOK, Kept
    <2>4. Alone(c, i)
      BY <1>2, <1>4, <1>7, FreeIsAlone
    <2>5. EntryFits(i)' /\ entries'[i].kind = "none"
      BY <1>7, <2>3, AbsentEntry DEF EntryFits, Exists
    <2>6. call'[c] = k => CallFits(c, i)' /\ FileKept(i)'
      BY <1>7, <2>2, <2>3
      DEF CallFits, SecretKept, FileKept, Working, Exists, Begun, Importing, Writing
    <2> QED  BY <1>2, <1>4, <1>7, <2>1, <2>2, <2>3, <2>4, <2>5, <2>6, SoleGoes DEF TransferTypeOK
  <1> QED  BY <1>1, <1>5, <1>6, <1>7

\* A download keeps its entry busy, unless it finds that it has expired.
LEMMA OpenDownloadStep ==
  ASSUME TransferIInv, TransferAssumption, told' = told, NEW c \in Calls, NEW i \in Ids,
         OpenDownload(c, i)
  PROVE  TransferIInv'
  <1>1. PICK result :
          /\ result = IF closed                          THEN "closed"
                      ELSE IF entries[i].kind # "staged" THEN "notfound"
                      ELSE IF Expired(i)                 THEN "expired"
                      ELSE IF entries[i].busy            THEN "busy"
                      ELSE "go"
          /\ \/ result \notin {"expired", "go"} /\ Refuse(c, "GET", i, result)
             \/ result = "expired" /\ Drop({i}) /\ Return(c, "GET", i, result)
             \/ /\ result = "go"
                /\ entries' = [entries EXCEPT ![i].busy = TRUE]
                /\ Goto(c, Call("download", "GET", i, 0, 0))
                /\ UNCHANGED <<disk, ids>>
    BY DEF OpenDownload
  <1>2. /\ Stays /\ TransferTypeOK /\ IdInv(i) /\ EntryFits(i) /\ entries[i] \in Entries
        /\ call[c].at = "idle" /\ call[c].id = NoId /\ call[c].at \notin Sole
        /\ ids[i] = "known" /\ "GET" \in Vias
    BY OfId, IdleHasNoId
    DEF OpenDownload, Free, At, Known, Sole, Begun, Importing, Writing, Vias
  <1>3. Asked(Surface("GET")) = "staged" /\ (result = "notfound" => entries[i].kind # "staged")
    BY <1>1 DEF Asked, Surface
  <1>4. result \in {"expired", "go"} => entries[i].kind = "staged" /\ Exists(i) /\ closing = "no"
    BY <1>1, AbsentEntry DEF closed, Exists
  <1>5. CASE result \notin {"expired", "go"} /\ Refuse(c, "GET", i, result)
    BY <1>2, <1>3, <1>5, GuestReturns DEF Refuse
  <1>6. CASE result = "expired" /\ Drop({i}) /\ Return(c, "GET", i, result)
    <2>1. Dropped(i) /\ entries'[i].kind = "none"
      BY <1>2, <1>4, <1>6, DropRemoves, AbsentEntry DEF Dropped
    <2> QED  BY <1>2, <1>3, <1>6, <2>1, GuestReturns
  <1>7. CASE /\ result = "go"
             /\ entries' = [entries EXCEPT ![i].busy = TRUE]
             /\ Goto(c, Call("download", "GET", i, 0, 0))
             /\ UNCHANGED <<disk, ids>>
    <2>1. PICK k : k = Call("download", "GET", i, 0, 0)
      OBVIOUS
    <2>2. k \in CallRecords /\ k.at = "download" /\ k.id = i /\ k.at \in Sole
      <3>1. "download" \in Sole
        BY DEF Sole
      <3> QED  BY <1>2, <2>1, <3>1, CallRecord
    <2>3. PICK m : m = [entries[i] EXCEPT !.busy = TRUE]
      OBVIOUS
    <2>4. /\ m \in Entries /\ m.busy /\ m.kind = "staged" /\ m.size = entries[i].size
          /\ m.offset = entries[i].offset /\ m.complete = entries[i].complete /\ m # NoEntry
      BY <1>2, <1>4, <1>7, <2>3, MarkedBusy, AbsentEntry
    <2>5. /\ entries' \in [Ids -> Entries] /\ entries'[i] = m /\ disk' = disk
          /\ \A j \in Ids \ {i} : Kept(j)
      BY <1>2, <1>7, <2>3, <2>4 DEF TransferTypeOK, Kept
    <2>6. Alone(c, i)
      <3>1. ~entries[i].busy
        BY <1>1, <1>7
      <3> QED  BY <1>2, <1>4, <1>7, <3>1, FreeIsAlone
    <2>7. EntryFits(i)' /\ Exists(i)'
      BY <1>2, <1>4, <1>7, <2>4, <2>5 DEF EntryFits, Exists
    <2>8. call'[c] = k => CallFits(c, i)' /\ FileKept(i)'
      BY <1>2, <1>7, <2>2, <2>4, <2>5, <2>7
      DEF CallFits, SecretKept, FileKept, Begun, Importing, Writing
    <2> QED  BY <1>2, <1>4, <1>7, <2>1, <2>2, <2>4, <2>5, <2>6, <2>7, <2>8, SoleGoes DEF TransferTypeOK
  <1> QED  BY <1>1, <1>5, <1>6, <1>7

\* A download ends: the file goes with its entry, or the entry is free again.
LEMMA FinishDownloadStep ==
  ASSUME TransferIInv, TransferAssumption, told' = told, NEW c \in Calls, NEW commit \in BOOLEAN,
         FinishDownload(c, commit)
  PROVE  TransferIInv'
  <1>1. PICK i \in Ids : i = call[c].id
    BY DEF FinishDownload, At, TransferIInv, TransferTypeOK
  <1>2. PICK result \in {"ok", "failed"} : Return(c, call[c].via, i, result)
    BY <1>1 DEF FinishDownload
  <1>3. /\ Stays /\ TransferTypeOK /\ IdInv(i) /\ EntryFits(i) /\ CallFits(c, i)
        /\ call[c].at \in {"download", "take"} /\ call[c].at \in Sole /\ c \in Active
        /\ closing # "done" /\ ids[i] = "known" /\ entries[i] \in Entries /\ call[c].via \in Vias
    <2>1. call[c].at \in {"download", "take"} /\ Stays
      BY DEF FinishDownload, At
    <2>2. call[c].at \in Sole /\ c \in Active
      BY <2>1 DEF Sole, Active
    <2>3. CallFits(c, i)
      BY <1>1, OfId
    <2>4. ids[i] = "known"
      BY <2>1, <2>3 DEF CallFits, SecretKept
    <2> QED  BY <1>1, <2>1, <2>2, <2>3, <2>4, OfId DEF TransferIInv
  <1>4. ids'[i] = "known"
    BY <1>2, <1>3, ReturnEnds
  <1>5. CASE Drop({i})
    BY <1>1, <1>2, <1>3, <1>5, DropAndReturn
  <1>6. CASE /\ call[c].at = "download"
             /\ entries' = IF Exists(i) THEN [entries EXCEPT ![i].busy = FALSE] ELSE entries
             /\ UNCHANGED disk
    <2>1. CASE ~Exists(i)
      <3>1. entries' = entries /\ disk' = disk /\ disk[i] = NoFile /\ \A j \in Ids : Kept(j)
        BY <1>3, <1>6, <2>1 DEF CallFits, Kept
      <3>2. EntryFits(i)'
        BY <1>3, <1>4, <3>1 DEF EntryFits, Exists
      <3> QED  BY <1>1, <1>2, <1>3, <3>1, <3>2, SoleReturns DEF TransferTypeOK
    <2>2. CASE Exists(i)
      <3>1. PICK m : m = [entries[i] EXCEPT !.busy = FALSE]
        OBVIOUS
      <3>2. /\ m \in Entries /\ m.kind = entries[i].kind /\ m.size = entries[i].size
            /\ m.offset = entries[i].offset /\ m.complete = entries[i].complete
        BY <1>3, <3>1, MarkedFree
      <3>3. /\ entries' \in [Ids -> Entries] /\ entries'[i] = m /\ disk' = disk
            /\ \A j \in Ids \ {i} : Kept(j)
        BY <1>3, <1>6, <2>2, <3>1, <3>2 DEF TransferTypeOK, Kept
      <3>4. entries[i].kind = "staged" /\ m # NoEntry
        BY <1>3, <1>6, <2>2, <3>2, AbsentEntry DEF CallFits
      <3>5. /\ entries[i].complete /\ entries[i].offset = entries[i].size
            /\ disk[i] = File(entries[i].size, TRUE) /\ disk[i] # NoFile
            /\ entries[i].size \in Nat
        BY <1>3, <2>2, <3>4 DEF EntryFits, Entries
      <3>6. disk[i].size = entries[i].size
        BY <3>5, FileRecord
      <3>7. EntryFits(i)' /\ Exists(i)'
        BY <1>4, <3>2, <3>3, <3>4, <3>5, <3>6 DEF EntryFits, Exists
      <3> QED  BY <1>1, <1>2, <1>3, <3>2, <3>3, <3>7, SoleReturns DEF TransferTypeOK
    <2> QED  BY <2>1, <2>2
  <1>7. CASE call[c].at = "take" /\ disk' = [disk EXCEPT ![i] = NoFile] /\ UNCHANGED entries
    <2>1. ~Exists(i)
      BY <1>3, <1>7 DEF CallFits
    <2>2. /\ disk' \in [Ids -> Files] /\ disk'[i] = NoFile /\ entries' = entries
          /\ \A j \in Ids \ {i} : Kept(j)
      BY <1>3, <1>7 DEF TransferTypeOK, Kept, Files
    <2>3. EntryFits(i)'
      BY <1>3, <1>4, <2>1, <2>2 DEF EntryFits, Exists
    <2> QED  BY <1>1, <1>2, <1>3, <2>2, <2>3, SoleReturns DEF TransferTypeOK
  <1> QED  BY <1>1, <1>5, <1>6, <1>7 DEF FinishDownload, At
\* The client is told that its transfer is gone; from then on it has to be.
LEMMA AnswerStep ==
  ASSUME TransferIInv, TransferAssumption, NEW c \in Calls, Answer(c)
  PROVE  TransferIInv'
  <1>1. PICK i \in Ids : i = call[c].id
    BY DEF Answer, At, TransferIInv, TransferTypeOK
  <1>2. PICK t : t = [of |-> Surface(call[c].via), id |-> i]
    OBVIOUS
  <1>3. /\ told' = told \cup {t} /\ Goto(c, Idle) /\ call[c].at = "returned"
        /\ UNCHANGED <<entries, disk, ids, closing, clock>>
    BY <1>1, <1>2 DEF Answer, At
  <1>4. /\ t \in [of : {"download", "upload"}, id : Ids] /\ t.id = i
        /\ t.of = Surface(call[c].via)
    BY <1>2 DEF Surface
  <1>5. /\ TransferTypeOK /\ IdInv(i) /\ CallFits(c, i)
    BY <1>1, OfId
  <1>6. Idle \in CallRecords /\ Idle.at = "idle" /\ Idle.id = NoId
    BY DEF Idle, Call, CallRecords, Vias, Results
  <1>7. /\ call' \in [Calls -> CallRecords] /\ call'[c] = Idle
        /\ \A d \in Calls \ {c} : call'[d] = call[d]
    BY <1>3, <1>5, <1>6 DEF Goto, TransferTypeOK
  <1>8. TransferTypeOK'
    BY <1>3, <1>4, <1>5, <1>6, <1>7 DEF TransferTypeOK
  <1>9. ASSUME NEW j \in Ids \ {i}  PROVE IdInv(j)'
    <2>1. \A d \in Calls : call[d].id = j \/ call'[d].id = j => call'[d] = call[d]
      BY <1>1, <1>6, <1>7, <1>9 DEF TransferAssumption
    <2>2. Kept(j) /\ IdInv(j) /\ \A u \in told' : u.id = j => u \in told
      BY <1>3, <1>4, <1>9 DEF Kept, TransferIInv
    <2> QED  BY <1>3, <1>5, <2>1, <2>2, OtherIds
  <1>10. IdInv(i)'
    <2>1. EntryFits(i)'
      BY <1>3, <1>5 DEF IdInv, EntryFits, Exists
    <2>2. ASSUME NEW d \in Calls, call'[d].id = i  PROVE CallFits(d, i)'
      <3>1. call'[d] = call[d] /\ CallFits(d, i)
        BY <1>5, <1>6, <1>7, <2>2 DEF IdInv, TransferAssumption
      <3> QED  BY <1>3, <3>1 DEF CallFits, SecretKept, Exists
    <2>3. OneCall(i)'
      BY <1>5, <1>6, <1>7 DEF IdInv, OneCall, TransferAssumption
    <2>4. FileKept(i)' /\ (closing' = "done" => ~Exists(i)' /\ disk'[i] = NoFile)
      <3>1. \A d \in Calls : Working(d, i) => Working(d, i)'
        BY <1>3, <1>7 DEF Working
      <3> QED  BY <1>3, <1>5, <3>1 DEF IdInv, FileKept, Exists
    <2>5. ids[i] = "known" /\ entries[i].kind # Asked(t.of)
      BY <1>3, <1>4, <1>5 DEF CallFits, SecretKept
    <2>6. \A u \in told' : u.id = i => ids'[i] = "known" /\ entries'[i].kind # Asked(u.of)
      BY <1>3, <1>5, <2>5 DEF IdInv
    <2> QED  BY <2>1, <2>2, <2>3, <2>4, <2>6 DEF IdInv
  <1>11. (closing = "done" => Active = {})'
    BY <1>3, <1>6, <1>7 DEF TransferIInv, Active
  <1> QED  BY <1>8, <1>9, <1>10, <1>11 DEF TransferIInv

\* Close waits for the calls that are active; a file without an entry is that of one.
LEMMA CloseStep ==
  ASSUME TransferIInv, told' = told, Close \/ CloseCleans \/ Tick
  PROVE  TransferIInv'
  <1>1. ids' = ids /\ call' = call /\ TransferTypeOK
    BY DEF Close, CloseCleans, Tick, TransferIInv
  <1>2. CASE Close \/ Tick
    <2>1. entries' = entries /\ disk' = disk /\ (closing' = "done" => closing = "done")
      BY <1>2 DEF Close, Tick
    <2>2. TransferTypeOK'
      BY <1>1, <1>2, <2>1 DEF TransferTypeOK, Close, Tick
    <2>3. \A j \in Ids : IdInv(j)'
      BY <1>1, <2>1, OtherIds DEF TransferIInv, Kept
    <2>4. (closing = "done" => Active = {})'
      BY <1>1, <2>1 DEF TransferIInv, Active
    <2> QED  BY <2>2, <2>3, <2>4 DEF TransferIInv
  <1>3. CASE CloseCleans
    <2>1. /\ Active = {} /\ closing' = "done" /\ clock' = clock
          /\ Drop({i \in Ids : Exists(i)})
      BY <1>3 DEF CloseCleans, WaitsForActive
    <2>2. /\ entries' \in [Ids -> Entries] /\ disk' \in [Ids -> Files]
          /\ \A j \in Ids : /\ Exists(j) => entries'[j] = NoEntry /\ disk'[j] = NoFile
                            /\ ~Exists(j) => Kept(j)
      BY <1>1, <2>1, DropRemoves
    <2>3. TransferTypeOK'
      BY <1>1, <2>1, <2>2 DEF TransferTypeOK
    <2>4. ASSUME NEW j \in Ids  PROVE IdInv(j)'
      <3>1. IdInv(j) /\ FileKept(j)
        BY DEF TransferIInv, IdInv
      <3>2. \A c \in Calls : ~ Working(c, j)
        BY <2>1 DEF Working, Active
      <3>3. ~Exists(j)' /\ disk'[j] = NoFile
        BY <2>2, <3>1, <3>2 DEF FileKept, Kept, Exists
      <3>4. Kept(j) \/ Dropped(j)
        BY <2>2 DEF Dropped
      <3>5. EntryFits(j)'
        BY <3>3 DEF EntryFits, Exists
      <3>6. ASSUME NEW c \in Calls, call'[c].id = j  PROVE CallFits(c, j)'
        <4>1. CallFits(c, j) /\ call'[c] = call[c] /\ ids'[j] = ids[j]
          BY <1>1, <3>1, <3>6 DEF IdInv
        <4>2. CASE Kept(j)
          BY <4>1, <4>2 DEF CallFits, SecretKept, Kept, Exists
        <4>3. CASE Dropped(j)
          BY <4>1, <4>3, AbsentEntry DEF CallFits, SecretKept, Dropped, Exists, Asked
        <4> QED  BY <3>4, <4>2, <4>3
      <3>7. OneCall(j)' /\ FileKept(j)'
        BY <1>1, <3>1, <3>3 DEF IdInv, OneCall, FileKept
      <3>8. \A t \in told' : t.id = j => ids'[j] = "known" /\ entries'[j].kind # Asked(t.of)
        BY <1>1, <3>1, <3>3, AbsentEntry DEF IdInv, Asked, Exists
      <3> QED  BY <3>3, <3>5, <3>6, <3>7, <3>8 DEF IdInv
    <2>5. Active' = {}
      BY <1>1, <2>1 DEF Active
    <2> QED  BY <2>3, <2>4, <2>5 DEF TransferIInv
  <1> QED  BY <1>2, <1>3

-----------------------------------------------------------------------------
\* The inductive invariant of the transfers: every id is in order, whatever calls are
\* in progress on it.
THEOREM TransferInvariant ==
  ASSUME TransferAssumption
  PROVE  TransferSpec => []TransferIInv
  <1>1. TransferInit => TransferIInv
    <2> SUFFICES ASSUME TransferInit  PROVE TransferIInv
      OBVIOUS
    <2>1. Idle \in CallRecords /\ Idle.at = "idle" /\ Idle.id = NoId
      BY DEF Idle, Call, CallRecords, Vias, Results
    <2>2. TransferTypeOK
      BY <2>1, AbsentEntry DEF TransferInit, Init, TransferTypeOK, Files
    <2>3. \A c \in Calls : call[c] = Idle
      BY DEF TransferInit, Init
    <2>4. closing = "no"
      BY DEF TransferInit, Init
    <2>5. \A i \in Ids : IdInv(i)
      <3> TAKE i \in Ids
      <3>1. entries[i] = NoEntry /\ disk[i] = NoFile /\ told = {} /\ ids[i] = "new"
        BY DEF TransferInit, Init
      <3>2. EntryFits(i) /\ FileKept(i)
        BY <3>1 DEF EntryFits, FileKept, Exists
      <3>3. \A c \in Calls : call[c].id # i
        BY <2>1, <2>3 DEF TransferAssumption
      <3> QED  BY <2>4, <3>1, <3>2, <3>3 DEF IdInv, OneCall
    <2> QED  BY <2>2, <2>4, <2>5 DEF TransferIInv
  <1>2. TransferIInv /\ [TransferNext]_transferVars => TransferIInv'
    <2> SUFFICES ASSUME TransferIInv, [TransferNext]_transferVars  PROVE TransferIInv'
      OBVIOUS
    <2>1. ASSUME NEW c \in Calls, Answer(c)  PROVE TransferIInv'
      BY <2>1, AnswerStep
    <2>2. ASSUME NEW c \in Calls, told' = told, ServeHTTP(c) \/ importSidecarUpload(c) \/ Application(c)
          PROVE  TransferIInv'
      <3>1. /\ {"POST", "import", "app"} \subseteq Vias /\ {"stage", "begin"} \subseteq Begun
            /\ 0..MaxBytes \subseteq Nat /\ 0 \in Nat
        BY DEF Vias, Begun, TransferAssumption
      <3>2. CASE Stage(c) \/ (\E via \in {"POST", "import"} : BeginUpload(c, via))
        BY <2>2, <3>1, <3>2, CreateStep DEF Stage, BeginUpload
      <3>3. CASE \E i \in Ids : UploadStatus(c, i)
        BY <2>2, <3>3, UploadStatusStep
      <3>4. CASE \E i \in Ids, offset \in 0..MaxBytes : UploadAppend(c, i, offset)
        BY <2>2, <3>1, <3>4, AppendStep
      <3>5. CASE \E i \in Ids : OpenDownload(c, i)
        BY <2>2, <3>5, OpenDownloadStep
      <3>6. CASE \E i \in Ids : ConsumeUpload(c, i)
        BY <2>2, <3>6, ConsumeUploadStep
      <3>7. ASSUME NEW i \in Ids, Take(c, i)  PROVE TransferIInv'
        <4>1. /\ TakeFrom(c, i) /\ call[c].at = "idle" /\ call[c].id = NoId /\ ids[i] = "known"
          BY <3>7, IdleHasNoId DEF Take, Free, At, Known
        <4> QED  BY <2>2, <4>1, TakeFromStep
      <3> QED
        BY <2>2, <3>2, <3>3, <3>4, <3>5, <3>6, <3>7
        DEF ServeHTTP, importSidecarUpload, Application, serveUploadCreation, serveUploadStatus,
            serveUploadAppend, serveDownload
    <2>3. ASSUME NEW c \in Calls, told' = told, Continue(c)  PROVE TransferIInv'
      <3>1. ASSUME ConsumeTakes(c)  PROVE TransferIInv'
        <4>1. PICK i \in Ids : i = call[c].id
          BY <3>1 DEF ConsumeTakes, At, TransferIInv, TransferTypeOK
        <4>2. CallFits(c, i)
          BY <4>1, OfId
        <4>3. TakeFrom(c, i) /\ call[c].at = "consume" /\ ids[i] = "known"
          BY <3>1, <4>1, <4>2 DEF ConsumeTakes, At, CallFits, SecretKept
        <4> QED  BY <2>3, <4>1, <4>3, TakeFromStep
      <3> QED
        BY <2>3, <3>1, StageEndsStep, BeginUploadEndsStep, ImportProbeStep, ImportAppendStep,
           AppendCopiesStep, AppendVerifiesStep, AppendEndsStep, FinishDownloadStep
        DEF Continue
    <2>4. ASSUME told' = told, Close \/ CloseCleans \/ Tick  PROVE TransferIInv'
      BY <2>4, CloseStep
    <2>5. CASE UNCHANGED transferVars
      <3>1. /\ entries' = entries /\ disk' = disk /\ ids' = ids /\ call' = call
            /\ closing' = closing /\ clock' = clock /\ told' = told
        BY <2>5 DEF transferVars
      <3>2. \A j \in Ids : IdInv(j)'
        BY <3>1, OtherIds DEF TransferIInv, Kept
      <3>3. TransferTypeOK' /\ (closing = "done" => Active = {})'
        BY <3>1 DEF TransferIInv, TransferTypeOK, Active
      <3> QED  BY <3>2, <3>3 DEF TransferIInv
    <2> QED  BY <2>1, <2>2, <2>3, <2>4, <2>5 DEF TransferNext
  <1> QED  BY <1>1, <1>2, PTL DEF TransferSpec

\* Files and entries account for each other, whatever expires, fails or is cut off, for
\* any number of clients and transfers.
THEOREM FilesCorrect ==
  ASSUME TransferAssumption
  PROVE  TransferSpec => []FilesAccountedFor
  <1>1. TransferIInv => FilesAccountedFor
    BY DEF TransferIInv, IdInv, FilesAccountedFor, NoFileLeftBehind, EntriesMatchFiles,
           FileKept, EntryFits
  <1> QED  BY <1>1, TransferInvariant, PTL

\* 404 is final: a client that was told its transfer is gone never finds it again.
THEOREM GoneCorrect ==
  ASSUME TransferAssumption
  PROVE  TransferSpec => []GoneIsFinal
  <1>1. TransferIInv => GoneIsFinal
    BY DEF TransferIInv, TransferTypeOK, IdInv, GoneIsFinal, Asked
  <1> QED  BY <1>1, TransferInvariant, PTL

-----------------------------------------------------------------------------
(***************************************************************************)
(* ResourceBroker: GrantsAccountedFor.  No set of the constants is assumed *)
(* finite, since each grant adds one caller and one lease to what the      *)
(* broker counts.                                                          *)
(***************************************************************************)
BrokerSpec == BrokerInit /\ [][BrokerNext]_brokerVars

\* Callers between beginGrant and finishGrant, which broker.pending counts; those of
\* them whose lease is not in the broker yet; and those that alone hold a lease.
Granting == {h \in Holders : step[h].at \in {"resolving", "resolved", "undo", "granted"}}
Reserving == {h \in Holders : step[h].at \in {"resolving", "resolved", "undo"}}
Carries(h) == step[h].at \in {"resolved", "undo", "releasing"}
Carried == {step[h].of : h \in {g \in Holders : Carries(g)}}

Ats == {"idle", "resolving", "resolved", "undo", "granted", "releasing", "closing", "returned"}
Steps == [at : Ats, of : Capabilities \cup {NoCapability}]

BrokerTypeOK ==
  /\ leases \in SUBSET Capabilities /\ left \in SUBSET Capabilities
  /\ pending \in Int
  /\ shut \in {"open", "waiting", "releasing", "closed"}
  /\ native \in [Capabilities -> {"none", "held", "released", "twice"}]
  /\ step \in [Holders -> Steps]

\* A lease is held exactly as long as one place has it to give back: the broker's map,
\* the list Close works through, or one caller.
OnePlace ==
  /\ \A c \in Capabilities : native[c] = "held" <=> c \in leases \cup left \cup Carried
  /\ \A c \in Capabilities : native[c] # "twice"
  /\ \A h \in Holders : Carries(h) =>
       /\ step[h].of \in Capabilities
       /\ step[h].of \notin leases \cup left
       /\ \A g \in Holders : Carries(g) /\ step[g].of = step[h].of => g = h

\* Close has the broker to itself once it stops waiting, and is over when it returns.
CloseOrder ==
  /\ shut \in {"open", "waiting", "closed"} => left = {}
  /\ shut \in {"releasing", "closed"} => Busy = {} /\ leases = {}
  /\ \A h \in Holders : Is(h, "returned") => shut = "closed"

\* What is held or being reserved stays within the limit.
CountsAgree ==
  /\ IsFiniteSet(Granting) /\ pending = Cardinality(Granting)
  /\ IsFiniteSet(leases) /\ IsFiniteSet(left)
  /\ Cardinality(leases) + Cardinality(left) + Cardinality(Reserving) <= MaxActiveGrants

BrokerIInv == BrokerTypeOK /\ OnePlace /\ CloseOrder /\ CountsAgree
-----------------------------------------------------------------------------
\* A part of a finite set is finite and no larger.
LEMMA PartIsSmaller ==
  ASSUME NEW S, IsFiniteSet(S), NEW T, T \subseteq S
  PROVE  IsFiniteSet(T) /\ Cardinality(T) \in Nat /\ Cardinality(T) <= Cardinality(S)
  <1>1. IsFiniteSet(T) /\ Cardinality(T) <= Cardinality(S)
    BY FS_Subset
  <1> QED  BY <1>1, FS_CardinalityType

\* A union of finite sets is finite and no larger than both together.
LEMMA UnionIsBounded ==
  ASSUME NEW S, NEW T, IsFiniteSet(S), IsFiniteSet(T)
  PROVE  /\ IsFiniteSet(S \cup T) /\ Cardinality(S \cup T) \in Nat
         /\ Cardinality(S \cup T) <= Cardinality(S) + Cardinality(T)
  <1>1. /\ IsFiniteSet(S \cup T)
        /\ Cardinality(S \cup T) = Cardinality(S) + Cardinality(T) - Cardinality(S \cap T)
    BY FS_Union
  <1>2. Cardinality(S \cap T) \in Nat
    BY PartIsSmaller
  <1>3. Cardinality(S) \in Nat /\ Cardinality(T) \in Nat /\ Cardinality(S \cup T) \in Nat
    BY <1>1, FS_CardinalityType
  <1> QED  BY <1>1, <1>2, <1>3

\* One caller moves; every other one stays where it is.
LEMMA OneMoves ==
  ASSUME BrokerTypeOK, NEW h \in Holders, NEW at \in Ats,
         NEW of \in Capabilities \cup {NoCapability}, Move(h, at, of)
  PROVE  /\ step' \in [Holders -> Steps]
         /\ step'[h].at = at /\ step'[h].of = of
         /\ \A g \in Holders \ {h} : step'[g] = step[g]
  BY DEF BrokerTypeOK, Move, Steps

\* The sets the broker counts gain or lose the caller that moves.
LEMMA CountedSets ==
  ASSUME BrokerTypeOK, NEW h \in Holders, NEW at \in Ats,
         NEW of \in Capabilities \cup {NoCapability}, Move(h, at, of)
  PROVE  /\ Granting' = IF at \in {"resolving", "resolved", "undo", "granted"}
                        THEN Granting \cup {h} ELSE Granting \ {h}
         /\ Reserving' = IF at \in {"resolving", "resolved", "undo"}
                         THEN Reserving \cup {h} ELSE Reserving \ {h}
  <1>1. /\ step'[h].at = at
        /\ \A g \in Holders \ {h} : step'[g] = step[g]
    BY OneMoves
  <1> QED  BY <1>1 DEF Granting, Reserving

\* What the sets count: Reserving is part of Granting, hence finite.
LEMMA ReservingFinite ==
  ASSUME IsFiniteSet(Granting)
  PROVE  /\ IsFiniteSet(Reserving)
         /\ Cardinality(Reserving) \in Nat
         /\ Cardinality(Granting) \in Nat
         /\ Cardinality(Reserving) <= Cardinality(Granting)
  <1>1. Reserving \in SUBSET Granting
    BY DEF Reserving, Granting
  <1> QED  BY <1>1, FS_Subset, FS_CardinalityType

-----------------------------------------------------------------------------
\* Every step keeps the types of the broker's state.
LEMMA BrokerTypeStep ==
  ASSUME BrokerTypeOK, OnePlace, BrokerNext
  PROVE  BrokerTypeOK'
  <1> USE DEF BrokerTypeOK
  <1> NoCapability \in Capabilities \cup {NoCapability}  OBVIOUS
  <1>1. ASSUME NEW h \in Holders, beginGrant(h)  PROVE BrokerTypeOK'
    BY <1>1, OneMoves DEF beginGrant, Ats
  <1>2. ASSUME NEW h \in Holders, Resolve(h)  PROVE BrokerTypeOK'
    <2>1. CASE Move(h, "granted", NoCapability) /\ UNCHANGED native
      BY <1>2, <2>1, OneMoves DEF Resolve, Ats
    <2>2. ASSUME NEW c \in Capabilities, NEW usable \in BOOLEAN,
                 native' = [native EXCEPT ![c] = "held"],
                 Move(h, IF usable THEN "resolved" ELSE "undo", c)
          PROVE  BrokerTypeOK'
      BY <1>2, <2>2, OneMoves DEF Resolve, Ats
    <2> QED  BY <1>2, <2>1, <2>2 DEF Resolve
  <1>3. ASSUME NEW h \in Holders, Retain(h)  PROVE BrokerTypeOK'
    <2>1. step[h].of \in Capabilities
      BY <1>3 DEF Retain, OnePlace, Is, Carries
    <2> QED  BY <1>3, <2>1, OneMoves DEF Retain, RetainLease, Ats
  <1>4. ASSUME NEW h \in Holders, Undo(h)  PROVE BrokerTypeOK'
    BY <1>4, OneMoves DEF Undo, ReleaseLease, Ats
  <1>5. ASSUME NEW h \in Holders, finishGrant(h)  PROVE BrokerTypeOK'
    BY <1>5, OneMoves DEF finishGrant, Ats
  <1>6. ASSUME NEW h \in Holders, NEW c \in Capabilities, Release(h, c)  PROVE BrokerTypeOK'
    BY <1>6, OneMoves DEF Release, Ats
  <1>7. ASSUME NEW h \in Holders, ReleaseEnds(h)  PROVE BrokerTypeOK'
    BY <1>7, OneMoves DEF ReleaseEnds, ReleaseLease, Ats
  <1>8. ASSUME NEW h \in Holders, CloseBroker(h)  PROVE BrokerTypeOK'
    BY <1>8, OneMoves DEF CloseBroker, Ats
  <1>9. ASSUME NEW h \in Holders, CloseReturns(h)  PROVE BrokerTypeOK'
    BY <1>9, OneMoves DEF CloseReturns, Ats
  <1>10. CASE CloseCollects
    BY <1>10 DEF CloseCollects
  <1>11. CASE CloseReleases
    BY <1>11 DEF CloseReleases, ReleaseLease
  <1> HIDE DEF BrokerTypeOK
  <1> QED
    BY <1>1, <1>2, <1>3, <1>4, <1>5, <1>6, <1>7, <1>8, <1>9, <1>10, <1>11
    DEF BrokerNext, grantSidecarResource, releaseSidecarResource

\* Every step leaves each held lease in one place.
LEMMA OnePlaceStep ==
  ASSUME BrokerTypeOK, OnePlace, CloseOrder, BrokerNext
  PROVE  OnePlace'
  <1> USE DEF OnePlace, Carried, Carries, Is
  <1> NoCapability \in Capabilities \cup {NoCapability}  OBVIOUS
  <1>0. native \in [Capabilities -> {"none", "held", "released", "twice"}]
    BY DEF BrokerTypeOK
  <1>1. ASSUME NEW h \in Holders, beginGrant(h)  PROVE OnePlace'
    BY <1>1, OneMoves DEF beginGrant, Ats
  <1>2. ASSUME NEW h \in Holders, Resolve(h)  PROVE OnePlace'
    <2>1. CASE Move(h, "granted", NoCapability) /\ UNCHANGED native
      BY <1>2, <2>1, OneMoves DEF Resolve, Ats
    <2>2. ASSUME NEW c \in Capabilities, NEW usable \in BOOLEAN, native[c] = "none",
                 native' = [native EXCEPT ![c] = "held"],
                 Move(h, IF usable THEN "resolved" ELSE "undo", c)
          PROVE  OnePlace'
      <3>1. c \notin leases \cup left \cup Carried
        BY <2>2
      <3>2. /\ step'[h].at \in {"resolved", "undo"} /\ step'[h].of = c
            /\ \A g \in Holders \ {h} : step'[g] = step[g]
        BY <2>2, OneMoves DEF Ats
      <3>3. leases' = leases /\ left' = left
        BY <1>2 DEF Resolve
      <3>4. Carried' = Carried \cup {c}
        BY <1>2, <3>2 DEF Resolve
      <3>5. \A k \in Capabilities : native'[k] = IF k = c THEN "held" ELSE native[k]
        BY <1>0, <2>2
      <3> QED  BY <3>1, <3>2, <3>3, <3>4, <3>5
    <2> QED  BY <1>2, <2>1, <2>2 DEF Resolve
  <1>3. ASSUME NEW h \in Holders, Retain(h)  PROVE OnePlace'
    <2> DEFINE c == step[h].of
    <2>1. c \in Capabilities
      BY <1>3 DEF Retain
    <2>2. native' = native /\ left' = left
      BY <1>3 DEF Retain
    <2>3. CASE shut = "open"
      <3>1. /\ step'[h].at = "granted" /\ \A g \in Holders \ {h} : step'[g] = step[g]
        BY <1>3, <2>1, <2>3, OneMoves DEF Retain, RetainLease, Ats
      <3>2. left = {}
        BY <2>3 DEF CloseOrder
      <3>3. leases' = leases \cup {c} /\ Carried' = Carried \ {c}
        BY <1>3, <2>3, <3>1 DEF Retain, RetainLease
      <3> QED  BY <1>3, <2>1, <2>2, <3>1, <3>2, <3>3 DEF Retain
    <2>4. CASE shut # "open"
      <3>1. /\ step'[h].at = "undo" /\ step'[h].of = c
            /\ \A g \in Holders \ {h} : step'[g] = step[g]
        BY <1>3, <2>1, <2>4, OneMoves DEF Retain, RetainLease, Ats
      <3>2. leases' = leases /\ Carried' = Carried
        BY <1>3, <2>4, <3>1 DEF Retain, RetainLease
      <3> QED  BY <1>3, <2>1, <2>2, <3>1, <3>2 DEF Retain
    <2> QED  BY <2>3, <2>4
  <1>4. ASSUME NEW h \in Holders, Carries(h), ReleaseLease(step[h].of),
               NEW at \in {"granted", "idle"}, Move(h, at, NoCapability),
               UNCHANGED <<leases, left>>
        PROVE  OnePlace'
    <2>1. step'[h].at = at /\ \A g \in Holders \ {h} : step'[g] = step[g]
      BY <1>4, OneMoves DEF Ats
    <2>2. step[h].of \in Capabilities /\ native[step[h].of] = "held"
      BY <1>4
    <2>3. Carried' = Carried \ {step[h].of}
      BY <1>4, <2>1
    <2>4. \A k \in Capabilities :
            native'[k] = IF k = step[h].of THEN "released" ELSE native[k]
      BY <1>0, <1>4, <2>2 DEF ReleaseLease
    <2> QED  BY <1>4, <2>1, <2>2, <2>3, <2>4
  <1>5. ASSUME NEW h \in Holders, finishGrant(h)  PROVE OnePlace'
    BY <1>5, OneMoves DEF finishGrant, Ats
  <1>6. ASSUME NEW h \in Holders, NEW c \in Capabilities, Release(h, c)  PROVE OnePlace'
    <2>1. /\ step'[h].at = "releasing" /\ step'[h].of = c
          /\ \A g \in Holders \ {h} : step'[g] = step[g]
      BY <1>6, OneMoves DEF Release, Ats
    <2>2. left = {} /\ left' = {}
      BY <1>6 DEF Release, CloseOrder
    <2>3. leases' = leases \ {c} /\ Carried' = Carried \cup {c} /\ c \notin Carried
      BY <1>6, <2>1 DEF Release
    <2> QED  BY <1>6, <2>1, <2>2, <2>3 DEF Release
  <1>7. ASSUME NEW h \in Holders, CloseBroker(h)  PROVE OnePlace'
    BY <1>7, OneMoves DEF CloseBroker, Ats
  <1>8. ASSUME NEW h \in Holders, CloseReturns(h)  PROVE OnePlace'
    BY <1>8, OneMoves DEF CloseReturns, Ats
  <1>9. CASE CloseCollects
    BY <1>9 DEF CloseCollects, CloseOrder
  <1>10. CASE CloseReleases
    <2>1. CASE left = {}
      BY <1>10, <2>1 DEF CloseReleases
    <2>2. ASSUME NEW c \in left, ReleaseLease(c), left' = left \ {c}  PROVE OnePlace'
      <3>1. leases = {} /\ leases' = {} /\ c \in Capabilities /\ native[c] = "held"
        BY <1>10, <2>2 DEF CloseReleases, CloseOrder, BrokerTypeOK
      <3>2. \A k \in Capabilities : native'[k] = IF k = c THEN "released" ELSE native[k]
        BY <1>0, <2>2, <3>1 DEF ReleaseLease
      <3>3. step' = step /\ Carried' = Carried
        BY <1>10 DEF CloseReleases
      <3>4. c \notin Carried
        BY <2>2
      <3> QED  BY <2>2, <3>1, <3>2, <3>3, <3>4
    <2> QED  BY <1>10, <2>1, <2>2 DEF CloseReleases
  <1> HIDE DEF OnePlace
  <1> QED
    BY <1>1, <1>2, <1>3, <1>4, <1>5, <1>6, <1>7, <1>8, <1>9, <1>10
    DEF BrokerNext, grantSidecarResource, releaseSidecarResource, Undo, ReleaseEnds

\* Every step keeps the order in which Close takes the broker down.
LEMMA CloseOrderStep ==
  ASSUME BrokerTypeOK, CloseOrder, BrokerNext
  PROVE  CloseOrder'
  <1> USE DEF CloseOrder, Busy, Is
  <1> NoCapability \in Capabilities \cup {NoCapability}  OBVIOUS
  <1>1. ASSUME NEW h \in Holders, beginGrant(h)  PROVE CloseOrder'
    BY <1>1, OneMoves DEF beginGrant, Ats
  <1>2. ASSUME NEW h \in Holders, Resolve(h)  PROVE CloseOrder'
    <2>1. PICK at \in {"granted", "resolved", "undo"}, of \in Capabilities \cup {NoCapability} :
            Move(h, at, of)
      BY <1>2 DEF Resolve
    <2> QED  BY <1>2, <2>1, OneMoves DEF Resolve, Ats
  <1>3. ASSUME NEW h \in Holders, Retain(h)  PROVE CloseOrder'
    <2>1. PICK at \in {"granted", "undo"} : Move(h, at, step[h].of)
      BY <1>3 DEF Retain, RetainLease
    <2>2. step[h].of \in Capabilities \cup {NoCapability}
      BY DEF BrokerTypeOK, Steps
    <2>3. shut \in {"open", "waiting"}
      BY <1>3 DEF Retain, BrokerTypeOK
    <2> QED  BY <1>3, <2>1, <2>2, <2>3, OneMoves DEF Retain, Ats
  <1>4. ASSUME NEW h \in Holders, Undo(h) \/ ReleaseEnds(h)  PROVE CloseOrder'
    BY <1>4, OneMoves DEF Undo, ReleaseEnds, Ats
  <1>5. ASSUME NEW h \in Holders, finishGrant(h)  PROVE CloseOrder'
    BY <1>5, OneMoves DEF finishGrant, Ats
  <1>6. ASSUME NEW h \in Holders, NEW c \in Capabilities, Release(h, c)  PROVE CloseOrder'
    BY <1>6, OneMoves DEF Release, Ats
  <1>7. ASSUME NEW h \in Holders, CloseBroker(h)  PROVE CloseOrder'
    BY <1>7, OneMoves DEF CloseBroker, Ats
  <1>8. ASSUME NEW h \in Holders, CloseReturns(h)  PROVE CloseOrder'
    BY <1>8, OneMoves DEF CloseReturns, Ats
  <1>9. CASE CloseCollects
    BY <1>9 DEF CloseCollects, CloseWaits
  <1>10. CASE CloseReleases
    BY <1>10 DEF CloseReleases
  <1> HIDE DEF CloseOrder
  <1> QED
    BY <1>1, <1>2, <1>3, <1>4, <1>5, <1>6, <1>7, <1>8, <1>9, <1>10
    DEF BrokerNext, grantSidecarResource, releaseSidecarResource
\* Every step keeps broker.pending the number of open grants, and leases and
\* reservations within the limit.
LEMMA CountsStep ==
  ASSUME BrokerAssumption, BrokerTypeOK, OnePlace, CloseOrder, CountsAgree, BrokerNext
  PROVE  CountsAgree'
  <1> NoCapability \in Capabilities \cup {NoCapability}  OBVIOUS
  <1>0. /\ IsFiniteSet(Granting) /\ pending = Cardinality(Granting)
        /\ IsFiniteSet(leases) /\ IsFiniteSet(left) /\ IsFiniteSet(Reserving)
        /\ Cardinality(leases) \in Nat /\ Cardinality(left) \in Nat
        /\ Cardinality(Reserving) \in Nat /\ Cardinality(Granting) \in Nat
        /\ Cardinality(Reserving) <= pending
        /\ Cardinality(leases) + Cardinality(left) + Cardinality(Reserving) <= MaxActiveGrants
        /\ MaxActiveGrants \in Nat
        /\ IsFiniteSet({}) /\ Cardinality({}) = 0
    BY ReservingFinite, FS_CardinalityType, FS_EmptySet DEF CountsAgree, BrokerAssumption
  <1>1. ASSUME NEW h \in Holders, beginGrant(h)  PROVE CountsAgree'
    <2>1. h \notin Granting /\ h \notin Reserving
      BY <1>1 DEF beginGrant, Granting, Reserving, Is
    <2>2. Granting' = Granting \cup {h} /\ Reserving' = Reserving \cup {h}
      BY <1>1, CountedSets DEF beginGrant, Ats
    <2>3. /\ IsFiniteSet(Granting') /\ Cardinality(Granting') = Cardinality(Granting) + 1
          /\ Cardinality(Reserving') = Cardinality(Reserving) + 1
      BY <1>0, <2>1, <2>2, FS_AddElement
    <2>4. left = {} /\ left' = left /\ leases' = leases /\ pending' = pending + 1
      BY <1>1 DEF beginGrant, CloseOrder
    <2>5. Cardinality(leases) + pending < MaxActiveGrants
      BY <1>1 DEF beginGrant, HasRoom
    <2> QED  BY <1>0, <2>3, <2>4, <2>5 DEF CountsAgree
  <1>2. ASSUME NEW h \in Holders, h \in Granting, h \in Reserving,
               NEW at \in {"granted", "resolved", "undo"},
               NEW of \in Capabilities \cup {NoCapability}, Move(h, at, of),
               UNCHANGED <<leases, left, pending>>
        PROVE  CountsAgree'
    <2>1. Granting' = Granting /\ (Reserving' = Reserving \/ Reserving' = Reserving \ {h})
      BY <1>2, CountedSets DEF Ats
    <2>2. Cardinality(Reserving') <= Cardinality(Reserving) /\ Cardinality(Reserving') \in Nat
      BY <1>0, <2>1, PartIsSmaller
    <2> QED  BY <1>0, <1>2, <2>1, <2>2 DEF CountsAgree
  <1>3. ASSUME NEW h \in Holders, Resolve(h)  PROVE CountsAgree'
    <2>1. h \in Granting /\ h \in Reserving
      BY <1>3 DEF Resolve, Granting, Reserving, Is
    <2>2. PICK at \in {"granted", "resolved", "undo"}, of \in Capabilities \cup {NoCapability} :
            Move(h, at, of)
      BY <1>3 DEF Resolve
    <2> QED  BY <1>2, <1>3, <2>1, <2>2 DEF Resolve
  <1>4. ASSUME NEW h \in Holders, Retain(h)  PROVE CountsAgree'
    <2>1. h \in Granting /\ h \in Reserving
      BY <1>4 DEF Retain, Granting, Reserving, Is
    <2>2. step[h].of \in Capabilities /\ step[h].of \notin leases
      BY <1>4 DEF Retain, OnePlace, Carries, Is
    <2>3. CASE shut # "open"
      BY <1>2, <1>4, <2>1, <2>2, <2>3 DEF Retain, RetainLease
    <2>4. CASE shut = "open"
      <3>1. Granting' = Granting /\ Reserving' = Reserving \ {h}
        BY <1>4, <2>1, <2>2, <2>4, CountedSets DEF Retain, RetainLease, Ats
      <3>2. Cardinality(Reserving') = Cardinality(Reserving) - 1
        BY <1>0, <2>1, <3>1, FS_RemoveElement
      <3>3. /\ leases' = leases \cup {step[h].of}
            /\ pending' = pending /\ left' = left
        BY <1>4, <2>4 DEF Retain, RetainLease
      <3>4. IsFiniteSet(leases') /\ Cardinality(leases') = Cardinality(leases) + 1
        BY <1>0, <2>2, <3>3, FS_AddElement
      <3> QED  BY <1>0, <3>1, <3>2, <3>3, <3>4 DEF CountsAgree
    <2> QED  BY <2>3, <2>4
  <1>5. ASSUME NEW h \in Holders, Undo(h)  PROVE CountsAgree'
    <2>1. h \in Granting /\ h \in Reserving
      BY <1>5 DEF Undo, Granting, Reserving, Is
    <2> QED  BY <1>2, <1>5, <2>1 DEF Undo
  <1>6. ASSUME NEW h \in Holders, finishGrant(h)  PROVE CountsAgree'
    <2>1. h \in Granting /\ h \notin Reserving
      BY <1>6 DEF finishGrant, Granting, Reserving, Is
    <2>2. Granting' = Granting \ {h} /\ Reserving' = Reserving
      BY <1>6, <2>1, CountedSets DEF finishGrant, Ats
    <2>3. IsFiniteSet(Granting') /\ Cardinality(Granting') = Cardinality(Granting) - 1
      BY <1>0, <2>1, <2>2, FS_RemoveElement
    <2> QED  BY <1>0, <1>6, <2>2, <2>3 DEF finishGrant, CountsAgree
  <1>7. ASSUME NEW h \in Holders, h \notin Granting,
               NEW at \in {"idle", "releasing", "closing", "returned"},
               NEW of \in Capabilities \cup {NoCapability}, Move(h, at, of),
               pending' = pending, left' = left,
               NEW c \in Capabilities, leases' \in {leases, leases \ {c}}
        PROVE  CountsAgree'
    <2>1. h \notin Reserving
      BY <1>7 DEF Granting, Reserving
    <2>2. Granting' = Granting /\ Reserving' = Reserving
      BY <1>7, <2>1, CountedSets DEF Ats
    <2>3. /\ IsFiniteSet(leases') /\ Cardinality(leases') \in Nat
          /\ Cardinality(leases') <= Cardinality(leases)
      BY <1>0, <1>7, PartIsSmaller
    <2> QED  BY <1>0, <1>7, <2>2, <2>3 DEF CountsAgree
  <1>8. ASSUME NEW h \in Holders, NEW c \in Capabilities, Release(h, c)  PROVE CountsAgree'
    <2>1. h \notin Granting
      BY <1>8 DEF Release, Granting, Is
    <2> QED  BY <1>7, <1>8, <2>1 DEF Release
  <1>9. ASSUME NEW h \in Holders, ReleaseEnds(h)  PROVE CountsAgree'
    <2>1. h \notin Granting /\ step[h].of \in Capabilities
      BY <1>9 DEF ReleaseEnds, Granting, Is, OnePlace, Carries
    <2> QED  BY <1>7, <1>9, <2>1 DEF ReleaseEnds
  <1>10. ASSUME NEW h \in Holders, NEW at \in {"closing", "returned"},
                h \notin Granting, Move(h, at, NoCapability), UNCHANGED <<leases, pending, left>>
         PROVE  CountsAgree'
    <2>1. h \notin Reserving
      BY <1>10 DEF Granting, Reserving
    <2>2. Granting' = Granting /\ Reserving' = Reserving
      BY <1>10, <2>1, CountedSets DEF Ats
    <2> QED  BY <1>0, <1>10, <2>2 DEF CountsAgree
  <1>11. ASSUME NEW h \in Holders, CloseBroker(h) \/ CloseReturns(h)  PROVE CountsAgree'
    <2>1. h \notin Granting
      BY <1>11 DEF CloseBroker, CloseReturns, Granting, Is
    <2> QED  BY <1>10, <1>11, <2>1 DEF CloseBroker, CloseReturns
  <1>12. CASE CloseCollects
    <2>1. Granting' = Granting /\ Reserving' = Reserving
      BY <1>12 DEF CloseCollects, Granting, Reserving
    <2>2. left = {}
      BY <1>12 DEF CloseCollects, CloseOrder
    <2> QED  BY <1>0, <1>12, <2>1, <2>2 DEF CloseCollects, CountsAgree
  <1>13. CASE CloseReleases
    <2>1. Granting' = Granting /\ Reserving' = Reserving
      BY <1>13 DEF CloseReleases, Granting, Reserving
    <2>2. left' = left \/ \E c \in left : left' = left \ {c}
      BY <1>13 DEF CloseReleases
    <2>3. /\ IsFiniteSet(left') /\ Cardinality(left') \in Nat
          /\ Cardinality(left') <= Cardinality(left)
      BY <1>0, <2>2, PartIsSmaller
    <2> QED  BY <1>0, <1>13, <2>1, <2>3 DEF CloseReleases, CountsAgree
  <1> QED
    BY <1>1, <1>3, <1>4, <1>5, <1>6, <1>8, <1>9, <1>11, <1>12, <1>13
    DEF BrokerNext, grantSidecarResource, releaseSidecarResource

-----------------------------------------------------------------------------
\* The inductive invariant of the broker: one place per held lease, the order of
\* Close, and the counters, after any calls of any threads.
THEOREM BrokerInvariant ==
  ASSUME BrokerAssumption
  PROVE  BrokerSpec => []BrokerIInv
  <1>1. BrokerInit => BrokerIInv
    <2> SUFFICES ASSUME BrokerInit  PROVE BrokerIInv
      OBVIOUS
    <2>1. Granting = {} /\ Reserving = {} /\ Carried = {} /\ Busy = {}
      BY DEF BrokerInit, Rest, Granting, Reserving, Carried, Carries, Busy
    <2>2. IsFiniteSet({}) /\ Cardinality({}) = 0
      BY FS_EmptySet
    <2>3. BrokerTypeOK
      BY DEF BrokerInit, BrokerTypeOK, Rest, Steps, Ats
    <2>4. OnePlace
      BY <2>1 DEF BrokerInit, OnePlace, Carries, Rest
    <2>5. CloseOrder
      BY <2>1 DEF BrokerInit, CloseOrder, Rest, Is
    <2>6. CountsAgree
      BY <2>1, <2>2 DEF BrokerInit, CountsAgree, BrokerAssumption
    <2> QED  BY <2>3, <2>4, <2>5, <2>6 DEF BrokerIInv
  <1>2. BrokerIInv /\ [BrokerNext]_brokerVars => BrokerIInv'
    <2> SUFFICES ASSUME BrokerIInv, [BrokerNext]_brokerVars  PROVE BrokerIInv'
      OBVIOUS
    <2>1. CASE BrokerNext
      BY <2>1, BrokerTypeStep, OnePlaceStep, CloseOrderStep, CountsStep DEF BrokerIInv
    <2>2. CASE UNCHANGED brokerVars
      BY <2>2 DEF brokerVars, BrokerIInv, BrokerTypeOK, OnePlace, CloseOrder, CountsAgree,
                  Granting, Reserving, Carried, Carries, Busy, Is
    <2> QED  BY <2>1, <2>2
  <1> QED  BY <1>1, <1>2, PTL DEF BrokerSpec

\* What is held or reserved, seen from the leases themselves: Resolve can obtain no
\* more of them than there are callers in a grant.
LEMMA HeldWithinLimit ==
  ASSUME BrokerAssumption, BrokerIInv
  PROVE  WithinGrantLimit
  <1> DEFINE Counted == {c \in Capabilities : native[c] = "held"
                           /\ ~ \E h \in Holders : Is(h, "releasing") /\ step[h].of = c}
             Owners == {h \in Holders : step[h].at \in {"resolved", "undo"}}
             Owned == {step[h].of : h \in Owners}
             f == [h \in Owners |-> step[h].of]
  <1>1. Counted \in SUBSET (leases \cup left \cup Owned)
    BY DEF BrokerIInv, OnePlace, Carried, Carries, Is
  <1>2. /\ IsFiniteSet(leases) /\ IsFiniteSet(left) /\ IsFiniteSet(Reserving)
        /\ Cardinality(leases) + Cardinality(left) + Cardinality(Reserving) <= MaxActiveGrants
        /\ Cardinality(leases) \in Nat /\ Cardinality(left) \in Nat
        /\ Cardinality(Reserving) \in Nat /\ MaxActiveGrants \in Nat
    BY ReservingFinite, FS_CardinalityType DEF BrokerIInv, CountsAgree, BrokerAssumption
  <1>3. IsFiniteSet(Owners) /\ Cardinality(Owners) <= Cardinality(Reserving)
    <2>1. Owners \in SUBSET Reserving
      BY DEF Reserving
    <2> QED  BY <1>2, <2>1, FS_Subset
  <1>4. f \in Surjection(Owners, Owned)
    BY DEF Surjection
  <1>5. /\ IsFiniteSet(Owned) /\ Cardinality(Owned) <= Cardinality(Owners)
        /\ Cardinality(Owned) \in Nat /\ Cardinality(Owners) \in Nat
    <2> HIDE DEF Owned, Owners, f
    <2> QED  BY <1>3, <1>4, FS_Surjection, FS_CardinalityType
  <1> HIDE DEF Owned, Owners, f, Counted
  <1>6. /\ IsFiniteSet(leases \cup left)
        /\ Cardinality(leases \cup left) <= Cardinality(leases) + Cardinality(left)
        /\ Cardinality(leases \cup left) \in Nat
    BY <1>2, UnionIsBounded
  <1>7. /\ IsFiniteSet(leases \cup left \cup Owned)
        /\ Cardinality(leases \cup left \cup Owned)
             <= Cardinality(leases \cup left) + Cardinality(Owned)
        /\ Cardinality(leases \cup left \cup Owned) \in Nat
    BY <1>5, <1>6, UnionIsBounded
  <1>8. Cardinality(Counted) \in Nat /\ Cardinality(Counted) <= Cardinality(leases \cup left \cup Owned)
    BY <1>1, <1>7, PartIsSmaller
  <1> QED  BY <1>2, <1>3, <1>5, <1>6, <1>7, <1>8 DEF WithinGrantLimit, Counted

\* Authority over a resource is given back exactly once and never exceeds the limit,
\* however grants, releases and Close interleave.
THEOREM GrantsCorrect ==
  ASSUME BrokerAssumption
  PROVE  BrokerSpec => []GrantsAccountedFor
  <1>1. BrokerIInv => AuthorityReturned
    <2> SUFFICES ASSUME BrokerIInv  PROVE AuthorityReturned
      OBVIOUS
    <2>1. \A c \in leases : native[c] = "held"
      BY DEF BrokerIInv, BrokerTypeOK, OnePlace
    <2>2. \A c \in Capabilities : native[c] # "twice"
      BY DEF BrokerIInv, OnePlace
    <2>3. ASSUME NEW h \in Holders, Is(h, "returned"), NEW c \in Capabilities
          PROVE  native[c] # "held"
      <3>1. shut = "closed" /\ leases = {} /\ left = {} /\ Busy = {}
        BY <2>3 DEF BrokerIInv, CloseOrder
      <3>2. Carried = {}
        BY <3>1 DEF Busy, Carried, Carries
      <3> QED  BY <3>1, <3>2 DEF BrokerIInv, OnePlace
    <2> QED  BY <2>1, <2>2, <2>3 DEF AuthorityReturned
  <1>2. BrokerIInv => GrantsAccountedFor
    BY <1>1, HeldWithinLimit DEF GrantsAccountedFor
  <1> QED  BY <1>2, BrokerInvariant, PTL

\* A set of natural numbers that is not empty has a least member.
LEMMA Least ==
  ASSUME NEW S \in SUBSET Nat, S # {}
  PROVE  \E m \in S : \A n \in S : m <= n
<1>1. IsWellFoundedOn({ss \in Nat \X Nat : ss[1] < ss[2]}, Nat)
  BY NatLessThanWellFounded DEF OpToRel
<1>2. PICK R : R = {ss \in Nat \X Nat : ss[1] < ss[2]} /\ IsWellFoundedOn(R, Nat)
  BY <1>1
<1>3. PICK m \in S : \A n \in S : ~(<<n, m>> \in R)
  BY <1>2, WFMin
<1>4. \A n \in S : ~(n < m)
  <2>1. \A n \in Nat, k \in Nat : n < k => <<n, k>> \in R
    BY <1>2
  <2>2. QED
    BY <1>3, <2>1
<1>5. QED
  BY <1>4

\* Min of a set of natural numbers is its least member.
LEMMA MinOfNat ==
  ASSUME NEW S \in SUBSET Nat, S # {}
  PROVE  Min(S) \in S /\ \A n \in S : Min(S) <= n
BY Least DEF Min

(***************************************************************************)
(* RateLimiter: what a key was granted, against what its bucket holds.     *)
(***************************************************************************)
LimiterSpec == LimiterInit /\ [][LimiterNext]_limiterVars

TokenBuckets == [tokens : 0 .. Full, last : Nat]
Promises == [at : Nat, again : BOOLEAN]
\* The most that a tick can refill.
Most == Rate + Error
LimiterTypeOK ==
  /\ time \in Nat
  /\ buckets \in [Keys -> SUBSET TokenBuckets]
  /\ \A k \in Keys : \A a, b \in buckets[k] : a = b
  /\ asking \in [Clients -> SUBSET [key : Keys, now : Nat]]
  /\ grants \in [Keys -> Seq(Nat)]
  /\ promised \in [Keys -> SUBSET Promises]
  /\ broken \in BOOLEAN /\ overtaken \in BOOLEAN

\* The limiter's table has no more than MaxKeys buckets.
TableBounded == IsFiniteSet(Bucketed) /\ Cardinality(Bucketed) <= MaxKeys

\* The requests granted since the i-th one, and the tokens left, were all refilled
\* since, or in the burst.
Covers(b, g) ==
  \A i \in 1 .. Len(g) : (Len(g) - i + 1) * Token + b.tokens <= Full + (b.last - g[i]) * Most
\* The requests granted since the i-th one would have been refilled by p.
Recovered(p, g) == \A i \in 1 .. Len(g) : (Len(g) - i + 1) * Token <= (p - g[i]) * Most
\* Calls can only get a bucket at p or later.
NotBefore(p) ==
  \/ \E j \in Keys : \E b \in buckets[j] : b.last >= p
  \/ Cardinality(Bucketed) >= MaxKeys /\ \A j \in Keys : \A b \in buckets[j] : b.last > p - Window
Covered(k) ==
  /\ \A b \in buckets[k] : Covers(b, grants[k])
  /\ buckets[k] = {} => grants[k] = <<>> \/ \E p \in Nat : Recovered(p, grants[k]) /\ NotBefore(p)

\* A client that comes back when promised finds a token up to the error of a refill, or
\* a whole one if it was on time before, or room for its bucket.
Honest(k, p) ==
  \/ \E b \in buckets[k] :
       b.last < p.at /\ b.tokens + (p.at - b.last) * Rate >= IF p.again THEN Token + Error ELSE Token - Error
  \/ buckets[k] = {} /\ \E j \in Keys : \E b \in buckets[j] : b.last + Window <= p.at

LimiterIInv ==
  /\ LimiterTypeOK /\ TableBounded
  /\ ~ overtaken =>
       /\ \A k \in Keys : Covered(k)
       /\ \A k \in Keys : \A p \in promised[k] : Honest(k, p)
       /\ BudgetKept
       /\ ~ broken

\* Products of the quantities of a bucket.
LEMMA LimiterNumbers ==
  /\ Requests \in Nat \ {0} /\ Window \in Nat \ {0} /\ MaxKeys \in Nat \ {0}
  /\ Token \in Nat \ {0} /\ Rate \in Nat \ {0} /\ Error \in Nat /\ 3 * Error <= Rate
  /\ Most \in Nat \ {0} /\ Most = Rate + Error
  /\ Full \in Nat /\ Full >= Token /\ Full <= Window * Most
<1>1. /\ Requests \in Nat \ {0} /\ Window \in Nat \ {0} /\ MaxKeys \in Nat \ {0} /\ Grain \in Nat \ {0}
      /\ Error \in Nat /\ 3 * Error <= Rate
  BY LimiterAssumption DEF Rate
<1>2. \A r \in Nat \ {0}, q \in Nat \ {0} : r * q \in Nat \ {0} /\ r * q >= q
  OBVIOUS
<1>3. Token \in Nat \ {0} /\ Rate \in Nat \ {0}
  BY <1>1, <1>2 DEF Token, Rate
<1>4. Full \in Nat /\ Full >= Token
  BY <1>1, <1>2, <1>3 DEF Full
<1>5. \A r, q, g \in Nat : r * (q * g) = q * (r * g)
  OBVIOUS
<1>6. Full = Window * Rate
  BY <1>1, <1>5 DEF Full, Token, Rate
<1>7. \A q \in Nat, g, h \in Nat : g <= h => q * g <= q * h
  OBVIOUS
<1>8. Most \in Nat \ {0} /\ Most = Rate + Error /\ Rate <= Most
  BY <1>1, <1>3 DEF Most
<1>9. Window * Rate <= Window * Most
  BY <1>1, <1>3, <1>7, <1>8
<1>10. QED
  BY <1>1, <1>3, <1>4, <1>6, <1>8, <1>9

\* More time means more tokens.
LEMMA MoreTime ==
  ASSUME NEW a \in Int, NEW b \in Int, NEW r \in Nat, a <= b
  PROVE  a * r <= b * r
OBVIOUS

\* Time in two parts refills what its parts refill.
LEMMA Split ==
  ASSUME NEW a \in Int, NEW b \in Int, NEW d \in Int, NEW r \in Nat
  PROVE  (a - b) * r + (b - d) * r = (a - d) * r /\ (a - b) * r \in Int
OBVIOUS

\* One more request costs one more window.
LEMMA OneMore ==
  ASSUME NEW n \in Int, NEW w \in Int
  PROVE  (n + 1) * w = n * w + w /\ n * w \in Int
OBVIOUS

\* Rounded up, a wait is long enough, and a tick if that will do.
LEMMA RoundedUp ==
  ASSUME NEW n \in Int, NEW d \in Nat \ {0}
  PROVE  Ceil(n, d) \in Int /\ Ceil(n, d) * d >= n /\ (n <= d => Ceil(n, d) <= 1)
<1>1. PICK q : q = (n + d - 1) \div d
  OBVIOUS
<1>2. n + d - 1 \in Int
  OBVIOUS
<1>3. q \in Int /\ n + d - 1 = d * q + ((n + d - 1) % d) /\ (n + d - 1) % d \in 0 .. d - 1
  BY <1>1, <1>2
<1>4. PICK m : m = (n + d - 1) % d
  OBVIOUS
<1>5. q * d = n + d - 1 - m /\ m <= d - 1 /\ m \in Nat
  BY <1>3, <1>4
<1>6. ASSUME n <= d PROVE q <= 1
  <2>1. q * d < 2 * d
    BY <1>3, <1>5, <1>6
  <2>2. q >= 2 => q * d >= 2 * d
    BY <1>3
  <2>3. QED
    BY <1>3, <2>1, <2>2
<1>7. QED
  BY <1>1, <1>3, <1>5, <1>6 DEF Ceil

\* The larger of two integers.
LEMMA MaxOfTwo ==
  ASSUME NEW x \in Int, NEW y \in Int
  PROVE  Max({x, y}) \in {x, y} /\ Max({x, y}) >= x /\ Max({x, y}) >= y
<1>1. \E m \in {x, y} : \A n \in {x, y} : m >= n
  <2>1. CASE x >= y
    BY <2>1
  <2>2. CASE ~(x >= y)
    BY <2>2
  <2>3. QED
    BY <2>1, <2>2
<1>2. QED
  BY <1>1 DEF Max

\* The wait that a client is told: long enough up to the error, and a single tick when
\* it misses no more of a token than two errors.
LEMMA RetryAfterIs ==
  ASSUME NEW u \in Nat, NEW x \in retryAfter(u)
  PROVE  x \in Nat \ {0} /\ u + x * Rate >= Token - Error /\ (u >= Token - 2 * Error => x = 1)
<1>1. PICK y \in Rounded(Token - u) : x = Max({1, Ceil(y, Rate)})
  BY DEF retryAfter
<1>2. y \in Int /\ y >= Token - u - Error /\ y <= Token - u + Error
  BY LimiterNumbers DEF Rounded
<1>3. PICK c \in Int : c = Ceil(y, Rate) /\ c * Rate >= y /\ (y <= Rate => c <= 1)
  BY <1>2, RoundedUp, LimiterNumbers
<1>4. x \in {1, c} /\ x >= 1 /\ x >= c
  <2>1. x = Max({1, c}) /\ 1 \in Int
    BY <1>1, <1>3
  <2>2. QED
    BY <2>1, MaxOfTwo
<1>5. x \in Nat \ {0}
  BY <1>3, <1>4
<1>6. c * Rate <= x * Rate /\ x * Rate \in Int /\ c * Rate \in Int
  BY <1>3, <1>4, <1>5, MoreTime, LimiterNumbers
<1>7. u + x * Rate >= Token - Error
  BY <1>2, <1>3, <1>6, LimiterNumbers
<1>8. ASSUME u >= Token - 2 * Error PROVE x = 1
  <2>1. y <= Rate
    BY <1>2, <1>8, LimiterNumbers
  <2>2. QED
    BY <1>3, <1>4, <2>1
<1>9. QED
  BY <1>5, <1>7, <1>8

\* A refill stays within the burst, and adds what the time since the last one is worth,
\* up to the error.
LEMMA RefilledTokens ==
  ASSUME NEW b \in TokenBuckets, NEW now \in Nat, NEW u \in Refilled(b, now)
  PROVE  /\ u \in 0 .. Full
         /\ b.last <= now => u <= b.tokens + (now - b.last) * Most
         /\ b.last < now => u = Full \/ u >= b.tokens + (now - b.last) * Rate - Error
<1>1. b.tokens \in 0 .. Full /\ b.last \in Nat /\ b.tokens \in Nat
  BY LimiterNumbers DEF TokenBuckets
<1>2. CASE now <= b.last
  <2>1. u = b.tokens
    BY <1>2 DEF Refilled
  <2>2. b.last <= now => now - b.last = 0
    BY <1>1, <1>2
  <2>3. QED
    BY <1>1, <1>2, <2>1, <2>2, LimiterNumbers
<1>3. CASE ~(now <= b.last)
  <2>1. PICK t \in Nat : t = now - b.last /\ t >= 1
    BY <1>1, <1>3
  <2>2. PICK x \in Rounded(b.tokens + t * Rate) : u = Min({Full, x})
    BY <1>3, <2>1 DEF Refilled
  <2>3. t * Rate \in Nat /\ t * Rate >= Rate /\ t * Most \in Nat /\ t * Most >= t * Rate + Error
    <3>1. \A n, q, e \in Nat : n >= 1 => n * q \in Nat /\ n * q >= q /\ n * (q + e) \in Nat /\ n * (q + e) >= n * q + e
      OBVIOUS
    <3>2. QED
      BY <2>1, <3>1, LimiterNumbers
  <2>4. x \in Int /\ x >= b.tokens + t * Rate - Error /\ x <= b.tokens + t * Rate + Error
    BY <1>1, <2>2, <2>3, LimiterNumbers DEF Rounded
  <2>5. x \in Nat
    BY <1>1, <2>3, <2>4, LimiterNumbers
  <2>6. u \in {Full, x} /\ u <= Full /\ u <= x
    BY <2>2, <2>5, MinOfNat, LimiterNumbers
  <2>7. u \in 0 .. Full
    BY <2>5, <2>6, LimiterNumbers
  <2>8. u <= b.tokens + t * Most
    BY <1>1, <2>3, <2>4, <2>5, <2>6, LimiterNumbers
  <2>9. u = Full \/ u >= b.tokens + t * Rate - Error
    BY <2>4, <2>6
  <2>10. QED
    BY <2>1, <2>7, <2>8, <2>9
<1>4. QED
  BY <1>2, <1>3

\* A key has one bucket at most.
LEMMA BucketIs ==
  ASSUME LimiterTypeOK, NEW k \in Keys, NEW b \in buckets[k]
  PROVE  Bucket(k) = b /\ buckets[k] = {b} /\ b \in TokenBuckets
BY DEF LimiterTypeOK, Bucket

\* What Allow does, in four cases: the key has a bucket (b) or gets one, and the
\* request is granted or refused.
Granted(k, now) ==
  /\ grants' = [grants EXCEPT ![k] = Append(@, now)]
  /\ promised' = [j \in Keys |-> {}]
  /\ broken' \in BOOLEAN /\ (broken' => broken)
Refused(k, now, wait) ==
  /\ grants' = grants
  /\ promised' = [j \in Keys |-> IF j = k THEN {[at |-> now + wait, again |-> Due(k, now) # {}]} ELSE {}]
  /\ broken' \in BOOLEAN /\ (broken' => broken \/ \E p \in Due(k, now) : p.again \/ wait > 1)
Keeps(k, now, n) == buckets' = [buckets EXCEPT ![k] = {[tokens |-> n, last |-> now]}]
Remaining(now) == {j \in Keys : pruneFullBuckets(now)[j] # {}}
GrantsFrom(k, now, u) == u >= Token /\ Keeps(k, now, u - Token) /\ Granted(k, now)
RefusesFrom(k, now, u, x) == u < Token /\ Keeps(k, now, u) /\ Refused(k, now, x)
GrantsNew(k, now) ==
  /\ buckets[k] = {} /\ Cardinality(Remaining(now)) < MaxKeys
  /\ buckets' = [pruneFullBuckets(now) EXCEPT ![k] = {[tokens |-> Full - Token, last |-> now]}]
  /\ Granted(k, now)
RefusesNew(k, now) ==
  /\ buckets[k] = {} /\ Cardinality(Remaining(now)) >= MaxKeys
  /\ buckets' = pruneFullBuckets(now)
  /\ Refused(k, now, capacityDecision(now))
AnswersFrom(k, now, u) == GrantsFrom(k, now, u) \/ \E x \in retryAfter(u) : RefusesFrom(k, now, u, x)
Answers(k, now) ==
  \/ \E b \in buckets[k] : \E u \in Refilled(b, now) : AnswersFrom(k, now, u)
  \/ GrantsNew(k, now) \/ RefusesNew(k, now)

\* Pruning only removes buckets.
LEMMA RemainingFinite ==
  ASSUME LimiterTypeOK, TableBounded, NEW now \in Nat
  PROVE  /\ IsFiniteSet(Remaining(now)) /\ Remaining(now) \subseteq Bucketed
         /\ Cardinality(Remaining(now)) \in Nat /\ Cardinality(Remaining(now)) <= Cardinality(Bucketed)
<1>1. Remaining(now) \subseteq Bucketed
  BY DEF Remaining, Bucketed, pruneFullBuckets, LimiterTypeOK
<1>2. QED
  BY <1>1, FS_Subset, FS_CardinalityType DEF TableBounded

\* Allow grants or refuses, from a bucket of the table or from a new one.
LEMMA AllowAnswers ==
  ASSUME LimiterTypeOK, TableBounded, NEW c \in Clients, Allow(c)
  PROVE  /\ UNCHANGED time /\ asking' = [asking EXCEPT ![c] = {}]
         /\ overtaken' \in BOOLEAN
         /\ \E k \in Keys, now \in Nat :
              /\ Answers(k, now)
              /\ ~ overtaken' => ~ overtaken /\ \A j \in Keys : \A b \in buckets[j] : b.last <= now
<1>1. PICK q \in asking[c] : \E d \in Decisions(q.key, q.now) :
        /\ buckets' = d.table
        /\ grants' = [grants EXCEPT ![q.key] = IF d.allowed THEN Append(@, q.now) ELSE @]
        /\ broken' = (broken \/ (~ d.allowed /\ \E p \in Due(q.key, q.now) : p.again \/ d.wait > 1))
        /\ promised' = [j \in Keys |-> IF j = q.key /\ ~ d.allowed
                                       THEN {[at |-> q.now + d.wait, again |-> Due(q.key, q.now) # {}]} ELSE {}]
        /\ overtaken' = (overtaken \/ \E j \in Bucketed : Bucket(j).last > q.now)
  BY Zenon DEF Allow
<1> DEFINE k == q.key
           now == q.now
<1>2. k \in Keys /\ now \in Nat
  BY DEF LimiterTypeOK
<1>3. \E d \in Decisions(k, now) :
        /\ buckets' = d.table
        /\ grants' = [grants EXCEPT ![k] = IF d.allowed THEN Append(@, now) ELSE @]
        /\ broken' = (broken \/ (~ d.allowed /\ \E p \in Due(k, now) : p.again \/ d.wait > 1))
        /\ promised' = [j \in Keys |-> IF j = k /\ ~ d.allowed
                                       THEN {[at |-> now + d.wait, again |-> Due(k, now) # {}]} ELSE {}]
        /\ overtaken' = (overtaken \/ \E j \in Bucketed : Bucket(j).last > now)
  BY <1>1, Zenon
<1> HIDE DEF k, now
<1>4. PICK d \in Decisions(k, now) :
        /\ buckets' = d.table
        /\ grants' = [grants EXCEPT ![k] = IF d.allowed THEN Append(@, now) ELSE @]
        /\ broken' = (broken \/ (~ d.allowed /\ \E p \in Due(k, now) : p.again \/ d.wait > 1))
        /\ promised' = [j \in Keys |-> IF j = k /\ ~ d.allowed
                                       THEN {[at |-> now + d.wait, again |-> Due(k, now) # {}]} ELSE {}]
        /\ overtaken' = (overtaken \/ \E j \in Bucketed : Bucket(j).last > now)
  BY <1>3, Zenon
<1>5. UNCHANGED time /\ asking' = [asking EXCEPT ![c] = {}]
  BY DEF Allow
<1>6. overtaken' \in BOOLEAN
  BY <1>4, Zenon
<1>7. ASSUME ~ overtaken' PROVE ~ overtaken /\ \A j \in Keys : \A b \in buckets[j] : b.last <= now
  <2>1. ~ overtaken /\ ~ \E j \in Bucketed : Bucket(j).last > now
    BY <1>4, <1>7, Zenon
  <2>2. SUFFICES ASSUME NEW j \in Keys, NEW b \in buckets[j] PROVE b.last <= now
    BY <2>1, Zenon
  <2>3. j \in Bucketed /\ Bucket(j) = b /\ b \in TokenBuckets
    BY BucketIs DEF Bucketed
  <2>4. ~(b.last > now) /\ b.last \in Nat
    BY <2>1, <2>3 DEF TokenBuckets
  <2>5. QED
    BY <1>2, <2>4
<1>8. ASSUME d.allowed = TRUE PROVE Granted(k, now)
  <2>1. grants' = [grants EXCEPT ![k] = Append(@, now)]
    BY <1>4, <1>8
  <2>2. promised' = [j \in Keys |-> {}]
    BY <1>4, <1>8
  <2>3. broken' \in BOOLEAN /\ (broken' => broken)
    BY <1>4, <1>8, Zenon
  <2>4. QED
    BY <2>1, <2>2, <2>3, Zenon DEF Granted
<1>9. ASSUME d.allowed = FALSE PROVE Refused(k, now, d.wait)
  <2>1. grants' = grants
    BY <1>4, <1>9 DEF LimiterTypeOK
  <2>2. promised' = [j \in Keys |-> IF j = k THEN {[at |-> now + d.wait, again |-> Due(k, now) # {}]} ELSE {}]
    BY <1>4, <1>9
  <2>3. broken' \in BOOLEAN /\ (broken' => broken \/ \E p \in Due(k, now) : p.again \/ d.wait > 1)
    BY <1>4, <1>9, Zenon
  <2>4. QED
    BY <2>1, <2>2, <2>3, Zenon DEF Refused
<1>10. Answers(k, now)
  <2>1. ASSUME NEW b \in buckets[k] PROVE \E u \in Refilled(b, now) : AnswersFrom(k, now, u)
    <3>1. buckets[k] # {} /\ Bucket(k) = b /\ b \in TokenBuckets
      BY <1>2, BucketIs, <2>1
    <3>2. PICK u \in Refilled(b, now) :
            d \in IF u >= Token
                  THEN {[allowed |-> TRUE, wait |-> 0, table |-> [buckets EXCEPT ![k] = {[tokens |-> u - Token, last |-> now]}]]}
                  ELSE {[allowed |-> FALSE, wait |-> x, table |-> [buckets EXCEPT ![k] = {[tokens |-> u, last |-> now]}]] :
                          x \in retryAfter(u)}
      BY <3>1 DEF Decisions
    <3>3. u \in 0 .. Full
      BY <1>2, <3>1, <3>2, RefilledTokens
    <3>4. CASE u >= Token
      <4>1. d = [allowed |-> TRUE, wait |-> 0, table |-> [buckets EXCEPT ![k] = {[tokens |-> u - Token, last |-> now]}]]
        BY <3>2, <3>4
      <4>2. GrantsFrom(k, now, u)
        BY <4>1, <1>4, <1>8, <3>4 DEF GrantsFrom, Keeps
      <4>3. QED
        BY <3>2, <4>2 DEF AnswersFrom
    <3>5. CASE ~(u >= Token)
      <4>1. PICK x \in retryAfter(u) :
              d = [allowed |-> FALSE, wait |-> x, table |-> [buckets EXCEPT ![k] = {[tokens |-> u, last |-> now]}]]
        BY <3>2, <3>5
      <4>2. d.allowed = FALSE /\ d.wait = x /\ d.table = [buckets EXCEPT ![k] = {[tokens |-> u, last |-> now]}]
        BY <4>1
      <4>3. u < Token /\ Keeps(k, now, u) /\ Refused(k, now, x)
        <5>1. u < Token
          BY <3>3, <3>5, LimiterNumbers
        <5>2. Keeps(k, now, u)
          BY <1>4, <4>2 DEF Keeps
        <5>3. Refused(k, now, x)
          BY <1>9, <4>2
        <5>4. QED
          BY <5>1, <5>2, <5>3
      <4>4. QED
        BY <3>2, <4>1, <4>3 DEF AnswersFrom, RefusesFrom
    <3>6. QED
      BY <3>4, <3>5
  <2>2. ASSUME buckets[k] = {} PROVE GrantsNew(k, now) \/ RefusesNew(k, now)
    <3>1. PICK n \in Nat : n = Cardinality(Remaining(now))
      BY <1>2, RemainingFinite
    <3>2. CASE n >= MaxKeys
      <4>1. d = [allowed |-> FALSE, wait |-> capacityDecision(now), table |-> pruneFullBuckets(now)]
        BY <2>2, <3>1, <3>2 DEF Decisions, Remaining
      <4>2. QED
        BY <4>1, <1>4, <1>9, <2>2, <3>1, <3>2 DEF RefusesNew
    <3>3. CASE ~(n >= MaxKeys)
      <4>1. d = [allowed |-> TRUE, wait |-> 0, table |-> [pruneFullBuckets(now) EXCEPT ![k] = {[tokens |-> Full - Token, last |-> now]}]]
        <5>1. ~(Cardinality({j \in Keys : pruneFullBuckets(now)[j] # {}}) >= MaxKeys)
          BY <3>1, <3>3 DEF Remaining
        <5>2. Full >= Token
          BY LimiterNumbers
        <5>3. QED
          BY <2>2, <5>1, <5>2 DEF Decisions
      <4>2. n < MaxKeys
        BY <3>3, LimiterNumbers
      <4>3. QED
        BY <4>1, <4>2, <1>4, <1>8, <2>2, <3>1 DEF GrantsNew
    <3>4. QED
      BY <3>2, <3>3
  <2>3. QED
    BY <2>1, <2>2 DEF Answers
<1>11. QED
  BY <1>2, <1>5, <1>6, <1>7, <1>10

\* The arithmetic of a bucket: time passes, a token is spent, a bucket that rested
\* for a window has recovered what it granted, and a new one starts with a burst.
Holding(n, now) == [tokens |-> n, last |-> now]

\* A bucket refilled by the code still covers the grants.
LEMMA CoversLater ==
  ASSUME NEW g \in Seq(Nat), NEW b \in TokenBuckets, Covers(b, g), NEW now \in Nat, b.last <= now,
         NEW u \in Nat, u <= b.tokens + (now - b.last) * Most
  PROVE  Covers(Holding(u, now), g)
<1>1. SUFFICES ASSUME NEW i \in 1 .. Len(g)
               PROVE  (Len(g) - i + 1) * Token + u <= Full + (now - g[i]) * Most
  BY DEF Covers, Holding
<1>2. PICK t \in Nat, l \in Nat, h \in Nat, x \in Int :
        t = b.tokens /\ l = b.last /\ h = g[i] /\ x = (Len(g) - i + 1) * Token
  <2>1. (Len(g) - i + 1) * Token \in Int
    BY LimiterNumbers
  <2>2. b.tokens \in Nat /\ b.last \in Nat /\ g[i] \in Nat
    BY DEF TokenBuckets
  <2>3. QED
    BY <2>1, <2>2
<1>3. x + t <= Full + (l - h) * Most
  BY <1>2 DEF Covers
<1>4. (now - l) * Most + (l - h) * Most = (now - h) * Most
  BY Split, LimiterNumbers
<1>5. u <= t + (now - l) * Most
  BY <1>2
<1>6. PICK y \in Int, z \in Int, e \in Int :
        y = (now - l) * Most /\ z = (l - h) * Most /\ e = (now - h) * Most
  BY Split, LimiterNumbers
<1>7. x + u <= Full + e
  BY <1>3, <1>4, <1>5, <1>6, LimiterNumbers
<1>8. QED
  BY <1>2, <1>6, <1>7

\* It covers one more grant when that request has paid for itself.
LEMMA CoversSpent ==
  ASSUME NEW g \in Seq(Nat), NEW now \in Nat, NEW u \in Nat, Token <= u, u <= Full,
         Covers(Holding(u, now), g)
  PROVE  Covers(Holding(u - Token, now), Append(g, now))
<1>1. PICK s : s = Append(g, now)
  OBVIOUS
<1>2. Len(s) = Len(g) + 1 /\ Len(g) \in Nat /\ s[Len(g) + 1] = now /\ \A i \in 1 .. Len(g) : s[i] = g[i]
  BY <1>1
<1>3. SUFFICES ASSUME NEW i \in 1 .. Len(s)
               PROVE  (Len(s) - i + 1) * Token + (u - Token) <= Full + (now - s[i]) * Most
  BY <1>1 DEF Covers, Holding
<1>4. CASE i = Len(g) + 1
  <2>1. Len(s) - i + 1 = 1 /\ now - s[i] = 0
    BY <1>2, <1>4
  <2>2. (Len(s) - i + 1) * Token = Token /\ (now - s[i]) * Most = 0
    BY <2>1, LimiterNumbers
  <2>3. QED
    BY <2>2, LimiterNumbers
<1>5. CASE i \in 1 .. Len(g)
  <2>1. (Len(g) - i + 1) * Token + u <= Full + (now - g[i]) * Most
    BY <1>5 DEF Covers, Holding
  <2>2. PICK n \in Int : n = Len(g) - i + 1
    BY <1>2
  <2>3. Len(s) - i + 1 = n + 1
    BY <1>2, <2>2
  <2>4. (n + 1) * Token = n * Token + Token /\ n * Token \in Int
    BY OneMore, LimiterNumbers
  <2>5. PICK y \in Int : y = (now - g[i]) * Most
    <3>1. g[i] \in Nat
      BY <1>5
    <3>2. QED
      BY <3>1, LimiterNumbers
  <2>6. s[i] = g[i]
    BY <1>2, <1>5
  <2>7. n * Token + u <= Full + y
    BY <2>1, <2>2, <2>5
  <2>8. (n + 1) * Token + (u - Token) <= Full + y
    BY <2>4, <2>7, LimiterNumbers
  <2>9. QED
    BY <2>8, <2>3, <2>5, <2>6
<1>6. QED
  BY <1>2, <1>4, <1>5

\* A bucket that rested for a window may be pruned: all grants have been refilled.
LEMMA RestRecovers ==
  ASSUME NEW g \in Seq(Nat), NEW b \in TokenBuckets, Covers(b, g), NEW now \in Nat, now - b.last >= Window
  PROVE  Recovered(now, g)
<1>1. SUFFICES ASSUME NEW i \in 1 .. Len(g)
               PROVE  (Len(g) - i + 1) * Token <= (now - g[i]) * Most
  BY DEF Recovered
<1>2. PICK t \in Nat, l \in Nat, h \in Nat, x \in Int :
        t = b.tokens /\ l = b.last /\ h = g[i] /\ x = (Len(g) - i + 1) * Token
  <2>1. (Len(g) - i + 1) * Token \in Int
    BY LimiterNumbers
  <2>2. b.tokens \in Nat /\ b.last \in Nat /\ g[i] \in Nat
    BY DEF TokenBuckets
  <2>3. QED
    BY <2>1, <2>2
<1>3. x + t <= Full + (l - h) * Most
  BY <1>2 DEF Covers
<1>4. (now - l) * Most + (l - h) * Most = (now - h) * Most
  BY Split, LimiterNumbers
<1>5. Window * Most <= (now - l) * Most
  <2>1. Window \in Int /\ now - l \in Int /\ Window <= now - l /\ Most \in Nat
    BY <1>2, LimiterNumbers
  <2>2. QED
    BY <2>1, MoreTime
<1>6. PICK y \in Int, z \in Int, e \in Int :
        y = (now - l) * Most /\ z = (l - h) * Most /\ e = (now - h) * Most
  BY Split, LimiterNumbers
<1>7. Full <= Window * Most /\ Full \in Nat /\ Window * Most \in Int
  BY LimiterNumbers
<1>8. x <= e
  BY <1>3, <1>4, <1>5, <1>6, <1>7
<1>9. QED
  BY <1>2, <1>6, <1>8

\* What was refilled once stays refilled.
LEMMA RecoveredLater ==
  ASSUME NEW g \in Seq(Nat), NEW p \in Nat, Recovered(p, g), NEW now \in Nat, p <= now
  PROVE  Recovered(now, g)
<1>1. SUFFICES ASSUME NEW i \in 1 .. Len(g)
               PROVE  (Len(g) - i + 1) * Token <= (now - g[i]) * Most
  BY DEF Recovered
<1>2. PICK h \in Nat, x \in Int : h = g[i] /\ x = (Len(g) - i + 1) * Token
  BY LimiterNumbers
<1>3. x <= (p - h) * Most
  BY <1>2 DEF Recovered
<1>4. (p - h) * Most <= (now - h) * Most
  BY MoreTime, LimiterNumbers
<1>5. (p - h) * Most \in Int /\ (now - h) * Most \in Int
  BY Split, LimiterNumbers
<1>6. QED
  BY <1>2, <1>3, <1>4, <1>5

\* A new bucket, with the full burst, covers the grants of the one that was pruned.
LEMMA RecoveredCovers ==
  ASSUME NEW g \in Seq(Nat), NEW now \in Nat, Recovered(now, g)
  PROVE  Covers(Holding(Full, now), g)
<1>1. SUFFICES ASSUME NEW i \in 1 .. Len(g)
               PROVE  (Len(g) - i + 1) * Token + Full <= Full + (now - g[i]) * Most
  BY DEF Covers, Holding
<1>2. (Len(g) - i + 1) * Token \in Int /\ (now - g[i]) * Most \in Int
  BY LimiterNumbers
<1>3. QED
  BY <1>2, LimiterNumbers DEF Recovered

\* Between any two of these requests no more than a burst and what was refilled.
Budgeted(g) ==
  \A i \in DOMAIN g : \A j \in i .. Len(g) : (j - i + 1) * Token <= Full + (g[j] - g[i]) * Most

\* A covered grant keeps every pair of requests within the budget.
LEMMA BudgetedAppend ==
  ASSUME NEW g \in Seq(Nat), NEW now \in Nat, NEW u \in Nat, Covers(Holding(u, now), Append(g, now)), Budgeted(g)
  PROVE  Budgeted(Append(g, now))
<1>1. PICK s : s = Append(g, now) /\ s \in Seq(Nat)
  <2>1. Append(g, now) \in Seq(Nat)
    OBVIOUS
  <2>2. QED
    BY <2>1
<1>2. Len(s) = Len(g) + 1 /\ Len(g) \in Nat /\ s[Len(g) + 1] = now /\ \A i \in 1 .. Len(g) : s[i] = g[i]
  BY <1>1
<1>3. SUFFICES ASSUME NEW i \in 1 .. Len(s), NEW j \in i .. Len(s)
               PROVE  (j - i + 1) * Token <= Full + (s[j] - s[i]) * Most
  BY <1>1 DEF Budgeted
<1>4. CASE j = Len(s)
  <2>1. (Len(s) - i + 1) * Token + u <= Full + (now - s[i]) * Most
    BY <1>1 DEF Covers, Holding
  <2>2. s[j] = now
    BY <1>2, <1>4
  <2>3. (Len(s) - i + 1) * Token \in Int /\ (now - s[i]) * Most \in Int
    BY <1>2, LimiterNumbers
  <2>4. QED
    BY <1>4, <2>1, <2>2, <2>3, LimiterNumbers
<1>5. CASE j # Len(s)
  <2>1. i \in 1 .. Len(g) /\ j \in i .. Len(g) /\ j \in 1 .. Len(g)
    BY <1>2, <1>5
  <2>2. s[i] = g[i] /\ s[j] = g[j]
    BY <1>2, <2>1
  <2>3. (j - i + 1) * Token <= Full + (g[j] - g[i]) * Most
    <3>1. i \in DOMAIN g
      BY <2>1
    <3>2. QED
      BY <2>1, <3>1 DEF Budgeted
  <2>4. QED
    BY <2>2, <2>3
<1>6. QED
  BY <1>4, <1>5

\* The table after Allow: the types, and no more than MaxKeys buckets.
LEMMA AnswersTable ==
  ASSUME LimiterTypeOK, TableBounded, NEW k \in Keys, NEW now \in Nat, Answers(k, now)
  PROVE  /\ buckets' \in [Keys -> SUBSET TokenBuckets]
         /\ \A j \in Keys : \A a, b \in buckets'[j] : a = b
         /\ TableBounded'
<1>1. ASSUME NEW b \in buckets[k], NEW n \in 0 .. Full, Keeps(k, now, n)
      PROVE  /\ buckets' \in [Keys -> SUBSET TokenBuckets]
             /\ \A j \in Keys : \A a, b2 \in buckets'[j] : a = b2
             /\ TableBounded'
  <2>1. PICK e : e = [tokens |-> n, last |-> now] /\ e \in TokenBuckets
    <3>1. [tokens |-> n, last |-> now] \in TokenBuckets
      BY DEF TokenBuckets
    <3>2. QED
      BY <3>1
  <2>2. buckets' = [buckets EXCEPT ![k] = {e}]
    BY <1>1, <2>1 DEF Keeps
  <2>3. Bucketed' = Bucketed
    BY <1>1, <2>2 DEF Bucketed, LimiterTypeOK
  <2>4. TableBounded'
    BY <2>3 DEF TableBounded
  <2>5. QED
    BY <2>1, <2>2, <2>4 DEF LimiterTypeOK
<1>2. CASE \E b \in buckets[k] : \E u \in Refilled(b, now) : AnswersFrom(k, now, u)
  <2>0. PICK b \in buckets[k] : \E u \in Refilled(b, now) : AnswersFrom(k, now, u)
    BY <1>2
  <2>1. PICK u \in Refilled(b, now) : AnswersFrom(k, now, u)
    BY <2>0
  <2>2. u \in 0 .. Full
    BY BucketIs, RefilledTokens
  <2>3. \E n \in 0 .. Full : Keeps(k, now, n)
    <3>1. CASE GrantsFrom(k, now, u)
      <4>1. u - Token \in 0 .. Full /\ Keeps(k, now, u - Token)
        BY <3>1, <2>2, LimiterNumbers DEF GrantsFrom
      <4>2. QED
        BY <4>1
    <3>2. CASE ~ GrantsFrom(k, now, u)
      BY <2>1, <2>2, <3>2 DEF AnswersFrom, RefusesFrom
    <3>3. QED
      BY <3>1, <3>2
  <2>4. QED
    BY <1>1, <2>3
<1>3. CASE GrantsNew(k, now)
  <2>1. PICK e : e = [tokens |-> Full - Token, last |-> now] /\ e \in TokenBuckets
    <3>1. Full - Token \in 0 .. Full
      BY LimiterNumbers
    <3>2. [tokens |-> Full - Token, last |-> now] \in TokenBuckets
      BY <3>1 DEF TokenBuckets
    <3>3. QED
      BY <3>2
  <2>2. buckets' = [pruneFullBuckets(now) EXCEPT ![k] = {e}]
    BY <1>3, <2>1 DEF GrantsNew
  <2>3. pruneFullBuckets(now) \in [Keys -> SUBSET TokenBuckets]
    BY DEF pruneFullBuckets, LimiterTypeOK
  <2>4. \A j \in Keys : pruneFullBuckets(now)[j] \subseteq buckets[j]
    BY DEF pruneFullBuckets
  <2>5. Bucketed' = Remaining(now) \cup {k}
    BY <2>2, <2>3 DEF Bucketed, Remaining
  <2>6. k \notin Remaining(now)
    BY <1>3, <2>4 DEF Remaining, GrantsNew
  <2>7. TableBounded'
    <3>1. IsFiniteSet(Remaining(now)) /\ Cardinality(Remaining(now)) \in Nat /\ Cardinality(Remaining(now)) < MaxKeys
      BY <1>3, RemainingFinite DEF GrantsNew
    <3>2. IsFiniteSet(Remaining(now) \cup {k}) /\ Cardinality(Remaining(now) \cup {k}) = Cardinality(Remaining(now)) + 1
      BY <3>1, <2>6, FS_AddElement
    <3>3. Cardinality(Remaining(now)) + 1 <= MaxKeys
      BY <3>1, LimiterNumbers
    <3>4. QED
      BY <2>5, <3>2, <3>3 DEF TableBounded
  <2>8. QED
    BY <2>1, <2>2, <2>3, <2>4, <2>7 DEF LimiterTypeOK
<1>4. CASE RefusesNew(k, now)
  <2>1. buckets' = pruneFullBuckets(now)
    BY <1>4 DEF RefusesNew
  <2>2. Bucketed' = Remaining(now)
    BY <2>1 DEF Bucketed, Remaining
  <2>3. TableBounded'
    <3>1. IsFiniteSet(Remaining(now)) /\ Cardinality(Remaining(now)) \in Nat
          /\ Cardinality(Remaining(now)) <= Cardinality(Bucketed)
      BY RemainingFinite
    <3>2. Cardinality(Bucketed) \in Nat /\ Cardinality(Bucketed) <= MaxKeys
      BY FS_CardinalityType DEF TableBounded
    <3>3. Cardinality(Remaining(now)) <= MaxKeys
      BY <3>1, <3>2, LimiterNumbers
    <3>4. QED
      BY <2>2, <3>1, <3>3 DEF TableBounded
  <2>4. QED
    BY <2>1, <2>3 DEF LimiterTypeOK, pruneFullBuckets
<1>5. QED
  BY <1>2, <1>3, <1>4 DEF Answers

\* The first of the buckets in the way becomes prunable after capacityDecision, when
\* no bucket is later than the call.
LEMMA CapacityWait ==
  ASSUME LimiterTypeOK, TableBounded, NEW now \in Nat
  PROVE  /\ capacityDecision(now) \in Nat
         /\ (\A j \in Keys : \A b \in buckets[j] : b.last <= now) /\ Cardinality(Remaining(now)) >= MaxKeys =>
              \E j \in Remaining(now) : \E b \in buckets[j] : now - b.last < Window /\ b.last + Window <= now + capacityDecision(now)
<1>1. PICK T : T = {w \in {Bucket(j).last + Window - now : j \in Bucketed} : w > 0}
  OBVIOUS
<1>2. PICK S : S = {Window} \cup T
  OBVIOUS
<1>3. \A j \in Bucketed : Bucket(j) \in buckets[j] /\ Bucket(j).last \in Nat /\ j \in Keys
  BY BucketIs DEF Bucketed, TokenBuckets
<1>4. S \in SUBSET Nat /\ S # {}
  BY <1>1, <1>2, <1>3, LimiterNumbers
<1>5. PICK m : m = capacityDecision(now)
  OBVIOUS
<1>6. m \in S /\ \A n \in S : m <= n
  BY <1>1, <1>2, <1>4, <1>5, MinOfNat DEF capacityDecision
<1>7. ASSUME \A j \in Keys : \A b \in buckets[j] : b.last <= now, Cardinality(Remaining(now)) >= MaxKeys
      PROVE  \E j \in Remaining(now) : \E b \in buckets[j] : now - b.last < Window /\ b.last + Window <= now + m
  <2>1. Remaining(now) # {}
    BY <1>7, FS_EmptySet, LimiterNumbers
  <2>2. \A j \in Keys : \A b \in buckets[j] : b.last \in Nat /\ Bucket(j) = b /\ j \in Bucketed
    BY BucketIs DEF Bucketed, TokenBuckets
  <2>3. \A j \in Keys : \A b \in buckets[j] : now - b.last < Window => j \in Remaining(now)
    BY DEF Remaining, pruneFullBuckets
  <2>4. CASE m \in T
    <3>1. PICK j \in Bucketed : m = Bucket(j).last + Window - now /\ m > 0
      BY <1>1, <2>4
    <3>2. PICK b \in buckets[j] : b = Bucket(j) /\ b.last \in Nat
      BY <1>3, <3>1
    <3>3. now - b.last < Window /\ b.last + Window <= now + m
      BY <3>1, <3>2, LimiterNumbers
    <3>4. QED
      BY <1>3, <2>3, <3>1, <3>2, <3>3
  <2>5. CASE m \notin T
    <3>1. m = Window
      BY <1>2, <1>6, <2>5
    <3>2. PICK j \in Remaining(now) : TRUE
      BY <2>1
    <3>3. PICK b \in buckets[j] : now - b.last < Window /\ j \in Keys
      BY DEF Remaining, pruneFullBuckets
    <3>4. b.last \in Nat /\ Bucket(j) = b /\ j \in Bucketed /\ b.last <= now
      BY <1>7, <2>2, <3>3
    <3>5. PICK v \in Int : v = b.last + Window - now /\ v > 0
      BY <3>3, <3>4, LimiterNumbers
    <3>6. v \in S
      BY <1>1, <1>2, <3>4, <3>5
    <3>7. Window <= v
      BY <1>6, <3>1, <3>6
    <3>8. b.last + Window <= now + m
      BY <3>1, <3>4, LimiterNumbers
    <3>9. QED
      BY <3>2, <3>3, <3>8
  <2>6. QED
    BY <2>4, <2>5
<1>8. QED
  BY <1>4, <1>5, <1>6, <1>7

Timely(now) == \A j \in Keys : \A b \in buckets[j] : b.last <= now
Fair == (\A j \in Keys : Covered(j)) /\ (\A j \in Keys : \A p \in promised[j] : Honest(j, p))

\* A promise is kept: a key that has a token by now, or room for a bucket, is not
\* refused, and one that misses two errors of a token waits for a single tick.
LEMMA PromiseKept ==
  ASSUME LimiterTypeOK, TableBounded, NEW k \in Keys, NEW now \in Nat, Timely(now),
         NEW p \in Promises, Honest(k, p), p.at <= now
  PROVE  /\ \A b \in buckets[k] : \A u \in Refilled(b, now) : \A x \in retryAfter(u) :
              u < Token => ~ p.again /\ x = 1 /\ u >= Token - 2 * Error
         /\ ~ RefusesNew(k, now)
<1>0. PICK w \in Nat : w = p.at /\ w <= now /\ p.again \in BOOLEAN
  BY DEF Promises
<1>1. ASSUME NEW b \in buckets[k], NEW u \in Refilled(b, now), NEW x \in retryAfter(u), u < Token
      PROVE  ~ p.again /\ x = 1 /\ u >= Token - 2 * Error
  <2>1. b \in TokenBuckets /\ buckets[k] = {b} /\ b.tokens \in Nat /\ b.last \in Nat
    BY BucketIs DEF TokenBuckets
  <2>2. b.last < w /\ b.tokens + (w - b.last) * Rate >= IF p.again THEN Token + Error ELSE Token - Error
    BY <1>0, <2>1 DEF Honest
  <2>3. b.last < now
    BY <1>0, <2>1, <2>2
  <2>4. (w - b.last) * Rate <= (now - b.last) * Rate
    <3>1. w - b.last \in Int /\ now - b.last \in Int /\ w - b.last <= now - b.last
      BY <1>0, <2>1
    <3>2. QED
      BY <3>1, MoreTime, LimiterNumbers
  <2>5. u \in 0 .. Full /\ (u = Full \/ u >= b.tokens + (now - b.last) * Rate - Error)
    BY <2>1, <2>3, RefilledTokens
  <2>6. (w - b.last) * Rate \in Int /\ (now - b.last) * Rate \in Int
    <3>1. w - b.last \in Int /\ now - b.last \in Int /\ Rate \in Int
      BY <1>0, <2>1, LimiterNumbers
    <3>2. \A i \in Int, j \in Int : i * j \in Int
      OBVIOUS
    <3>3. QED
      BY <3>1, <3>2, Zenon
  <2>7. PICK y \in Int, z \in Int : y = (w - b.last) * Rate /\ z = (now - b.last) * Rate /\ y <= z
    BY <2>4, <2>6
  <2>8. u \in Nat /\ u >= b.tokens + z - Error
    BY <1>1, <2>5, <2>7, LimiterNumbers
  <2>9. ~ p.again
    <3>1. ASSUME p.again PROVE FALSE
      <4>1. b.tokens + y >= Token + Error
        BY <2>2, <2>7, <3>1
      <4>2. QED
        BY <1>1, <2>1, <2>7, <2>8, <4>1, LimiterNumbers
    <3>2. QED
      BY <3>1
  <2>10. u >= Token - 2 * Error
    <3>1. b.tokens + y >= Token - Error
      BY <2>2, <2>7, <2>9
    <3>2. QED
      BY <2>1, <2>7, <2>8, <3>1, LimiterNumbers
  <2>11. QED
    BY <2>8, <2>9, <2>10, RetryAfterIs
<1>2. ASSUME RefusesNew(k, now) PROVE FALSE
  <2>1. buckets[k] = {} /\ Cardinality(Remaining(now)) >= MaxKeys
    BY <1>2 DEF RefusesNew
  <2>2. PICK j \in Keys : \E b \in buckets[j] : b.last + Window <= w
    BY <1>0, <2>1 DEF Honest
  <2>3. PICK b \in buckets[j] : b.last + Window <= w
    BY <2>2
  <2>4. b \in TokenBuckets /\ buckets[j] = {b} /\ b.last \in Nat
    BY BucketIs DEF TokenBuckets
  <2>5. ~(now - b.last < Window)
    BY <1>0, <2>3, <2>4, LimiterNumbers
  <2>6. j \in Bucketed /\ j \notin Remaining(now)
    BY <2>4, <2>5 DEF Bucketed, Remaining, pruneFullBuckets
  <2>7. Remaining(now) \subseteq Bucketed \ {j}
    BY <2>6, RemainingFinite
  <2>8. IsFiniteSet(Bucketed \ {j}) /\ Cardinality(Bucketed \ {j}) = Cardinality(Bucketed) - 1
        /\ Cardinality(Bucketed) \in Nat /\ Cardinality(Bucketed) <= MaxKeys
    BY <2>6, FS_RemoveElement, FS_CardinalityType DEF TableBounded
  <2>9. Cardinality(Remaining(now)) <= Cardinality(Bucketed) - 1 /\ Cardinality(Remaining(now)) \in Nat
    BY <2>7, <2>8, FS_Subset, RemainingFinite
  <2>10. QED
    BY <2>1, <2>8, <2>9, LimiterNumbers
<1>3. QED
  BY <1>1, <1>2

\* Nobody gets a bucket too early.
LEMMA RoomMeansLater ==
  ASSUME LimiterTypeOK, TableBounded, NEW now \in Nat, Timely(now), NEW p \in Nat, NotBefore(p),
         Cardinality(Remaining(now)) < MaxKeys
  PROVE  p <= now
<1>1. CASE \E j \in Keys : \E b \in buckets[j] : b.last >= p
  <2>1. PICK j \in Keys : \E b \in buckets[j] : b.last >= p
    BY <1>1
  <2>2. PICK b \in buckets[j] : b.last >= p
    BY <2>1
  <2>3. b.last \in Nat /\ b.last <= now
    BY BucketIs DEF TokenBuckets, Timely
  <2>4. QED
    BY <2>2, <2>3
<1>2. CASE Cardinality(Bucketed) >= MaxKeys /\ \A j \in Keys : \A b \in buckets[j] : b.last > p - Window
  <2>1. Remaining(now) # Bucketed
    BY <1>2, RemainingFinite, LimiterNumbers
  <2>2. PICK j \in Bucketed : j \notin Remaining(now)
    BY <2>1, RemainingFinite
  <2>3. PICK b \in buckets[j] : ~(now - b.last < Window)
    BY <2>2 DEF Bucketed, Remaining, pruneFullBuckets
  <2>4. b.last \in Nat /\ b.last > p - Window
    BY <1>2, <2>2, BucketIs DEF TokenBuckets, Bucketed
  <2>5. QED
    BY <2>3, <2>4, LimiterNumbers
<1>3. QED
  BY <1>1, <1>2 DEF NotBefore

\* A bucket of the key, in its new state.
LEMMA KeepsFair ==
  ASSUME LimiterTypeOK, NEW k \in Keys, NEW now \in Nat, Timely(now), NEW b \in buckets[k], NEW n \in 0 .. Full,
         Keeps(k, now, n), grants' \in [Keys -> Seq(Nat)], Covers(Holding(n, now), grants'[k]),
         \A j \in Keys \ {k} : grants'[j] = grants[j] /\ Covered(j)
  PROVE  \A j \in Keys : Covered(j)'
<1>1. PICK e : e = Holding(n, now) /\ e.last = now
  BY DEF Holding
<1>2. buckets'[k] = {e} /\ \A j \in Keys \ {k} : buckets'[j] = buckets[j]
  BY <1>1 DEF Keeps, Holding, LimiterTypeOK
<1>3. Covered(k)'
  BY <1>1, <1>2 DEF Covered, Covers
<1>4. b.last \in Nat /\ b.last <= now
  BY BucketIs DEF TokenBuckets, Timely
<1>5. Bucketed' = Bucketed
  BY <1>2 DEF Bucketed
<1>6. ASSUME NEW p \in Nat, NotBefore(p) PROVE NotBefore(p)'
  <2>1. CASE \E j \in Keys : \E a \in buckets[j] : a.last >= p
    <3>1. PICK j \in Keys : \E a \in buckets[j] : a.last >= p
      BY <2>1
    <3>2. PICK a \in buckets[j] : a.last >= p
      BY <3>1
    <3>3. a.last \in Nat /\ a.last <= now
      BY BucketIs DEF TokenBuckets, Timely
    <3>4. now >= p
      BY <3>2, <3>3
    <3>5. \E a2 \in buckets'[k] : a2.last >= p
      BY <1>1, <1>2, <3>4
    <3>6. QED
      BY <3>5 DEF NotBefore
  <2>2. CASE Cardinality(Bucketed) >= MaxKeys /\ \A j \in Keys : \A a \in buckets[j] : a.last > p - Window
    <3>1. now > p - Window
      BY <2>2, <1>4, LimiterNumbers
    <3>2. \A j \in Keys : \A a \in buckets'[j] : a.last > p - Window
      BY <1>1, <1>2, <2>2, <3>1
    <3>3. QED
      BY <1>5, <2>2, <3>2 DEF NotBefore
  <2>3. QED
    BY <1>6, <2>1, <2>2 DEF NotBefore
<1>7. ASSUME NEW j \in Keys \ {k} PROVE Covered(j)'
  <2>1. buckets'[j] = buckets[j] /\ grants'[j] = grants[j] /\ Covered(j)
    BY <1>2
  <2>2. \A a \in buckets'[j] : Covers(a, grants'[j])
    BY <2>1 DEF Covered
  <2>3. ASSUME buckets'[j] = {} PROVE grants'[j] = <<>> \/ \E p \in Nat : Recovered(p, grants'[j]) /\ NotBefore(p)'
    BY <2>1, <2>3, <1>6 DEF Covered
  <2>4. QED
    BY <2>2, <2>3 DEF Covered, Covers, Recovered
<1>8. QED
  BY <1>3, <1>7

\* Allow on a key that has a bucket.
LEMMA FromFair ==
  ASSUME LimiterTypeOK, TableBounded, NEW k \in Keys, NEW now \in Nat, Timely(now), Fair,
         \A j \in Keys : Budgeted(grants[j]),
         NEW b \in buckets[k], NEW u \in Refilled(b, now), AnswersFrom(k, now, u)
  PROVE  Fair' /\ \A j \in Keys : Budgeted(grants'[j])
<1>1. b \in TokenBuckets /\ b.last <= now /\ Covers(b, grants[k]) /\ grants[k] \in Seq(Nat)
  BY BucketIs DEF Timely, Fair, Covered, LimiterTypeOK
<1>2. u \in 0 .. Full
  BY <1>1, RefilledTokens
<1>3. u <= b.tokens + (now - b.last) * Most
  BY <1>1, RefilledTokens
<1>4. u \in Nat /\ u <= Full
  BY <1>2, LimiterNumbers
<1>5. Covers(Holding(u, now), grants[k])
  BY <1>1, <1>3, <1>4, CoversLater
<1>6. CASE GrantsFrom(k, now, u)
  <2>1. u >= Token /\ Keeps(k, now, u - Token) /\ Granted(k, now)
    BY <1>6 DEF GrantsFrom
  <2>2. u - Token \in 0 .. Full /\ u - Token \in Nat /\ Token <= u
    BY <1>2, <2>1, LimiterNumbers
  <2>3. /\ grants' \in [Keys -> Seq(Nat)] /\ grants'[k] = Append(grants[k], now)
        /\ \A j \in Keys \ {k} : grants'[j] = grants[j]
    BY <2>1 DEF Granted, LimiterTypeOK
  <2>4. Covers(Holding(u - Token, now), Append(grants[k], now))
    BY <1>1, <1>4, <1>5, <2>2, CoversSpent
  <2>5. \A j \in Keys : Covered(j)'
    BY <2>1, <2>2, <2>3, <2>4, KeepsFair DEF Fair
  <2>6. \A j \in Keys : promised'[j] = {}
    BY <2>1 DEF Granted
  <2>7. Budgeted(grants'[k])
    BY <1>1, <2>2, <2>3, <2>4, BudgetedAppend
  <2>8. QED
    BY <2>3, <2>5, <2>6, <2>7 DEF Fair
<1>7. ASSUME NEW x \in retryAfter(u), RefusesFrom(k, now, u, x)
      PROVE  Fair' /\ \A j \in Keys : Budgeted(grants'[j])
  <2>1. u < Token /\ Keeps(k, now, u) /\ Refused(k, now, x)
    BY <1>7 DEF RefusesFrom
  <2>2. grants' = grants
    BY <2>1 DEF Refused
  <2>3. \A j \in Keys : Covered(j)'
    BY <1>2, <1>5, <2>1, <2>2, KeepsFair DEF Fair, LimiterTypeOK
  <2>4. x \in Nat \ {0} /\ u + x * Rate >= Token - Error
    BY <1>4, <1>7, RetryAfterIs
  <2>5. PICK again \in BOOLEAN : again = (Due(k, now) # {})
    OBVIOUS
  <2>6. PICK p : p = [at |-> now + x, again |-> again] /\ p.at = now + x /\ p.again = again
    <3>1. [at |-> now + x, again |-> again].at = now + x /\ [at |-> now + x, again |-> again].again = again
      OBVIOUS
    <3>2. QED
      BY <3>1
  <2>7. promised' = [j \in Keys |-> IF j = k THEN {p} ELSE {}]
    BY <2>1, <2>5, <2>6 DEF Refused
  <2>8. ASSUME again = TRUE PROVE x = 1 /\ u >= Token - 2 * Error
    <3>1. PICK q \in promised[k] : now >= q.at
      BY <2>5, <2>8 DEF Due
    <3>2. q \in Promises /\ Honest(k, q) /\ q.at <= now
      BY <3>1 DEF LimiterTypeOK, Fair, Promises
    <3>3. QED
      BY <1>7, <2>1, <3>2, PromiseKept
  <2>9. PICK e : e = [tokens |-> u, last |-> now] /\ e.tokens = u /\ e.last = now
    <3>1. [tokens |-> u, last |-> now].tokens = u /\ [tokens |-> u, last |-> now].last = now
      OBVIOUS
    <3>2. QED
      BY <3>1
  <2>10. buckets'[k] = {e}
    BY <2>1, <2>9 DEF Keeps, LimiterTypeOK
  <2>11. e.last < p.at /\ p.at - e.last = x
    BY <2>4, <2>6, <2>9
  <2>12. e.tokens + (p.at - e.last) * Rate >= IF p.again THEN Token + Error ELSE Token - Error
    <3>1. CASE again = FALSE
      BY <2>4, <2>6, <2>9, <2>11, <3>1
    <3>2. CASE again = TRUE
      <4>1. x * Rate = Rate
        BY <2>8, <3>2, LimiterNumbers
      <4>2. u + x * Rate >= Token + Error
        BY <1>4, <2>8, <3>2, <4>1, LimiterNumbers
      <4>3. QED
        BY <2>6, <2>9, <2>11, <3>2, <4>2
    <3>3. QED
      BY <2>5, <3>1, <3>2
  <2>13. Honest(k, p)'
    BY <2>10, <2>11, <2>12 DEF Honest
  <2>14. \A j \in Keys : \A q \in promised'[j] : Honest(j, q)'
    BY <2>7, <2>13
  <2>15. QED
    BY <2>2, <2>3, <2>14 DEF Fair
<1>8. QED
  BY <1>6, <1>7 DEF AnswersFrom

\* A bucket that is pruned leaves its key at its full budget.
LEMMA PrunedRecovers ==
  ASSUME LimiterTypeOK, NEW now \in Nat, NEW j \in Keys, Covered(j), pruneFullBuckets(now)[j] = {}
  PROVE  grants[j] = <<>> \/ Recovered(now, grants[j])
         \/ \E p \in Nat : Recovered(p, grants[j]) /\ NotBefore(p)
<1>1. CASE buckets[j] = {}
  BY <1>1 DEF Covered
<1>2. ASSUME NEW b \in buckets[j] PROVE Recovered(now, grants[j])
  <2>1. b \in TokenBuckets /\ b.last \in Nat /\ Covers(b, grants[j]) /\ grants[j] \in Seq(Nat)
    BY BucketIs DEF Covered, TokenBuckets, LimiterTypeOK
  <2>2. ~(now - b.last < Window)
    BY DEF pruneFullBuckets
  <2>3. now - b.last >= Window
    BY <2>1, <2>2, LimiterNumbers
  <2>4. QED
    BY <2>1, <2>3, RestRecovers
<1>3. QED
  BY <1>1, <1>2

\* Allow on a key that has no bucket, with room for one.
LEMMA GrantsNewFair ==
  ASSUME LimiterTypeOK, TableBounded, NEW k \in Keys, NEW now \in Nat, Timely(now), Fair,
         \A j \in Keys : Budgeted(grants[j]), GrantsNew(k, now)
  PROVE  Fair' /\ \A j \in Keys : Budgeted(grants'[j])
<1>1. /\ grants' \in [Keys -> Seq(Nat)] /\ grants'[k] = Append(grants[k], now)
      /\ \A j \in Keys \ {k} : grants'[j] = grants[j]
  BY DEF GrantsNew, Granted, LimiterTypeOK
<1>2. \A j \in Keys : promised'[j] = {}
  BY DEF GrantsNew, Granted
<1>3. PICK T : T = pruneFullBuckets(now) /\ T \in [Keys -> SUBSET TokenBuckets] /\ \A j \in Keys : T[j] \subseteq buckets[j]
  <2>1. pruneFullBuckets(now) \in [Keys -> SUBSET TokenBuckets] /\ \A j \in Keys : pruneFullBuckets(now)[j] \subseteq buckets[j]
    BY DEF pruneFullBuckets, LimiterTypeOK
  <2>2. QED
    BY <2>1
<1>4. PICK e : e = Holding(Full - Token, now) /\ e.last = now
  <2>1. Holding(Full - Token, now).last = now
    BY DEF Holding
  <2>2. QED
    BY <2>1
<1>5. buckets'[k] = {e} /\ \A j \in Keys \ {k} : buckets'[j] = T[j]
  BY <1>3, <1>4 DEF GrantsNew, Holding
<1>6. \A p \in Nat : NotBefore(p) => p <= now
  BY RoomMeansLater DEF GrantsNew
<1>7. \A p \in Nat : p <= now => NotBefore(p)'
  BY <1>4, <1>5 DEF NotBefore
<1>8. ASSUME NEW j \in Keys, T[j] = {} PROVE grants[j] = <<>> \/ Recovered(now, grants[j])
  <2>1. Covered(j) /\ grants[j] \in Seq(Nat)
    BY DEF Fair, LimiterTypeOK
  <2>2. \A p \in Nat : Recovered(p, grants[j]) /\ NotBefore(p) => Recovered(now, grants[j])
    BY <2>1, <1>6, RecoveredLater
  <2>3. QED
    BY <1>3, <1>8, <2>1, <2>2, PrunedRecovers
<1>9. T[k] = {} /\ grants[k] \in Seq(Nat)
  BY <1>3 DEF GrantsNew, LimiterTypeOK
<1>10. Covers(Holding(Full, now), grants[k])
  <2>1. CASE grants[k] = <<>>
    BY <2>1 DEF Covers
  <2>2. CASE Recovered(now, grants[k])
    BY <1>9, <2>2, RecoveredCovers
  <2>3. QED
    BY <1>8, <1>9, <2>1, <2>2
<1>11. Covers(e, grants'[k])
  <2>1. Full \in Nat /\ Token <= Full /\ Full <= Full
    BY LimiterNumbers
  <2>2. QED
    BY <1>1, <1>4, <1>9, <1>10, <2>1, CoversSpent
<1>12. Covered(k)'
  BY <1>5, <1>11 DEF Covered, Covers
<1>13. ASSUME NEW j \in Keys \ {k} PROVE Covered(j)'
  <2>1. buckets'[j] = T[j] /\ grants'[j] = grants[j] /\ Covered(j) /\ T[j] \subseteq buckets[j]
    BY <1>1, <1>3, <1>5 DEF Fair
  <2>2. \A a \in buckets'[j] : Covers(a, grants'[j])
    BY <2>1 DEF Covered
  <2>3. ASSUME buckets'[j] = {} PROVE grants'[j] = <<>> \/ \E p \in Nat : Recovered(p, grants'[j]) /\ NotBefore(p)'
    <3>1. NotBefore(now)'
      BY <1>7
    <3>2. QED
      BY <1>8, <2>1, <2>3, <3>1
  <2>4. QED
    BY <2>2, <2>3 DEF Covered, Covers, Recovered
<1>14. Budgeted(grants'[k])
  <2>1. Full - Token \in Nat
    BY LimiterNumbers
  <2>2. QED
    BY <1>1, <1>4, <1>9, <1>11, <2>1, BudgetedAppend
<1>15. QED
  BY <1>1, <1>2, <1>12, <1>13, <1>14 DEF Fair

\* Allow on a key that has no bucket, when other keys have them all.
LEMMA RefusesNewFair ==
  ASSUME LimiterTypeOK, TableBounded, NEW k \in Keys, NEW now \in Nat, Timely(now), Fair,
         RefusesNew(k, now)
  PROVE  Fair' /\ grants' = grants
<1>1. grants' = grants /\ buckets' = pruneFullBuckets(now) /\ Cardinality(Remaining(now)) >= MaxKeys /\ buckets[k] = {}
  BY DEF RefusesNew, Refused
<1>2. Bucketed' = Remaining(now)
  BY <1>1 DEF Bucketed, Remaining
<1>3. \A j \in Keys : buckets'[j] = {b \in buckets[j] : now - b.last < Window}
  BY <1>1 DEF pruneFullBuckets
<1>4. \A j \in Keys : \A b \in buckets[j] : b.last \in Nat /\ b.last <= now
  BY BucketIs DEF TokenBuckets, Timely
<1>5. NotBefore(now)'
  <2>1. \A j \in Keys : \A b \in buckets'[j] : b.last > now - Window
    BY <1>3, <1>4, LimiterNumbers
  <2>2. QED
    BY <1>1, <1>2, <2>1 DEF NotBefore
<1>6. ASSUME NEW p \in Nat, NotBefore(p), ~(p <= now) PROVE NotBefore(p)'
  <2>1. \A j \in Keys : \A b \in buckets[j] : ~(b.last >= p)
    BY <1>4, <1>6
  <2>2. \A j \in Keys : \A b \in buckets[j] : b.last > p - Window
    BY <1>6, <2>1 DEF NotBefore
  <2>3. \A j \in Keys : \A b \in buckets'[j] : b.last > p - Window
    BY <1>3, <2>2
  <2>4. QED
    BY <1>1, <1>2, <2>3 DEF NotBefore
<1>7. ASSUME NEW j \in Keys PROVE Covered(j)'
  <2>1. Covered(j) /\ grants'[j] = grants[j] /\ grants[j] \in Seq(Nat) /\ buckets'[j] \subseteq buckets[j]
    BY <1>1, <1>3 DEF Fair, LimiterTypeOK
  <2>2. \A a \in buckets'[j] : Covers(a, grants'[j])
    BY <2>1 DEF Covered
  <2>3. ASSUME buckets'[j] = {} PROVE grants'[j] = <<>> \/ \E p \in Nat : Recovered(p, grants'[j]) /\ NotBefore(p)'
    <3>1. CASE grants[j] = <<>> \/ Recovered(now, grants[j])
      BY <3>1, <1>5, <2>1
    <3>2. CASE \E p \in Nat : Recovered(p, grants[j]) /\ NotBefore(p)
      <4>1. PICK p \in Nat : Recovered(p, grants[j]) /\ NotBefore(p)
        BY <3>2
      <4>2. CASE p <= now
        BY <4>1, <4>2, <1>5, <2>1, RecoveredLater
      <4>3. CASE ~(p <= now)
        BY <4>1, <4>3, <1>6, <2>1
      <4>4. QED
        BY <4>2, <4>3
    <3>3. QED
      BY <1>1, <2>1, <2>3, <3>1, <3>2, PrunedRecovers
  <2>4. QED
    BY <2>2, <2>3 DEF Covered, Covers, Recovered
<1>8. PICK x : x = capacityDecision(now) /\ x \in Nat
  BY CapacityWait
<1>9. PICK p : p = [at |-> now + x, again |-> Due(k, now) # {}] /\ p.at = now + x
  <2>1. [at |-> now + x, again |-> Due(k, now) # {}].at = now + x
    OBVIOUS
  <2>2. QED
    BY <2>1
<1>10. promised' = [j \in Keys |-> IF j = k THEN {p} ELSE {}]
  BY <1>8, <1>9 DEF RefusesNew, Refused
<1>11. Honest(k, p)'
  <2>1. PICK j \in Remaining(now) : \E b \in buckets[j] : now - b.last < Window /\ b.last + Window <= now + x
    BY <1>1, <1>8, CapacityWait DEF Timely
  <2>2. j \in Keys /\ \E b \in buckets'[j] : b.last + Window <= now + x
    BY <1>3, <2>1 DEF Remaining
  <2>3. buckets'[k] = {}
    BY <1>1, <1>3
  <2>4. QED
    BY <1>9, <2>2, <2>3 DEF Honest
<1>12. \A j \in Keys : \A q \in promised'[j] : Honest(j, q)'
  BY <1>10, <1>11
<1>13. QED
  BY <1>1, <1>7, <1>12 DEF Fair

\* The histories after Allow have their types.
LEMMA AnswersHistory ==
  ASSUME LimiterTypeOK, TableBounded, NEW k \in Keys, NEW now \in Nat, Answers(k, now)
  PROVE  grants' \in [Keys -> Seq(Nat)] /\ promised' \in [Keys -> SUBSET Promises] /\ broken' \in BOOLEAN
<1>1. ASSUME Granted(k, now)
      PROVE  grants' \in [Keys -> Seq(Nat)] /\ promised' \in [Keys -> SUBSET Promises] /\ broken' \in BOOLEAN
  BY <1>1 DEF Granted, LimiterTypeOK
<1>2. ASSUME NEW x \in Nat, Refused(k, now, x)
      PROVE  grants' \in [Keys -> Seq(Nat)] /\ promised' \in [Keys -> SUBSET Promises] /\ broken' \in BOOLEAN
  <2>1. PICK again \in BOOLEAN : again = (Due(k, now) # {})
    OBVIOUS
  <2>2. [at |-> now + x, again |-> again] \in Promises
    BY DEF Promises
  <2>3. promised' = [j \in Keys |-> IF j = k THEN {[at |-> now + x, again |-> again]} ELSE {}]
    BY <1>2, <2>1 DEF Refused
  <2>4. QED
    BY <1>2, <2>2, <2>3 DEF Refused, LimiterTypeOK
<1>3. ASSUME NEW b \in buckets[k], NEW u \in Refilled(b, now), NEW x \in retryAfter(u) PROVE x \in Nat
  <2>1. u \in Nat
    BY BucketIs, RefilledTokens, LimiterNumbers
  <2>2. QED
    BY <2>1, RetryAfterIs
<1>4. capacityDecision(now) \in Nat
  BY CapacityWait
<1>5. QED
  BY <1>1, <1>2, <1>3, <1>4 DEF Answers, AnswersFrom, GrantsFrom, RefusesFrom, GrantsNew, RefusesNew

\* LimiterIInv is inductive.
LEMMA AllowFair ==
  ASSUME LimiterIInv, NEW c \in Clients, Allow(c)
  PROVE  LimiterIInv'
<1>1. /\ UNCHANGED time /\ asking' = [asking EXCEPT ![c] = {}] /\ overtaken' \in BOOLEAN
      /\ \E k \in Keys, now \in Nat :
           /\ Answers(k, now)
           /\ ~ overtaken' => ~ overtaken /\ \A j \in Keys : \A b \in buckets[j] : b.last <= now
  BY AllowAnswers DEF LimiterIInv
<1>2. PICK k \in Keys, now \in Nat :
        /\ Answers(k, now)
        /\ ~ overtaken' => ~ overtaken /\ \A j \in Keys : \A b \in buckets[j] : b.last <= now
  BY <1>1
<1>3. LimiterTypeOK /\ TableBounded
  BY DEF LimiterIInv
<1>4. LimiterTypeOK'
  <2>1. /\ buckets' \in [Keys -> SUBSET TokenBuckets]
        /\ \A j \in Keys : \A a, b \in buckets'[j] : a = b
    BY <1>2, <1>3, AnswersTable
  <2>2. grants' \in [Keys -> Seq(Nat)] /\ promised' \in [Keys -> SUBSET Promises] /\ broken' \in BOOLEAN
    BY <1>2, <1>3, AnswersHistory
  <2>3. time' \in Nat /\ asking' \in [Clients -> SUBSET [key : Keys, now : Nat]]
    BY <1>1, <1>3 DEF LimiterTypeOK
  <2>4. QED
    BY <1>1, <2>1, <2>2, <2>3 DEF LimiterTypeOK, TokenBuckets, Promises
<1>5. TableBounded'
  BY <1>2, <1>3, AnswersTable
<1>6. ASSUME ~ overtaken' PROVE Fair' /\ BudgetKept' /\ ~ broken'
  <2>1. ~ overtaken /\ Timely(now)
    BY <1>2, <1>6 DEF Timely
  <2>2. Fair /\ ~ broken /\ \A j \in Keys : Budgeted(grants[j])
    BY <2>1 DEF LimiterIInv, Fair, BudgetKept, Budgeted, Most
  <2>3. \A p \in Due(k, now) : p \in Promises /\ Honest(k, p) /\ p.at <= now
    BY <1>3, <2>2 DEF Fair, LimiterTypeOK, Due, Promises
  <2>4. ASSUME NEW b \in buckets[k], NEW u \in Refilled(b, now), GrantsFrom(k, now, u)
        PROVE  Fair' /\ (\A j \in Keys : Budgeted(grants'[j])) /\ ~ broken'
    <3>1. ~ broken'
      BY <2>2, <2>4 DEF GrantsFrom, Granted
    <3>2. QED
      BY <1>3, <2>1, <2>2, <2>4, <3>1, FromFair DEF AnswersFrom
  <2>5. ASSUME NEW b \in buckets[k], NEW u \in Refilled(b, now), NEW x \in retryAfter(u), RefusesFrom(k, now, u, x)
        PROVE  Fair' /\ (\A j \in Keys : Budgeted(grants'[j])) /\ ~ broken'
    <3>1. u < Token /\ Refused(k, now, x)
      BY <2>5 DEF RefusesFrom
    <3>2. \A p \in Due(k, now) : ~ p.again /\ x = 1
      BY <1>3, <2>1, <2>3, <2>5, <3>1, PromiseKept
    <3>3. x = 1 => ~(x > 1)
      OBVIOUS
    <3>4. ~ broken'
      BY <2>2, <3>1, <3>2, <3>3, Zenon DEF Refused
    <3>5. QED
      BY <1>3, <2>1, <2>2, <2>5, <3>4, FromFair DEF AnswersFrom
  <2>6. ASSUME GrantsNew(k, now)
        PROVE  Fair' /\ (\A j \in Keys : Budgeted(grants'[j])) /\ ~ broken'
    <3>1. ~ broken'
      BY <2>2, <2>6 DEF GrantsNew, Granted
    <3>2. QED
      BY <1>3, <2>1, <2>2, <2>6, <3>1, GrantsNewFair
  <2>7. ASSUME RefusesNew(k, now)
        PROVE  Fair' /\ (\A j \in Keys : Budgeted(grants'[j])) /\ ~ broken'
    <3>1. \A p \in Due(k, now) : FALSE
      BY <1>3, <2>1, <2>3, <2>7, PromiseKept
    <3>2. Refused(k, now, capacityDecision(now))
      BY <2>7 DEF RefusesNew
    <3>3. ~ broken'
      BY <2>2, <3>1, <3>2, Zenon DEF Refused
    <3>4. Fair' /\ grants' = grants
      BY <1>3, <2>1, <2>2, <2>7, RefusesNewFair
    <3>5. QED
      BY <2>2, <3>3, <3>4
  <2>8. Fair' /\ (\A j \in Keys : Budgeted(grants'[j])) /\ ~ broken'
    BY <1>2, <2>4, <2>5, <2>6, <2>7 DEF Answers, AnswersFrom
  <2>9. BudgetKept'
    BY <2>8 DEF BudgetKept, Budgeted, Most
  <2>10. QED
    BY <2>8, <2>9
<1>7. QED
  BY <1>4, <1>5, <1>6 DEF LimiterIInv, Fair

\* LimiterIInv is inductive.
LEMMA LimiterInductive == LimiterIInv /\ [LimiterNext]_limiterVars => LimiterIInv'
<1>1. SUFFICES ASSUME LimiterIInv, [LimiterNext]_limiterVars PROVE LimiterIInv'
  OBVIOUS
<1>2. ASSUME UNCHANGED <<buckets, grants, promised, broken, overtaken>>, time' \in Nat,
             asking' \in [Clients -> SUBSET [key : Keys, now : Nat]]
      PROVE  LimiterIInv'
  <2>1. LimiterTypeOK'
    BY <1>1, <1>2 DEF LimiterIInv, LimiterTypeOK, TokenBuckets, Promises
  <2>2. TableBounded'
    BY <1>1, <1>2 DEF LimiterIInv, TableBounded, Bucketed
  <2>3. (\A k \in Keys : Covered(k)) => \A k \in Keys : Covered(k)'
    BY <1>2 DEF Covered, NotBefore, Recovered, Covers, Bucketed
  <2>4. (\A k \in Keys : \A p \in promised[k] : Honest(k, p)) => \A k \in Keys : \A p \in promised'[k] : Honest(k, p)'
    BY <1>2 DEF Honest
  <2>5. BudgetKept => BudgetKept'
    BY <1>2 DEF BudgetKept
  <2>6. QED
    BY <1>1, <1>2, <2>1, <2>2, <2>3, <2>4, <2>5 DEF LimiterIInv
<1>3. CASE LimiterTick
  BY <1>1, <1>2, <1>3 DEF LimiterTick, LimiterIInv, LimiterTypeOK
<1>4. ASSUME NEW c \in Clients, NEW k \in Keys, ReadsClock(c, k) PROVE LimiterIInv'
  <2>1. [key |-> k, now |-> time] \in [key : Keys, now : Nat]
    BY <1>1 DEF LimiterIInv, LimiterTypeOK
  <2>2. asking' \in [Clients -> SUBSET [key : Keys, now : Nat]]
    BY <1>1, <1>4, <2>1 DEF ReadsClock, LimiterIInv, LimiterTypeOK
  <2>3. QED
    BY <1>1, <1>2, <1>4, <2>2 DEF ReadsClock, LimiterIInv, LimiterTypeOK
<1>5. CASE UNCHANGED limiterVars
  BY <1>1, <1>2, <1>5 DEF limiterVars, LimiterIInv, LimiterTypeOK
<1>6. QED
  BY <1>1, <1>3, <1>4, <1>5, AllowFair DEF LimiterNext

\* The table is empty at first.
LEMMA LimiterStarts == LimiterInit => LimiterIInv
<1>1. SUFFICES ASSUME LimiterInit PROVE LimiterIInv
  OBVIOUS
<1>2. LimiterTypeOK
  <2>1. \A k \in Keys : buckets[k] = {} /\ promised[k] = {}
    BY <1>1 DEF LimiterInit
  <2>2. grants \in [Keys -> Seq(Nat)]
    BY <1>1 DEF LimiterInit
  <2>3. time \in Nat /\ broken \in BOOLEAN /\ overtaken \in BOOLEAN
    BY <1>1 DEF LimiterInit
  <2>4. /\ buckets \in [Keys -> SUBSET TokenBuckets] /\ promised \in [Keys -> SUBSET Promises]
        /\ asking \in [Clients -> SUBSET [key : Keys, now : Nat]]
    BY <1>1 DEF LimiterInit
  <2>5. QED
    BY <2>1, <2>2, <2>3, <2>4 DEF LimiterTypeOK
<1>3. TableBounded
  <2>1. Bucketed = {}
    BY <1>1 DEF LimiterInit, Bucketed
  <2>2. QED
    BY <2>1, FS_EmptySet, LimiterNumbers DEF TableBounded
<1>4. \A k \in Keys : Covered(k)
  BY <1>1 DEF LimiterInit, Covered
<1>5. \A k \in Keys : \A p \in promised[k] : Honest(k, p)
  BY <1>1 DEF LimiterInit
<1>6. BudgetKept /\ ~ broken
  BY <1>1 DEF LimiterInit, BudgetKept
<1>7. QED
  BY <1>2, <1>3, <1>4, <1>5, <1>6 DEF LimiterIInv

\* MemoryRateLimiter is honest for any number of keys and handlers, any rate and any
\* size of its table, and for any rounding of its refills and waits within an error that
\* is small against the refill of a nanosecond: as long as no call is overtaken between
\* its clock and the mutex, no key gets more than a burst and what is refilled between
\* any two of its requests (with an error per nanosecond), however its bucket was pruned
\* or evicted in between, and a client that comes back when it was told to, with nobody
\* in between, is served, or refused for one nanosecond more and then served.
THEOREM BudgetsHonest == LimiterSpec => []BudgetHonest
<1>1. LimiterIInv => BudgetHonest
  BY DEF LimiterIInv, BudgetHonest
<1>2. QED
  BY <1>1, LimiterStarts, LimiterInductive, PTL DEF LimiterSpec

\* Max of a finite set of natural numbers is its greatest member.
LEMMA MaxOfFinite ==
  ASSUME NEW S \in SUBSET Nat, IsFiniteSet(S), S # {}
  PROVE  Max(S) \in S /\ \A n \in S : n <= Max(S)
<1> DEFINE Topped(T) == \E m \in T : \A n \in T : m >= n
           Bad == {n \in Nat : \E T \in SUBSET Nat : IsFiniteSet(T) /\ T # {} /\ Cardinality(T) = n /\ ~ Topped(T)}
<1>1. Bad = {}
  <2>1. SUFFICES ASSUME Bad # {} PROVE FALSE
    OBVIOUS
  <2>2. PICK least \in Bad : \A n \in Bad : least <= n
    BY <2>1, Least
  <2>3. PICK T \in SUBSET Nat : IsFiniteSet(T) /\ T # {} /\ Cardinality(T) = least /\ ~ Topped(T)
    BY <2>2
  <2>4. PICK x \in T : TRUE
    BY <2>3
  <2>5. IsFiniteSet(T \ {x}) /\ Cardinality(T \ {x}) = least - 1 /\ least - 1 \in Nat
    <3>1. IsFiniteSet(T \ {x}) /\ Cardinality(T \ {x}) = Cardinality(T) - 1
      BY <2>3, <2>4, FS_RemoveElement
    <3>2. Cardinality(T \ {x}) \in Nat
      BY <3>1, FS_CardinalityType
    <3>3. QED
      BY <2>3, <3>1, <3>2
  <2>6. CASE T \ {x} = {}
    <3>1. T = {x} /\ x \in Nat
      BY <2>4, <2>6
    <3>2. QED
      BY <2>3, <3>1
  <2>7. CASE T \ {x} # {}
    <3>1. Topped(T \ {x})
      <4>1. least - 1 \notin Bad
        BY <2>2, <2>5
      <4>2. QED
        BY <4>1, <2>5, <2>7
    <3>2. PICK m \in T \ {x} : \A n \in T \ {x} : m >= n
      BY <3>1
    <3>3. CASE x >= m
      <4>1. \A n \in T : x >= n
        BY <3>2, <3>3
      <4>2. QED
        BY <2>3, <2>4, <4>1
    <3>4. CASE ~(x >= m)
      <4>1. \A n \in T : m >= n
        BY <3>2, <3>4
      <4>2. QED
        BY <2>3, <3>2, <4>1
    <3>5. QED
      BY <3>3, <3>4
  <2>8. QED
    BY <2>6, <2>7
<1>2. Topped(S)
  <2>1. Cardinality(S) \in Nat
    BY FS_CardinalityType
  <2>2. QED
    BY <1>1, <2>1
<1>3. \E m \in S : \A n \in S : m >= n
  BY <1>2
<1>4. PICK x : x = Max(S)
  OBVIOUS
<1>5. x \in S /\ \A n \in S : x >= n
  BY <1>3, <1>4 DEF Max
<1>6. QED
  BY <1>4, <1>5

(***************************************************************************)
(* Migrations: the ledger, and the order in which it was written.          *)
(***************************************************************************)
MigrationSpec == MigrationInit /\ [][MigrationNext]_migrationVars

Tasks == [does : {"nothing", "up", "down"}, todo : SUBSET Versions, batch : Nat, mid : BOOLEAN]
MigrationTypeOK ==
  /\ defined \in SUBSET Versions /\ sealed \in BOOLEAN
  /\ ledger \in [Versions -> Nat] /\ schema \in [Versions -> Int]
  /\ task \in [Operators -> Tasks]
  /\ applied \in SUBSET (Versions \X Versions)
  /\ wrongDown \in BOOLEAN

\* Rows were written batch by batch, and in a batch version by version.
Chronological ==
  \A v, w \in Versions : <<v, w>> \in applied =>
    v \in Rows /\ w \in Rows /\ (ledger[v] < ledger[w] \/ (ledger[v] = ledger[w] /\ v < w))

\* No row is of a later batch than the task's.  A migration has yet to go up with
\* later versions than those of its batch, and down with all that are left of it.
GoingUp(t) ==
  /\ t.does = "up" /\ t.todo # {} /\ t.batch > 0
  /\ \A v \in t.todo : v \notin Rows
  /\ \A v \in Rows : ledger[v] <= t.batch
  /\ \A v \in Rows : ledger[v] = t.batch => \A w \in t.todo : v < w
GoingDown(t) ==
  /\ t.does = "down" /\ t.todo # {}
  /\ \A v \in Versions : v \in t.todo <=> v \in Rows /\ ledger[v] = t.batch
  /\ \A v \in Rows : ledger[v] <= t.batch
Going(o) ==
  \/ task[o] = NoTask
  \/ (GoingUp(task[o]) \/ GoingDown(task[o])) /\ (task[o].mid => Current(o) \in NoTransaction)

MigrationIInv ==
  /\ MigrationTypeOK
  /\ LedgerTruthful /\ ~ wrongDown
  /\ Chronological
  /\ \A o, q \in Operators : task[o] # NoTask /\ task[q] # NoTask => o = q
  /\ \A o \in Operators : Going(o)

\* An operator with no task is at rest.
LEMMA NoTaskIs == NoTask \in Tasks /\ NoTask.mid = FALSE /\ NoTask.does = "nothing"
BY DEF NoTask, Tasks

\* The next version is the least or the greatest that is left.
LEMMA CurrentIs ==
  ASSUME MigrationTypeOK, NEW o \in Operators, GoingUp(task[o]) \/ GoingDown(task[o])
  PROVE  /\ Current(o) \in task[o].todo /\ Current(o) \in Versions /\ Current(o) \in Nat
         /\ GoingUp(task[o]) => \A v \in task[o].todo : Current(o) <= v
         /\ GoingDown(task[o]) => \A v \in task[o].todo : v <= Current(o)
<1>1. task[o].todo \in SUBSET Nat /\ task[o].todo \subseteq Versions /\ IsFiniteSet(task[o].todo)
  BY MigrationAssumption, FS_Subset DEF MigrationTypeOK, Tasks
<1>2. CASE GoingUp(task[o])
  <2>1. Current(o) = Min(task[o].todo) /\ task[o].todo # {} /\ ~ GoingDown(task[o])
    BY <1>2 DEF GoingUp, GoingDown, Current
  <2>2. QED
    BY <1>1, <2>1, MinOfNat
<1>3. CASE GoingDown(task[o])
  <2>1. Current(o) = Max(task[o].todo) /\ task[o].todo # {} /\ ~ GoingUp(task[o])
    BY <1>3 DEF GoingUp, GoingDown, Current
  <2>2. QED
    BY <1>1, <2>1, MaxOfFinite
<1>4. QED
  BY <1>2, <1>3

\* The latest batch is the greatest the ledger names.
LEMMA LatestBatchIs ==
  ASSUME MigrationTypeOK
  PROVE  LatestBatch \in Nat /\ \A v \in Versions : ledger[v] <= LatestBatch
<1>1. PICK T : T = {ledger[v] : v \in Versions}
  OBVIOUS
<1>2. IsFiniteSet(T)
  <2>1. ledger \in Surjection(Versions, T)
    BY <1>1 DEF Surjection, MigrationTypeOK
  <2>2. QED
    BY <2>1, FS_Surjection, MigrationAssumption
<1>3. IsFiniteSet(T \cup {0}) /\ T \cup {0} \in SUBSET Nat /\ T \cup {0} # {}
  BY <1>1, <1>2, FS_AddElement DEF MigrationTypeOK
<1>4. LatestBatch = Max(T \cup {0})
  BY <1>1 DEF LatestBatch
<1>5. QED
  BY <1>1, <1>3, <1>4, MaxOfFinite

\* No Down runs under a migration that was applied later.
LEMMA InvokeNewest ==
  ASSUME MigrationIInv, NEW o \in Operators, GoingUp(task[o]) \/ GoingDown(task[o]), Invoke(o)
  PROVE  ~ wrongDown' /\ wrongDown' \in BOOLEAN
<1>1. ASSUME task[o].does = "down", NEW v \in Rows, <<Current(o), v>> \in applied PROVE FALSE
  <2>1. MigrationTypeOK /\ Chronological /\ v \in Versions
    BY DEF MigrationIInv, Rows
  <2>2. GoingDown(task[o])
    BY <1>1 DEF GoingUp
  <2>3. Current(o) \in task[o].todo /\ Current(o) \in Versions /\ \A w \in task[o].todo : w <= Current(o)
    BY <2>1, <2>2, CurrentIs
  <2>4. ledger[Current(o)] < ledger[v] \/ (ledger[Current(o)] = ledger[v] /\ Current(o) < v)
    BY <1>1, <2>1, <2>3 DEF Chronological
  <2>5. ledger[Current(o)] = task[o].batch /\ ledger[v] <= task[o].batch
    BY <1>1, <2>2, <2>3 DEF GoingDown
  <2>6. ledger[v] \in Nat /\ ledger[Current(o)] \in Nat /\ v \in Nat /\ Current(o) \in Nat
    BY <2>1, <2>3, MigrationAssumption DEF MigrationTypeOK
  <2>7. ledger[v] = task[o].batch /\ Current(o) < v
    BY <2>4, <2>5, <2>6
  <2>8. v \in task[o].todo
    BY <1>1, <2>1, <2>2, <2>7 DEF GoingDown
  <2>9. QED
    BY <2>3, <2>6, <2>7, <2>8
<1>2. ~ wrongDown
  BY DEF MigrationIInv
<1>3. wrongDown' = (wrongDown \/ (task[o].does = "down" /\ \E v \in Rows : <<Current(o), v>> \in applied))
  BY DEF Invoke
<1>4. QED
  BY <1>1, <1>2, <1>3, Zenon

\* A task is over, or goes on without the version that was recorded.
GoesOn(o, c) == task[o].todo # {c} /\ task' = [task EXCEPT ![o] = [does |-> task[o].does, todo |-> task[o].todo \ {c}, batch |-> task[o].batch, mid |-> FALSE]]
\* Advance stops the task or goes on to the next version.
LEMMA AdvanceIs ==
  ASSUME MigrationTypeOK, NEW o \in Operators, Advance(o)
  PROVE  Stops(o) \/ GoesOn(o, Current(o))
BY DEF Advance, Stops, GoesOn, MigrationTypeOK

\* The statement on the ledger keeps the order of its rows.
LEMMA RecordKeeps ==
  ASSUME MigrationIInv, NEW o \in Operators, task[o] # NoTask, GoingUp(task[o]) \/ GoingDown(task[o]), Record(o),
         Advance(o) \/ Stops(o)
  PROVE  /\ ledger' \in [Versions -> Nat] /\ applied' \in SUBSET (Versions \X Versions) /\ task' \in [Operators -> Tasks]
         /\ \A v \in Versions : v # Current(o) => ledger'[v] = ledger[v]
         /\ GoingUp(task[o]) => ledger'[Current(o)] > 0 /\ ledger[Current(o)] = 0
         /\ GoingDown(task[o]) => ledger'[Current(o)] = 0 /\ ledger[Current(o)] > 0
         /\ Chronological'
         /\ \A p, q \in Operators : task'[p] # NoTask /\ task'[q] # NoTask => p = q
         /\ \A q \in Operators : Going(q)'
<1>1. MigrationTypeOK /\ Chronological
  BY DEF MigrationIInv
<1>2. PICK c \in Versions, t \in Tasks : c = Current(o) /\ t = task[o] /\ c \in t.todo /\ c \in Nat
  BY <1>1, CurrentIs DEF MigrationTypeOK
<1>3. t.batch \in Nat /\ t.todo \in SUBSET Versions /\ \A v \in Versions : v \in Nat /\ ledger[v] \in Nat
  BY <1>1, MigrationAssumption DEF Tasks, MigrationTypeOK
<1>4. /\ ledger' = [ledger EXCEPT ![c] = IF t.does = "up" THEN t.batch ELSE 0]
      /\ applied' = IF t.does = "up" THEN applied \cup (Rows \X {c}) ELSE {p \in applied : c \notin {p[1], p[2]}}
  BY <1>2 DEF Record
<1>5. applied \in SUBSET (Versions \X Versions) /\ Rows \subseteq Versions
  BY <1>1 DEF MigrationTypeOK, Rows
<1>6. ledger' \in [Versions -> Nat] /\ \A v \in Versions : v # c => ledger'[v] = ledger[v]
  BY <1>1, <1>3, <1>4 DEF MigrationTypeOK
<1>7. applied' \in SUBSET (Versions \X Versions)
  BY <1>2, <1>4, <1>5
<1>8. Stops(o) \/ GoesOn(o, c)
  BY <1>1, <1>2, AdvanceIs
<1>9. task' \in [Operators -> Tasks] /\ \A q \in Operators : q # o => task'[q] = NoTask
  <2>1. \A q \in Operators : q # o => task[q] = NoTask
    BY DEF MigrationIInv
  <2>2. task \in [Operators -> Tasks]
    BY <1>1 DEF MigrationTypeOK
  <2>3. CASE Stops(o)
    BY <2>1, <2>2, <2>3, NoTaskIs DEF Stops
  <2>4. CASE GoesOn(o, c)
    <3>1. PICK e : e = [does |-> t.does, todo |-> t.todo \ {c}, batch |-> t.batch, mid |-> FALSE]
      OBVIOUS
    <3>2. e \in Tasks
      BY <3>1 DEF Tasks
    <3>3. task' = [task EXCEPT ![o] = e]
      BY <1>2, <2>4, <3>1 DEF GoesOn
    <3>4. QED
      BY <2>1, <2>2, <3>2, <3>3
  <2>5. QED
    BY <1>8, <2>3, <2>4
<1>10. ASSUME GoingUp(t)
       PROVE  /\ ledger'[c] > 0 /\ ledger[c] = 0 /\ Chronological'
              /\ GoesOn(o, c) => GoingUp(task[o])'
  <2>1. t.does = "up" /\ c \notin Rows /\ t.batch > 0
    BY <1>2, <1>10 DEF GoingUp
  <2>2. ledger'[c] = t.batch /\ applied' = applied \cup (Rows \X {c})
    BY <1>1, <1>4, <2>1 DEF MigrationTypeOK
  <2>3. ledger[c] = 0
    BY <1>3, <2>1 DEF Rows
  <2>4. Rows' = Rows \cup {c}
    BY <1>6, <2>1, <2>2 DEF Rows
  <2>5. Chronological'
    <3>1. SUFFICES ASSUME NEW v \in Versions, NEW w \in Versions, <<v, w>> \in applied'
                   PROVE  v \in Rows' /\ w \in Rows' /\ (ledger'[v] < ledger'[w] \/ (ledger'[v] = ledger'[w] /\ v < w))
      BY DEF Chronological
    <3>2. CASE <<v, w>> \in applied
      <4>1. v \in Rows /\ w \in Rows /\ (ledger[v] < ledger[w] \/ (ledger[v] = ledger[w] /\ v < w))
        BY <1>1, <3>2 DEF Chronological
      <4>2. ledger'[v] = ledger[v] /\ ledger'[w] = ledger[w]
        BY <1>6, <2>1, <4>1
      <4>3. QED
        BY <2>4, <4>1, <4>2
    <3>3. CASE v \in Rows /\ w = c
      <4>1. ledger'[v] = ledger[v] /\ ledger'[w] = t.batch
        BY <1>6, <2>1, <2>2, <3>3
      <4>2. ledger[v] <= t.batch /\ (ledger[v] = t.batch => v < c)
        BY <1>2, <1>10, <3>3 DEF GoingUp
      <4>3. QED
        BY <1>3, <2>4, <3>3, <4>1, <4>2
    <3>4. QED
      BY <2>2, <3>1, <3>2, <3>3
  <2>6. ASSUME GoesOn(o, c) PROVE GoingUp(task[o])'
    <3>1. PICK e : e = task'[o] /\ e.does = "up" /\ e.todo = t.todo \ {c} /\ e.batch = t.batch
      BY <1>1, <1>2, <2>1, <2>6 DEF GoesOn, MigrationTypeOK
    <3>2. e.todo # {}
      BY <1>2, <2>6, <3>1 DEF GoesOn
    <3>3. \A v \in e.todo : v \notin Rows'
      BY <1>10, <2>4, <3>1 DEF GoingUp
    <3>4. \A v \in Rows' : ledger'[v] <= t.batch
      BY <1>3, <1>5, <1>6, <1>10, <2>1, <2>2, <2>4 DEF GoingUp
    <3>5. ASSUME NEW v \in Rows', ledger'[v] = t.batch, NEW w \in t.todo \ {c} PROVE v < w
      <4>1. CASE v = c
        <5>1. c <= w /\ w \in Nat
          BY <1>1, <1>2, <1>3, <1>10, <3>5, CurrentIs
        <5>2. QED
          BY <1>2, <3>5, <4>1, <5>1
      <4>2. CASE v # c
        BY <1>5, <1>6, <1>10, <2>4, <3>5, <4>2 DEF GoingUp
      <4>3. QED
        BY <4>1, <4>2
    <3>6. QED
      BY <2>1, <3>1, <3>2, <3>3, <3>4, <3>5 DEF GoingUp
  <2>7. QED
    BY <1>3, <2>1, <2>2, <2>3, <2>5, <2>6
<1>11. ASSUME GoingDown(t)
       PROVE  /\ ledger'[c] = 0 /\ ledger[c] > 0 /\ Chronological'
              /\ GoesOn(o, c) => GoingDown(task[o])'
  <2>1. t.does = "down" /\ c \in Rows
    BY <1>2, <1>11 DEF GoingDown
  <2>2. ledger'[c] = 0 /\ applied' = {p \in applied : c \notin {p[1], p[2]}}
    BY <1>1, <1>4, <2>1 DEF MigrationTypeOK
  <2>3. ledger[c] > 0
    BY <2>1 DEF Rows
  <2>4. Rows' = Rows \ {c}
    BY <1>3, <1>6, <2>2 DEF Rows
  <2>5. Chronological'
    <3>1. SUFFICES ASSUME NEW v \in Versions, NEW w \in Versions, <<v, w>> \in applied'
                   PROVE  v \in Rows' /\ w \in Rows' /\ (ledger'[v] < ledger'[w] \/ (ledger'[v] = ledger'[w] /\ v < w))
      BY DEF Chronological
    <3>2. <<v, w>> \in applied /\ v # c /\ w # c
      BY <2>2, <3>1
    <3>3. v \in Rows /\ w \in Rows /\ (ledger[v] < ledger[w] \/ (ledger[v] = ledger[w] /\ v < w))
      BY <1>1, <3>2 DEF Chronological
    <3>4. QED
      BY <1>6, <2>4, <3>2, <3>3
  <2>6. ASSUME GoesOn(o, c) PROVE GoingDown(task[o])'
    <3>1. PICK e : e = task'[o] /\ e.does = "down" /\ e.todo = t.todo \ {c} /\ e.batch = t.batch
      BY <1>1, <1>2, <2>1, <2>6 DEF GoesOn, MigrationTypeOK
    <3>2. e.todo # {}
      BY <1>2, <2>6, <3>1 DEF GoesOn
    <3>3. \A v \in Versions : v \in e.todo <=> v \in Rows' /\ ledger'[v] = t.batch
      BY <1>6, <1>11, <2>4, <3>1 DEF GoingDown
    <3>4. \A v \in Rows' : ledger'[v] <= t.batch
      BY <1>5, <1>6, <1>11, <2>4 DEF GoingDown
    <3>5. QED
      BY <3>1, <3>2, <3>3, <3>4 DEF GoingDown
  <2>7. QED
    BY <2>2, <2>3, <2>5, <2>6
<1>12. Going(o)'
  <2>1. CASE Stops(o)
    BY <1>1, <2>1 DEF Stops, Going, MigrationTypeOK
  <2>2. CASE GoesOn(o, c)
    <3>1. GoingUp(task[o])' \/ GoingDown(task[o])'
      BY <1>2, <1>10, <1>11, <2>2
    <3>2. task'[o].mid = FALSE
      BY <1>1, <2>2 DEF GoesOn, MigrationTypeOK
    <3>3. QED
      BY <3>1, <3>2 DEF Going
  <2>3. QED
    BY <1>8, <2>1, <2>2
<1>13. \A q \in Operators : Going(q)'
  BY <1>9, <1>12 DEF Going
<1>14. Chronological' /\ (GoingUp(t) => ledger'[c] > 0 /\ ledger[c] = 0) /\ (GoingDown(t) => ledger'[c] = 0 /\ ledger[c] > 0)
  BY <1>2, <1>10, <1>11
<1>15. QED
  BY <1>2, <1>6, <1>7, <1>9, <1>13, <1>14

\* A run starts with the versions that are pending, or with those of the latest batch.
LEMMA BeginsWell ==
  ASSUME MigrationIInv, NEW o \in Operators, Migrate(o) \/ Rollback(o)
  PROVE  MigrationIInv'
<1>1. MigrationTypeOK /\ LedgerTruthful /\ ~ wrongDown /\ Chronological
  BY DEF MigrationIInv
<1>2. UNCHANGED <<defined, ledger, schema, applied, wrongDown>> /\ sealed' = TRUE /\ \A q \in Operators : task[q] = NoTask
  BY DEF Migrate, Rollback, Begin, Exclusive
<1>3. Rows' = Rows /\ Rows \subseteq Versions /\ defined \subseteq Versions
  BY <1>1, <1>2 DEF Rows, MigrationTypeOK
<1>4. LatestBatch \in Nat /\ (\A v \in Rows : ledger[v] <= LatestBatch) /\ \A v \in Rows : ledger[v] \in Nat
  BY <1>1, LatestBatchIs DEF Rows, MigrationTypeOK
<1>5. ASSUME NEW t \in Tasks, t.mid = FALSE, GoingUp(t) \/ GoingDown(t), task' = [task EXCEPT ![o] = t]
      PROVE  MigrationIInv'
  <2>1. task'[o] = t /\ \A q \in Operators : q # o => task'[q] = NoTask
    BY <1>1, <1>2, <1>5 DEF MigrationTypeOK
  <2>2. MigrationTypeOK'
    BY <1>1, <1>2, <1>5 DEF MigrationTypeOK
  <2>3. LedgerTruthful' /\ Chronological' /\ ~ wrongDown'
    BY <1>1, <1>2, <1>3 DEF LedgerTruthful, Chronological
  <2>4. GoingUp(t) => GoingUp(task[o])'
    BY <1>2, <1>3, <2>1 DEF GoingUp
  <2>5. GoingDown(t) => GoingDown(task[o])'
    BY <1>2, <1>3, <2>1 DEF GoingDown
  <2>6. \A q \in Operators : Going(q)'
    BY <1>5, <2>1, <2>4, <2>5 DEF Going
  <2>7. QED
    BY <2>1, <2>2, <2>3, <2>6 DEF MigrationIInv
<1>6. ASSUME task' = task PROVE MigrationIInv'
  <2>1. MigrationTypeOK'
    BY <1>1, <1>2, <1>6 DEF MigrationTypeOK
  <2>2. LedgerTruthful' /\ Chronological' /\ ~ wrongDown'
    BY <1>1, <1>2, <1>3 DEF LedgerTruthful, Chronological
  <2>3. \A q \in Operators : Going(q)' /\ task'[q] = NoTask
    BY <1>2, <1>6 DEF Going
  <2>4. QED
    BY <2>1, <2>2, <2>3 DEF MigrationIInv
<1>7. CASE Migrate(o)
  <2>1. PICK t : t = [does |-> "up", todo |-> defined \ Rows, batch |-> LatestBatch + 1, mid |-> FALSE]
    OBVIOUS
  <2>2. task' = IF HistoryKnown /\ defined \ Rows # {} THEN [task EXCEPT ![o] = t] ELSE task
    BY <1>7, <2>1 DEF Migrate, Begin
  <2>3. t \in Tasks /\ t.mid = FALSE /\ t.does = "up" /\ t.todo = defined \ Rows /\ t.batch = LatestBatch + 1
    BY <1>3, <1>4, <2>1 DEF Tasks
  <2>4. \A v \in Rows : ledger[v] <= t.batch /\ ledger[v] # t.batch
    BY <1>4, <2>3
  <2>5. defined \ Rows # {} => GoingUp(t)
    BY <1>4, <2>3, <2>4 DEF GoingUp
  <2>6. QED
    BY <1>5, <1>6, <2>2, <2>3, <2>5
<1>8. CASE Rollback(o)
  <2>1. PICK S : S = {v \in Rows : ledger[v] = LatestBatch}
    OBVIOUS
  <2>2. PICK t : t = [does |-> "down", todo |-> S, batch |-> LatestBatch, mid |-> FALSE]
    OBVIOUS
  <2>3. t \in Tasks /\ t.mid = FALSE /\ t.does = "down" /\ t.todo = S /\ t.batch = LatestBatch
    BY <1>3, <1>4, <2>1, <2>2 DEF Tasks
  <2>4. S # {} => GoingDown(t)
    BY <1>3, <1>4, <2>1, <2>3 DEF GoingDown
  <2>5. CASE S \cap NoDown = {}
    <3>1. task' = IF HistoryKnown /\ S # {} THEN [task EXCEPT ![o] = t] ELSE task
      BY <1>8, <2>1, <2>2, <2>5 DEF Rollback, Begin
    <3>2. QED
      BY <1>5, <1>6, <2>3, <2>4, <3>1
  <2>6. CASE S \cap NoDown # {}
    <3>1. task' = task
      BY <1>8, <2>1, <2>6 DEF Rollback, Begin
    <3>2. QED
      BY <1>6, <3>1
  <2>7. QED
    BY <2>5, <2>6
<1>9. QED
  BY <1>7, <1>8

\* Everything that ends tasks and leaves the database alone.
LEMMA EndsWell ==
  ASSUME MigrationIInv, UNCHANGED <<ledger, schema, applied, wrongDown>>, defined' \in SUBSET Versions, sealed' \in BOOLEAN,
         task' \in [Operators -> Tasks], \A o \in Operators : task'[o] = task[o] \/ task'[o] = NoTask
  PROVE  MigrationIInv'
<1>1. MigrationTypeOK'
  BY DEF MigrationIInv, MigrationTypeOK
<1>2. Rows' = Rows
  BY DEF Rows
<1>3. LedgerTruthful' /\ Chronological' /\ ~ wrongDown'
  BY <1>2 DEF MigrationIInv, LedgerTruthful, Chronological
<1>4. \A o, q \in Operators : task'[o] # NoTask /\ task'[q] # NoTask => o = q
  BY DEF MigrationIInv
<1>5. ASSUME NEW o \in Operators PROVE Going(o)'
  <2>1. Going(o)
    BY DEF MigrationIInv
  <2>2. CASE task'[o] = NoTask
    BY <2>2 DEF Going
  <2>3. CASE task'[o] = task[o]
    BY <1>2, <2>1, <2>3 DEF Going, GoingUp, GoingDown, Current
  <2>4. QED
    BY <2>2, <2>3
<1>6. QED
  BY <1>1, <1>3, <1>4, <1>5 DEF MigrationIInv

\* A task goes up or down, and what is half done is a migration without a transaction.
LEMMA GoingIs ==
  ASSUME MigrationIInv, NEW o \in Operators, task[o] # NoTask
  PROVE  /\ GoingUp(task[o]) \/ GoingDown(task[o])
         /\ ~(GoingUp(task[o]) /\ GoingDown(task[o]))
         /\ task[o].mid => Current(o) \in NoTransaction
         /\ Current(o) \in Versions
<1>1. GoingUp(task[o]) \/ GoingDown(task[o])
  BY DEF MigrationIInv, Going
<1>2. QED
  BY <1>1, CurrentIs DEF MigrationIInv, Going, GoingUp, GoingDown

\* MigrationIInv is inductive.
LEMMA MigrationInductive == MigrationIInv /\ [MigrationNext]_migrationVars => MigrationIInv'
<1>1. SUFFICES ASSUME MigrationIInv, [MigrationNext]_migrationVars PROVE MigrationIInv'
  OBVIOUS
<1>2. MigrationTypeOK
  BY <1>1 DEF MigrationIInv
<1>3. CASE Restart
  BY <1>1, <1>3, EndsWell, NoTaskIs DEF Restart
<1>4. ASSUME NEW v \in Versions, RegisterMigration(v) PROVE MigrationIInv'
  BY <1>1, <1>2, <1>4, EndsWell DEF RegisterMigration, MigrationTypeOK
<1>5. ASSUME NEW o \in Operators, FailsMigration(o) PROVE MigrationIInv'
  BY <1>1, <1>2, <1>5, EndsWell, NoTaskIs DEF FailsMigration, Stops, MigrationTypeOK
<1>6. CASE UNCHANGED migrationVars
  BY <1>1, <1>2, <1>6, EndsWell DEF migrationVars, MigrationTypeOK
<1>7. ASSUME NEW o \in Operators, Commits(o) PROVE MigrationIInv'
  <2>1. /\ task[o] # NoTask /\ Current(o) \notin NoTransaction /\ Invoke(o) /\ Record(o)
        /\ Advance(o) \/ Stops(o)
        /\ UNCHANGED <<defined, sealed>>
    BY <1>7 DEF Commits, Transactional
  <2>2. PICK c \in Versions : c = Current(o)
    BY <1>1, <2>1, GoingIs
  <2>3. (GoingUp(task[o]) \/ GoingDown(task[o])) /\ ~(GoingUp(task[o]) /\ GoingDown(task[o]))
    BY <1>1, <2>1, GoingIs
  <2>4. /\ ledger' \in [Versions -> Nat] /\ applied' \in SUBSET (Versions \X Versions) /\ task' \in [Operators -> Tasks]
        /\ \A v \in Versions : v # c => ledger'[v] = ledger[v]
        /\ GoingUp(task[o]) => ledger'[c] > 0 /\ ledger[c] = 0
        /\ GoingDown(task[o]) => ledger'[c] = 0 /\ ledger[c] > 0
        /\ Chronological'
        /\ \A p, q \in Operators : task'[p] # NoTask /\ task'[q] # NoTask => p = q
        /\ \A q \in Operators : Going(q)'
    BY <1>1, <2>1, <2>2, <2>3, RecordKeeps
  <2>5. ~ wrongDown' /\ wrongDown' \in BOOLEAN
    BY <1>1, <2>1, <2>3, InvokeNewest
  <2>6. schema' = [schema EXCEPT ![c] = IF task[o].does = "up" THEN @ + 1 ELSE @ - 1]
    BY <2>1, <2>2 DEF Invoke
  <2>7. schema' \in [Versions -> Int]
    BY <1>2, <2>6 DEF MigrationTypeOK
  <2>8. LedgerTruthful'
    <3>1. SUFFICES ASSUME NEW v \in Versions \ NoTransaction PROVE schema'[v] = IF ledger'[v] > 0 THEN 1 ELSE 0
      BY DEF LedgerTruthful
    <3>2. schema[v] = IF ledger[v] > 0 THEN 1 ELSE 0
      BY <1>1 DEF MigrationIInv, LedgerTruthful
    <3>3. CASE v # c
      BY <1>2, <2>4, <2>6, <3>2, <3>3 DEF MigrationTypeOK
    <3>4. CASE v = c /\ GoingUp(task[o])
      <4>1. schema'[v] = schema[v] + 1
        BY <1>2, <2>6, <3>4 DEF MigrationTypeOK, GoingUp
      <4>2. QED
        BY <2>4, <3>2, <3>4, <4>1
    <3>5. CASE v = c /\ GoingDown(task[o])
      <4>1. schema'[v] = schema[v] - 1
        BY <1>2, <2>6, <3>5 DEF MigrationTypeOK, GoingDown
      <4>2. QED
        BY <2>4, <3>2, <3>5, <4>1
    <3>6. QED
      BY <2>3, <3>3, <3>4, <3>5
  <2>9. MigrationTypeOK'
    BY <1>2, <2>1, <2>4, <2>5, <2>7 DEF MigrationTypeOK
  <2>10. QED
    BY <2>4, <2>5, <2>8, <2>9 DEF MigrationIInv
<1>8. ASSUME NEW o \in Operators, InvokesAlone(o) PROVE MigrationIInv'
  <2>1. /\ task[o] # NoTask /\ Current(o) \in NoTransaction /\ Invoke(o)
        /\ task' = [task EXCEPT ![o].mid = TRUE]
        /\ UNCHANGED <<defined, sealed, ledger, applied>>
    BY <1>8 DEF InvokesAlone, Transactional
  <2>2. PICK c \in Versions : c = Current(o)
    BY <1>1, <2>1, GoingIs
  <2>3. GoingUp(task[o]) \/ GoingDown(task[o])
    BY <1>1, <2>1, GoingIs
  <2>4. ~ wrongDown' /\ wrongDown' \in BOOLEAN
    BY <1>1, <2>1, <2>3, InvokeNewest
  <2>5. schema' = [schema EXCEPT ![c] = IF task[o].does = "up" THEN @ + 1 ELSE @ - 1]
    BY <2>1, <2>2 DEF Invoke
  <2>6. schema' \in [Versions -> Int] /\ \A v \in Versions : v # c => schema'[v] = schema[v]
    BY <1>2, <2>5 DEF MigrationTypeOK
  <2>7. Rows' = Rows
    BY <2>1 DEF Rows
  <2>8. LedgerTruthful' /\ Chronological'
    BY <1>1, <2>1, <2>2, <2>6, <2>7 DEF MigrationIInv, LedgerTruthful, Chronological
  <2>9. PICK t \in Tasks : t = task[o]
    BY <1>2 DEF MigrationTypeOK
  <2>10. PICK e : e = [t EXCEPT !.mid = TRUE]
    OBVIOUS
  <2>11. e \in Tasks /\ e.does = t.does /\ e.todo = t.todo /\ e.batch = t.batch
    BY <2>9, <2>10 DEF Tasks
  <2>12. task' = [task EXCEPT ![o] = e]
    BY <1>2, <2>1, <2>9, <2>10 DEF MigrationTypeOK
  <2>13. task'[o] = e /\ task' \in [Operators -> Tasks] /\ \A q \in Operators : q # o => task'[q] = task[q]
    BY <1>2, <2>11, <2>12 DEF MigrationTypeOK
  <2>14. \A q \in Operators : q # o => task'[q] = NoTask
    BY <1>1, <2>1, <2>13 DEF MigrationIInv
  <2>15. Current(o)' = Current(o)
    BY <2>9, <2>11, <2>13 DEF Current
  <2>16. GoingUp(task[o])' \/ GoingDown(task[o])'
    <3>1. GoingUp(task[o]) => GoingUp(task[o])'
      BY <2>1, <2>7, <2>9, <2>11, <2>13 DEF GoingUp
    <3>2. GoingDown(task[o]) => GoingDown(task[o])'
      BY <2>1, <2>7, <2>9, <2>11, <2>13 DEF GoingDown
    <3>3. QED
      BY <2>3, <3>1, <3>2
  <2>17. \A q \in Operators : Going(q)'
    BY <2>1, <2>14, <2>15, <2>16 DEF Going
  <2>18. MigrationTypeOK'
    BY <1>2, <2>1, <2>4, <2>6, <2>13 DEF MigrationTypeOK
  <2>19. QED
    BY <2>4, <2>8, <2>14, <2>17, <2>18 DEF MigrationIInv
<1>9. ASSUME NEW o \in Operators, RecordsAlone(o) PROVE MigrationIInv'
  <2>1. task[o].mid /\ Record(o) /\ Advance(o) /\ UNCHANGED <<defined, sealed, schema, wrongDown>>
    BY <1>9 DEF RecordsAlone
  <2>2. task[o] # NoTask
    BY <2>1, NoTaskIs
  <2>3. PICK c \in Versions : c = Current(o) /\ c \in NoTransaction
    BY <1>1, <2>1, <2>2, GoingIs
  <2>4. GoingUp(task[o]) \/ GoingDown(task[o])
    BY <1>1, <2>2, GoingIs
  <2>5. /\ ledger' \in [Versions -> Nat] /\ applied' \in SUBSET (Versions \X Versions) /\ task' \in [Operators -> Tasks]
        /\ \A v \in Versions : v # c => ledger'[v] = ledger[v]
        /\ Chronological'
        /\ \A p, q \in Operators : task'[p] # NoTask /\ task'[q] # NoTask => p = q
        /\ \A q \in Operators : Going(q)'
    BY <1>1, <2>1, <2>2, <2>3, <2>4, RecordKeeps
  <2>6. LedgerTruthful'
    BY <1>1, <2>1, <2>3, <2>5 DEF MigrationIInv, LedgerTruthful
  <2>7. MigrationTypeOK' /\ ~ wrongDown'
    BY <1>1, <1>2, <2>1, <2>5 DEF MigrationTypeOK, MigrationIInv
  <2>8. QED
    BY <2>5, <2>6, <2>7 DEF MigrationIInv
<1>10. QED
  BY <1>1, <1>3, <1>4, <1>5, <1>6, <1>7, <1>8, <1>9, BeginsWell DEF MigrationNext

\* Nothing is applied at first.
LEMMA MigrationStarts == MigrationInit => MigrationIInv
<1>1. SUFFICES ASSUME MigrationInit PROVE MigrationIInv
  OBVIOUS
<1>2. \A o \in Operators : task[o] = NoTask
  BY <1>1 DEF MigrationInit
<1>3. MigrationTypeOK
  <2>1. ledger \in [Versions -> Nat] /\ schema \in [Versions -> Int]
    BY <1>1 DEF MigrationInit
  <2>2. task \in [Operators -> Tasks]
    BY <1>1, NoTaskIs DEF MigrationInit
  <2>3. defined \in SUBSET Versions /\ applied \in SUBSET (Versions \X Versions)
    BY <1>1 DEF MigrationInit
  <2>4. sealed \in BOOLEAN /\ wrongDown \in BOOLEAN
    BY <1>1 DEF MigrationInit
  <2>5. QED
    BY <2>1, <2>2, <2>3, <2>4 DEF MigrationTypeOK
<1>4. LedgerTruthful /\ ~ wrongDown /\ Chronological
  BY <1>1 DEF MigrationInit, LedgerTruthful, Chronological
<1>5. QED
  BY <1>2, <1>3, <1>4 DEF MigrationIInv, Going

\* The migration runner can be relied on for any set of versions, any number of
\* callers in the process, any failures and crashes, and releases that register other
\* migrations: the ledger tells the truth about every migration that runs in a
\* transaction, and no Down runs under a migration that was applied later.
THEOREM MigrationsReverse == MigrationSpec => []HistoryKept
<1>1. MigrationIInv => HistoryKept
  BY DEF MigrationIInv, HistoryKept, RevertsNewestFirst
<1>2. QED
  BY <1>1, MigrationStarts, MigrationInductive, PTL DEF MigrationSpec

(***************************************************************************)
(* Upgrade: what --apply has written, and what it has kept to restore.     *)
(***************************************************************************)
UpgradeSpec == UpgradeInit /\ [][UpgradeNext]_upgradeVars

Contents == Created \cup Targets \cup Published \cup {Absent}
Processes == <<"tidy", "pub_get", "verify">>
Todos ==
  {Manifests, <<"go.mod", "pubspec.yaml">>, <<"pubspec.yaml">>, Processes, <<"pub_get", "verify">>, <<"verify">>, <<>>}
    \cup SUBSET Managed
UpgradeTypeOK ==
  /\ managed \in [Managed -> Contents] /\ saved \in [Managed -> Contents] /\ original \in [Managed -> Contents]
  /\ strayed \in BOOLEAN
  /\ phase \in [at : {"quiet", "writing", "running", "restoring", "partly_restored"}, todo : Todos, target : Contents]

\* These files are at the target.
AtTarget(S) == \A f \in S : managed[f] = phase.target
\* These files are as the command found them, but for a stray's pubspec.lock.
AsFound(S) == \A f \in S : managed[f] = original[f] \/ (f = "pubspec.lock" /\ strayed)
\* pubspec.lock is one that the target admits, unless it is a stray's.
LockFits == managed["pubspec.lock"] \in Compatible(phase.target) \/ strayed
\* The manifests that are no longer to be written are at the target, and nothing has
\* changed as long as all of them are.
Written ==
  \/ phase.todo = Manifests /\ AsFound(Managed)
  \/ phase.todo = <<"go.mod", "pubspec.yaml">> /\ AtTarget({"project.json"})
  \/ phase.todo = <<"pubspec.yaml">> /\ AtTarget({"project.json", "go.mod"})
\* So are all manifests, and the lock files of the processes that have ended fit.
Run ==
  \/ phase.todo = Processes /\ AtTarget({"project.json", "go.mod", "pubspec.yaml"})
  \/ phase.todo = <<"pub_get", "verify">> /\ AtTarget({"project.json", "go.mod", "pubspec.yaml", "go.sum"})
  \/ phase.todo = <<"verify">> /\ AtTarget({"project.json", "go.mod", "pubspec.yaml", "go.sum"}) /\ LockFits

UpgradeIInv ==
  /\ UpgradeTypeOK /\ UpgradeReportsTruth
  /\ phase.at = "quiet" => phase = Quiet
  /\ phase.at # "quiet" => saved = original /\ report = NoReport
  /\ phase.at = "writing" => Written
  /\ phase.at = "running" => Run
  /\ phase.at \in {"restoring", "partly_restored"} => phase.todo \in SUBSET Managed
  /\ phase.at = "restoring" => AsFound(Managed \ phase.todo)

\* The managed files.
LEMMA ManagedIs ==
  /\ Range(Manifests) = {"project.json", "go.mod", "pubspec.yaml"}
  /\ Managed = {"project.json", "go.mod", "pubspec.yaml", "go.sum", "pubspec.lock"}
BY DEF Manifests, Managed, Range

\* The order the manifests are written in.
LEMMA ManifestTails ==
  /\ Head(Manifests) = "project.json" /\ Tail(Manifests) = <<"go.mod", "pubspec.yaml">> /\ Len(Manifests) = 3
  /\ Head(<<"go.mod", "pubspec.yaml">>) = "go.mod" /\ Tail(<<"go.mod", "pubspec.yaml">>) = <<"pubspec.yaml">>
  /\ Len(<<"go.mod", "pubspec.yaml">>) = 2
  /\ Head(<<"pubspec.yaml">>) = "pubspec.yaml" /\ Len(<<"pubspec.yaml">>) = 1
BY DEF Manifests

\* The order the processes run in.
LEMMA ProcessTails ==
  /\ Head(Processes) = "tidy" /\ Tail(Processes) = <<"pub_get", "verify">> /\ Len(Processes) = 3
  /\ Head(<<"pub_get", "verify">>) = "pub_get" /\ Tail(<<"pub_get", "verify">>) = <<"verify">>
  /\ Len(<<"pub_get", "verify">>) = 2
  /\ Head(<<"verify">>) = "verify" /\ Len(<<"verify">>) = 1
BY DEF Processes

\* A plan is not an answer of --apply.
Statuses == {"unsupported", "migration_required", "current"}
\* A report has the status it is made with.
LEMMA ReportIs ==
  ASSUME NEW status, NEW plan, NEW steps
  PROVE  Report(status, plan, steps).status = status
BY DEF Report

\* evaluateUpgrade never says that something was applied.
LEMMA PlanStatus ==
  ASSUME NEW cat, NEW p, NEW target
  PROVE  evaluateUpgrade(cat, p, target).status \in Statuses
<1>1. \E s \in Statuses : \E plan, steps : evaluateUpgrade(cat, p, target) = Report(s, plan, steps)
  BY DEF evaluateUpgrade, Evaluated, Statuses
<1>2. QED
  BY <1>1, ReportIs

\* What the command's reports say.
LEMMA ReportsAre ==
  /\ NoReport.status = "none"
  /\ \A v : LET r == [NoReport EXCEPT !.status = "apply_failed", !.target = v] IN r.status = "apply_failed"
  /\ \A v : LET r == [NoReport EXCEPT !.status = "applied", !.wrote = TRUE, !.target = v]
            IN r.status = "applied" /\ r.target = v
  /\ \A v, b : LET r == [NoReport EXCEPT !.status = "apply_failed", !.wrote = TRUE, !.rolledBack = b, !.target = v]
               IN r.status = "apply_failed" /\ r.wrote = TRUE /\ r.rolledBack = b
BY DEF NoReport

\* Completing a report keeps its status.
LEMMA AboutStatus ==
  ASSUME NEW r, NEW v
  PROVE  About(FullReport(r), v, FALSE, FALSE).status = r.status
<1>1. PICK s : s = FullReport(r) /\ s.status = r.status /\ DOMAIN s = DOMAIN NoReport
  <2>1. FullReport(r).status = r.status /\ DOMAIN FullReport(r) = DOMAIN NoReport
    BY DEF FullReport, NoReport
  <2>2. QED
    BY <2>1
<1>2. "status" \in DOMAIN s
  BY <1>1 DEF NoReport
<1>3. QED
  BY <1>1, <1>2 DEF About

\* At rest nothing is to be done.
LEMMA QuietIs ==
  /\ Quiet \in [at : {"quiet", "writing", "running", "restoring", "partly_restored"}, todo : Todos, target : Contents]
  /\ Quiet.at = "quiet" /\ NoSnapshot \in [Managed -> Contents]
BY DEF Quiet, Todos, Contents, NoSnapshot

\* The command is at rest, with a report that is true.
LEMMA RestsTrue ==
  ASSUME UpgradeIInv, phase' = Quiet, saved' \in [Managed -> Contents], managed' \in [Managed -> Contents],
         original' \in [Managed -> Contents], strayed' \in BOOLEAN, UpgradeReportsTruth'
  PROVE  UpgradeIInv'
<1>1. UpgradeTypeOK'
  BY QuietIs DEF UpgradeTypeOK
<1>2. phase'.at = "quiet"
  BY QuietIs
<1>3. QED
  BY <1>1, <1>2 DEF UpgradeIInv

\* No file was touched or a manifest was written, a process ran, or everything is to be
\* restored: the command goes on, and reports nothing yet.
LEMMA GoesOnQuietly ==
  ASSUME UpgradeIInv, phase.at # "quiet", UNCHANGED <<saved, original, report>>, managed' \in [Managed -> Contents],
         strayed' \in BOOLEAN, NEW at \in {"writing", "running", "restoring", "partly_restored"}, NEW todo \in Todos,
         phase' = [at |-> at, todo |-> todo, target |-> phase.target],
         at = "writing" => Written', at = "running" => Run',
         at \in {"restoring", "partly_restored"} => todo \in SUBSET Managed,
         at = "restoring" => AsFound(Managed \ todo)'
  PROVE  UpgradeIInv'
<1>1. phase'.at = at /\ phase'.todo = todo /\ phase'.target = phase.target
  OBVIOUS
<1>2. UpgradeTypeOK /\ saved = original /\ report = NoReport
  BY DEF UpgradeIInv
<1>3. UpgradeTypeOK'
  <2>1. phase.target \in Contents
    BY <1>2 DEF UpgradeTypeOK
  <2>2. QED
    BY <1>2, <2>1 DEF UpgradeTypeOK
<1>4. UpgradeReportsTruth'
  BY <1>2, ReportsAre DEF UpgradeReportsTruth
<1>5. QED
  BY <1>1, <1>2, <1>3, <1>4 DEF UpgradeIInv

\* The phase with something else left to do.
LEMMA PhaseIs ==
  ASSUME UpgradeTypeOK, NEW todo
  PROVE  [phase EXCEPT !.todo = todo] = [at |-> phase.at, todo |-> todo, target |-> phase.target]
BY DEF UpgradeTypeOK

\* A failure starts restoring every managed file, from the snapshot of the original.
LEMMA RollsBackWell ==
  ASSUME UpgradeIInv, phase.at # "quiet", RollsBack, original' = original, managed' \in [Managed -> Contents],
         strayed' = strayed
  PROVE  UpgradeIInv'
<1>1. phase' = [at |-> "restoring", todo |-> Managed, target |-> phase.target]
  BY DEF RollsBack
<1>2. Managed \in Todos
  BY DEF Todos
<1>3. strayed' \in BOOLEAN /\ AsFound(Managed \ Managed)'
  BY DEF UpgradeIInv, UpgradeTypeOK, AsFound
<1>4. QED
  BY <1>1, <1>2, <1>3, GoesOnQuietly DEF RollsBack

\* Writing a manifest leaves it at the target, and the others written before.
LEMMA WritesWell ==
  ASSUME UpgradeIInv, WritesManifest
  PROVE  UpgradeIInv'
<1>1. UpgradeTypeOK /\ phase.at = "writing" /\ Written /\ strayed' \in BOOLEAN
  BY DEF UpgradeIInv, WritesManifest, UpgradeTypeOK
<1>2. phase.target \in Contents /\ managed \in [Managed -> Contents]
  BY <1>1 DEF UpgradeTypeOK
<1>3. ASSUME NEW f \in Managed, NEW S \in SUBSET Managed, AtTarget(S), Head(phase.todo) = f, phase'.target = phase.target
      PROVE  managed' \in [Managed -> Contents] /\ AtTarget(S \cup {f})'
  <2>1. managed' = [managed EXCEPT ![f] = phase.target]
    BY <1>3 DEF WritesManifest
  <2>2. QED
    BY <1>2, <1>3, <2>1 DEF AtTarget
<1>4. ASSUME Len(phase.todo) > 1
      PROVE  phase' = [at |-> "writing", todo |-> Tail(phase.todo), target |-> phase.target]
  BY <1>1, <1>4, PhaseIs DEF WritesManifest
<1>5. CASE phase.todo = Manifests
  <2>1. phase' = [at |-> "writing", todo |-> <<"go.mod", "pubspec.yaml">>, target |-> phase.target]
    <3>1. Len(phase.todo) > 1 /\ Tail(phase.todo) = <<"go.mod", "pubspec.yaml">>
      BY <1>5, ManifestTails
    <3>2. QED
      BY <1>4, <3>1
  <2>2. managed' \in [Managed -> Contents] /\ AtTarget({} \cup {"project.json"})'
    <3>1. AtTarget({}) /\ "project.json" \in Managed /\ Head(phase.todo) = "project.json" /\ phase'.target = phase.target
      BY <1>5, <2>1, ManifestTails, ManagedIs DEF AtTarget
    <3>2. QED
      BY <1>3, <3>1
  <2>3. Written'
    BY <2>1, <2>2 DEF Written
  <2>4. QED
    BY <1>1, <2>1, <2>2, <2>3, GoesOnQuietly DEF Todos, WritesManifest
<1>6. CASE phase.todo = <<"go.mod", "pubspec.yaml">> /\ AtTarget({"project.json"})
  <2>1. phase' = [at |-> "writing", todo |-> <<"pubspec.yaml">>, target |-> phase.target]
    BY <1>4, <1>6, ManifestTails
  <2>2. managed' \in [Managed -> Contents] /\ AtTarget({"project.json"} \cup {"go.mod"})'
    <3>1. "go.mod" \in Managed /\ {"project.json"} \in SUBSET Managed /\ Head(phase.todo) = "go.mod" /\ phase'.target = phase.target
      BY <1>6, <2>1, ManifestTails, ManagedIs
    <3>2. QED
      BY <1>3, <1>6, <3>1
  <2>3. {"project.json"} \cup {"go.mod"} = {"project.json", "go.mod"}
    OBVIOUS
  <2>4. Written'
    BY <2>1, <2>2, <2>3 DEF Written
  <2>5. QED
    BY <1>1, <2>1, <2>2, <2>4, GoesOnQuietly DEF Todos, WritesManifest
<1>7. CASE phase.todo = <<"pubspec.yaml">> /\ AtTarget({"project.json", "go.mod"})
  <2>1. phase' = [at |-> "running", todo |-> Processes, target |-> phase.target]
    <3>1. ~(Len(phase.todo) > 1)
      BY <1>7, ManifestTails
    <3>2. QED
      BY <1>1, <3>1 DEF WritesManifest, Processes
  <2>2. managed' \in [Managed -> Contents] /\ AtTarget({"project.json", "go.mod"} \cup {"pubspec.yaml"})'
    <3>1. "pubspec.yaml" \in Managed /\ {"project.json", "go.mod"} \in SUBSET Managed /\ Head(phase.todo) = "pubspec.yaml"
          /\ phase'.target = phase.target
      BY <1>7, <2>1, ManifestTails, ManagedIs
    <3>2. QED
      BY <1>3, <1>7, <3>1
  <2>3. {"project.json", "go.mod"} \cup {"pubspec.yaml"} = {"project.json", "go.mod", "pubspec.yaml"}
    OBVIOUS
  <2>4. Run'
    BY <2>1, <2>2, <2>3 DEF Run
  <2>5. QED
    BY <1>1, <2>1, <2>2, <2>4, GoesOnQuietly DEF Todos, WritesManifest
<1>8. QED
  BY <1>1, <1>5, <1>6, <1>7 DEF Written

\* What a process writes: one lock file, for what its manifest admits.
LEMMA ResolvedIs ==
  ASSUME UpgradeTypeOK, NEW m \in Resolved
  PROVE  /\ m \in [Managed -> Contents]
         /\ Head(phase.todo) = "tidy" => m = [managed EXCEPT !["go.sum"] = phase.target]
         /\ Head(phase.todo) = "pub_get" =>
              \E v \in Compatible(phase.target) : m = [managed EXCEPT !["pubspec.lock"] = v]
         /\ Head(phase.todo) = "verify" => m = managed
<1>1. phase.target \in Contents /\ managed \in [Managed -> Contents] /\ Compatible(phase.target) \subseteq Contents
  BY DEF UpgradeTypeOK, Compatible, Contents
<1>2. CASE Head(phase.todo) = "tidy"
  <2>1. m = [managed EXCEPT !["go.sum"] = phase.target]
    BY <1>2 DEF Resolved, Locked
  <2>2. QED
    BY <1>1, <1>2, <2>1
<1>3. CASE Head(phase.todo) = "pub_get"
  <2>1. PICK v \in Compatible(phase.target) : m = [managed EXCEPT !["pubspec.lock"] = v]
    BY <1>3 DEF Resolved, Locked
  <2>2. QED
    BY <1>1, <1>3, <2>1
<1>4. CASE Head(phase.todo) # "tidy" /\ Head(phase.todo) # "pub_get"
  BY <1>1, <1>4 DEF Resolved
<1>5. QED
  BY <1>2, <1>3, <1>4

\* A process brings its lock file to the target, or to what the target admits.
LEMMA RunsWell ==
  ASSUME UpgradeIInv, RunsProcess
  PROVE  UpgradeIInv'
<1> DEFINE Early == {"project.json", "go.mod", "pubspec.yaml"}
           Tidied == {"project.json", "go.mod", "pubspec.yaml", "go.sum"}
<1>1. /\ UpgradeTypeOK /\ phase.at = "running" /\ Run
      /\ strayed' = strayed /\ strayed' \in BOOLEAN /\ original' = original
  BY DEF UpgradeIInv, RunsProcess, UpgradeTypeOK
<1>2. managed \in [Managed -> Contents] /\ managed' \in Resolved /\ managed' \in [Managed -> Contents]
  BY <1>1, ResolvedIs DEF UpgradeTypeOK, RunsProcess
<1>3. ASSUME Len(phase.todo) > 1
      PROVE  phase' = [at |-> "running", todo |-> Tail(phase.todo), target |-> phase.target] /\ UNCHANGED <<saved, report>>
  BY <1>1, <1>3, PhaseIs DEF RunsProcess
<1>4. CASE phase.todo = Processes /\ AtTarget(Early)
  <2>1. Len(phase.todo) > 1 /\ Tail(phase.todo) = <<"pub_get", "verify">> /\ Head(phase.todo) = "tidy"
    BY <1>4, ProcessTails
  <2>2. phase' = [at |-> "running", todo |-> <<"pub_get", "verify">>, target |-> phase.target] /\ UNCHANGED <<saved, report>>
    BY <1>3, <2>1
  <2>3. phase'.target = phase.target /\ phase'.todo = <<"pub_get", "verify">>
    BY <2>2
  <2>4. managed' = [managed EXCEPT !["go.sum"] = phase.target]
    BY <1>1, <1>2, <2>1, ResolvedIs
  <2>5. AtTarget(Tidied)'
    BY <1>2, <1>4, <2>3, <2>4, ManagedIs DEF AtTarget
  <2>6. Run'
    BY <2>3, <2>5 DEF Run
  <2>7. QED
    BY <1>1, <1>2, <2>2, <2>6, GoesOnQuietly DEF Todos
<1>5. CASE phase.todo = <<"pub_get", "verify">> /\ AtTarget(Tidied)
  <2>1. Len(phase.todo) > 1 /\ Tail(phase.todo) = <<"verify">> /\ Head(phase.todo) = "pub_get"
    BY <1>5, ProcessTails
  <2>2. phase' = [at |-> "running", todo |-> <<"verify">>, target |-> phase.target] /\ UNCHANGED <<saved, report>>
    BY <1>3, <2>1
  <2>3. phase'.target = phase.target /\ phase'.todo = <<"verify">>
    BY <2>2
  <2>4. PICK v \in Compatible(phase.target) : managed' = [managed EXCEPT !["pubspec.lock"] = v]
    BY <1>1, <1>2, <2>1, ResolvedIs
  <2>5. AtTarget(Tidied)' /\ managed'["pubspec.lock"] = v
    BY <1>2, <1>5, <2>3, <2>4, ManagedIs DEF AtTarget
  <2>6. LockFits'
    BY <2>3, <2>5 DEF LockFits, Compatible
  <2>7. Run'
    BY <2>3, <2>5, <2>6 DEF Run
  <2>8. QED
    BY <1>1, <1>2, <2>2, <2>7, GoesOnQuietly DEF Todos
<1>6. CASE phase.todo = <<"verify">> /\ AtTarget(Tidied) /\ LockFits
  <2>1. ~(Len(phase.todo) > 1) /\ Head(phase.todo) = "verify"
    BY <1>6, ProcessTails
  <2>2. phase' = Quiet /\ saved' = NoSnapshot
        /\ report' = [NoReport EXCEPT !.status = "applied", !.wrote = TRUE, !.target = phase.target]
    BY <2>1 DEF RunsProcess, Ends
  <2>3. report'.status = "applied" /\ report'.target = phase.target
    BY <2>2, ReportsAre
  <2>4. managed' = managed
    BY <1>1, <1>2, <2>1, ResolvedIs
  <2>5. \A f \in Managed \ {"pubspec.lock"} : managed'[f] = phase.target
    BY <1>6, <2>4, ManagedIs DEF AtTarget
  <2>6. managed'["pubspec.lock"] \in Compatible(phase.target) \/ strayed'
    BY <1>1, <1>6, <2>4 DEF LockFits
  <2>7. UpgradeReportsTruth'
    BY <2>3, <2>5, <2>6 DEF UpgradeReportsTruth, Compatible
  <2>8. original' \in [Managed -> Contents]
    BY <1>1 DEF UpgradeTypeOK
  <2>9. QED
    BY <1>1, <1>2, <2>2, <2>7, <2>8, QuietIs, RestsTrue
<1>7. QED
  BY <1>1, <1>4, <1>5, <1>6 DEF Run

\* A stray touches nothing but pubspec.lock, and the history says so.
LEMMA StraysWell ==
  ASSUME UpgradeIInv, StrayWrites
  PROVE  UpgradeIInv'
<1>1. /\ UpgradeTypeOK /\ managed \in [Managed -> Contents] /\ strayed' = TRUE
      /\ UNCHANGED <<phase, saved, original, report>>
  BY DEF UpgradeIInv, UpgradeTypeOK, StrayWrites
<1>2. PICK t \in strays : managed' \in Locked("pubspec.lock", Compatible(t))
  BY DEF StrayWrites
<1>3. PICK v \in Compatible(t) : managed' = [managed EXCEPT !["pubspec.lock"] = v]
  BY <1>2 DEF Locked
<1>4. v \in Contents
  BY <1>3 DEF Compatible, Contents
<1>5. managed' \in [Managed -> Contents] /\ \A f \in Managed \ {"pubspec.lock"} : managed'[f] = managed[f]
  BY <1>1, <1>3, <1>4
<1>6. UpgradeTypeOK'
  BY <1>1, <1>5 DEF UpgradeTypeOK
<1>7. ASSUME NEW S \in SUBSET (Managed \ {"pubspec.lock"}), AtTarget(S) PROVE AtTarget(S)'
  BY <1>1, <1>5, <1>7 DEF AtTarget
<1>8. ASSUME NEW S \in SUBSET Managed, AsFound(S) PROVE AsFound(S)'
  BY <1>1, <1>5, <1>8 DEF AsFound
<1>9. LockFits'
  BY <1>1 DEF LockFits
<1>10. Written => Written'
  BY <1>1, <1>7, <1>8, ManagedIs DEF Written
<1>11. Run => Run'
  BY <1>1, <1>7, <1>9, ManagedIs DEF Run
<1>12. UpgradeReportsTruth'
  BY <1>1, <1>5 DEF UpgradeIInv, UpgradeReportsTruth
<1>13. phase.at = "restoring" => AsFound(Managed \ phase.todo)'
  <2>1. Managed \ phase.todo \in SUBSET Managed
    OBVIOUS
  <2>2. QED
    BY <1>1, <1>8, <2>1 DEF UpgradeIInv
<1>14. QED
  BY <1>1, <1>6, <1>10, <1>11, <1>12, <1>13 DEF UpgradeIInv

\* Restoring a file brings it back to the original, or the rollback is partial.
LEMMA RestoresWell ==
  ASSUME UpgradeIInv, RestoresFile \/ FailsToRestore
  PROVE  UpgradeIInv'
<1>1. /\ UpgradeTypeOK /\ phase.at \in {"restoring", "partly_restored"} /\ phase.todo \in SUBSET Managed
      /\ original' = original /\ saved = original /\ strayed' = strayed /\ strayed' \in BOOLEAN
  BY DEF UpgradeIInv, UpgradeTypeOK, RestoresFile, FailsToRestore
<1>2. managed \in [Managed -> Contents] /\ saved \in [Managed -> Contents] /\ original \in [Managed -> Contents]
  BY <1>1 DEF UpgradeTypeOK
<1>3. PICK f \in phase.todo, at \in {"restoring", "partly_restored"} :
        /\ RestoreStep(f, at)
        /\ managed' \in [Managed -> Contents] /\ \A g \in Managed : g # f => managed'[g] = managed[g]
        /\ at = "restoring" => phase.at = "restoring" /\ managed'[f] = original[f]
  <2>1. CASE RestoresFile
    <3>1. PICK f \in phase.todo : managed' = [managed EXCEPT ![f] = saved[f]] /\ RestoreStep(f, phase.at)
      BY <2>1 DEF RestoresFile
    <3>2. QED
      BY <1>1, <1>2, <3>1
  <2>2. CASE FailsToRestore
    <3>1. PICK f \in phase.todo : RestoreStep(f, "partly_restored")
      BY <2>2 DEF FailsToRestore
    <3>2. managed' = managed
      BY <2>2 DEF FailsToRestore
    <3>3. QED
      BY <1>2, <3>1, <3>2
  <2>3. QED
    BY <2>1, <2>2
<1>4. ASSUME at = "restoring"
      PROVE  \A g \in Managed \ (phase.todo \ {f}) : managed'[g] = original'[g] \/ (g = "pubspec.lock" /\ strayed')
  <2>1. AsFound(Managed \ phase.todo)
    BY <1>3, <1>4 DEF UpgradeIInv
  <2>2. QED
    BY <1>1, <1>3, <1>4, <2>1 DEF AsFound
<1>5. CASE phase.todo # {f}
  <2>1. phase' = [at |-> at, todo |-> phase.todo \ {f}, target |-> phase.target] /\ UNCHANGED <<saved, report>>
    BY <1>1, <1>3, <1>5 DEF RestoreStep
  <2>2. phase.todo \ {f} \in Todos /\ phase.todo \ {f} \in SUBSET Managed
    BY <1>1 DEF Todos
  <2>3. at \in {"writing", "running", "restoring", "partly_restored"} /\ at # "writing" /\ at # "running" /\ phase.at # "quiet"
    BY <1>1, <1>3
  <2>4. PICK rest : rest = phase.todo \ {f}
    OBVIOUS
  <2>5. at = "restoring" => AsFound(Managed \ rest)'
    BY <1>4, <2>4 DEF AsFound
  <2>6. phase' = [at |-> at, todo |-> rest, target |-> phase.target] /\ rest \in Todos /\ rest \in SUBSET Managed
    BY <2>1, <2>2, <2>4
  <2>7. QED
    BY <1>1, <1>3, <2>1, <2>3, <2>5, <2>6, GoesOnQuietly
<1>6. CASE phase.todo = {f}
  <2>1. phase' = Quiet /\ saved' = NoSnapshot
        /\ report' = [NoReport EXCEPT !.status = "apply_failed", !.wrote = TRUE, !.rolledBack = at = "restoring", !.target = phase.target]
    BY <1>3, <1>6 DEF RestoreStep, Ends
  <2>2. report'.status = "apply_failed" /\ report'.wrote = TRUE /\ report'.rolledBack = (at = "restoring")
    BY <2>1, ReportsAre
  <2>3. ASSUME at = "restoring"
        PROVE  \A g \in Managed : managed'[g] = original'[g] \/ (g = "pubspec.lock" /\ strayed')
    BY <1>4, <1>6, <2>3
  <2>4. UpgradeReportsTruth'
    BY <2>2, <2>3 DEF UpgradeReportsTruth
  <2>5. QED
    BY <1>1, <1>2, <1>3, <2>1, <2>4, QuietIs, RestsTrue
<1>7. QED
  BY <1>5, <1>6

\* A command that begins, or only plans: the snapshot is what it found.
LEMMA CommandsWell ==
  ASSUME UpgradeIInv, NEW v \in Targets, PlansUpgrade(v) \/ AppliesUpgrade(v)
  PROVE  UpgradeIInv'
<1>1. UpgradeTypeOK /\ phase = Quiet /\ managed' = managed /\ original' = managed /\ strayed' = FALSE
  BY DEF UpgradeIInv, PlansUpgrade, AppliesUpgrade
<1>2. managed \in [Managed -> Contents] /\ saved \in [Managed -> Contents]
  BY <1>1 DEF UpgradeTypeOK
<1>3. ASSUME report'.status # "applied" PROVE UpgradeReportsTruth'
  BY <1>1, <1>3 DEF UpgradeReportsTruth
<1>4. Evaluate(v).status \in Statuses
  BY PlanStatus DEF Evaluate
<1>5. CASE PlansUpgrade(v)
  <2>1. report' = About(FullReport(Evaluate(v)), v, FALSE, FALSE) /\ phase' = Quiet /\ saved' = saved
    BY <1>1, <1>5 DEF PlansUpgrade
  <2>2. report'.status # "applied"
    BY <1>4, <2>1, AboutStatus DEF Statuses
  <2>3. QED
    BY <1>1, <1>2, <1>3, <2>1, <2>2, RestsTrue
<1>6. CASE AppliesUpgrade(v)
  <2>1. CASE Evaluate(v).apply /\ prepareUpgradeFiles
    <3>1. phase' = [at |-> "writing", todo |-> Manifests, target |-> v] /\ saved' = managed /\ report' = NoReport
      BY <1>6, <2>1 DEF AppliesUpgrade, snapshotUpgradeFiles
    <3>2. phase'.at = "writing" /\ phase'.todo = Manifests
      BY <3>1
    <3>3. UpgradeTypeOK'
      BY <1>1, <1>2, <3>1 DEF UpgradeTypeOK, Todos, Contents
    <3>4. Written'
      BY <1>1, <3>2 DEF Written, AsFound
    <3>5. UpgradeReportsTruth'
      BY <1>3, <3>1, ReportsAre
    <3>6. QED
      BY <1>1, <3>1, <3>2, <3>3, <3>4, <3>5 DEF UpgradeIInv
  <2>2. CASE ~(Evaluate(v).apply /\ prepareUpgradeFiles)
    <3>1. PICK r : r = [Evaluate(v) EXCEPT !.status = IF Evaluate(v).apply THEN "apply_failed" ELSE @]
      OBVIOUS
    <3>2. report' = About(FullReport(r), v, FALSE, FALSE) /\ phase' = Quiet /\ saved' = saved
      BY <1>1, <1>6, <2>2, <3>1 DEF AppliesUpgrade
    <3>3. r.status # "applied"
      BY <1>4, <3>1 DEF Statuses
    <3>4. report'.status # "applied"
      BY <3>2, <3>3, AboutStatus
    <3>5. QED
      BY <1>1, <1>2, <1>3, <3>2, <3>4, RestsTrue
  <2>3. QED
    BY <2>1, <2>2
<1>7. QED
  BY <1>5, <1>6

\* UpgradeIInv is inductive.
LEMMA UpgradeInductive == UpgradeIInv /\ [UpgradeNext]_upgradeVars => UpgradeIInv'
<1>1. SUFFICES ASSUME UpgradeIInv, [UpgradeNext]_upgradeVars PROVE UpgradeIInv'
  OBVIOUS
<1>2. UpgradeTypeOK
  BY <1>1 DEF UpgradeIInv
<1>3. /\ managed \in [Managed -> Contents] /\ saved \in [Managed -> Contents] /\ original \in [Managed -> Contents]
      /\ phase.target \in Contents /\ strayed \in BOOLEAN
  BY <1>2 DEF UpgradeTypeOK
<1>4. CASE EditsByHand
  <2>1. phase = Quiet /\ phase' = phase /\ saved' = saved /\ original' = managed' /\ report' = NoReport /\ strayed' = FALSE
    BY <1>4 DEF EditsByHand
  <2>2. managed' \in [Managed -> Contents]
    BY <1>3, <1>4 DEF EditsByHand, Contents
  <2>3. UpgradeReportsTruth'
    BY <2>1, ReportsAre DEF UpgradeReportsTruth
  <2>4. QED
    BY <1>1, <1>3, <2>1, <2>2, <2>3, RestsTrue
<1>5. CASE FailsToWrite
  <2>1. phase.at = "writing" /\ managed' = managed /\ original' = original /\ strayed' = strayed /\ Written
    BY <1>1, <1>5 DEF FailsToWrite, UpgradeIInv
  <2>2. CASE phase.todo = Manifests
    <3>1. phase' = Quiet /\ saved' = NoSnapshot /\ report' = [NoReport EXCEPT !.status = "apply_failed", !.target = phase.target]
      BY <1>5, <2>2 DEF FailsToWrite, rollbackUpgradeFailure, FailsUnwritten, Ends
    <3>2. report'.status = "apply_failed"
      BY <3>1, ReportsAre
    <3>3. AsFound(Managed)
      BY <2>1, <2>2, ManifestTails DEF Written
    <3>4. UpgradeReportsTruth'
      BY <2>1, <3>2, <3>3 DEF UpgradeReportsTruth, AsFound
    <3>5. QED
      BY <1>1, <1>3, <2>1, <3>1, <3>4, QuietIs, RestsTrue
  <2>3. CASE phase.todo # Manifests
    BY <1>1, <1>3, <1>5, <2>1, <2>3, RollsBackWell DEF FailsToWrite, rollbackUpgradeFailure
  <2>4. QED
    BY <2>2, <2>3
<1>6. CASE FailsProcess
  <2>1. phase.at = "running" /\ RollsBack /\ original' = original /\ managed' \in {managed} \cup Resolved /\ strayed' = strayed
    BY <1>6 DEF FailsProcess
  <2>2. managed' \in [Managed -> Contents]
    BY <1>2, <1>3, <2>1, ResolvedIs
  <2>3. QED
    BY <1>1, <2>1, <2>2, RollsBackWell
<1>7. CASE UpgradeKilled
  <2>1. phase' = Quiet /\ saved' = NoSnapshot /\ report' = NoReport /\ original' = managed /\ managed' = managed /\ strayed' = FALSE
    BY <1>7 DEF UpgradeKilled, Ends
  <2>2. UpgradeReportsTruth'
    BY <2>1, ReportsAre DEF UpgradeReportsTruth
  <2>3. QED
    BY <1>1, <1>3, <2>1, <2>2, QuietIs, RestsTrue
<1>8. CASE UNCHANGED upgradeVars
  BY <1>1, <1>8 DEF upgradeVars, UpgradeIInv, UpgradeTypeOK, UpgradeReportsTruth, Written, Run, AtTarget, AsFound, LockFits
<1>9. QED
  BY <1>1, <1>4, <1>5, <1>6, <1>7, <1>8, CommandsWell, WritesWell, RunsWell, StraysWell, RestoresWell DEF UpgradeNext

\* No command has run at first.
LEMMA UpgradeStarts == UpgradeInit => UpgradeIInv
<1>1. SUFFICES ASSUME UpgradeInit PROVE UpgradeIInv
  OBVIOUS
<1>2. phase = Quiet /\ saved = NoSnapshot /\ original = managed /\ report = NoReport /\ strayed = FALSE
  BY <1>1 DEF UpgradeInit
<1>3. managed \in [Managed -> Contents]
  <2>1. PICK v \in Created \cap Released, ps \in Platforms, kind \in {"flutter", "legacy", "web", "inconsistent"} :
          managed \in {[f \in Managed |-> IF f \in Range(Manifests) THEN v ELSE lock] : lock \in {v, Absent}}
    BY <1>1 DEF UpgradeInit
  <2>2. PICK lock \in {v, Absent} : managed = [f \in Managed |-> IF f \in Range(Manifests) THEN v ELSE lock]
    BY <2>1
  <2>3. QED
    BY <2>1, <2>2 DEF Contents
<1>4. UpgradeTypeOK
  BY <1>2, <1>3, QuietIs DEF UpgradeTypeOK
<1>5. QED
  BY <1>2, <1>4, QuietIs, ReportsAre DEF UpgradeIInv, UpgradeReportsTruth

\* `bridra upgrade --apply` reports the truth for any catalog, project, target and set
\* of published versions, and whichever write, process or restoration fails or is
\* killed: "applied" means that the manifests and go.sum are at the target and
\* pubspec.lock at a version the target's caret admits, and a failure that wrote
\* nothing or was rolled back left every managed file as the command found it.  A
\* process that outlived its command can change pubspec.lock after that, and no more.
THEOREM UpgradeHonest == UpgradeSpec => []UpgradeReportsTruth
<1>1. UpgradeIInv => UpgradeReportsTruth
  BY DEF UpgradeIInv
<1>2. QED
  BY <1>1, UpgradeStarts, UpgradeInductive, PTL DEF UpgradeSpec

(***************************************************************************)
(* UpgradeCatalog: versions are ordered.                                   *)
(***************************************************************************)
Identifiers == {0, 1} \X Nat
SemanticVersions == Nat \X Nat \X Nat \X Seq(Identifiers)

\* What the comparisons say, read off the first place where the two differ.
CoreBefore(v, w) == \E i \in 1 .. 3 : v[i] < w[i] /\ \A j \in 1 .. i - 1 : v[j] = w[j]
IdentifierBefore(x, y) == x[1] < y[1] \/ (x[1] = y[1] /\ x[2] < y[2])
PrereleaseBefore(s, t) ==
  \/ \E i \in DOMAIN s \cap DOMAIN t : IdentifierBefore(s[i], t[i]) /\ \A j \in 1 .. i - 1 : s[j] = t[j]
  \/ Len(s) < Len(t) /\ \A j \in DOMAIN s : s[j] = t[j]

\* The first difference is one, and nothing before it differs.
LEMMA FirstDiffers ==
  ASSUME NEW s, NEW t, NEW n \in Nat, DOMAIN s \cap DOMAIN t = 1 .. n, Differences(s, t) # {}
  PROVE  /\ FirstDifference(s, t) \in 1 .. n /\ s[FirstDifference(s, t)] # t[FirstDifference(s, t)]
         /\ \A j \in 1 .. FirstDifference(s, t) - 1 : s[j] = t[j]
<1>1. PICK D : D = Differences(s, t) /\ D \in SUBSET Nat /\ D # {}
  <2>1. Differences(s, t) \in SUBSET Nat
    BY DEF Differences
  <2>2. QED
    BY <2>1
<1>2. \E i \in D : \A j \in D : i <= j
  BY <1>1, Least
<1>3. PICK i : i = FirstDifference(s, t) /\ i \in D /\ \A j \in D : i <= j
  BY <1>1, <1>2 DEF FirstDifference
<1>4. i \in 1 .. n /\ s[i] # t[i]
  BY <1>1, <1>3 DEF Differences
<1>5. ASSUME NEW j \in 1 .. i - 1 PROVE s[j] = t[j]
  <2>1. j \in 1 .. n /\ j < i
    BY <1>4
  <2>2. j \notin D
    BY <1>3, <1>4, <2>1
  <2>3. QED
    BY <1>1, <2>1, <2>2 DEF Differences
<1>6. QED
  BY <1>3, <1>4, <1>5

\* Sign has three values, and says which of two numbers is smaller.
LEMMA SignIs ==
  ASSUME NEW n \in Int, NEW m \in Int
  PROVE  /\ Sign(n, m) \in -1 .. 1 /\ (Sign(n, m) < 0 <=> n < m) /\ (Sign(n, m) = 0 <=> n = m)
         /\ (Sign(n, m) > 0 <=> m < n)
BY DEF Sign

\* compareCores decides by the first of three numbers that differs.
LEMMA CoresCompared ==
  ASSUME NEW v, NEW w, DOMAIN v = 1 .. 3, DOMAIN w = 1 .. 3, \A i \in 1 .. 3 : v[i] \in Nat /\ w[i] \in Nat
  PROVE  /\ compareCores(v, w) \in Int
         /\ compareCores(v, w) < 0 <=> CoreBefore(v, w)
         /\ compareCores(v, w) = 0 <=> \A i \in 1 .. 3 : v[i] = w[i]
<1>1. CASE Differences(v, w) = {}
  <2>1. \A i \in 1 .. 3 : v[i] = w[i]
    BY <1>1 DEF Differences
  <2>2. compareCores(v, w) = 0
    BY <1>1 DEF compareCores
  <2>3. ~ CoreBefore(v, w)
    BY <2>1 DEF CoreBefore
  <2>4. QED
    BY <2>1, <2>2, <2>3
<1>2. CASE Differences(v, w) # {}
  <2>1. PICK i \in 1 .. 3 : i = FirstDifference(v, w) /\ v[i] # w[i] /\ \A j \in 1 .. i - 1 : v[j] = w[j]
    <3>1. DOMAIN v \cap DOMAIN w = 1 .. 3
      OBVIOUS
    <3>2. QED
      BY <1>2, <3>1, FirstDiffers
  <2>2. compareCores(v, w) = Sign(v[i], w[i])
    BY <1>2, <2>1 DEF compareCores
  <2>3. v[i] \in Nat /\ w[i] \in Nat
    OBVIOUS
  <2>4. /\ compareCores(v, w) \in Int /\ compareCores(v, w) # 0
        /\ compareCores(v, w) < 0 <=> v[i] < w[i]
    BY <2>1, <2>2, <2>3, SignIs
  <2>5. ASSUME NEW k \in 1 .. 3, v[k] < w[k], \A j \in 1 .. k - 1 : v[j] = w[j] PROVE v[i] < w[i]
    <3>1. v[k] \in Nat /\ w[k] \in Nat
      OBVIOUS
    <3>2. ~(k < i)
      BY <2>1, <2>5, <3>1
    <3>3. ~(i < k)
      BY <2>1, <2>5
    <3>4. QED
      BY <2>5, <3>2, <3>3
  <2>6. CoreBefore(v, w) <=> v[i] < w[i]
    BY <2>1, <2>5 DEF CoreBefore
  <2>7. QED
    BY <2>1, <2>4, <2>6
<1>3. QED
  BY <1>1, <1>2

\* compareIdentifiers is an order: numbers before words.
LEMMA IdentifiersCompared ==
  ASSUME NEW x \in Identifiers, NEW y \in Identifiers
  PROVE  /\ compareIdentifiers(x, y) \in Int
         /\ compareIdentifiers(x, y) < 0 <=> IdentifierBefore(x, y)
         /\ compareIdentifiers(x, y) = 0 <=> x = y
<1>1. x[1] \in Int /\ y[1] \in Int /\ x[2] \in Int /\ y[2] \in Int
  BY DEF Identifiers
<1>2. x = <<x[1], x[2]>> /\ y = <<y[1], y[2]>>
  BY DEF Identifiers
<1>3. x = y <=> x[1] = y[1] /\ x[2] = y[2]
  BY <1>2
<1>4. QED
  BY <1>1, <1>3, SignIs DEF compareIdentifiers, IdentifierBefore

\* comparePrereleases decides by the first identifier that differs, then by length.
LEMMA PrereleasesCompared ==
  ASSUME NEW s \in Seq(Identifiers), NEW t \in Seq(Identifiers)
  PROVE  /\ comparePrereleases(s, t) \in Int
         /\ comparePrereleases(s, t) < 0 <=> PrereleaseBefore(s, t)
         /\ comparePrereleases(s, t) = 0 <=> s = t
<1>1. DOMAIN s = 1 .. Len(s) /\ DOMAIN t = 1 .. Len(t) /\ Len(s) \in Nat /\ Len(t) \in Nat
  OBVIOUS
<1>2. PICK n \in Nat : n <= Len(s) /\ n <= Len(t) /\ (n = Len(s) \/ n = Len(t)) /\ DOMAIN s \cap DOMAIN t = 1 .. n
  <2>1. PICK a \in Nat, b \in Nat : a = Len(s) /\ b = Len(t)
    BY <1>1
  <2>2. \E n \in Nat : n <= a /\ n <= b /\ (n = a \/ n = b) /\ (1 .. a) \cap (1 .. b) = 1 .. n
    <3>1. a <= b => (1 .. a) \cap (1 .. b) = 1 .. a
      OBVIOUS
    <3>2. b <= a => (1 .. a) \cap (1 .. b) = 1 .. b
      OBVIOUS
    <3>3. QED
      BY <3>1, <3>2
  <2>3. QED
    BY <1>1, <2>1, <2>2
<1>3. CASE Differences(s, t) = {}
  <2>1. \A i \in 1 .. n : s[i] = t[i]
    BY <1>2, <1>3 DEF Differences
  <2>2. comparePrereleases(s, t) = Sign(Len(s), Len(t))
    BY <1>3 DEF comparePrereleases
  <2>3. PrereleaseBefore(s, t) <=> Len(s) < Len(t)
    <3>1. \A i \in 1 .. n : ~ IdentifierBefore(s[i], t[i])
      <4>1. ASSUME NEW i \in 1 .. n PROVE ~ IdentifierBefore(s[i], t[i])
        <5>1. i \in 1 .. Len(s)
          BY <1>1, <1>2
        <5>2. s[i] = t[i] /\ s[i] \in Identifiers
          BY <2>1, <5>1
        <5>3. QED
          BY <5>2 DEF IdentifierBefore, Identifiers
      <4>2. QED
        BY <4>1
    <3>2. Len(s) < Len(t) => \A j \in DOMAIN s : s[j] = t[j]
      <4>1. Len(s) < Len(t) => n = Len(s)
        <5>1. n <= Len(s) /\ n <= Len(t) /\ (n = Len(s) \/ n = Len(t))
          BY <1>2
        <5>2. Len(s) \in Int /\ Len(t) \in Int /\ n \in Int
          BY <1>1
        <5>3. QED
          BY <5>1, <5>2
      <4>2. QED
        BY <1>1, <2>1, <4>1
    <3>3. QED
      BY <1>2, <3>1, <3>2 DEF PrereleaseBefore
  <2>4. s = t <=> Len(s) = Len(t)
    <3>1. ASSUME Len(s) = Len(t) PROVE s = t
      <4>1. \A i \in 1 .. Len(s) : s[i] = t[i]
        BY <1>1, <1>2, <2>1, <3>1
      <4>2. QED
        BY <1>1, <3>1, <4>1
    <3>2. QED
      BY <3>1
  <2>5. QED
    <3>1. /\ Sign(Len(s), Len(t)) \in Int
          /\ Sign(Len(s), Len(t)) < 0 <=> Len(s) < Len(t)
          /\ Sign(Len(s), Len(t)) = 0 <=> Len(s) = Len(t)
      <4>1. Len(s) \in Int /\ Len(t) \in Int
        BY <1>1
      <4>2. QED
        BY <4>1, SignIs
    <3>2. QED
      BY <2>2, <2>3, <2>4, <3>1
<1>4. CASE Differences(s, t) # {}
  <2>1. PICK i \in 1 .. n : i = FirstDifference(s, t) /\ s[i] # t[i] /\ \A j \in 1 .. i - 1 : s[j] = t[j]
    BY <1>2, <1>4, FirstDiffers
  <2>2. comparePrereleases(s, t) = compareIdentifiers(s[i], t[i])
    BY <1>4, <2>1 DEF comparePrereleases
  <2>3. i \in DOMAIN s /\ i \in DOMAIN t /\ s[i] \in Identifiers /\ t[i] \in Identifiers
    <3>1. i \in 1 .. Len(s) /\ i \in 1 .. Len(t)
      BY <1>1, <1>2
    <3>2. QED
      BY <1>1, <3>1
  <2>4. /\ comparePrereleases(s, t) \in Int /\ comparePrereleases(s, t) # 0
        /\ comparePrereleases(s, t) < 0 <=> IdentifierBefore(s[i], t[i])
    BY <2>1, <2>2, <2>3, IdentifiersCompared
  <2>5. ASSUME NEW k \in DOMAIN s \cap DOMAIN t, IdentifierBefore(s[k], t[k]), \A j \in 1 .. k - 1 : s[j] = t[j]
        PROVE  IdentifierBefore(s[i], t[i])
    <3>1. k \in Nat /\ i \in Nat /\ s[k] \in Identifiers
      BY <1>1
    <3>2. s[k] # t[k]
      BY <2>5, <3>1 DEF IdentifierBefore, Identifiers
    <3>3. ~(k < i)
      <4>1. SUFFICES ASSUME k < i PROVE FALSE
        OBVIOUS
      <4>2. k \in 1 .. i - 1
        BY <1>1, <2>5, <3>1, <4>1
      <4>3. QED
        BY <2>1, <3>2, <4>2
    <3>4. ~(i < k)
      <4>1. SUFFICES ASSUME i < k PROVE FALSE
        OBVIOUS
      <4>2. i \in 1 .. k - 1
        BY <3>1, <4>1
      <4>3. QED
        BY <2>1, <2>5, <4>2
    <3>5. QED
      BY <2>5, <3>1, <3>3, <3>4
  <2>6. ~(\A j \in DOMAIN s : s[j] = t[j])
    BY <2>1, <2>3
  <2>7. PrereleaseBefore(s, t) <=> IdentifierBefore(s[i], t[i])
    BY <2>1, <2>3, <2>5, <2>6 DEF PrereleaseBefore
  <2>8. QED
    BY <2>1, <2>4, <2>7
<1>5. QED
  BY <1>3, <1>4

\* A version's numbers, and what is left of it when they are taken.
LEMMA VersionIs ==
  ASSUME NEW v \in SemanticVersions
  PROVE  /\ v[4] \in Seq(Identifiers)
         /\ DOMAIN SubSeq(v, 1, 3) = 1 .. 3
         /\ \A i \in 1 .. 3 : SubSeq(v, 1, 3)[i] = v[i] /\ v[i] \in Nat
<1>1. v = <<v[1], v[2], v[3], v[4]>> /\ v[1] \in Nat /\ v[2] \in Nat /\ v[3] \in Nat /\ v[4] \in Seq(Identifiers)
  BY DEF SemanticVersions
<1>2. SubSeq(v, 1, 3) = [i \in 1 .. 3 |-> v[i]]
  <2>1. SubSeq(v, 1, 3) = [i \in 1 .. (1 + 3 - 1) |-> v[i + 1 - 1]]
    BY DEF SubSeq
  <2>2. QED
    BY <2>1
<1>3. \A i \in 1 .. 3 : i = 1 \/ i = 2 \/ i = 3
  OBVIOUS
<1>4. QED
  BY <1>1, <1>2, <1>3

\* A version comes before another if its numbers do, or if they are equal and it is
\* a prerelease of the other, or of the same release as the other prerelease.
VersionBefore(v, w) ==
  \/ CoreBefore(v, w)
  \/ /\ \A i \in 1 .. 3 : v[i] = w[i]
     /\ \/ v[4] # <<>> /\ w[4] = <<>>
        \/ v[4] # <<>> /\ w[4] # <<>> /\ PrereleaseBefore(v[4], w[4])

\* So says compareSemanticVersions.
LEMMA VersionsCompared ==
  ASSUME NEW v \in SemanticVersions, NEW w \in SemanticVersions
  PROVE  /\ compareSemanticVersions(v, w) \in Int
         /\ compareSemanticVersions(v, w) < 0 <=> VersionBefore(v, w)
         /\ compareSemanticVersions(v, w) = 0 <=> v = w
<1>1. PICK a, b : a = SubSeq(v, 1, 3) /\ b = SubSeq(w, 1, 3)
  OBVIOUS
<1>2. /\ DOMAIN a = 1 .. 3 /\ DOMAIN b = 1 .. 3
      /\ \A i \in 1 .. 3 : a[i] = v[i] /\ b[i] = w[i] /\ a[i] \in Nat /\ b[i] \in Nat
  BY <1>1, VersionIs
<1>3. PICK core : core = compareCores(a, b)
  OBVIOUS
<1>4. /\ core \in Int /\ (core < 0 <=> CoreBefore(a, b))
      /\ (core = 0 <=> \A i \in 1 .. 3 : a[i] = b[i])
  BY <1>2, <1>3, CoresCompared
<1>5. /\ core < 0 <=> CoreBefore(v, w)
      /\ core = 0 <=> \A i \in 1 .. 3 : v[i] = w[i]
  <2>1. CoreBefore(a, b) <=> CoreBefore(v, w)
    <3>1. \A i \in 1 .. 3 : \A j \in 1 .. i - 1 : j \in 1 .. 3
      OBVIOUS
    <3>2. QED
      BY <1>2, <3>1 DEF CoreBefore
  <2>2. QED
    BY <1>2, <1>4, <2>1
<1>6. v = w <=> (\A i \in 1 .. 3 : v[i] = w[i]) /\ v[4] = w[4]
  <2>1. v = <<v[1], v[2], v[3], v[4]>> /\ w = <<w[1], w[2], w[3], w[4]>>
    BY DEF SemanticVersions
  <2>2. 1 \in 1 .. 3 /\ 2 \in 1 .. 3 /\ 3 \in 1 .. 3
    OBVIOUS
  <2>3. QED
    BY <2>1, <2>2
<1>7. v[4] \in Seq(Identifiers) /\ w[4] \in Seq(Identifiers)
  BY VersionIs
<1>8. CASE core # 0
  <2>1. compareSemanticVersions(v, w) = core
    BY <1>1, <1>3, <1>8 DEF compareSemanticVersions
  <2>2. QED
    BY <1>4, <1>5, <1>6, <1>8, <2>1 DEF VersionBefore
<1>9. CASE core = 0 /\ (v[4] = <<>> \/ w[4] = <<>>)
  <2>1. compareSemanticVersions(v, w) = Sign(IF v[4] = <<>> THEN 1 ELSE 0, IF w[4] = <<>> THEN 1 ELSE 0)
    BY <1>1, <1>3, <1>9 DEF compareSemanticVersions
  <2>2. /\ v[4] = <<>> /\ w[4] = <<>> => compareSemanticVersions(v, w) = 0
        /\ v[4] = <<>> /\ w[4] # <<>> => compareSemanticVersions(v, w) = 1
        /\ v[4] # <<>> /\ w[4] = <<>> => compareSemanticVersions(v, w) = -1
    BY <2>1 DEF Sign
  <2>3. ~ CoreBefore(v, w) /\ \A i \in 1 .. 3 : v[i] = w[i]
    BY <1>4, <1>5, <1>9
  <2>4. VersionBefore(v, w) <=> v[4] # <<>> /\ w[4] = <<>>
    BY <1>9, <2>3 DEF VersionBefore
  <2>5. v = w <=> v[4] = w[4]
    BY <1>6, <2>3
  <2>6. QED
    BY <1>9, <2>2, <2>4, <2>5
<1>10. CASE core = 0 /\ v[4] # <<>> /\ w[4] # <<>>
  <2>1. compareSemanticVersions(v, w) = comparePrereleases(v[4], w[4])
    BY <1>1, <1>3, <1>10 DEF compareSemanticVersions
  <2>2. ~ CoreBefore(v, w) /\ \A i \in 1 .. 3 : v[i] = w[i]
    BY <1>4, <1>5, <1>10
  <2>3. VersionBefore(v, w) <=> PrereleaseBefore(v[4], w[4])
    BY <1>10, <2>2 DEF VersionBefore
  <2>4. v = w <=> v[4] = w[4]
    BY <1>6, <2>2
  <2>5. QED
    BY <1>7, <2>1, <2>3, <2>4, PrereleasesCompared
<1>11. QED
  BY <1>8, <1>9, <1>10

\* The order of the numbers.
LEMMA CoresOrdered ==
  ASSUME NEW u \in SemanticVersions, NEW v \in SemanticVersions, NEW w \in SemanticVersions
  PROVE  /\ CoreBefore(u, v) /\ CoreBefore(v, w) => CoreBefore(u, w)
         /\ CoreBefore(v, w) \/ CoreBefore(w, v) \/ \A i \in 1 .. 3 : v[i] = w[i]
         /\ (\A i \in 1 .. 3 : u[i] = v[i]) => /\ CoreBefore(u, w) <=> CoreBefore(v, w)
                                               /\ CoreBefore(w, u) <=> CoreBefore(w, v)
<1>1. \A i \in 1 .. 3 : u[i] \in Nat /\ v[i] \in Nat /\ w[i] \in Nat
  BY VersionIs
<1>2. \A i \in 1 .. 3 : i = 1 \/ i = 2 \/ i = 3
  OBVIOUS
<1>3. \A x, y : CoreBefore(x, y) <=> \/ x[1] < y[1]
                                     \/ x[1] = y[1] /\ x[2] < y[2]
                                     \/ x[1] = y[1] /\ x[2] = y[2] /\ x[3] < y[3]
  <2>1. 1 .. 1 - 1 = {} /\ 1 .. 2 - 1 = {1} /\ 1 .. 3 - 1 = {1, 2} /\ 1 .. 3 = {1, 2, 3}
    OBVIOUS
  <2>2. TAKE x, y
  <2>3. CoreBefore(x, y) <=> \E i \in {1, 2, 3} : x[i] < y[i] /\ \A j \in 1 .. i - 1 : x[j] = y[j]
    BY <2>1 DEF CoreBefore
  <2>4. QED
    BY <2>1, <2>3
<1>4. 1 \in 1 .. 3 /\ 2 \in 1 .. 3 /\ 3 \in 1 .. 3
  OBVIOUS
<1>5. CoreBefore(u, v) /\ CoreBefore(v, w) => CoreBefore(u, w)
  BY <1>1, <1>3, <1>4
<1>6. CoreBefore(v, w) \/ CoreBefore(w, v) \/ (v[1] = w[1] /\ v[2] = w[2] /\ v[3] = w[3])
  BY <1>1, <1>3, <1>4
<1>7. (\A i \in 1 .. 3 : u[i] = v[i]) => (CoreBefore(u, w) <=> CoreBefore(v, w)) /\ (CoreBefore(w, u) <=> CoreBefore(w, v))
  BY <1>3, <1>4
<1>8. QED
  BY <1>2, <1>5, <1>6, <1>7

\* The order of prereleases is transitive.
LEMMA PrereleasesTransitive ==
  ASSUME NEW r \in Seq(Identifiers), NEW s \in Seq(Identifiers), NEW t \in Seq(Identifiers),
         PrereleaseBefore(r, s), PrereleaseBefore(s, t)
  PROVE  PrereleaseBefore(r, t)
<1>1. PICK a \in Nat, b \in Nat, c \in Nat :
        /\ a = Len(r) /\ b = Len(s) /\ c = Len(t)
        /\ DOMAIN r = 1 .. a /\ DOMAIN s = 1 .. b /\ DOMAIN t = 1 .. c
  OBVIOUS
<1>2. \A x \in Identifiers, y \in Identifiers, z \in Identifiers :
        IdentifierBefore(x, y) /\ IdentifierBefore(y, z) => IdentifierBefore(x, z)
  BY DEF IdentifierBefore, Identifiers
<1>3. ASSUME NEW i \in 1 .. a, i \in 1 .. c, IdentifierBefore(r[i], t[i]), \A j \in 1 .. i - 1 : r[j] = t[j]
      PROVE  PrereleaseBefore(r, t)
  BY <1>1, <1>3 DEF PrereleaseBefore
<1>4. ASSUME a < c, \A j \in 1 .. a : r[j] = t[j]  PROVE PrereleaseBefore(r, t)
  BY <1>1, <1>4 DEF PrereleaseBefore
<1>5. ASSUME NEW i \in 1 .. a, i \in 1 .. b, IdentifierBefore(r[i], s[i]), \A j \in 1 .. i - 1 : r[j] = s[j],
             NEW k \in 1 .. b, k \in 1 .. c, IdentifierBefore(s[k], t[k]), \A j \in 1 .. k - 1 : s[j] = t[j]
      PROVE  PrereleaseBefore(r, t)
  <2>1. CASE i < k
    <3>1. i \in 1 .. c /\ i \in 1 .. k - 1 /\ \A j \in 1 .. i - 1 : j \in 1 .. k - 1
      BY <1>5, <2>1
    <3>2. s[i] = t[i] /\ \A j \in 1 .. i - 1 : r[j] = t[j]
      BY <1>5, <3>1
    <3>3. QED
      BY <1>3, <1>5, <3>1, <3>2
  <2>2. CASE k < i
    <3>1. k \in 1 .. a /\ k \in 1 .. i - 1 /\ \A j \in 1 .. k - 1 : j \in 1 .. i - 1
      BY <1>5, <2>2
    <3>2. r[k] = s[k] /\ \A j \in 1 .. k - 1 : r[j] = t[j]
      BY <1>5, <3>1
    <3>3. QED
      BY <1>3, <1>5, <3>1, <3>2
  <2>3. CASE i = k
    <3>1. r[i] \in Identifiers /\ s[i] \in Identifiers /\ t[i] \in Identifiers
      BY <1>1, <1>5, <2>3
    <3>2. IdentifierBefore(r[i], t[i])
      BY <1>2, <1>5, <2>3, <3>1
    <3>3. \A j \in 1 .. i - 1 : r[j] = t[j]
      BY <1>5, <2>3
    <3>4. QED
      BY <1>3, <1>5, <2>3, <3>2, <3>3
  <2>4. QED
    BY <2>1, <2>2, <2>3
<1>6. ASSUME NEW i \in 1 .. a, i \in 1 .. b, IdentifierBefore(r[i], s[i]), \A j \in 1 .. i - 1 : r[j] = s[j],
             b < c, \A j \in 1 .. b : s[j] = t[j]
      PROVE  PrereleaseBefore(r, t)
  <2>1. i \in 1 .. c /\ \A j \in 1 .. i - 1 : j \in 1 .. b
    BY <1>6
  <2>2. s[i] = t[i] /\ \A j \in 1 .. i - 1 : r[j] = t[j]
    BY <1>6, <2>1
  <2>3. QED
    BY <1>3, <1>6, <2>1, <2>2
<1>7. ASSUME a < b, \A j \in 1 .. a : r[j] = s[j],
             NEW k \in 1 .. b, k \in 1 .. c, IdentifierBefore(s[k], t[k]), \A j \in 1 .. k - 1 : s[j] = t[j]
      PROVE  PrereleaseBefore(r, t)
  <2>1. CASE k <= a
    <3>1. k \in 1 .. a /\ \A j \in 1 .. k - 1 : j \in 1 .. a
      BY <1>7, <2>1
    <3>2. r[k] = s[k] /\ \A j \in 1 .. k - 1 : r[j] = t[j]
      BY <1>7, <3>1
    <3>3. QED
      BY <1>3, <1>7, <3>1, <3>2
  <2>2. CASE a < k
    <3>1. a < c /\ \A j \in 1 .. a : j \in 1 .. k - 1
      BY <1>7, <2>2
    <3>2. QED
      BY <1>4, <1>7, <3>1
  <2>3. QED
    BY <2>1, <2>2
<1>8. ASSUME a < b, \A j \in 1 .. a : r[j] = s[j], b < c, \A j \in 1 .. b : s[j] = t[j]
      PROVE  PrereleaseBefore(r, t)
  <2>1. a < c /\ \A j \in 1 .. a : j \in 1 .. b
    BY <1>8
  <2>2. QED
    BY <1>4, <1>8, <2>1
<1>9. \/ \E i \in 1 .. a : i \in 1 .. b /\ IdentifierBefore(r[i], s[i]) /\ \A j \in 1 .. i - 1 : r[j] = s[j]
      \/ a < b /\ \A j \in 1 .. a : r[j] = s[j]
  BY <1>1 DEF PrereleaseBefore
<1>10. \/ \E k \in 1 .. b : k \in 1 .. c /\ IdentifierBefore(s[k], t[k]) /\ \A j \in 1 .. k - 1 : s[j] = t[j]
       \/ b < c /\ \A j \in 1 .. b : s[j] = t[j]
  BY <1>1 DEF PrereleaseBefore
<1>11. QED
  BY <1>5, <1>6, <1>7, <1>8, <1>9, <1>10

\* Of two different prereleases one comes before the other.
LEMMA PrereleasesTotal ==
  ASSUME NEW s \in Seq(Identifiers), NEW t \in Seq(Identifiers), s # t
  PROVE  PrereleaseBefore(s, t) \/ PrereleaseBefore(t, s)
<1>1. Differences(s, t) = Differences(t, s) /\ FirstDifference(s, t) = FirstDifference(t, s)
  <2>1. Differences(s, t) = Differences(t, s)
    BY DEF Differences
  <2>2. QED
    BY <2>1 DEF FirstDifference
<1>2. CASE Differences(s, t) = {}
  <2>1. PICK a \in Int, b \in Int : a = Len(s) /\ b = Len(t)
    OBVIOUS
  <2>2. comparePrereleases(s, t) = Sign(a, b) /\ comparePrereleases(t, s) = Sign(b, a)
    BY <1>1, <1>2, <2>1 DEF comparePrereleases
  <2>3. Sign(a, b) # 0
    BY <2>2, PrereleasesCompared
  <2>4. Sign(a, b) < 0 \/ Sign(b, a) < 0
    BY <2>3, SignIs
  <2>5. QED
    BY <2>2, <2>4, PrereleasesCompared
<1>3. CASE Differences(s, t) # {}
  <2>1. PICK x, y : x = s[FirstDifference(s, t)] /\ y = t[FirstDifference(s, t)]
    OBVIOUS
  <2>2. comparePrereleases(s, t) = compareIdentifiers(x, y) /\ comparePrereleases(t, s) = compareIdentifiers(y, x)
    BY <1>1, <1>3, <2>1 DEF comparePrereleases
  <2>3. x \in Identifiers /\ y \in Identifiers
    <3>1. PICK i \in Differences(s, t) : i = FirstDifference(s, t)
      <4>1. Differences(s, t) \in SUBSET Nat
        BY DEF Differences
      <4>2. \E i \in Differences(s, t) : \A j \in Differences(s, t) : i <= j
        BY <1>3, <4>1, Least
      <4>3. QED
        BY <4>2 DEF FirstDifference
    <3>2. i \in DOMAIN s /\ i \in DOMAIN t
      BY <3>1 DEF Differences
    <3>3. QED
      BY <2>1, <3>1, <3>2
  <2>4. compareIdentifiers(x, y) # 0
    BY <2>2, PrereleasesCompared
  <2>5. IdentifierBefore(x, y) \/ IdentifierBefore(y, x)
    <3>1. x # y
      BY <2>3, <2>4, IdentifiersCompared
    <3>2. QED
      BY <2>3, <3>1 DEF IdentifierBefore, Identifiers
  <2>6. QED
    BY <2>2, <2>3, <2>5, IdentifiersCompared, PrereleasesCompared
<1>4. QED
  BY <1>2, <1>3

\* Versions are in one order: of two different versions exactly one comes before the
\* other, and the relation is transitive.  The catalog's sort, the search for a path
\* and the choice of the newest release rely on it.
THEOREM VersionsOrdered ==
  \A u \in SemanticVersions, v \in SemanticVersions, w \in SemanticVersions :
    /\ Before(v, w) \/ Before(w, v) \/ v = w
    /\ ~ Before(v, v) /\ ~(Before(v, w) /\ Before(w, v))
    /\ Before(u, v) /\ Before(v, w) => Before(u, w)
    /\ compareSemanticVersions(v, w) = 0 <=> v = w
<1>1. \A v \in SemanticVersions, w \in SemanticVersions : Before(v, w) <=> VersionBefore(v, w)
  BY VersionsCompared DEF Before
<1>2. ASSUME NEW v \in SemanticVersions PROVE ~ Before(v, v)
  <2>1. compareSemanticVersions(v, v) = 0
    BY VersionsCompared
  <2>2. QED
    BY <2>1 DEF Before
<1>3. ASSUME NEW u \in SemanticVersions, NEW v \in SemanticVersions, NEW w \in SemanticVersions,
             Before(u, v), Before(v, w)
      PROVE  Before(u, w)
  <2>1. VersionBefore(u, v) /\ VersionBefore(v, w)
    BY <1>1, <1>3
  <2>2. /\ CoreBefore(u, v) /\ CoreBefore(v, w) => CoreBefore(u, w)
        /\ (\A i \in 1 .. 3 : u[i] = v[i]) => (CoreBefore(u, w) <=> CoreBefore(v, w))
        /\ (\A i \in 1 .. 3 : v[i] = w[i]) => (CoreBefore(u, v) <=> CoreBefore(u, w))
    <3>1. (\A i \in 1 .. 3 : v[i] = w[i]) => (CoreBefore(u, v) <=> CoreBefore(u, w))
      BY CoresOrdered
    <3>2. QED
      BY <3>1, CoresOrdered
  <2>3. CASE CoreBefore(u, v) \/ CoreBefore(v, w)
    <3>1. CoreBefore(u, w)
      BY <2>1, <2>2, <2>3 DEF VersionBefore
    <3>2. QED
      BY <1>1, <3>1 DEF VersionBefore
  <2>4. CASE ~ CoreBefore(u, v) /\ ~ CoreBefore(v, w)
    <3>1. (\A i \in 1 .. 3 : u[i] = w[i]) /\ u[4] # <<>> /\ v[4] # <<>>
      BY <2>1, <2>4 DEF VersionBefore
    <3>2. CASE w[4] = <<>>
      BY <1>1, <3>1, <3>2 DEF VersionBefore
    <3>3. CASE w[4] # <<>>
      <4>1. PrereleaseBefore(u[4], v[4]) /\ PrereleaseBefore(v[4], w[4])
        BY <2>1, <2>4, <3>1, <3>3 DEF VersionBefore
      <4>2. PrereleaseBefore(u[4], w[4])
        BY <4>1, VersionIs, PrereleasesTransitive
      <4>3. QED
        BY <1>1, <3>1, <3>3, <4>2 DEF VersionBefore
    <3>4. QED
      BY <3>2, <3>3
  <2>5. QED
    BY <2>3, <2>4
<1>4. ASSUME NEW v \in SemanticVersions, NEW w \in SemanticVersions, v # w
      PROVE  Before(v, w) \/ Before(w, v)
  <2>1. CASE CoreBefore(v, w) \/ CoreBefore(w, v)
    BY <1>1, <2>1 DEF VersionBefore
  <2>2. CASE ~ CoreBefore(v, w) /\ ~ CoreBefore(w, v)
    <3>1. \A i \in 1 .. 3 : v[i] = w[i]
      BY <2>2, CoresOrdered
    <3>2. v[4] # w[4]
      <4>1. v = <<v[1], v[2], v[3], v[4]>> /\ w = <<w[1], w[2], w[3], w[4]>>
        BY DEF SemanticVersions
      <4>2. 1 \in 1 .. 3 /\ 2 \in 1 .. 3 /\ 3 \in 1 .. 3
        OBVIOUS
      <4>3. QED
        BY <1>4, <3>1, <4>1, <4>2
    <3>3. CASE v[4] = <<>> \/ w[4] = <<>>
      BY <1>1, <3>1, <3>2, <3>3 DEF VersionBefore
    <3>4. CASE v[4] # <<>> /\ w[4] # <<>>
      <4>1. PrereleaseBefore(v[4], w[4]) \/ PrereleaseBefore(w[4], v[4])
        BY <3>2, VersionIs, PrereleasesTotal
      <4>2. QED
        BY <1>1, <3>1, <3>4, <4>1 DEF VersionBefore
    <3>5. QED
      BY <3>3, <3>4
  <2>3. QED
    BY <2>1, <2>2
<1>5. \A v \in SemanticVersions, w \in SemanticVersions : ~(Before(v, w) /\ Before(w, v))
  BY <1>2, <1>3
<1>6. \A v \in SemanticVersions, w \in SemanticVersions : compareSemanticVersions(v, w) = 0 <=> v = w
  BY VersionsCompared
<1>7. QED
  BY <1>2, <1>3, <1>4, <1>5, <1>6
=============================================================================
