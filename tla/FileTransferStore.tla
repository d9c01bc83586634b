-------------------------- MODULE FileTransferStore --------------------------
(***************************************************************************)
(* Staged files and resumable uploads (backend/framework/file_transfer.go).*)
(* A call is a thread in one of the store's methods: it holds the mutex    *)
(* for one step at a time, and files are opened, written, verified and     *)
(* read between those steps.  An id is a random token and names its file.  *)
(*                                                                         *)
(* A file is its length and whether its bytes are those of the declared    *)
(* checksum.  A file that is removed while a call has it open is gone from *)
(* the disk; what the call writes to it afterwards is lost.                *)
(***************************************************************************)
EXTENDS Integers, FiniteSets

CONSTANTS
  Ids,         \* ids rand.Read can produce, each at most once
  Calls,       \* threads that use the store
  NoId,
  MaxBytes,    \* FileTransferOptions.MaxBytes
  TTL,         \* FileTransferOptions.TTL
  MaxTime      \* bound: the clock stops here

TransferAssumption ==
  MaxBytes \in Nat /\ TTL \in Nat \ {0} /\ MaxTime \in Nat /\ NoId \notin Ids

VARIABLES
  entries,   \* store.entries
  disk,      \* the files below store.root
  ids,       \* "new"; "secret": created, no caller knows it yet; "known"
  call,      \* where each call is
  closing,   \* "no"; "waiting": closed, in active.Wait(); "done": cleaned up
  clock

NoEntry == [kind |-> "none", size |-> 0, offset |-> 0, complete |-> FALSE,
            busy |-> FALSE, expires |-> 0]
Entry(kind, size, offset) ==
  [kind |-> kind, size |-> size, offset |-> offset, complete |-> offset = size,
   busy |-> FALSE, expires |-> clock + TTL]

File(size, good) == [size |-> size, good |-> good]
NoFile == File(-1, FALSE)

\* A call: its step, who made it (an HTTP method, "import" or "app"), the id it
\* works on, the declared size, the bytes it has got to, and its result.
Call(at, via, id, size, n) ==
  [at |-> at, via |-> via, id |-> id, size |-> size, n |-> n, result |-> "none"]
Idle == Call("idle", "app", NoId, 0, 0)

Exists(i) == entries[i] # NoEntry
Expired(i) == entries[i].expires <= clock
Known == {i \in Ids : ids[i] = "known"}
closed == closing # "no"
\* store.active: begin() counts a call, Done() when it or its download ends.
\* ConsumeUpload and ImportUpload are not counted between the methods they call.
Active ==
  {c \in Calls : call[c].at \notin {"idle", "returned", "consume", "probe", "import", "discard"}}

Init ==
  /\ entries = [i \in Ids |-> NoEntry]
  /\ disk = [i \in Ids |-> NoFile]
  /\ ids = [i \in Ids |-> "new"]
  /\ call = [c \in Calls |-> Idle]
  /\ closing = "no"
  /\ clock = 0

At(c, step) == call[c].at = step
Free(c, i) == At(c, "idle") /\ i \in Known
Goto(c, next) == call' = [call EXCEPT ![c] = next]
\* The call returns to its caller, who knows the id of a transfer it got.  The
\* one answer a caller draws a lasting conclusion from is that there is no such
\* transfer any more, so that is the one that is kept until it is given.
Return(c, via, i, result) ==
  /\ Goto(c, IF result \in {"notfound", "expired"} /\ via \in {"GET", "HEAD", "PATCH"}
             THEN [Call("returned", via, i, 0, 0) EXCEPT !.result = result] ELSE Idle)
  /\ ids' = IF result = "ok" THEN [ids EXCEPT ![i] = "known"] ELSE ids
Refuse(c, via, i, result) == Return(c, via, i, result) /\ UNCHANGED <<entries, disk>>
Stays == UNCHANGED <<closing, clock>>

\* Deleting an entry and removing its file: nobody finds the file afterwards,
\* so the removal that follows the unlock is part of the step.
Drop(gone) ==
  /\ entries' = [i \in Ids |-> IF i \in gone THEN NoEntry ELSE entries[i]]
  /\ disk' = [i \in Ids |-> IF i \in gone THEN NoFile ELSE disk[i]]

-----------------------------------------------------------------------------
\* begin, pruneExpired, createFile: how Stage and BeginUpload start.  What is
\* being transferred is not pruned.
Pruned == {i \in Ids : Exists(i) /\ ~entries[i].busy /\ Expired(i)}

Create(c, next) ==
  /\ At(c, "idle") /\ ~closed
  /\ \E new \in {i \in Ids : ids[i] = "new"} :
       /\ entries' = [i \in Ids |-> IF i \in Pruned THEN NoEntry ELSE entries[i]]
       /\ disk' = [i \in Ids |-> IF i = new THEN File(0, TRUE)
                                 ELSE IF i \in Pruned THEN NoFile ELSE disk[i]]
       /\ ids' = [ids EXCEPT ![new] = "secret"]
       /\ Goto(c, [next EXCEPT !.id = new])
  /\ Stays

\* Stage: the copy to the new file, and the entry for it.  The copy may fail or
\* exceed the limit, and the store may have been closed meanwhile.
Stage(c) == Create(c, Call("stage", "app", NoId, 0, 0))

StageEnds(c) ==
  LET i == call[c].id IN
  /\ At(c, "stage")
  /\ \/ Return(c, "app", i, "failed") /\ Drop({i})
     \/ \E n \in 0..MaxBytes :
          /\ ~closed
          /\ entries' = [entries EXCEPT ![i] = Entry("staged", n, n)]
          /\ disk' = [disk EXCEPT ![i] = File(n, TRUE)]
          /\ Return(c, "app", i, "ok")
  /\ Stays

\* BeginUpload, alone or as the first half of ImportUpload.  An empty upload is
\* complete at once, so its checksum must be that of no bytes.
BeginUpload(c, via) ==
  \E size \in 0..MaxBytes : Create(c, Call("begin", via, NoId, size, 0))

BeginUploadEnds(c) ==
  LET i == call[c].id
      via == call[c].via
      size == call[c].size
  IN
  /\ At(c, "begin")
  /\ \/ closed /\ Return(c, via, i, "closed") /\ Drop({i})
     \/ size = 0 /\ Return(c, via, i, "checksum") /\ Drop({i})
     \/ /\ ~closed
        /\ entries' = [entries EXCEPT ![i] = Entry("upload", size, 0)]
        /\ IF via = "import"
           THEN Goto(c, [call[c] EXCEPT !.at = IF size = 0 THEN "probe" ELSE "import"])
                /\ UNCHANGED ids
           ELSE Return(c, via, i, "ok")
        /\ UNCHANGED disk
  /\ Stays

\* ImportUpload of an empty file reads one byte to see that there is none.
ImportProbe(c) ==
  /\ At(c, "probe")
  /\ \/ Return(c, "import", call[c].id, "ok")
     \/ Goto(c, [call[c] EXCEPT !.at = "discard"]) /\ UNCHANGED ids
  /\ UNCHANGED <<entries, disk>> /\ Stays

\* discard: ImportUpload gives up the upload it has begun.
Discard(c) ==
  /\ At(c, "discard")
  /\ Drop({call[c].id})
  /\ Return(c, "import", call[c].id, "failed")
  /\ Stays

-----------------------------------------------------------------------------
\* UploadStatus: an expired upload goes, even while an append is writing to it.
UploadStatus(c, i) ==
  LET result == IF closed                          THEN "closed"
                ELSE IF entries[i].kind # "upload" THEN "notfound"
                ELSE IF Expired(i)                 THEN "expired"
                ELSE "ok"
  IN
  /\ Free(c, i)
  /\ Return(c, "HEAD", i, result)
  /\ IF result = "expired" THEN Drop({i}) ELSE UNCHANGED <<entries, disk>>
  /\ Stays

\* AppendUpload: the checks under the mutex, in their order.
AppendChecks(i, offset) ==
  IF closed                          THEN "closed"
  ELSE IF entries[i].kind # "upload" THEN "notfound"
  ELSE IF Expired(i)                 THEN "expired"
  ELSE IF entries[i].busy            THEN "busy"
  ELSE IF offset # entries[i].offset THEN "offset"
  ELSE IF entries[i].complete        THEN "ok"
  ELSE "go"

\* A call that passes them marks the upload busy.
AppendUpload(c, via, i, offset) ==
  LET result == AppendChecks(i, offset) IN
  /\ IF result = "go"
     THEN /\ entries' = [entries EXCEPT ![i].busy = TRUE]
          /\ Goto(c, Call("append", via, i, entries[i].size, offset))
          /\ UNCHANGED <<disk, ids>>
     ELSE /\ Return(c, via, i, result)
          /\ IF result = "expired" THEN Drop({i}) ELSE UNCHANGED <<entries, disk>>
  /\ Stays

UploadAppend(c, i, offset) == Free(c, i) /\ AppendUpload(c, "PATCH", i, offset)
ImportAppend(c) == At(c, "import") /\ AppendUpload(c, "import", call[c].id, 0)

\* The copy: up to one byte more than what is missing, of the right bytes or
\* not.  If the file is no longer there, it was opened before it was removed.
AppendCopies(c) ==
  LET i == call[c].id IN
  /\ At(c, "append")
  /\ \E n \in call[c].n..(call[c].size + 1), right, interrupted \in BOOLEAN :
       /\ n = call[c].n => right
       /\ disk' = IF disk[i] = NoFile THEN disk
                  ELSE [disk EXCEPT ![i] = File(n, @.good /\ right)]
       /\ Goto(c, [call[c] EXCEPT !.at = "written", !.n = n,
                                  !.result = IF interrupted THEN "failed" ELSE "ok"])
  /\ UNCHANGED <<entries, ids>> /\ Stays

\* Mutant: a complete file is not compared with its checksum.
VerifiesBySize(i, n, size) == n <= size

\* Too many bytes, a failed Sync or Close, a complete file that cannot be read
\* back or has another checksum: the upload is removed.  Else it is kept.
Verifies(i, n, size) == n <= size /\ (n = size => disk[i] # NoFile /\ disk[i].good)

AppendVerifies(c) ==
  /\ At(c, "written")
  /\ \/ Goto(c, [call[c] EXCEPT !.at = "remove"])
     \/ /\ Verifies(call[c].id, call[c].n, call[c].size)
        /\ Goto(c, [call[c] EXCEPT !.at = "release"])
  /\ UNCHANGED <<entries, disk, ids>> /\ Stays

\* Mutant: the entry is written back although it has expired.
releaseUploadAnyway(i, size, n) ==
  [entries EXCEPT ![i] = Entry("upload", size, n)]

\* releaseUpload: if the entry is still there, it takes the new offset and a
\* new expiry.
releaseUpload(i, size, n) ==
  IF Exists(i) THEN [entries EXCEPT ![i] = Entry("upload", size, n)] ELSE entries

\* os.OpenFile or Seek fails: the upload is released as it was.
AppendFailsToOpen(c) ==
  /\ At(c, "append")
  /\ entries' = releaseUpload(call[c].id, call[c].size, call[c].n)
  /\ Return(c, call[c].via, call[c].id, "failed")
  /\ UNCHANGED disk /\ Stays

\* ImportUpload discards what it did not get completely.
AppendReleases(c) ==
  LET i == call[c].id
      whole == call[c].result = "ok" /\ call[c].n = call[c].size
  IN
  /\ At(c, "release")
  /\ entries' = releaseUpload(i, call[c].size, call[c].n)
  /\ IF call[c].via = "import" /\ ~whole /\ Exists(i)
     THEN Goto(c, [call[c] EXCEPT !.at = "discard"]) /\ UNCHANGED ids
     ELSE Return(c, call[c].via, i,
                 IF call[c].via = "import" /\ ~Exists(i) THEN "failed" ELSE call[c].result)
  /\ UNCHANGED disk /\ Stays

RemovesUpload(c) == Drop({call[c].id})

AppendRemoves(c) ==
  /\ At(c, "remove")
  /\ RemovesUpload(c)
  /\ Return(c, call[c].via, call[c].id, "failed")
  /\ Stays

-----------------------------------------------------------------------------
\* ConsumeUpload looks at the upload, unlocks, and then takes it.
ConsumeUpload(c, i) ==
  /\ Free(c, i)
  /\ IF entries[i].kind = "upload" /\ entries[i].complete
     THEN Goto(c, Call("consume", "app", i, 0, 0)) /\ UNCHANGED ids
     ELSE Return(c, "app", i, "invalid")
  /\ UNCHANGED <<entries, disk>> /\ Stays

\* Take: the entry goes first; the file is removed when the download ends, or
\* at once when the entry had expired or the file cannot be opened.
TakeFrom(c, i) ==
  LET result == IF closed                    THEN "closed"
                ELSE IF ~Exists(i)           THEN "notfound"
                ELSE IF ~entries[i].complete THEN "incomplete"
                ELSE IF entries[i].busy      THEN "busy"
                ELSE IF Expired(i)           THEN "expired"
                ELSE "go"
  IN
  /\ \/ result \notin {"expired", "go"} /\ Refuse(c, "app", i, result)
     \/ result = "expired" /\ Drop({i}) /\ Return(c, "app", i, "expired")
     \/ result = "go" /\ Drop({i}) /\ Return(c, "app", i, "failed")
     \/ /\ result = "go"
        /\ entries' = [entries EXCEPT ![i] = NoEntry]
        /\ Goto(c, Call("take", "app", i, 0, 0))
        /\ UNCHANGED <<disk, ids>>
  /\ Stays

Take(c, i) == Free(c, i) /\ TakeFrom(c, i)
ConsumeTakes(c) == At(c, "consume") /\ TakeFrom(c, call[c].id)

\* OpenDownload: a staged file is busy while it is sent; if it cannot be
\* opened, finishDownload has freed it again before the call returns.
OpenDownload(c, i) ==
  LET result == IF closed                          THEN "closed"
                ELSE IF entries[i].kind # "staged" THEN "notfound"
                ELSE IF Expired(i)                 THEN "expired"
                ELSE IF entries[i].busy            THEN "busy"
                ELSE "go"
  IN
  /\ Free(c, i)
  /\ \/ result \notin {"expired", "go"} /\ Refuse(c, "GET", i, result)
     \/ result = "expired" /\ Drop({i}) /\ Return(c, "GET", i, result)
     \/ /\ result = "go"
        /\ entries' = [entries EXCEPT ![i].busy = TRUE]
        /\ Goto(c, Call("download", "GET", i, 0, 0))
        /\ UNCHANGED <<disk, ids>>
  /\ Stays

\* FileDownload.Close and Commit (finishDownload): a committed or taken file is
\* removed, another one is free again.
FinishDownload(c, commit) ==
  LET i == call[c].id IN
  /\ \/ /\ At(c, "download") /\ ~commit
        /\ entries' = IF Exists(i) THEN [entries EXCEPT ![i].busy = FALSE] ELSE entries
        /\ UNCHANGED disk
     \/ At(c, "download") /\ commit /\ Drop({i})
     \/ At(c, "take") /\ disk' = [disk EXCEPT ![i] = NoFile] /\ UNCHANGED entries
  /\ Return(c, call[c].via, i, IF commit THEN "ok" ELSE "failed")
  /\ Stays

\* Close: no call is let in any more; when the last one is done, everything goes.
Close ==
  /\ closing = "no" /\ closing' = "waiting"
  /\ UNCHANGED <<entries, disk, ids, call, clock>>

WaitsForActive == Active = {}

CloseCleans ==
  /\ closing = "waiting" /\ WaitsForActive
  /\ closing' = "done"
  /\ Drop({i \in Ids : Exists(i)})
  /\ UNCHANGED <<ids, call, clock>>

Tick == clock < MaxTime /\ clock' = clock + 1 /\ UNCHANGED <<entries, disk, ids, call, closing>>

\* A call that has begun goes on by itself.
Continue(c) ==
  \/ StageEnds(c) \/ BeginUploadEnds(c) \/ ImportProbe(c) \/ Discard(c) \/ ImportAppend(c)
  \/ AppendCopies(c) \/ AppendFailsToOpen(c) \/ AppendVerifies(c) \/ AppendReleases(c)
  \/ AppendRemoves(c) \/ ConsumeTakes(c) \/ \E commit \in BOOLEAN : FinishDownload(c, commit)
=============================================================================
