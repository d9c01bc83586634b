----------------------- MODULE FileTransferHTTPHandler -----------------------
(***************************************************************************)
(* The clients of the file transfer store: the HTTP handler                *)
(* (backend/framework/file_transfer_http_handler.go), the sidecar's import *)
(* control method (server.go) and the application itself.  An HTTP request *)
(* is let through or refused, makes one call to the store and is answered  *)
(* with a status code.                                                     *)
(***************************************************************************)
EXTENDS FileTransferStore

VARIABLE told   \* [upload or download, id] pairs a client was told are gone

transferVars == <<entries, disk, ids, call, closing, clock, told>>

\* The status codes of writeTransferError and writeDownloadError; a request cut
\* off by its client is not answered.
Gone == 404
Status(via, result) ==
  CASE result = "ok" -> IF via = "POST" THEN 201 ELSE 200
    [] result \in {"notfound", "expired"} -> Gone
    [] result \in {"offset", "busy", "incomplete"} -> 409
    [] result = "checksum" -> 422
    [] result = "invalid" -> 400
    [] OTHER -> 500

Surface(via) == IF via = "GET" THEN "download" ELSE "upload"

\* The response is written; the thread is free for the next request.
Answer(c) ==
  /\ At(c, "returned")
  /\ Status(call[c].via, call[c].result) = Gone
  /\ told' = told \cup {[of |-> Surface(call[c].via), id |-> call[c].id]}
  /\ Goto(c, Idle)
  /\ UNCHANGED <<entries, disk, ids, closing, clock>>

\* ServeHTTP: what passes the checks of origin, method, token, content type and
\* parameters reaches the store; anything else is answered without a call.
serveUploadCreation(c) == BeginUpload(c, "POST")
serveUploadStatus(c, i) == UploadStatus(c, i)
serveUploadAppend(c, i) == \E offset \in 0..MaxBytes : UploadAppend(c, i, offset)
\* serveDownload commits only what it has sent to the end.
serveDownload(c, i) == OpenDownload(c, i)

ServeHTTP(c) ==
  \/ serveUploadCreation(c)
  \/ \E i \in Ids : serveUploadStatus(c, i) \/ serveUploadAppend(c, i) \/ serveDownload(c, i)

\* importSidecarUpload, once the token and the parameters are accepted.
importSidecarUpload(c) == BeginUpload(c, "import")

\* The application stages files for its clients and consumes their uploads.
Application(c) == Stage(c) \/ \E i \in Ids : Take(c, i) \/ ConsumeUpload(c, i)

TransferInit == Init /\ told = {}

TransferNext ==
  \/ \E c \in Calls :
       \/ Answer(c)
       \/ UNCHANGED told /\ (ServeHTTP(c) \/ importSidecarUpload(c) \/ Application(c) \/ Continue(c))
  \/ UNCHANGED told /\ (Close \/ CloseCleans \/ Tick)

-----------------------------------------------------------------------------
Working(c, i) == call[c].id = i /\ call[c].at \in {"stage", "begin", "take"}

\* No file is left behind: whatever expires, fails or is cancelled in whatever
\* order, each file on the disk is that of an entry or of a call that still has
\* to enter or remove it, and nothing is left when Close is done.
NoFileLeftBehind ==
  \A i \in Ids : disk[i] # NoFile =>
    /\ Exists(i) \/ \E c \in Calls : Working(c, i)
    /\ closing # "done"

\* What the entries say is what is on the disk: a complete transfer has its
\* declared size and checksum, and a paused one resumes where its file ends.
\* Two appends to one upload, or a chunk of wrong bytes, would break it.
EntriesMatchFiles ==
  \A i \in Ids : Exists(i) =>
    /\ disk[i] # NoFile
    /\ entries[i].complete => disk[i] = File(entries[i].size, TRUE)
    /\ ~entries[i].busy => disk[i].size = entries[i].offset

\* 404 is final: a client that was told its transfer is gone never finds it
\* again, although a call that was writing to it when it expired ends later.
GoneIsFinal ==
  \A t \in told : entries[t.id].kind # (IF t.of = "download" THEN "staged" ELSE "upload")

\* Files and entries account for each other, in both directions.
FilesAccountedFor == NoFileLeftBehind /\ EntriesMatchFiles
=============================================================================
