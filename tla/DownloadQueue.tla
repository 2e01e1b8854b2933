---------------------------- MODULE DownloadQueue ----------------------------
(***************************************************************************)
(* Downloading one file into a storage box: the import that creates it,    *)
(* the row of files."downloadQueue" that asks for it, the workers that     *)
(* fetch it, the cleaner that takes back the reservations of dead workers  *)
(* and the tool that lifts the retry delay.  As in ExtractionOcr, nothing  *)
(* relates the rows of two files, and every SQL statement is one step; here*)
(* none of them shares a transaction with another.                         *)
(***************************************************************************)
EXTENDS Naturals, FiniteSets

CONSTANT
    Workers    \* download workers, of any number of processes

VARIABLES
    status,    \* files.downloadStatus: 0, -1 or 1, or no such file yet
    importer,  \* is the import between its two statements?
    row,       \* the download queue's row
    inBox,     \* the storage box holds the content
    boxed,     \* files."md5Boxes" says so
    handed,    \* the file has been put into the extraction queue
    worker,    \* each download worker's step
    overran    \* history: a live download has outlasted its reservation

vars == <<status, importer, row, inBox, boxed, handed, worker, overran>>

Statuses == {"absent", "waiting", "failed", "downloaded"}
Steps    == {"idle", "claimed", "fetched", "recorded", "marked", "dequeued",
             "erred", "markedFailed"}

NoRow == [in |-> FALSE, locked |-> FALSE, expired |-> FALSE, later |-> FALSE]

Active(w) == worker[w] # "idle"
At(w, step) == worker[w] = step
Goto(w, step) == worker' = [worker EXCEPT ![w] = step]

Init ==
    /\ status = "absent" /\ importer = "idle"
    /\ row = NoRow
    /\ inBox = FALSE /\ boxed = FALSE /\ handed = FALSE
    /\ worker = [w \in Workers |-> "idle"]
    /\ overran = FALSE

-----------------------------------------------------------------------------
(* irasytiIFiles, called without a transaction.                            *)

\* Insert the file; one that exists already is not inserted again, and only
\* a file inserted now is queued.
Insert ==
    /\ importer = "idle" /\ status = "absent"
    /\ status' = "waiting"
    /\ importer' = "inserted"
    /\ UNCHANGED <<row, inBox, boxed, handed, worker, overran>>

QueueDownload ==
    /\ importer = "inserted"
    /\ row' = [NoRow EXCEPT !.in = TRUE]
    /\ importer' = "idle"
    /\ UNCHANGED <<status, inBox, boxed, handed, worker, overran>>

ImportStops ==
    /\ importer = "inserted"
    /\ importer' = "idle"
    /\ UNCHANGED <<status, row, inBox, boxed, handed, worker, overran>>

-----------------------------------------------------------------------------
(* A download worker: parsiustiFaila.                                      *)

\* Mutation: only files that never failed are tried.
ClaimWaiting(w) ==
    /\ At(w, "idle") /\ status = "waiting"
    /\ row.in /\ ~row.locked /\ ~row.later
    /\ row' = [row EXCEPT !.locked = TRUE, !.expired = FALSE, !.later = TRUE]
    /\ Goto(w, "claimed")
    /\ UNCHANGED <<status, importer, inBox, boxed, handed, overran>>

\* paimtiParsiuntimui: lock the row and put the next attempt three hours off
\* or more, at once.
Claim(w) ==
    /\ At(w, "idle")
    /\ row.in /\ ~row.locked /\ ~row.later
    /\ row' = [row EXCEPT !.locked = TRUE, !.expired = FALSE, !.later = TRUE]
    /\ Goto(w, "claimed")
    /\ UNCHANGED <<status, importer, inBox, boxed, handed, overran>>

\* Every box is full: the job ends outside its try and the row stays locked.
NoSpace(w) ==
    /\ At(w, "claimed")
    /\ Goto(w, "idle")
    /\ UNCHANGED <<status, importer, row, inBox, boxed, handed, overran>>

\* The box fetches the file and answers within nine minutes ...
Fetch(w) ==
    /\ At(w, "claimed")
    /\ inBox' = TRUE
    /\ Goto(w, "fetched")
    /\ UNCHANGED <<status, importer, row, boxed, handed, overran>>

\* ... or the worker sees an error, though the box may have the file.
FetchFails(w) ==
    /\ At(w, "claimed")
    /\ inBox' \in {inBox, TRUE}
    /\ Goto(w, "erred")
    /\ UNCHANGED <<status, importer, row, boxed, handed, overran>>

\* Mutation: the file is marked before its box is recorded.
RecordNothing(w) ==
    /\ At(w, "fetched")
    /\ Goto(w, "recorded")
    /\ UNCHANGED <<status, importer, row, inBox, boxed, handed, overran>>

\* pazymetiParsiusta: the box,
RecordBox(w) ==
    /\ At(w, "fetched")
    /\ boxed' = TRUE
    /\ Goto(w, "recorded")
    /\ UNCHANGED <<status, importer, row, inBox, handed, overran>>

\* the file,
MarkDownloaded(w) ==
    /\ At(w, "recorded")
    /\ status' = "downloaded"
    /\ Goto(w, "marked")
    /\ UNCHANGED <<importer, row, inBox, boxed, handed, overran>>

\* Mutation: the row leaves the queue when the work on it begins.
DequeueFirst(w) ==
    /\ At(w, "claimed")
    /\ row' = NoRow
    /\ inBox' = TRUE
    /\ Goto(w, "fetched")
    /\ UNCHANGED <<status, importer, boxed, handed, overran>>

\* the queue;
Dequeue(w) ==
    /\ At(w, "marked")
    /\ row' = NoRow
    /\ Goto(w, "dequeued")
    /\ UNCHANGED <<status, importer, inBox, boxed, handed, overran>>

\* and iEile, which takes only a file that is downloaded.
HandOver(w) ==
    /\ At(w, "dequeued")
    /\ handed' = (handed \/ status = "downloaded")
    /\ Goto(w, "idle")
    /\ UNCHANGED <<status, importer, row, inBox, boxed, overran>>

\* A statement inside the try throws.
Throw(w) ==
    /\ worker[w] \in {"fetched", "recorded", "marked", "dequeued"}
    /\ Goto(w, "erred")
    /\ UNCHANGED <<status, importer, row, inBox, boxed, handed, overran>>

\* pazymetiKlaida: whatever the error was, the file has failed,
MarkFailed(w) ==
    /\ At(w, "erred")
    /\ status' = "failed"
    /\ Goto(w, "markedFailed")
    /\ UNCHANGED <<importer, row, inBox, boxed, handed, overran>>

\* and the row, if it is there, is free, whoever holds it.
Unlock(w) ==
    /\ At(w, "markedFailed")
    /\ row' = [row EXCEPT !.locked = FALSE, !.expired = FALSE]
    /\ Goto(w, "idle")
    /\ UNCHANGED <<status, importer, inBox, boxed, handed, overran>>

\* The process dies, or a statement of pazymetiKlaida throws.
Crash(w) ==
    /\ Active(w)
    /\ Goto(w, "idle")
    /\ UNCHANGED <<status, importer, row, inBox, boxed, handed, overran>>

-----------------------------------------------------------------------------
(* Time, the cleaner and the retry tool.                                   *)

\* Fifteen minutes pass on a locked row.  The request to the box is aborted
\* after nine.
ReservationExpires ==
    /\ row.locked /\ ~row.expired
    /\ row' = [row EXCEPT !.expired = TRUE]
    /\ overran' = (overran \/ \E w \in Workers : Active(w))
    /\ UNCHANGED <<status, importer, inBox, boxed, handed, worker>>

\* Three hours or more pass after the claim.
DelayEnds ==
    /\ row.later
    /\ row.locked => row.expired
    /\ row' = [row EXCEPT !.later = FALSE]
    /\ UNCHANGED <<status, importer, inBox, boxed, handed, worker, overran>>

\* Mutation: the cleaner takes back every reservation.
PravalytiAll ==
    /\ row.locked
    /\ row' = [row EXCEPT !.locked = FALSE, !.expired = FALSE]
    /\ status' = "failed"
    /\ UNCHANGED <<importer, inBox, boxed, handed, worker, overran>>

\* pravalytiParsiuntimoRezervacijas: one statement for the row and the file.
Pravalyti ==
    /\ row.locked /\ row.expired
    /\ row' = [row EXCEPT !.locked = FALSE, !.expired = FALSE]
    /\ status' = "failed"
    /\ UNCHANGED <<importer, inBox, boxed, handed, worker, overran>>

\* parsiustiPakartotinai, run by hand.
ParsiustiPakartotinai ==
    /\ row.in /\ ~row.locked /\ status = "failed"
    /\ row' = [row EXCEPT !.later = FALSE]
    /\ status' = "waiting"
    /\ UNCHANGED <<importer, inBox, boxed, handed, worker, overran>>

-----------------------------------------------------------------------------
Downloading(w) ==
    \/ Claim(w) \/ NoSpace(w) \/ Fetch(w) \/ FetchFails(w) \/ RecordBox(w)
    \/ MarkDownloaded(w) \/ Dequeue(w) \/ Throw(w) \/ MarkFailed(w) \/ Unlock(w)

WorkerStep(w) == Downloading(w) \/ HandOver(w)

Next ==
    \/ Insert \/ QueueDownload \/ ImportStops
    \/ \E w \in Workers : WorkerStep(w) \/ Crash(w)
    \/ ReservationExpires \/ DelayEnds
    \/ Pravalyti \/ ParsiustiPakartotinai

Spec == Init /\ [][Next]_vars

\* The task runner keeps calling the download and the cleaner; time passes.
FairSpec ==
    /\ Spec
    /\ \A w \in Workers : WF_vars(WorkerStep(w))
    /\ WF_vars(ReservationExpires) /\ WF_vars(DelayEnds) /\ WF_vars(Pravalyti)

-----------------------------------------------------------------------------
(* Properties.                                                             *)

\* Every row, flag and worker is in a state of the code, and a row that is
\* not there is not locked.
TypeOK ==
    /\ status \in Statuses
    /\ importer \in {"idle", "inserted"}
    /\ row \in [in : BOOLEAN, locked : BOOLEAN, expired : BOOLEAN,
                later : BOOLEAN]
    /\ row.locked => row.in
    /\ inBox \in BOOLEAN /\ boxed \in BOOLEAN /\ handed \in BOOLEAN
    /\ worker \in [Workers -> Steps]
    /\ overran \in BOOLEAN

\* A file that is shown as downloaded, or that the extraction is given, can be
\* served: a box is recorded for it and has it, whichever statement a download
\* stopped after and however many of them overlap (the order of the statements
\* in pazymetiParsiusta).
DownloadedIsServable ==
    status = "downloaded" \/ handed => boxed /\ inBox

\* The request to download a file goes away only once its content is in a
\* recorded box, in spite of crashes, failing statements and late workers.
RequestOutlivesTheWork == [][row.in /\ ~row'.in => boxed]_vars

\* As long as live downloads end within their fifteen minutes, each one is
\* alone with its file, whatever crashes and whatever the cleaner takes back.
OneDownload ==
    overran \/ \A v, w \in Workers : Active(v) /\ Active(w) => v = w

\* A file is tried again and again for as long as it is in the queue: its
\* reservation ends, though its worker died or found no box with space, and
\* no error and no crash puts it beyond the reach of paimtiParsiuntimui.
TriedAgain ==
    /\ row.locked ~> ~row.locked
    /\ row.in /\ ~row.locked ~> row.locked \/ ~row.in
=============================================================================
