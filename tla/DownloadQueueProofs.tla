------------------------ MODULE DownloadQueueProofs ------------------------
(***************************************************************************)
(* Proofs about the download of one file, for any number of workers: its   *)
(* types, that what is shown can be served, that the request for it        *)
(* outlives the work, and that workers who are on time work alone.         *)
(***************************************************************************)
EXTENDS DownloadQueue, TLAPS

\* What a worker has behind it still holds: the box has what it fetched, and
\* the database knows what it recorded.
ContentInv ==
  /\ \A w \in Workers : At(w, "fetched") => inBox
  /\ \A w \in Workers : worker[w] \in {"recorded", "marked", "dequeued"} => boxed
  /\ boxed => inBox
  /\ status = "downloaded" => boxed
  /\ handed => boxed

\* Before the import has queued the file nobody can work on it.
BeforeInv ==
  /\ status = "absent" \/ importer = "inserted"
       => ~row.in /\ \A w \in Workers : ~Active(w)
  /\ importer = "inserted" => status # "absent"

\* Until a download has outlasted its reservation, there is one at most, and
\* it has the row locked, its time not up, or has taken it out of the queue.
AloneInv ==
  ~overran =>
    /\ \A v, w \in Workers : Active(v) /\ Active(w) => v = w
    /\ (\E w \in Workers : Active(w)) /\ row.in => row.locked /\ ~row.expired

IInv == TypeOK /\ ContentInv /\ BeforeInv /\ AloneInv

-----------------------------------------------------------------------------
RowType == [in : BOOLEAN, locked : BOOLEAN, expired : BOOLEAN, later : BOOLEAN]

\* The row after any one statement.
RowAfter(r) ==
  \/ r = row
  \/ r = NoRow
  \/ r = [NoRow EXCEPT !.in = TRUE]
  \/ row.in /\ r = [row EXCEPT !.locked = TRUE, !.expired = FALSE, !.later = TRUE]
  \/ r = [row EXCEPT !.locked = FALSE, !.expired = FALSE]
  \/ r = [row EXCEPT !.expired = TRUE]
  \/ r = [row EXCEPT !.later = FALSE]

\* No statement locks a row that is not there or takes out a locked one.
LEMMA RowStep ==
  ASSUME row \in RowType, row.locked => row.in, RowAfter(row')
  PROVE  row' \in RowType /\ (row'.locked => row'.in)
<1>1. CASE row' = row
  BY <1>1
<1>2. CASE row' = NoRow
  BY <1>2 DEF NoRow, RowType
<1>3. CASE row' = [NoRow EXCEPT !.in = TRUE]
  BY <1>3 DEF NoRow, RowType
<1>4. CASE row.in /\ row' = [row EXCEPT !.locked = TRUE, !.expired = FALSE, !.later = TRUE]
  BY <1>4 DEF RowType
<1>5. CASE row' = [row EXCEPT !.locked = FALSE, !.expired = FALSE]
  BY <1>5 DEF RowType
<1>6. CASE row' = [row EXCEPT !.expired = TRUE]
  BY <1>6 DEF RowType
<1>7. CASE row' = [row EXCEPT !.later = FALSE]
  BY <1>7 DEF RowType
<1>8. QED
  BY <1>1, <1>2, <1>3, <1>4, <1>5, <1>6, <1>7 DEF RowAfter

\* Each step keeps the types, and a lock needs a row.
LEMMA TypeStep == TypeOK /\ [Next]_vars => TypeOK'
<1> SUFFICES ASSUME TypeOK, [Next]_vars  PROVE TypeOK'
  OBVIOUS
<1> USE DEF RowType
<1>1. ASSUME NEW w \in Workers, WorkerStep(w) \/ Crash(w)  PROVE TypeOK'
  <2>1. worker' \in [Workers -> Steps]
    BY <1>1 DEF TypeOK, WorkerStep, Downloading, Claim, NoSpace, Fetch, FetchFails, RecordBox,
       MarkDownloaded, Dequeue, HandOver, Throw, MarkFailed, Unlock, Crash,
       Goto, Steps
  <2>2. RowAfter(row')
    BY <1>1 DEF RowAfter, WorkerStep, Downloading, Claim, NoSpace, Fetch, FetchFails,
       RecordBox, MarkDownloaded, Dequeue, HandOver, Throw, MarkFailed, Unlock,
       Crash
  <2>3. row' \in RowType /\ (row'.locked => row'.in)
    BY <2>2, RowStep DEF TypeOK
  <2>4. status' \in Statuses /\ importer' \in {"idle", "inserted"}
    BY <1>1 DEF TypeOK, WorkerStep, Downloading, Claim, NoSpace, Fetch, FetchFails, RecordBox,
       MarkDownloaded, Dequeue, HandOver, Throw, MarkFailed, Unlock, Crash,
       Statuses
  <2>5. inBox' \in BOOLEAN /\ boxed' \in BOOLEAN /\ handed' \in BOOLEAN
    <3>1. inBox' \in {inBox, TRUE} /\ boxed' \in {boxed, TRUE}
          /\ (handed' = handed \/ handed' = (handed \/ status = "downloaded"))
      BY <1>1, Zenon DEF WorkerStep, Downloading, Claim, NoSpace, Fetch, FetchFails, RecordBox,
         MarkDownloaded, Dequeue, HandOver, Throw, MarkFailed, Unlock, Crash
    <3>2. QED  BY <3>1, Zenon DEF TypeOK
  <2>6. overran' \in BOOLEAN
    BY <1>1, Zenon DEF TypeOK, WorkerStep, Downloading, Claim, NoSpace, Fetch, FetchFails,
       RecordBox, MarkDownloaded, Dequeue, HandOver, Throw, MarkFailed, Unlock,
       Crash
  <2>7. QED  BY <2>1, <2>3, <2>4, <2>5, <2>6, Zenon DEF TypeOK
<1>2. CASE Insert \/ QueueDownload \/ ImportStops
  BY <1>2 DEF TypeOK, Insert, QueueDownload, ImportStops, NoRow, Statuses
<1>3. CASE ReservationExpires \/ DelayEnds \/ Pravalyti \/ ParsiustiPakartotinai
  <2>1. RowAfter(row')
    BY <1>3 DEF RowAfter, ReservationExpires, DelayEnds, Pravalyti,
       ParsiustiPakartotinai
  <2>2. row' \in RowType /\ (row'.locked => row'.in)
    BY <2>1, RowStep DEF TypeOK
  <2>3. /\ status' \in {status, "failed", "waiting"}
        /\ UNCHANGED <<importer, inBox, boxed, handed, worker>>
    BY <1>3 DEF ReservationExpires, DelayEnds, Pravalyti, ParsiustiPakartotinai
  <2>4. overran' \in BOOLEAN
    BY <1>3, Zenon DEF TypeOK, ReservationExpires, DelayEnds, Pravalyti,
       ParsiustiPakartotinai
  <2>5. status' \in Statuses
    BY <2>3 DEF TypeOK, Statuses
  <2>6. QED  BY <2>2, <2>3, <2>4, <2>5, Zenon DEF TypeOK
<1>4. CASE UNCHANGED vars
  BY <1>4 DEF TypeOK, vars
<1>5. QED
  BY <1>1, <1>2, <1>3, <1>4 DEF Next

\* The statements of pazymetiParsiusta come in the order ContentInv needs.
LEMMA ContentStep == TypeOK /\ ContentInv /\ [Next]_vars => ContentInv'
<1> SUFFICES ASSUME TypeOK, ContentInv, [Next]_vars  PROVE ContentInv'
  OBVIOUS
<1>1. ASSUME NEW w \in Workers, WorkerStep(w) \/ Crash(w)  PROVE ContentInv'
  <2>1. CASE Claim(w) \/ NoSpace(w) \/ Throw(w) \/ Unlock(w) \/ Crash(w) \/ Dequeue(w)
    BY <2>1 DEF TypeOK, ContentInv, Claim, NoSpace, Throw, Unlock, Crash,
       Dequeue, Goto, At
  <2>2. CASE Fetch(w) \/ FetchFails(w)
    <3>1. boxed' = boxed /\ handed' = handed /\ status' = status
      BY <2>2 DEF Fetch, FetchFails
    <3>2. inBox => inBox'
      BY <2>2 DEF Fetch, FetchFails
    <3>3. Fetch(w) => inBox'
      BY DEF Fetch
    <3>4. \A v \in Workers : v # w => worker'[v] = worker[v]
      BY <2>2 DEF TypeOK, Fetch, FetchFails, Goto
    <3>5. (worker'[w] = "fetched" /\ Fetch(w)) \/ worker'[w] = "erred"
      BY <2>2 DEF TypeOK, Fetch, FetchFails, Goto
    <3>6. QED  BY <3>1, <3>2, <3>3, <3>4, <3>5 DEF ContentInv, At
  <2>3. CASE RecordBox(w)
    BY <2>3 DEF TypeOK, ContentInv, RecordBox, Goto, At
  <2>4. CASE MarkDownloaded(w) \/ MarkFailed(w)
    BY <2>4 DEF TypeOK, ContentInv, MarkDownloaded, MarkFailed, Goto, At
  <2>5. CASE HandOver(w)
    <3>1. inBox' = inBox /\ boxed' = boxed /\ status' = status
      BY <2>5 DEF HandOver
    <3>2. handed' => boxed
      BY <2>5 DEF HandOver, At, ContentInv
    <3>3. \A v \in Workers : worker'[v] = IF v = w THEN "idle" ELSE worker[v]
      BY <2>5 DEF TypeOK, HandOver, Goto
    <3>4. QED  BY <3>1, <3>2, <3>3 DEF ContentInv, At
  <2>6. QED
    BY <1>1, <2>1, <2>2, <2>3, <2>4, <2>5 DEF WorkerStep, Downloading
<1>2. CASE Insert \/ QueueDownload \/ ImportStops
  BY <1>2 DEF ContentInv, Insert, QueueDownload, ImportStops, At
<1>3. CASE ReservationExpires \/ DelayEnds \/ Pravalyti \/ ParsiustiPakartotinai
  BY <1>3 DEF ContentInv, ReservationExpires, DelayEnds, Pravalyti,
     ParsiustiPakartotinai, At
<1>4. CASE UNCHANGED vars
  BY <1>4 DEF ContentInv, vars, At
<1>5. QED
  BY <1>1, <1>2, <1>3, <1>4 DEF Next

\* Only the import queues the file, and once.
LEMMA BeforeStep == TypeOK /\ BeforeInv /\ [Next]_vars => BeforeInv'
<1> SUFFICES ASSUME TypeOK, BeforeInv, [Next]_vars  PROVE BeforeInv'
  OBVIOUS
<1>1. ASSUME NEW w \in Workers, WorkerStep(w) \/ Crash(w)  PROVE BeforeInv'
  <2>1. status # "absent" /\ importer # "inserted"
    BY <1>1 DEF BeforeInv, WorkerStep, Downloading, Claim, NoSpace, Fetch, FetchFails,
       RecordBox, MarkDownloaded, Dequeue, HandOver, Throw, MarkFailed, Unlock,
       Crash, At, Active
  <2>2. importer' = importer /\ status' \in {status, "downloaded", "failed"}
    BY <1>1 DEF WorkerStep, Downloading, Claim, NoSpace, Fetch, FetchFails, RecordBox,
       MarkDownloaded, Dequeue, HandOver, Throw, MarkFailed, Unlock, Crash
  <2>3. QED  BY <2>1, <2>2 DEF BeforeInv
<1>2. CASE Insert \/ QueueDownload \/ ImportStops
  <2>1. CASE Insert
    BY <2>1 DEF TypeOK, BeforeInv, Insert, Active
  <2>2. CASE QueueDownload \/ ImportStops
    <3>1. importer' = "idle" /\ status' = status
      BY <2>2 DEF QueueDownload, ImportStops
    <3>2. status # "absent"
      BY <2>2 DEF QueueDownload, ImportStops, BeforeInv
    <3>3. QED  BY <3>1, <3>2 DEF BeforeInv
  <2>3. QED  BY <1>2, <2>1, <2>2
<1>3. CASE ReservationExpires \/ DelayEnds \/ Pravalyti \/ ParsiustiPakartotinai
  BY <1>3 DEF TypeOK, BeforeInv, ReservationExpires, DelayEnds, Pravalyti,
     ParsiustiPakartotinai, Active
<1>4. CASE UNCHANGED vars
  BY <1>4 DEF BeforeInv, vars, Active
<1>5. QED
  BY <1>1, <1>2, <1>3, <1>4 DEF Next

\* A claim needs a free row, which a worker on time does not leave behind.
LEMMA AloneStep ==
  TypeOK /\ BeforeInv /\ AloneInv /\ [Next]_vars => AloneInv'
<1> SUFFICES ASSUME TypeOK, BeforeInv, AloneInv, [Next]_vars, ~overran'
             PROVE  /\ \A v, w \in Workers : Active(v)' /\ Active(w)' => v = w
                    /\ (\E w \in Workers : Active(w)') /\ row'.in
                         => row'.locked /\ ~row'.expired
  BY DEF AloneInv
<1>1. ~overran
  BY DEF Next, vars, TypeOK, WorkerStep, Downloading, Claim, NoSpace, Fetch, FetchFails,
     RecordBox, MarkDownloaded, Dequeue, HandOver, Throw, MarkFailed, Unlock,
     Crash, Insert, QueueDownload, ImportStops, ReservationExpires, DelayEnds,
     Pravalyti, ParsiustiPakartotinai
<1>2. CASE \E w \in Workers : Claim(w)
  <2>1. PICK w \in Workers : Claim(w)
    BY <1>2
  <2>2. \A v \in Workers : ~Active(v)
    BY <1>1, <2>1 DEF AloneInv, Claim
  <2>3. \A v \in Workers : Active(v)' => v = w
    BY <2>1, <2>2 DEF TypeOK, Claim, Goto, Active
  <2>4. row'.locked /\ ~row'.expired
    BY <2>1 DEF TypeOK, Claim
  <2>5. QED  BY <2>3, <2>4
<1>3. ASSUME NEW w \in Workers, (WorkerStep(w) /\ ~Claim(w)) \/ Crash(w)
      PROVE  /\ \A v, u \in Workers : Active(v)' /\ Active(u)' => v = u
             /\ (\E v \in Workers : Active(v)') /\ row'.in
                  => row'.locked /\ ~row'.expired
  <2>1. \A v \in Workers : Active(v)' => Active(v)
    <3>1. Active(w) /\ \E step \in Steps : Goto(w, step)
      BY <1>3 DEF WorkerStep, Downloading, NoSpace, Fetch, FetchFails, RecordBox,
         MarkDownloaded, Dequeue, HandOver, Throw, MarkFailed, Unlock, Crash,
         At, Active, Steps
    <3>2. \A v \in Workers : v # w => worker'[v] = worker[v]
      BY <3>1 DEF TypeOK, Goto
    <3>3. QED  BY <3>1, <3>2 DEF Active
  <2>2. CASE Dequeue(w)
    <3>1. ~row'.in
      BY <2>2 DEF Dequeue, NoRow
    <3>2. QED  BY <1>1, <2>1, <3>1 DEF AloneInv
  <2>3. CASE row' = row
    BY <1>1, <2>1, <2>3 DEF AloneInv
  <2>4. row' = row \/ Dequeue(w) \/ Unlock(w)
    BY <1>3 DEF WorkerStep, Downloading, NoSpace, Fetch, FetchFails, RecordBox,
       MarkDownloaded, HandOver, Throw, MarkFailed, Crash
  <2>5. Unlock(w) => \A v \in Workers : ~Active(v)'
    BY <1>1, <2>1 DEF TypeOK, AloneInv, Unlock, Goto, At, Active
  <2>6. QED  BY <2>2, <2>3, <2>4, <2>5
<1>4. CASE Insert \/ QueueDownload \/ ImportStops
  BY <1>1, <1>4 DEF TypeOK, AloneInv, BeforeInv, Insert, QueueDownload,
     ImportStops, Active
<1>5. CASE ReservationExpires
  BY <1>1, <1>5 DEF TypeOK, AloneInv, ReservationExpires, Active
<1>6. CASE DelayEnds \/ Pravalyti \/ ParsiustiPakartotinai
  BY <1>1, <1>6 DEF TypeOK, AloneInv, DelayEnds, Pravalyti,
     ParsiustiPakartotinai, Active
<1>7. CASE UNCHANGED vars
  BY <1>1, <1>7 DEF AloneInv, vars, Active
<1>8. QED
  BY <1>2, <1>3, <1>4, <1>5, <1>6, <1>7 DEF Next

\* The inductive invariant holds in every state.
THEOREM Invariance == Spec => []IInv
<1>1. Init => IInv
  <2> SUFFICES ASSUME Init  PROVE IInv
    OBVIOUS
  <2>1. row \in RowType /\ ~row.in /\ ~row.locked
    BY DEF Init, NoRow, RowType
  <2>2. worker \in [Workers -> Steps] /\ \A w \in Workers : worker[w] = "idle"
    BY DEF Init, Steps
  <2>3. inBox \in BOOLEAN /\ boxed \in BOOLEAN /\ handed \in BOOLEAN
        /\ overran \in BOOLEAN
    BY DEF Init
  <2>4. TypeOK
    BY <2>1, <2>2, <2>3, Zenon DEF Init, TypeOK, RowType, Statuses
  <2>5. ContentInv /\ BeforeInv /\ AloneInv
    BY <2>1, <2>2 DEF Init, ContentInv, BeforeInv, AloneInv, At, Active
  <2>6. QED  BY <2>4, <2>5 DEF IInv
<1>2. IInv /\ [Next]_vars => IInv'
  BY TypeStep, ContentStep, BeforeStep, AloneStep DEF IInv
<1>3. QED
  BY <1>1, <1>2, PTL DEF Spec

\* Rows, flags and workers keep their types, and a row that is not there is
\* not locked.
THEOREM TypeCorrect == Spec => []TypeOK
<1>1. IInv => TypeOK
  BY DEF IInv
<1>2. QED
  BY <1>1, Invariance, PTL

\* A file shown as downloaded, or given to the extraction, can be served,
\* after any crash and with any number of overlapping downloads.
THEOREM Servable == Spec => []DownloadedIsServable
<1>1. IInv => DownloadedIsServable
  BY DEF IInv, ContentInv, DownloadedIsServable
<1>2. QED
  BY <1>1, Invariance, PTL

\* The row leaves the queue only after the box was recorded.
THEOREM RequestKept == Spec => RequestOutlivesTheWork
<1>1. IInv /\ [Next]_vars => [row.in /\ ~row'.in => boxed]_vars
  <2> SUFFICES ASSUME IInv, Next, row.in, ~row'.in  PROVE boxed
    BY DEF vars
  <2>1. \E w \in Workers : Dequeue(w)
    BY DEF Next, WorkerStep, Downloading, Claim, NoSpace, Fetch, FetchFails, RecordBox,
       MarkDownloaded, HandOver, Throw, MarkFailed, Unlock, Crash, Insert,
       QueueDownload, ImportStops, ReservationExpires, DelayEnds, Pravalyti,
       ParsiustiPakartotinai, NoRow, IInv, TypeOK
  <2>2. QED  BY <2>1 DEF Dequeue, At, IInv, ContentInv
<1>2. QED
  BY <1>1, Invariance, PTL DEF Spec, RequestOutlivesTheWork

\* Workers that are on time never download a file two at once.
THEOREM DownloadsAlone == Spec => []OneDownload
<1>1. IInv => OneDownload
  BY DEF IInv, AloneInv, OneDownload
<1>2. QED
  BY <1>1, Invariance, PTL
=============================================================================
