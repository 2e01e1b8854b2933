------------------------- MODULE ExtractionOcrProofs ------------------------
(* Proofs of the safety of ExtractionOcr, for any workers, nodes and       *)
(* limits.  The inductive invariant says what each step of a worker, a     *)
(* node and a submission may rely on.                                      *)
EXTENDS ExtractionOcr, TLAPS

QueueType   == [in : BOOLEAN, locked : BOOLEAN, expired : BOOLEAN, attempts : Nat]
OcrRowType  == [in : BOOLEAN, by : Nodes \union {None}, expired : BOOLEAN,
                attempts : 0 .. MaxAttempts]
OcrType     == [status : Statuses, result : BOOLEAN, attempts : 0 .. MaxAttempts]
WorkerType  == [step : Steps, seen : Statuses, reads : Texts, words : BOOLEAN]
SubmitType  == [by : Nodes \union {None}, enqueues : BOOLEAN, saved : BOOLEAN]
NodeType    == {"idle", "locking", "working", "submitting"}

\* A reserved OCR row has an attempt left.
Types ==
    /\ TypeOK
    /\ ocrQueue.by # None => ocrQueue.attempts < MaxAttempts

\* What is on its way into the database has been stored.
StoredInv ==
    /\ StoredFirst
    /\ \A w \in Workers :
         /\ worker[w].step \in {"sent", "answered", "saved", "marked"}
              => worker[w].reads # "none"
         /\ worker[w].step \in {"saved", "marked"} => worker[w].reads \in stored
    /\ submit.saved => "result" \in stored

\* A node that may still submit has a reservation no result has come for.
ResultInv ==
    /\ results <= given
    /\ \A n \in Nodes :
         /\ ocrQueue.by = n /\ node[n] \in {"working", "submitting"} => results < given
         /\ submit.by = n => node[n] = "submitting" /\ ocrQueue.by = n

\* A file without attempts has none in its row either.
AttemptsInv ==
    ocr.attempts >= MaxAttempts /\ ocrQueue.in => ocrQueue.attempts >= MaxAttempts

\* While none is late, a worker is alone and its row locked; a submission that
\* will queue the file keeps others from doing so.
AloneInv ==
    /\ submit.enqueues => ~queue.in
    /\ ~overran =>
         /\ \A v, w \in Workers : Active(v) /\ Active(w) => v = w
         /\ \A w \in Workers : Active(w) => queue.in /\ queue.locked /\ ~queue.expired

\* What a worker that is alone has done so far, it finds done.
SettledInv ==
    ~overran =>
      /\ ~queue.in => text # "none" /\ ~extraction.failed
      /\ \A w \in Workers :
           /\ worker[w].step \in {"marked", "pointed", "decided", "ocrQueued"}
                => ~extraction.failed
           /\ worker[w].step \in {"pointed", "decided", "ocrQueued"} => text # "none"

\* A recommended file is in a queue, and in that of OCR before it leaves the
\* other.
RecommendedInv ==
    ~overran =>
      (ocr.status = "recommended" /\ ocr.attempts < MaxAttempts =>
         /\ ocrQueue.in \/ queue.in
         /\ (\E w \in Workers : worker[w].step = "ocrQueued") => ocrQueue.in)

IInv ==
    /\ Types /\ StoredInv /\ ResultInv /\ AttemptsInv /\ AloneInv /\ SettledInv
    /\ RecommendedInv

-----------------------------------------------------------------------------
LEMMA Ranges ==
  TypeOK <=> /\ queue \in QueueType
             /\ extraction \in [version : Versions, failed : BOOLEAN]
             /\ text \in Texts
             /\ stored \subseteq {"plain", "withOcr", "result"}
             /\ ocrQueue \in OcrRowType /\ ocr \in OcrType
             /\ worker \in [Workers -> WorkerType]
             /\ node \in [Nodes -> NodeType] /\ submit \in SubmitType
             /\ tool \in {"idle", "picked", "reset"}
             /\ given \in Nat /\ results \in Nat /\ overran \in BOOLEAN
BY DEF TypeOK, QueueType, OcrRowType, OcrType, WorkerType, SubmitType, NodeType

LEMMA Constants ==
  /\ NoRow \in QueueType /\ Enqueued \in QueueType /\ Enqueued.in /\ ~NoRow.in
  /\ NoOcrRow \in OcrRowType /\ [NoOcrRow EXCEPT !.in = TRUE] \in OcrRowType
  /\ NoSubmit \in SubmitType
  /\ \A step \in Steps : [Idle EXCEPT !.step = step] \in WorkerType
  /\ Idle \in WorkerType
<1>1. 0 \in 0 .. MaxAttempts  BY PipelineAssumption
<1>2. QED
  BY <1>1 DEF NoRow, Enqueued, QueueType, NoOcrRow, OcrRowType, NoSubmit, SubmitType, Idle,
     WorkerType, Statuses, Texts, Steps

\* Initially everything is at rest.
LEMMA Initially == Init => IInv
<1> SUFFICES ASSUME Init PROVE IInv  OBVIOUS
<1>1. MaxAttempts \in Nat \ {0} /\ None \notin Nodes  BY PipelineAssumption
<1>2. /\ queue \in QueueType /\ text \in Texts
      /\ ocrQueue \in OcrRowType /\ ocrQueue.by = None
      /\ extraction \in [version : Versions, failed : BOOLEAN] /\ ~extraction.failed
      /\ ~queue.in => text # "none"
      /\ text # "none" => text \in stored
      /\ stored \subseteq {"plain", "withOcr", "result"}
  <2>1. NoOcrRow.by = None /\ [NoOcrRow EXCEPT !.in = TRUE].by = None
    BY DEF NoOcrRow
  <2>2. \/ /\ queue = Enqueued /\ ocrQueue = NoOcrRow
           /\ extraction = [version |-> "none", failed |-> FALSE]
           /\ text = "none" /\ stored = {}
        \/ /\ queue = NoRow /\ ocrQueue = [NoOcrRow EXCEPT !.in = TRUE]
           /\ extraction = [version |-> "old", failed |-> FALSE]
           /\ text = "plain" /\ stored = {"plain"}
    BY DEF Init, Enqueued
  <2>3. queue \in QueueType /\ ocrQueue \in OcrRowType /\ ocrQueue.by = None
    BY <2>1, <2>2, Constants
  <2>4. ~queue.in => text # "none"
    BY <2>2, Constants
  <2>5. /\ extraction \in [version : Versions, failed : BOOLEAN] /\ ~extraction.failed
        /\ stored \subseteq {"plain", "withOcr", "result"}
    <3>1. \E v \in {"none", "old"} : extraction = [version |-> v, failed |-> FALSE]
      BY <2>2
    <3>2. stored \in {{}, {"plain"}}  BY <2>2
    <3>3. QED  BY <3>1, <3>2 DEF Versions
  <2>6. text \in Texts /\ (text # "none" => text \in stored)
    BY <2>2 DEF Texts
  <2>7. QED  BY <2>3, <2>4, <2>5, <2>6
<1>3. ocr \in OcrType /\ ~ocr.result /\ ocr.attempts = 0 /\ ocr.status = "none"
  <2>1. 0 \in 0 .. MaxAttempts  BY <1>1
  <2>2. QED  BY <2>1 DEF Init, OcrType, Statuses
<1>4. worker \in [Workers -> WorkerType] /\ \A w \in Workers : worker[w].step = "idle"
  BY Constants DEF Init, Idle
<1>5. /\ node \in [Nodes -> NodeType] /\ submit \in SubmitType /\ submit.by = None
      /\ ~submit.enqueues /\ ~submit.saved
  BY Constants DEF Init, NodeType, NoSubmit
<1>6. TypeOK  BY <1>2, <1>3, <1>4, <1>5, Ranges DEF Init
<1>7. QED
  BY <1>1, <1>2, <1>3, <1>4, <1>5, <1>6
     DEF Init, IInv, Types, StoredInv, StoredFirst, ResultInv, AttemptsInv, AloneInv,
         Active, SettledInv, RecommendedInv

-----------------------------------------------------------------------------
(* Types, action by action.                                                *)

LEMMA TypesStep == ASSUME IInv, [Next]_vars PROVE Types'
<1> DEFINE
      Queues  == queue' \in QueueType
                 /\ extraction' \in [version : Versions, failed : BOOLEAN]
                 /\ text' \in Texts /\ stored' \subseteq {"plain", "withOcr", "result"}
      Ocrs    == ocrQueue' \in OcrRowType /\ ocr' \in OcrType
                 /\ (ocrQueue'.by # None => ocrQueue'.attempts < MaxAttempts)
      Threads == worker' \in [Workers -> WorkerType]
      Outside == node' \in [Nodes -> NodeType] /\ submit' \in SubmitType
                 /\ tool' \in {"idle", "picked", "reset"}
      Past    == given' \in Nat /\ results' \in Nat /\ overran' \in BOOLEAN
<1>1. /\ queue \in QueueType
      /\ extraction \in [version : Versions, failed : BOOLEAN]
      /\ text \in Texts
      /\ stored \subseteq {"plain", "withOcr", "result"}
      /\ ocrQueue \in OcrRowType /\ ocr \in OcrType
      /\ ocrQueue.by # None => ocrQueue.attempts < MaxAttempts
      /\ worker \in [Workers -> WorkerType]
      /\ node \in [Nodes -> NodeType] /\ submit \in SubmitType
      /\ tool \in {"idle", "picked", "reset"}
      /\ given \in Nat /\ results \in Nat /\ overran \in BOOLEAN
  BY Ranges DEF IInv, Types
<1>2. SUFFICES Queues /\ Ocrs /\ Threads /\ Outside /\ Past
  <2>1. ASSUME Queues, Ocrs, Threads, Outside, Past PROVE Types'
    BY <2>1 DEF Types, TypeOK, QueueType, OcrRowType, OcrType, WorkerType, SubmitType, NodeType
  <2>2. QED  BY <2>1
<1>3. MaxAttempts \in Nat \ {0} /\ None \notin Nodes  BY PipelineAssumption
<1> USE <1>1, <1>3
<1>4. UNCHANGED rows => Queues  BY DEF rows
<1>5. UNCHANGED ocrRows => Ocrs  BY DEF ocrRows
<1>6. UNCHANGED worker => Threads  OBVIOUS
<1>7. UNCHANGED external => Outside  BY DEF external
<1>8. UNCHANGED history => Past  BY DEF history
<1>9. \A w \in Workers, step \in Steps : Goto(w, step) \/ Forget(w, step) => Threads
  <2>1. ASSUME NEW w \in Workers, NEW step \in Steps, Goto(w, step)  PROVE Threads
    <3>1. [worker[w] EXCEPT !.step = step] \in WorkerType  BY <2>1 DEF WorkerType
    <3>2. worker' = [worker EXCEPT ![w] = [worker[w] EXCEPT !.step = step]]
      BY <2>1 DEF Goto
    <3>3. QED  BY <3>1, <3>2
  <2>2. ASSUME NEW w \in Workers, NEW step \in Steps, Forget(w, step)  PROVE Threads
    BY <2>2, Constants DEF Forget
  <2>3. QED  BY <2>1, <2>2
<1>10. /\ {"failed", "saved", "marked", "pointed", "decided", "ocrQueued", "idle"} \subseteq Steps
  BY DEF Steps
<1>11. CountAttempt => queue' \in QueueType
  <2>1. queue.attempts + 1 \in Nat  BY DEF QueueType
  <2> DEFINE count == queue.attempts + 1
             q == [NoRow EXCEPT !.in = TRUE, !.attempts = count]
  <2>2. Bump(queue) \in QueueType
    <3>1. q \in QueueType
      <4> HIDE DEF count
      <4> QED  BY <2>1, Constants DEF NoRow, QueueType, count
    <3>2. QED  BY <3>1 DEF Bump
  <2>3. QED  BY <2>2 DEF CountAttempt
<1>12. ASSUME NEW w \in Workers, WorkerStep(w) \/ Crash(w)
       PROVE  Queues /\ Ocrs /\ Threads /\ Outside /\ Past
  <2>1. Outside /\ Past
    <3>1. UNCHANGED <<external, history>>
      BY <1>12 DEF WorkerStep, Claim, Send, Answer, Refuse, GiveBack, Save, MarkExtracted,
         PointAtText, WriteOcrStatus, QueueForOcr, Dequeue, Crash
    <3>2. QED  BY <3>1, <1>7, <1>8
  <2> HIDE DEF Outside, Past
  <2>2. CASE Claim(w)
    <3>1. Queues  BY <2>2 DEF Claim, QueueType
    <3>2. Ocrs  BY <2>2, <1>5 DEF Claim
    <3>3. [Idle EXCEPT !.step = "claimed", !.seen = ocr.status] \in WorkerType
      BY DEF Idle, WorkerType, OcrType, Steps, Texts
    <3>4. Threads  BY <2>2, <3>3 DEF Claim
    <3>5. QED  BY <2>1, <3>1, <3>2, <3>4
  <2>3. CASE Send(w) \/ Answer(w)
    <3>1. Queues /\ Ocrs  BY <2>3, <1>4, <1>5 DEF Send, Answer
    <3>2. Threads
      BY <2>3 DEF Send, Answer, WorkerType, Steps, Texts
    <3>3. QED  BY <2>1, <3>1, <3>2
  <2>4. CASE Refuse(w)
    <3>1. Queues  BY <2>4 DEF Refuse
    <3>2. Ocrs  BY <2>4, <1>5 DEF Refuse
    <3>3. Threads  BY <2>4, <1>9, <1>10 DEF Refuse
    <3>4. QED  BY <2>1, <3>1, <3>2, <3>3
  <2>5. CASE GiveBack(w)
    <3>1. Queues  BY <2>5, <1>11 DEF GiveBack
    <3>2. Ocrs  BY <2>5, <1>5 DEF GiveBack
    <3>3. Threads  BY <2>5, <1>9, <1>10 DEF GiveBack
    <3>4. QED  BY <2>1, <3>1, <3>2, <3>3
  <2>6. CASE Save(w)
    <3>1. Queues
      <4>1. worker[w].reads \in {"plain", "withOcr"}
        BY <2>6 DEF Save, At, IInv, StoredInv, WorkerType, Texts
      <4>2. QED  BY <2>6, <4>1 DEF Save
    <3>2. Ocrs  BY <2>6, <1>5 DEF Save
    <3>3. Threads  BY <2>6, <1>9, <1>10 DEF Save
    <3>4. QED  BY <2>1, <3>1, <3>2, <3>3
  <2>7. CASE MarkExtracted(w)
    <3>1. Queues  BY <2>7 DEF MarkExtracted, Versions
    <3>2. Ocrs  BY <2>7, <1>5 DEF MarkExtracted
    <3>3. Threads  BY <2>7, <1>9, <1>10 DEF MarkExtracted
    <3>4. QED  BY <2>1, <3>1, <3>2, <3>3
  <2>8. CASE PointAtText(w)
    <3>1. Queues  BY <2>8 DEF PointAtText, WorkerType
    <3>2. Ocrs  BY <2>8, <1>5 DEF PointAtText
    <3>3. Threads  BY <2>8, <1>9, <1>10 DEF PointAtText
    <3>4. QED  BY <2>1, <3>1, <3>2, <3>3
  <2>9. CASE WriteOcrStatus(w)
    <3>1. Queues  BY <2>9, <1>4 DEF WriteOcrStatus
    <3>2. Ocrs
      <4>1. Verdict(w) \in Statuses  BY DEF Verdict, WorkerType, Statuses
      <4>2. ocr' \in OcrType  BY <2>9, <4>1 DEF WriteOcrStatus, OcrType
      <4>3. QED  BY <2>9, <4>2 DEF WriteOcrStatus
    <3>3. Threads  BY <2>9, <1>9, <1>10 DEF WriteOcrStatus
    <3>4. QED  BY <2>1, <3>1, <3>2, <3>3
  <2>10. CASE QueueForOcr(w)
    <3>1. Queues  BY <2>10, <1>4 DEF QueueForOcr
    <3>2. Ocrs
      <4>1. [NoOcrRow EXCEPT !.in = TRUE].by = None  BY DEF NoOcrRow
      <4>2. ocr' = ocr /\ ocrQueue' \in {ocrQueue, [NoOcrRow EXCEPT !.in = TRUE]}
        BY <2>10 DEF QueueForOcr
      <4>3. QED  BY <4>1, <4>2, Constants
    <3>3. Threads  BY <2>10, <1>9, <1>10 DEF QueueForOcr
    <3>4. QED  BY <2>1, <3>1, <3>2, <3>3
  <2>11. CASE Dequeue(w) \/ Crash(w)
    <3>1. Queues  BY <2>11, <1>4, Constants DEF Dequeue, Crash
    <3>2. Ocrs  BY <2>11, <1>5 DEF Dequeue, Crash
    <3>3. Threads  BY <2>11, Constants DEF Dequeue, Crash
    <3>4. QED  BY <2>1, <3>1, <3>2, <3>3
  <2>12. QED
    BY <1>12, <2>2, <2>3, <2>4, <2>5, <2>6, <2>7, <2>8, <2>9, <2>10, <2>11 DEF WorkerStep
<1>13. ASSUME NEW n \in Nodes, NodeStep(n) \/ NodeStops(n) \/ Rollback(n)
       PROVE  Queues /\ Ocrs /\ Threads /\ Outside /\ Past
  <2>1. Threads
    BY <1>13 DEF NodeStep, NodeStops, Rollback, LockForOcr, Reserve, Submit, SaveResult, Commit
  <2> HIDE DEF Threads
  <2>2. CASE LockForOcr(n)
    <3>1. Ocrs  BY <2>2 DEF LockForOcr, OcrRowType
    <3>2. Outside  BY <2>2 DEF LockForOcr, NodeType
    <3>3. QED  BY <2>1, <2>2, <3>1, <3>2, <1>4, <1>8 DEF LockForOcr
  <2>3. CASE Reserve(n)
    <3>1. Ocrs  BY <2>3 DEF Reserve, OcrType, Statuses
    <3>2. Outside  BY <2>3 DEF Reserve, NodeType
    <3>3. Past  BY <2>3 DEF Reserve
    <3>4. QED  BY <2>1, <2>3, <3>1, <3>2, <3>3, <1>4 DEF Reserve
  <2>4. CASE Submit(n)
    <3>1. Outside
      <4>1. [by |-> n, enqueues |-> Accepts(queue, "none"), saved |-> FALSE] \in SubmitType
        BY DEF SubmitType, Accepts
      <4>2. QED  BY <2>4, <4>1 DEF Submit, NodeType
    <3>2. QED  BY <2>1, <2>4, <3>1, <1>4, <1>5, <1>8 DEF Submit
  <2>5. CASE SaveResult(n)
    <3>1. Outside  BY <2>5 DEF SaveResult, SubmitType
    <3>2. Queues  BY <2>5 DEF SaveResult
    <3>3. QED  BY <2>1, <2>5, <3>1, <3>2, <1>5, <1>8 DEF SaveResult
  <2>6. CASE Commit(n)
    <3>1. Queues  BY <2>6, Constants DEF Commit, Versions
    <3>2. Ocrs
      <4>1. ocr' \in OcrType  BY <2>6 DEF Commit, OcrType, Statuses
      <4>2. QED  BY <2>6, <4>1, Constants DEF Commit, NoOcrRow
    <3>3. Outside  BY <2>6, Constants DEF Commit, NodeType
    <3>4. Past  BY <2>6 DEF Commit
    <3>5. QED  BY <2>1, <3>1, <3>2, <3>3, <3>4
  <2>7. CASE NodeStops(n) \/ Rollback(n)
    <3>1. Outside  BY <2>7, Constants DEF NodeStops, Rollback, NodeType
    <3>2. QED  BY <2>1, <2>7, <3>1, <1>4, <1>5, <1>8 DEF NodeStops, Rollback
  <2>8. QED  BY <1>13, <2>2, <2>3, <2>4, <2>5, <2>6, <2>7 DEF NodeStep
<1>14. CASE Papildyti \/ RepeatFailed \/ RepeatReset \/ RepeatQueue \/ RepeatStops
  <2>1. Threads
    BY <1>14 DEF Papildyti, RepeatFailed, RepeatReset, RepeatQueue, RepeatStops
  <2>2. Ocrs
    BY <1>14, <1>5 DEF Papildyti, RepeatFailed, RepeatReset, RepeatQueue, RepeatStops
  <2>3. Past
    BY <1>14, <1>8 DEF Papildyti, RepeatFailed, RepeatReset, RepeatQueue, RepeatStops
  <2>4. Outside
    BY <1>14 DEF Papildyti, RepeatFailed, RepeatReset, RepeatQueue, RepeatStops, external
  <2>5. Queues
    <3>1. CASE Papildyti \/ RepeatQueue
      <4>1. queue' \in {queue, Enqueued} /\ UNCHANGED <<extraction, text, stored>>
        BY <3>1 DEF Papildyti, RepeatQueue
      <4>2. QED  BY <4>1, Constants
    <3>2. CASE RepeatFailed
      BY <3>2 DEF RepeatFailed
    <3>3. CASE RepeatReset
      BY <3>3 DEF RepeatReset, Versions
    <3>4. CASE RepeatStops
      BY <3>4, <1>4 DEF RepeatStops
    <3>5. QED  BY <1>14, <3>1, <3>2, <3>3, <3>4
  <2>6. QED  BY <2>1, <2>2, <2>3, <2>4, <2>5
<1>15. CASE ReservationExpires
  <2>1. Queues  BY <1>15 DEF ReservationExpires, QueueType
  <2>2. Past  BY <1>15 DEF ReservationExpires
  <2>3. QED  BY <1>15, <2>1, <2>2, <1>5, <1>6, <1>7 DEF ReservationExpires
<1>16. CASE PravalytiNuskaityma
  <2>1. Queues  BY <1>16, <1>11 DEF PravalytiNuskaityma
  <2>2. QED  BY <1>16, <2>1, <1>5, <1>6, <1>7, <1>8 DEF PravalytiNuskaityma
<1>17. CASE OcrReservationExpires
  <2>1. Ocrs  BY <1>17 DEF OcrReservationExpires, OcrRowType
  <2>2. QED  BY <1>17, <2>1, <1>4, <1>6, <1>7, <1>8 DEF OcrReservationExpires
<1>18. CASE PravalytiOcr
  <2> DEFINE attempts == ocrQueue.attempts + 1
  <2>1. attempts \in 0 .. MaxAttempts  BY <1>18 DEF PravalytiOcr, OcrRowType
  <2>2. ocrQueue' = [NoOcrRow EXCEPT !.in = TRUE, !.attempts = attempts]
    BY <1>18 DEF PravalytiOcr
  <2>3. ocrQueue' \in OcrRowType /\ ocrQueue'.by = None
    <3> HIDE DEF attempts
    <3> QED  BY <2>1, <2>2 DEF NoOcrRow, OcrRowType
  <2>4. ocr' \in OcrType
    BY <1>18, <2>1 DEF PravalytiOcr, OcrType, Statuses
  <2>5. QED  BY <1>18, <2>3, <2>4, <1>4, <1>6, <1>7, <1>8 DEF PravalytiOcr
<1>19. CASE UNCHANGED vars
  BY <1>19, <1>4, <1>5, <1>6, <1>7, <1>8 DEF vars
<1>20. QED
  BY <1>12, <1>13, <1>14, <1>15, <1>16, <1>17, <1>18, <1>19 DEF Next

-----------------------------------------------------------------------------
(* The parts that are about what is stored and who holds what.             *)

\* Which steps a worker may be at after a step, and with what in hand.
LEMMA StoredStep == ASSUME IInv, [Next]_vars PROVE StoredInv'
<1> USE DEF StoredInv, StoredFirst
<1>1. /\ TypeOK /\ StoredInv /\ worker \in [Workers -> WorkerType]
      /\ ocr \in OcrType /\ submit \in SubmitType
  BY Ranges DEF IInv, Types
<1>2. ASSUME NEW w \in Workers, WorkerStep(w) \/ Crash(w)
      PROVE  StoredInv'
  <2>1. submit' = submit /\ stored \subseteq stored' /\ ocr'.result = ocr.result
    BY <1>1, <1>2 DEF WorkerStep, Claim, Send, Answer, Refuse, GiveBack, Save, MarkExtracted,
       PointAtText, WriteOcrStatus, QueueForOcr, Dequeue, Crash, rows, ocrRows, external, OcrType
  <2>2. text' # "none" => text' \in stored'
    BY <1>1, <1>2, <2>1 DEF WorkerStep, Claim, Send, Answer, Refuse, GiveBack, Save,
       MarkExtracted, PointAtText, WriteOcrStatus, QueueForOcr, Dequeue, Crash, rows, At
  <2>3. \A v \in Workers : v # w => worker'[v] = worker[v]
    BY <1>1, <1>2 DEF WorkerStep, Claim, Send, Answer, Refuse, GiveBack, Save, MarkExtracted,
       PointAtText, WriteOcrStatus, QueueForOcr, Dequeue, Crash, Goto, Forget
  <2>4. /\ worker'[w].step \in {"sent", "answered", "saved", "marked"}
             => worker'[w].reads # "none"
        /\ worker'[w].step \in {"saved", "marked"} => worker'[w].reads \in stored'
    <3>1. CASE Claim(w) \/ Refuse(w) \/ WriteOcrStatus(w) \/ Dequeue(w) \/ Crash(w)
      <4>1. worker'[w].step \in {"claimed", "failed", "decided", "idle"}
        <5>1. ASSUME NEW r, worker' = [worker EXCEPT ![w] = r]  PROVE worker'[w] = r
          BY <1>1, <5>1
        <5>2. CASE Claim(w)
          BY <5>1, <5>2 DEF Claim, Idle
        <5>3. CASE Refuse(w) \/ WriteOcrStatus(w)
          <6>1. PICK step \in {"failed", "decided"} : Forget(w, step)
            BY <5>3 DEF Refuse, WriteOcrStatus
          <6>2. QED  BY <5>1, <6>1 DEF Forget, Idle
        <5>4. CASE Dequeue(w) \/ Crash(w)
          BY <5>1, <5>4 DEF Dequeue, Crash, Idle
        <5>5. QED  BY <3>1, <5>2, <5>3, <5>4
      <4>2. QED  BY <4>1
    <3>2. CASE Send(w)
      BY <1>1, <3>2 DEF Send, WorkerType
    <3>3. CASE Answer(w)
      BY <1>1, <3>3 DEF Answer, At, WorkerType
    <3>4. CASE GiveBack(w) \/ PointAtText(w) \/ QueueForOcr(w)
      BY <1>1, <3>4 DEF GiveBack, PointAtText, QueueForOcr, Goto, WorkerType
    <3>5. CASE Save(w)
      BY <1>1, <3>5 DEF Save, Goto, At, WorkerType
    <3>6. CASE MarkExtracted(w)
      BY <1>1, <3>6 DEF MarkExtracted, Goto, At, WorkerType
    <3>7. QED  BY <1>2, <3>1, <3>2, <3>3, <3>4, <3>5, <3>6 DEF WorkerStep
  <2>5. QED  BY <1>1, <2>1, <2>2, <2>3, <2>4
<1>3. ASSUME NEW n \in Nodes, NodeStep(n) \/ NodeStops(n) \/ Rollback(n)
      PROVE  StoredInv'
  <2>1. worker' = worker /\ text' = text /\ stored \subseteq stored'
    BY <1>3 DEF NodeStep, NodeStops, Rollback, LockForOcr, Reserve, Submit, SaveResult,
       Commit, rows
  <2>2. submit'.saved => "result" \in stored'
    BY <1>1, <1>3, <2>1 DEF NodeStep, NodeStops, Rollback, LockForOcr, Reserve, Submit,
       SaveResult, Commit, NoSubmit, SubmitType
  <2>3. ocr'.result => "result" \in stored'
    BY <1>1, <1>3, <2>1 DEF NodeStep, NodeStops, Rollback, LockForOcr, Reserve, Submit,
       SaveResult, Commit, OcrType, ocrRows
  <2>4. QED  BY <1>1, <2>1, <2>2, <2>3
<1>4. CASE \/ Papildyti \/ ReservationExpires \/ PravalytiNuskaityma \/ OcrReservationExpires
           \/ PravalytiOcr \/ RepeatFailed \/ RepeatReset \/ RepeatQueue \/ RepeatStops
           \/ UNCHANGED vars
  <2>1. worker' = worker /\ text' = text /\ stored' = stored /\ submit' = submit
    BY <1>4 DEF Papildyti, ReservationExpires, PravalytiNuskaityma, OcrReservationExpires,
       PravalytiOcr, RepeatFailed, RepeatReset, RepeatQueue, RepeatStops, vars, rows, external
  <2>2. ocr'.result = ocr.result
    BY <1>1, <1>4 DEF Papildyti, ReservationExpires, PravalytiNuskaityma,
       OcrReservationExpires, PravalytiOcr, RepeatFailed, RepeatReset, RepeatQueue,
       RepeatStops, vars, ocrRows, OcrType
  <2>3. QED  BY <1>1, <2>1, <2>2
<1>5. QED  BY <1>2, <1>3, <1>4 DEF Next

\* A result is counted against the reservation it was sent for.
LEMMA ResultStep == ASSUME IInv, [Next]_vars PROVE ResultInv'
<1> USE DEF ResultInv
<1>1. /\ ResultInv /\ node \in [Nodes -> NodeType] /\ submit \in SubmitType
      /\ ocrQueue \in OcrRowType /\ given \in Nat /\ results \in Nat
      /\ None \notin Nodes
  BY Ranges, PipelineAssumption DEF IInv, Types
<1>2. ASSUME NEW w \in Workers, WorkerStep(w) \/ Crash(w)
      PROVE  ResultInv'
  <2>1. UNCHANGED <<node, submit, given, results>>
    BY <1>2 DEF WorkerStep, Claim, Send, Answer, Refuse, GiveBack, Save, MarkExtracted,
       PointAtText, WriteOcrStatus, QueueForOcr, Dequeue, Crash, external, history
  <2>2. ocrQueue'.by = ocrQueue.by \/ (ocrQueue'.by = None /\ submit.by = None)
    BY <1>2 DEF WorkerStep, Claim, Send, Answer, Refuse, GiveBack, Save, MarkExtracted,
       PointAtText, WriteOcrStatus, QueueForOcr, Dequeue, Crash, ocrRows, NoOcrRow
  <2>3. QED  BY <1>1, <2>1, <2>2
<1>3. ASSUME NEW n \in Nodes, NodeStep(n) \/ NodeStops(n) \/ Rollback(n)
      PROVE  ResultInv'
  <2>1. CASE LockForOcr(n)
    <3>1. /\ ocrQueue'.by = n /\ node'[n] = "locking" /\ submit' = submit
          /\ submit.by = None /\ UNCHANGED <<given, results>>
      BY <1>1, <2>1 DEF LockForOcr, OcrRowType, history
    <3>2. QED  BY <1>1, <3>1
  <2>2. CASE Reserve(n)
    <3>1. /\ ocrQueue' = ocrQueue /\ submit' = submit /\ submit.by = None
          /\ given' = given + 1 /\ results' = results
      BY <2>2 DEF Reserve
    <3>2. QED  BY <1>1, <3>1
  <2>3. CASE Submit(n)
    <3>1. UNCHANGED <<ocrQueue, given, results>> /\ submit.by = None /\ node[n] = "working"
      BY <2>3 DEF Submit, ocrRows, history
    <3>2. \/ submit'.by = n /\ ocrQueue.by = n /\ node' = [node EXCEPT ![n] = "submitting"]
          \/ submit' = submit /\ node' = [node EXCEPT ![n] = "idle"]
      BY <2>3 DEF Submit
    <3>3. QED  BY <1>1, <3>1, <3>2
  <2>4. CASE SaveResult(n)
    BY <1>1, <2>4 DEF SaveResult, ocrRows, history, SubmitType
  <2>5. CASE Commit(n)
    <3>1. /\ ocrQueue'.by = None /\ submit'.by = None
          /\ given' = given /\ results' = results + 1 /\ submit.by = n
      BY <2>5 DEF Commit, NoOcrRow, NoSubmit
    <3>2. results < given  BY <1>1, <3>1
    <3>3. QED  BY <1>1, <3>1, <3>2
  <2>6. CASE NodeStops(n)
    <3>1. /\ UNCHANGED <<ocrQueue, submit, given, results>>
          /\ node' = [node EXCEPT ![n] = "idle"] /\ node[n] # "submitting"
      BY <1>1, <2>6 DEF NodeStops, ocrRows, history
    <3>2. QED  BY <1>1, <3>1
  <2>7. CASE Rollback(n)
    <3>1. /\ UNCHANGED <<ocrQueue, given, results>> /\ submit'.by = None
          /\ node' = [node EXCEPT ![n] = "working"] /\ submit.by = n
      BY <2>7 DEF Rollback, ocrRows, history, NoSubmit
    <3>2. QED  BY <1>1, <3>1
  <2>8. QED  BY <1>3, <2>1, <2>2, <2>3, <2>4, <2>5, <2>6, <2>7 DEF NodeStep
<1>4. CASE \/ Papildyti \/ ReservationExpires \/ PravalytiNuskaityma \/ OcrReservationExpires
           \/ PravalytiOcr \/ RepeatFailed \/ RepeatReset \/ RepeatQueue \/ RepeatStops
           \/ UNCHANGED vars
  <2>1. UNCHANGED <<node, submit, given, results>>
    BY <1>4 DEF Papildyti, ReservationExpires, PravalytiNuskaityma, OcrReservationExpires,
       PravalytiOcr, RepeatFailed, RepeatReset, RepeatQueue, RepeatStops, vars, external, history
  <2>2. ocrQueue'.by = ocrQueue.by \/ (ocrQueue'.by = None /\ submit.by = None)
    <3>1. CASE PravalytiOcr
      BY <3>1 DEF PravalytiOcr, NoOcrRow
    <3>2. CASE OcrReservationExpires
      BY <1>1, <3>2 DEF OcrReservationExpires, OcrRowType
    <3>3. QED
      BY <1>4, <3>1, <3>2 DEF Papildyti, ReservationExpires, PravalytiNuskaityma,
         RepeatFailed, RepeatReset, RepeatQueue, RepeatStops, vars, ocrRows
  <2>3. QED  BY <1>1, <2>1, <2>2
<1>5. QED  BY <1>2, <1>3, <1>4 DEF Next

\* The attempts of the file and those of its row.
LEMMA AttemptsStep == ASSUME IInv, [Next]_vars PROVE AttemptsInv'
<1> USE DEF AttemptsInv
<1>1. /\ AttemptsInv /\ ocrQueue \in OcrRowType /\ ocr \in OcrType
      /\ MaxAttempts \in Nat \ {0}
  BY Ranges, PipelineAssumption DEF IInv, Types
<1>2. ASSUME NEW w \in Workers, WorkerStep(w) \/ Crash(w)
      PROVE  AttemptsInv'
  <2>1. ocr'.attempts = ocr.attempts
    BY <1>1, <1>2 DEF WorkerStep, Claim, Send, Answer, Refuse, GiveBack, Save, MarkExtracted,
       PointAtText, WriteOcrStatus, QueueForOcr, Dequeue, Crash, ocrRows, OcrType
  <2>2. ocrQueue' = ocrQueue \/ ~(ocr.attempts >= MaxAttempts)
    <3>1. ocr.attempts < MaxAttempts => ~(ocr.attempts >= MaxAttempts)
      BY <1>1 DEF OcrType
    <3>2. QED
      BY <1>2, <3>1 DEF WorkerStep, Claim, Send, Answer, Refuse, GiveBack, Save, MarkExtracted,
         PointAtText, WriteOcrStatus, QueueForOcr, NeedsOcr, Dequeue, Crash, ocrRows
  <2>3. QED  BY <1>1, <2>1, <2>2
<1>3. CASE PravalytiOcr
  <2>1. ocrQueue'.attempts = ocrQueue.attempts + 1 /\ ocrQueue.in
    BY <1>3 DEF PravalytiOcr, NoOcrRow
  <2>2. ocr'.attempts \in {ocr.attempts, ocrQueue.attempts + 1}
    BY <1>1, <1>3 DEF PravalytiOcr, OcrType
  <2>3. QED  BY <1>1, <2>1, <2>2 DEF OcrRowType, OcrType
<1>4. ASSUME NEW n \in Nodes, NodeStep(n) \/ NodeStops(n) \/ Rollback(n)
      PROVE  AttemptsInv'
  <2>1. ocr'.attempts = ocr.attempts
    BY <1>1, <1>4 DEF NodeStep, NodeStops, Rollback, LockForOcr, Reserve, Submit, SaveResult,
       Commit, ocrRows, OcrType
  <2>2. ocrQueue'.in => ocrQueue.in /\ ocrQueue'.attempts = ocrQueue.attempts
    <3>1. CASE LockForOcr(n)
      BY <1>1, <3>1 DEF LockForOcr, OcrRowType
    <3>2. CASE Commit(n)
      BY <3>2 DEF Commit, NoOcrRow
    <3>3. QED
      BY <1>4, <3>1, <3>2 DEF NodeStep, NodeStops, Rollback, Reserve, Submit, SaveResult, ocrRows
  <2>3. QED  BY <1>1, <2>1, <2>2
<1>5. CASE OcrReservationExpires
  BY <1>1, <1>5 DEF OcrReservationExpires, OcrRowType
<1>6. CASE \/ Papildyti \/ ReservationExpires \/ PravalytiNuskaityma
           \/ RepeatFailed \/ RepeatReset \/ RepeatQueue \/ RepeatStops \/ UNCHANGED vars
  <2>1. UNCHANGED ocrRows
    BY <1>6 DEF Papildyti, ReservationExpires, PravalytiNuskaityma,
       RepeatFailed, RepeatReset, RepeatQueue, RepeatStops, vars
  <2>2. QED  BY <1>1, <2>1 DEF ocrRows
<1>7. QED  BY <1>2, <1>3, <1>4, <1>5, <1>6 DEF Next

-----------------------------------------------------------------------------
(* One worker at a time, and what it leaves behind.                        *)

\* A worker's step changes only that worker.
LEMMA OthersStay ==
  ASSUME worker \in [Workers -> WorkerType],
         NEW w \in Workers, WorkerStep(w) \/ Crash(w)
  PROVE  \A v \in Workers : v # w => worker'[v] = worker[v]
BY DEF WorkerStep, Claim, Send, Answer, Refuse, GiveBack, Save, MarkExtracted, PointAtText,
       WriteOcrStatus, QueueForOcr, Dequeue, Crash, Goto, Forget

\* Where a worker goes.
LEMMA NextStep ==
  ASSUME worker \in [Workers -> WorkerType],
         NEW w \in Workers, WorkerStep(w) \/ Crash(w)
  PROVE  /\ Claim(w) => worker'[w].step = "claimed" /\ ~Active(w)
         /\ Send(w) => worker'[w].step = "sent"
         /\ Answer(w) => worker'[w].step = "answered"
         /\ Refuse(w) => worker'[w].step = "failed"
         /\ Save(w) => worker'[w].step = "saved"
         /\ MarkExtracted(w) => worker'[w].step = "marked"
         /\ PointAtText(w) => worker'[w].step = "pointed"
         /\ WriteOcrStatus(w) => worker'[w].step = "decided"
         /\ QueueForOcr(w) => worker'[w].step = "ocrQueued"
         /\ GiveBack(w) \/ Dequeue(w) \/ Crash(w) => worker'[w].step = "idle"
         /\ Claim(w) \/ Active(w)
<1>1. ASSUME NEW r, worker' = [worker EXCEPT ![w] = r]  PROVE worker'[w] = r
  BY <1>1
<1>2. ASSUME NEW step, Forget(w, step)  PROVE worker'[w].step = step
  BY <1>1, <1>2 DEF Forget, Idle
<1>3. ASSUME NEW step, Goto(w, step)  PROVE worker'[w].step = step
  BY <1>3 DEF Goto, WorkerType
<1>4. Claim(w) => worker'[w].step = "claimed" /\ ~Active(w)
  BY <1>1 DEF Claim, Idle, At, Active
<1>5. (Send(w) => worker'[w].step = "sent") /\ (Answer(w) => worker'[w].step = "answered")
  BY DEF Send, Answer, WorkerType
<1>6. GiveBack(w) \/ Dequeue(w) \/ Crash(w) => worker'[w].step = "idle"
  BY <1>1, <1>3 DEF GiveBack, Dequeue, Crash, Idle
<1>7. /\ Refuse(w) => worker'[w].step = "failed"
      /\ WriteOcrStatus(w) => worker'[w].step = "decided"
  BY <1>2 DEF Refuse, WriteOcrStatus
<1>8. /\ Save(w) => worker'[w].step = "saved"
      /\ MarkExtracted(w) => worker'[w].step = "marked"
      /\ PointAtText(w) => worker'[w].step = "pointed"
      /\ QueueForOcr(w) => worker'[w].step = "ocrQueued"
  BY <1>3 DEF Save, MarkExtracted, PointAtText, QueueForOcr
<1>9. Claim(w) \/ Active(w)
  BY DEF WorkerStep, Send, Answer, Refuse, GiveBack, Save, MarkExtracted, PointAtText,
     WriteOcrStatus, QueueForOcr, Dequeue, Crash, At, Active
<1>10. QED  BY <1>4, <1>5, <1>6, <1>7, <1>8, <1>9

\* Counting an attempt does not bring a row into being.
LEMMA Counting ==
  ASSUME CountAttempt
  PROVE  queue'.in = queue.in
BY DEF CountAttempt, Bump, NoRow

LEMMA AloneStep == ASSUME IInv, [Next]_vars PROVE AloneInv'
<1> USE DEF AloneInv
<1>1. /\ AloneInv /\ worker \in [Workers -> WorkerType] /\ queue \in QueueType
      /\ overran \in BOOLEAN /\ submit \in SubmitType
  BY Ranges DEF IInv, Types
<1>2. ASSUME NEW w \in Workers, WorkerStep(w) \/ Crash(w)
      PROVE  AloneInv'
  <2>1. submit' = submit /\ overran' = overran
    BY <1>2 DEF WorkerStep, Claim, Send, Answer, Refuse, GiveBack, Save, MarkExtracted,
       PointAtText, WriteOcrStatus, QueueForOcr, Dequeue, Crash, external, history
  <2>2. \A v \in Workers : v # w => (Active(v)' <=> Active(v))
    BY <1>1, <1>2, OthersStay DEF Active
  <2>3. CASE Claim(w)
    <3>1. queue.in /\ ~queue.locked /\ queue'.in /\ queue'.locked /\ ~queue'.expired
      BY <1>1, <2>3 DEF Claim, QueueType
    <3>2. QED  BY <1>1, <2>1, <2>2, <3>1
  <2>4. CASE GiveBack(w) \/ Dequeue(w) \/ Crash(w)
    <3>1. ~Active(w)' /\ Active(w)
      BY <1>1, <1>2, <2>4, NextStep DEF Active, Claim, At, GiveBack, Dequeue, Crash
    <3>2. overran \/ \A v \in Workers : ~Active(v)'
      BY <1>1, <2>2, <3>1
    <3>3. queue'.in => queue.in
      <4>1. CASE GiveBack(w)
        BY <4>1, Counting DEF GiveBack
      <4>2. CASE Dequeue(w)
        BY <4>2 DEF Dequeue, NoRow
      <4>3. CASE Crash(w)
        BY <4>3 DEF Crash, rows
      <4>4. QED  BY <2>4, <4>1, <4>2, <4>3
    <3>4. QED  BY <1>1, <2>1, <3>2, <3>3
  <2>5. CASE Active(w) /\ queue' = queue
    BY <1>1, <2>1, <2>2, <2>5
  <2>6. QED
    <3>1. ~Claim(w) /\ ~(GiveBack(w) \/ Dequeue(w) \/ Crash(w)) => queue' = queue
      BY <1>2 DEF WorkerStep, Send, Answer, Refuse, Save, MarkExtracted, PointAtText,
         WriteOcrStatus, QueueForOcr, rows
    <3>2. Claim(w) \/ Active(w)  BY <1>1, <1>2, NextStep
    <3>3. QED  BY <2>3, <2>4, <2>5, <3>1, <3>2
<1>3. ASSUME NEW n \in Nodes, NodeStep(n) \/ NodeStops(n) \/ Rollback(n)
      PROVE  AloneInv'
  <2>1. worker' = worker /\ overran' = overran
    BY <1>3 DEF NodeStep, NodeStops, Rollback, LockForOcr, Reserve, Submit, SaveResult, Commit,
       history
  <2>2. CASE Commit(n) /\ submit.enqueues
    <3>1. ~submit'.enqueues  BY <2>2 DEF Commit, NoSubmit
    <3>2. overran \/ \A v \in Workers : ~Active(v)
      BY <1>1, <2>2
    <3>3. QED  BY <2>1, <3>1, <3>2 DEF Active
  <2>3. CASE ~(Commit(n) /\ submit.enqueues)
    <3>1. queue' = queue
      BY <1>3, <2>3 DEF NodeStep, NodeStops, Rollback, LockForOcr, Reserve, Submit, SaveResult,
         Commit, rows
    <3>2. submit'.enqueues => submit.enqueues \/ ~queue.in
      BY <1>1, <1>3 DEF NodeStep, NodeStops, Rollback, LockForOcr, Reserve, Submit, SaveResult,
         Commit, NoSubmit, Accepts, SubmitType
    <3>3. QED  BY <1>1, <2>1, <3>1, <3>2 DEF Active
  <2>4. QED  BY <2>2, <2>3
<1>4. CASE Papildyti \/ RepeatQueue
  <2>1. /\ UNCHANGED <<worker, overran, submit>> /\ ~submit.enqueues
        /\ queue' = queue \/ ~queue.in
    BY <1>4 DEF Papildyti, RepeatQueue, Accepts, history, external
  <2>2. QED  BY <1>1, <2>1 DEF Active
<1>5. CASE ReservationExpires
  <2>1. /\ UNCHANGED <<worker, submit>> /\ queue'.in = queue.in
        /\ ~overran' => ~overran /\ \A w \in Workers : ~Active(w)
    BY <1>1, <1>5 DEF ReservationExpires, external, QueueType
  <2>2. QED  BY <1>1, <2>1 DEF Active
<1>6. CASE PravalytiNuskaityma
  <2>1. /\ UNCHANGED <<worker, submit, overran>> /\ queue'.in = queue.in
        /\ queue.expired
    BY <1>6, Counting DEF PravalytiNuskaityma, external, history
  <2>2. overran \/ \A w \in Workers : ~Active(w)
    BY <1>1, <2>1
  <2>3. QED  BY <1>1, <2>1, <2>2 DEF Active
<1>7. CASE \/ OcrReservationExpires \/ PravalytiOcr \/ RepeatFailed \/ RepeatReset
           \/ RepeatStops \/ UNCHANGED vars
  <2>1. UNCHANGED <<queue, worker, submit, overran>>
    BY <1>7 DEF OcrReservationExpires, PravalytiOcr, RepeatFailed, RepeatReset, RepeatStops,
       vars, rows, external, history
  <2>2. QED  BY <1>1, <2>1 DEF Active
<1>8. QED  BY <1>2, <1>3, <1>4, <1>5, <1>6, <1>7 DEF Next

LEMMA SettledStep == ASSUME IInv, [Next]_vars PROVE SettledInv'
<1> USE DEF SettledInv
<1>1. /\ SettledInv /\ worker \in [Workers -> WorkerType] /\ queue \in QueueType
      /\ extraction \in [version : Versions, failed : BOOLEAN]
      /\ overran \in BOOLEAN /\ AloneInv /\ AloneInv' /\ StoredInv
  BY Ranges, AloneStep DEF IInv, Types
<1> SUFFICES ASSUME ~overran'
             PROVE  /\ ~queue'.in => text' # "none" /\ ~extraction'.failed
                    /\ \A w \in Workers :
                         /\ worker'[w].step \in {"marked", "pointed", "decided", "ocrQueued"}
                              => ~extraction'.failed
                         /\ worker'[w].step \in {"pointed", "decided", "ocrQueued"}
                              => text' # "none"
  OBVIOUS
<1>2. ASSUME NEW w \in Workers, WorkerStep(w) \/ Crash(w)
      PROVE  SettledInv'
  <2>1. ~overran /\ \A v \in Workers : v # w => worker'[v].step = "idle"
    <3>1. overran' = overran
      BY <1>2 DEF WorkerStep, Claim, Send, Answer, Refuse, GiveBack, Save, MarkExtracted,
         PointAtText, WriteOcrStatus, QueueForOcr, Dequeue, Crash, history
    <3>2. Active(w) \/ (Claim(w) /\ queue.in /\ ~queue.locked)
      BY <1>1, <1>2, NextStep DEF Claim
    <3>3. \A v \in Workers : v # w => ~Active(v)
      BY <1>1, <3>1, <3>2 DEF AloneInv
    <3>4. QED  BY <1>1, <1>2, <3>1, <3>3, OthersStay DEF Active
  <2>2. CASE Claim(w) \/ Send(w) \/ Answer(w) \/ Refuse(w) \/ Save(w)
    <3>1. worker'[w].step \in {"claimed", "sent", "answered", "failed", "saved"}
      BY <1>1, <1>2, <2>2, NextStep
    <3>2. queue'.in
      <4>1. Active(w) \/ Claim(w)  BY <1>1, <1>2, NextStep
      <4>2. queue.in  BY <1>1, <2>1, <4>1 DEF AloneInv, Claim
      <4>3. queue'.in = queue.in
        BY <1>1, <2>2 DEF Claim, Send, Answer, Refuse, Save, rows, QueueType
      <4>4. QED  BY <4>2, <4>3
    <3>3. QED  BY <2>1, <3>1, <3>2
  <2>3. CASE MarkExtracted(w)
    <3>1. ~extraction'.failed /\ worker'[w].step = "marked" /\ text' = text /\ queue' = queue
      BY <1>1, <1>2, <2>3, NextStep DEF MarkExtracted
    <3>2. QED  BY <1>1, <2>1, <3>1
  <2>4. CASE PointAtText(w)
    <3>1. /\ extraction' = extraction /\ worker'[w].step = "pointed" /\ queue' = queue
          /\ text' = worker[w].reads /\ worker[w].step = "marked"
      BY <1>1, <1>2, <2>4, NextStep DEF PointAtText, At
    <3>2. text' # "none"  BY <1>1, <3>1 DEF StoredInv
    <3>3. QED  BY <1>1, <2>1, <3>1, <3>2
  <2>5. CASE WriteOcrStatus(w) \/ QueueForOcr(w)
    <3>1. /\ UNCHANGED <<extraction, text, queue>>
          /\ worker[w].step \in {"pointed", "decided"}
      BY <2>5 DEF WriteOcrStatus, QueueForOcr, At, rows
    <3>2. QED  BY <1>1, <2>1, <3>1
  <2>6. CASE GiveBack(w) \/ Crash(w)
    <3>1. worker'[w].step = "idle" /\ UNCHANGED <<extraction, text>> /\ queue'.in = queue.in
      BY <1>1, <1>2, <2>6, NextStep, Counting DEF GiveBack, Crash, rows
    <3>2. QED  BY <1>1, <2>1, <3>1
  <2>7. CASE Dequeue(w)
    <3>1. /\ worker'[w].step = "idle" /\ UNCHANGED <<extraction, text>>
          /\ worker[w].step = "ocrQueued"
      BY <1>1, <1>2, <2>7, NextStep DEF Dequeue, At
    <3>2. QED  BY <1>1, <2>1, <3>1
  <2>8. QED  BY <1>2, <2>2, <2>3, <2>4, <2>5, <2>6, <2>7 DEF WorkerStep
<1>3. ASSUME NEW n \in Nodes, NodeStep(n) \/ NodeStops(n) \/ Rollback(n)
      PROVE  SettledInv'
  <2>1. worker' = worker /\ overran' = overran /\ text' = text
    BY <1>3 DEF NodeStep, NodeStops, Rollback, LockForOcr, Reserve, Submit, SaveResult, Commit,
       history, rows
  <2>2. extraction' = extraction \/ ~extraction'.failed
    BY <1>3 DEF NodeStep, NodeStops, Rollback, LockForOcr, Reserve, Submit, SaveResult, Commit,
       rows
  <2>3. queue.in => queue'.in
    BY <1>3, Constants DEF NodeStep, NodeStops, Rollback, LockForOcr, Reserve, Submit,
       SaveResult, Commit, rows
  <2>4. QED  BY <1>1, <2>1, <2>2, <2>3
<1>4. CASE \/ Papildyti \/ ReservationExpires \/ PravalytiNuskaityma \/ OcrReservationExpires
           \/ PravalytiOcr \/ RepeatFailed \/ RepeatReset \/ RepeatQueue \/ RepeatStops
           \/ UNCHANGED vars
  <2>1. worker' = worker /\ text' = text /\ ~overran
    BY <1>1, <1>4 DEF Papildyti, ReservationExpires, PravalytiNuskaityma,
       OcrReservationExpires, PravalytiOcr, RepeatFailed, RepeatReset, RepeatQueue,
       RepeatStops, vars, rows, history
  <2>2. extraction' = extraction \/ ~extraction'.failed
    BY <1>1, <1>4 DEF Papildyti, ReservationExpires, PravalytiNuskaityma,
       OcrReservationExpires, PravalytiOcr, RepeatFailed, RepeatReset, RepeatQueue,
       RepeatStops, vars, rows
  <2>3. queue.in => queue'.in
    <3>1. CASE PravalytiNuskaityma
      BY <3>1, Counting DEF PravalytiNuskaityma
    <3>2. CASE ReservationExpires
      BY <1>1, <3>2 DEF ReservationExpires, QueueType
    <3>3. CASE Papildyti \/ RepeatQueue
      BY <3>3, Constants DEF Papildyti, RepeatQueue, Accepts
    <3>4. QED
      BY <1>4, <3>1, <3>2, <3>3 DEF OcrReservationExpires, PravalytiOcr, RepeatFailed,
         RepeatReset, RepeatStops, vars, rows
  <2>4. QED  BY <1>1, <2>1, <2>2, <2>3
<1>5. QED  BY <1>2, <1>3, <1>4 DEF Next

LEMMA RecommendedStep == ASSUME IInv, [Next]_vars PROVE RecommendedInv'
<1> USE DEF RecommendedInv
<1>1. /\ RecommendedInv /\ worker \in [Workers -> WorkerType] /\ queue \in QueueType
      /\ ocrQueue \in OcrRowType /\ ocr \in OcrType /\ MaxAttempts \in Nat
      /\ overran \in BOOLEAN /\ AloneInv
  BY Ranges, PipelineAssumption DEF IInv, Types
<1> DEFINE Wanted == ocr.status = "recommended" /\ ocr.attempts < MaxAttempts
<1>2. ASSUME NEW w \in Workers, WorkerStep(w) \/ Crash(w), ~overran'
      PROVE  RecommendedInv'
  <2>1. ~overran /\ \A v \in Workers : v # w => worker'[v].step = "idle"
    <3>1. overran' = overran
      BY <1>2 DEF WorkerStep, Claim, Send, Answer, Refuse, GiveBack, Save, MarkExtracted,
         PointAtText, WriteOcrStatus, QueueForOcr, Dequeue, Crash, history
    <3>2. Active(w) \/ (Claim(w) /\ queue.in /\ ~queue.locked)
      BY <1>1, <1>2, NextStep DEF Claim
    <3>3. \A v \in Workers : v # w => ~Active(v)
      BY <1>1, <1>2, <3>1, <3>2 DEF AloneInv
    <3>4. QED  BY <1>1, <1>2, <3>1, <3>3, OthersStay DEF Active
  <2>2. CASE QueueForOcr(w)
    <3>1. ocr' = ocr /\ queue' = queue /\ (Wanted => ocrQueue'.in)
      BY <2>2, Constants DEF QueueForOcr, NeedsOcr, rows, NoOcrRow
    <3>2. QED  BY <3>1
  <2>3. CASE Dequeue(w)
    <3>1. worker[w].step = "ocrQueued" /\ ocr' = ocr /\ ocrQueue' = ocrQueue
      BY <2>3 DEF Dequeue, At, ocrRows
    <3>2. QED  BY <1>1, <2>1, <3>1
  <2>4. CASE WriteOcrStatus(w)
    <3>1. worker'[w].step = "decided" /\ Active(w) /\ queue' = queue
      BY <1>1, <1>2, <2>4, NextStep DEF WriteOcrStatus, At, Active, rows
    <3>2. queue'.in  BY <1>1, <2>1, <3>1 DEF AloneInv
    <3>3. QED  BY <2>1, <3>1, <3>2
  <2>5. CASE \/ Claim(w) \/ Send(w) \/ Answer(w) \/ Refuse(w) \/ GiveBack(w) \/ Save(w)
             \/ MarkExtracted(w) \/ PointAtText(w) \/ Crash(w)
    <3>1. worker'[w].step # "ocrQueued"
      BY <1>1, <1>2, <2>5, NextStep
    <3>2. UNCHANGED ocrRows
      BY <2>5 DEF Claim, Send, Answer, Refuse, GiveBack, Save, MarkExtracted, PointAtText, Crash
    <3>3. queue'.in = queue.in
      <4>1. CASE Claim(w)
        BY <1>1, <4>1 DEF Claim, QueueType
      <4>2. CASE GiveBack(w)
        BY <4>2, Counting DEF GiveBack
      <4>3. QED
        BY <2>5, <4>1, <4>2 DEF Send, Answer, Refuse, Save, MarkExtracted, PointAtText, Crash,
           rows
    <3>4. QED  BY <1>1, <2>1, <3>1, <3>2, <3>3 DEF ocrRows
  <2>6. QED  BY <1>2, <2>2, <2>3, <2>4, <2>5 DEF WorkerStep
<1>3. ASSUME NEW n \in Nodes, NodeStep(n) \/ NodeStops(n) \/ Rollback(n)
      PROVE  RecommendedInv'
  <2>1. worker' = worker /\ overran' = overran
    BY <1>3 DEF NodeStep, NodeStops, Rollback, LockForOcr, Reserve, Submit, SaveResult, Commit,
       history
  <2>2. CASE Commit(n)
    <3>1. ocr'.status = "done"  BY <1>1, <2>2 DEF Commit, OcrType
    <3>2. QED  BY <3>1
  <2>3. CASE Reserve(n)
    <3>1. ocr'.status = "reserved"  BY <1>1, <2>3 DEF Reserve, OcrType
    <3>2. QED  BY <3>1
  <2>4. CASE ~Commit(n) /\ ~Reserve(n)
    <3>1. ocr' = ocr /\ queue' = queue
      BY <1>3, <2>4 DEF NodeStep, NodeStops, Rollback, LockForOcr, Submit, SaveResult, rows,
         ocrRows
    <3>2. ocrQueue'.in = ocrQueue.in
      <4>1. CASE LockForOcr(n)
        BY <1>1, <4>1 DEF LockForOcr, OcrRowType
      <4>2. QED
        BY <1>3, <2>4, <4>1 DEF NodeStep, NodeStops, Rollback, Submit, SaveResult, ocrRows
    <3>3. QED  BY <1>1, <2>1, <3>1, <3>2
  <2>5. QED  BY <2>2, <2>3, <2>4
<1>4. CASE PravalytiOcr
  <2>1. ocrQueue'.in  BY <1>4 DEF PravalytiOcr, NoOcrRow
  <2>2. QED  BY <2>1
<1>5. CASE \/ Papildyti \/ ReservationExpires \/ PravalytiNuskaityma \/ OcrReservationExpires
           \/ RepeatFailed \/ RepeatReset \/ RepeatQueue \/ RepeatStops \/ UNCHANGED vars
  <2>1. worker' = worker /\ ocr' = ocr /\ (~overran' => ~overran)
    BY <1>1, <1>5 DEF Papildyti, ReservationExpires, PravalytiNuskaityma,
       OcrReservationExpires, RepeatFailed, RepeatReset, RepeatQueue,
       RepeatStops, vars, ocrRows, history
  <2>2. ocrQueue'.in = ocrQueue.in
    <3>1. CASE OcrReservationExpires
      BY <1>1, <3>1 DEF OcrReservationExpires, OcrRowType
    <3>2. QED
      BY <1>5, <3>1 DEF Papildyti, ReservationExpires, PravalytiNuskaityma, RepeatFailed,
         RepeatReset, RepeatQueue, RepeatStops, vars, ocrRows
  <2>3. queue.in => queue'.in
    <3>1. CASE PravalytiNuskaityma
      BY <3>1, Counting DEF PravalytiNuskaityma
    <3>2. CASE ReservationExpires
      BY <1>1, <3>2 DEF ReservationExpires, QueueType
    <3>3. CASE Papildyti \/ RepeatQueue
      BY <3>3, Constants DEF Papildyti, RepeatQueue, Accepts
    <3>4. QED
      BY <1>5, <3>1, <3>2, <3>3 DEF OcrReservationExpires, RepeatFailed,
         RepeatReset, RepeatStops, vars, rows
  <2>4. QED  BY <1>1, <2>1, <2>2, <2>3
<1>6. QED  BY <1>2, <1>3, <1>4, <1>5 DEF Next

-----------------------------------------------------------------------------
(* The theorems.                                                           *)

\* What the steps rely on is so after every step of the code.
THEOREM Invariance == Spec => []IInv
<1>1. IInv /\ [Next]_vars => IInv'
  BY TypesStep, StoredStep, ResultStep, AttemptsStep, AloneStep, SettledStep, RecommendedStep
     DEF IInv
<1>2. QED  BY Initially, <1>1, PTL DEF Spec

\* Rows, workers, nodes and the submission stay within their types, for any
\* number of workers, nodes and attempts.
THEOREM TypeCorrect == Spec => []TypeOK
<1>1. IInv => TypeOK  BY DEF IInv, Types
<1>2. QED  BY Invariance, <1>1, PTL

\* No crash between the sidecar stores and the database leaves a row that
\* points at a text or a result that is not stored.
THEOREM StoresFirst == Spec => []StoredFirst
<1>1. IInv => StoredFirst  BY DEF IInv, StoredInv
<1>2. QED  BY Invariance, <1>1, PTL

\* Nodes that are late, repeat themselves or lost their reservation never get
\* a second result accepted for one reservation.
THEOREM OneResult == Spec => []OneResultPerReservation
<1>1. IInv => OneResultPerReservation  BY DEF IInv, ResultInv, OneResultPerReservation
<1>2. QED  BY Invariance, <1>1, PTL

\* Claims, crashes, the cleaner, submissions and both tools together never put
\* two workers on the file while extractions end in time.
THEOREM ExtractsAlone == Spec => []OneExtractor
<1>1. IInv => OneExtractor  BY DEF IInv, AloneInv, OneExtractor
<1>2. QED  BY Invariance, <1>1, PTL

\* Only a published text without an error takes the file off the extraction
\* queue while extractions end in time.
THEOREM LeavesSettled == Spec => []LeavesQueueSettled
<1>1. IInv => LeavesQueueSettled  BY DEF IInv, SettledInv, LeavesQueueSettled
<1>2. QED  BY Invariance, <1>1, PTL

\* However a job is cut between the two statements, a recommended file is in
\* one of the queues.
THEOREM RecommendedKept == Spec => []RecommendedIsQueued
<1>1. IInv => RecommendedIsQueued  BY DEF IInv, RecommendedInv, RecommendedIsQueued
<1>2. QED  BY Invariance, <1>1, PTL

\* The count in the queue's row, which paimtiOcr looks at, is never behind the
\* one in ocrStatus: an exhausted file is not handed out.
THEOREM ExhaustedKept == Spec => ExhaustedStaysOut
<1>1. ASSUME IInv, [Next]_vars, ocr.attempts >= MaxAttempts, NEW n \in Nodes, node[n] = "idle"
      PROVE  node'[n] = "idle"
  <2>1. /\ node \in [Nodes -> NodeType] /\ ocrQueue \in OcrRowType /\ AttemptsInv
        /\ MaxAttempts \in Nat
    BY <1>1, Ranges, PipelineAssumption DEF IInv, Types
  <2>2. ASSUME NEW m \in Nodes, NodeStep(m) \/ NodeStops(m) \/ Rollback(m)
        PROVE  node'[n] = "idle"
    <3>1. ~LockForOcr(m)
      BY <1>1, <2>1 DEF LockForOcr, AttemptsInv, OcrRowType
    <3>2. CASE Reserve(m) \/ Submit(m)
      BY <1>1, <2>1, <3>2 DEF Reserve, Submit
    <3>3. CASE SaveResult(m)
      BY <1>1, <3>3 DEF SaveResult
    <3>4. CASE Commit(m) \/ NodeStops(m) \/ Rollback(m)
      <4>1. node' \in {node, [node EXCEPT ![m] = "working"], [node EXCEPT ![m] = "idle"]}
        BY <3>4 DEF Commit, NodeStops, Rollback
      <4>2. CASE m = n
        BY <1>1, <2>1, <3>4, <4>2 DEF Commit, NodeStops, Rollback, ResultInv, IInv
      <4>3. CASE m # n
        BY <1>1, <2>1, <4>1, <4>3
      <4>4. QED  BY <4>2, <4>3
    <3>5. QED  BY <2>2, <3>1, <3>2, <3>3, <3>4 DEF NodeStep
  <2>3. ASSUME NEW w \in Workers, WorkerStep(w) \/ Crash(w)
        PROVE  node' = node
    BY <2>3 DEF WorkerStep, Claim, Send, Answer, Refuse, GiveBack, Save, MarkExtracted,
       PointAtText, WriteOcrStatus, QueueForOcr, Dequeue, Crash, external
  <2>4. CASE \/ Papildyti \/ ReservationExpires \/ PravalytiNuskaityma
             \/ OcrReservationExpires \/ PravalytiOcr \/ RepeatFailed \/ RepeatReset
             \/ RepeatQueue \/ RepeatStops \/ UNCHANGED vars
    <3>1. node' = node
      BY <2>4 DEF Papildyti, ReservationExpires, PravalytiNuskaityma, OcrReservationExpires,
         PravalytiOcr, RepeatFailed, RepeatReset, RepeatQueue, RepeatStops, vars, external
    <3>2. QED  BY <1>1, <3>1
  <2>5. QED  BY <1>1, <2>2, <2>3, <2>4 DEF Next
<1>2. IInv /\ [Next]_vars
        => [ocr.attempts >= MaxAttempts
             => \A n \in Nodes : node[n] = "idle" => node'[n] = "idle"]_vars
  BY <1>1
<1>3. QED  BY Invariance, <1>2, PTL DEF Spec, ExhaustedStaysOut
=============================================================================
