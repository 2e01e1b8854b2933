--------------------------- MODULE ExtractionOcr ---------------------------
(***************************************************************************)
(* Text extraction and OCR of one downloaded file: the two queues          *)
(* (files."extractionQueue", files."ocrQueue"), the state they leave in    *)
(* files."dataExtraction", files."infoFiles" and files."ocrStatus", the    *)
(* extraction workers, the external OCR nodes and the two cleaners that    *)
(* take back reservations of processes that died.                          *)
(*                                                                         *)
(* No statement of this code relates the rows of two files, so one file is *)
(* modelled, a PDF; that other files come first in a queue, or that the    *)
(* retry delay of its row has not passed, is a delay.  Every SQL statement *)
(* outside a transaction is one step; OCR submission is a transaction,     *)
(* whose row locks hold other writers back.                                *)
(*                                                                         *)
(* pazymetiNuskaitymoBandyma and both cleaners count an attempt in one     *)
(* part of a WITH statement and DELETE the same row in another when the    *)
(* limit is reached.  PostgreSQL carries out only the first: "deleting a   *)
(* row that was already updated in the same statement: only the update is  *)
(* performed" (its manual, data-modifying statements in WITH).  A row      *)
(* whose attempts are used up therefore stays in its queue, unlocked.      *)
(***************************************************************************)
EXTENDS Naturals

CONSTANTS
    Workers,      \* extraction workers, of any number of processes
    Nodes,        \* OCR nodes, identified by name
    None,         \* no node
    MaxAttempts,  \* NUSKAITYMO_BANDYMAI and OCR_BANDYMAI, both 5
    MaxResults,   \* bound: no reservation is given out after this many results
    MayRepeat,    \* is nuskaitytiPakartotinai, the emergency tool, run?
    ReadsFail     \* can a stored OCR text turn out to be unreadable?

ASSUME PipelineAssumption ==
    /\ None \notin Nodes
    /\ MaxAttempts \in Nat \ {0}
    /\ MaxResults \in Nat
    /\ {MayRepeat, ReadsFail} \subseteq BOOLEAN

VARIABLES
    queue,       \* the extraction queue's row
    extraction,  \* version and status of dataExtraction
    text,        \* what infoFiles points at: text with or without OCR
    stored,      \* what has been written to the sidecar stores
    ocrQueue,    \* the OCR queue's row
    ocr,         \* the ocrStatus row
    worker,      \* each extraction worker: its step and what it remembers
    node,        \* what each OCR node is doing
    submit,      \* the open submission transaction
    tool,        \* the emergency tool between its statements
    given,       \* history: reservations that nodes were told of
    results,     \* resultsCount
    overran      \* history: a live extraction has outlasted its reservation

rows    == <<queue, extraction, text, stored>>
ocrRows == <<ocrQueue, ocr>>
external == <<node, submit, tool>>
history == <<given, results, overran>>
vars    == <<rows, ocrRows, worker, external, history>>

Versions == {"none", "old", "current"}
Texts    == {"none", "plain", "withOcr"}
Statuses == {"none", "recommended", "reserved", "done", "exhausted"}
Steps    == {"idle", "claimed", "sent", "answered", "saved", "marked",
             "pointed", "decided", "ocrQueued", "failed"}

NoRow    == [in |-> FALSE, locked |-> FALSE, expired |-> FALSE, attempts |-> 0]
NoOcrRow == [in |-> FALSE, by |-> None, expired |-> FALSE, attempts |-> 0]
NoSubmit == [by |-> None, enqueues |-> FALSE, saved |-> FALSE]
Idle     == [step |-> "idle", seen |-> "none", reads |-> "none",
             words |-> TRUE]

Active(w) == worker[w].step # "idle"
Quiet     == (\A w \in Workers : ~Active(w)) /\ submit.by = None

\* A file that has just been downloaded, or one that an older version of the
\* extraction has read and that OCR has not seen yet.
Init ==
    /\ \/ /\ queue = [NoRow EXCEPT !.in = TRUE]
          /\ extraction = [version |-> "none", failed |-> FALSE]
          /\ text = "none" /\ stored = {}
          /\ ocrQueue = NoOcrRow
       \/ /\ queue = NoRow
          /\ extraction = [version |-> "old", failed |-> FALSE]
          /\ text = "plain" /\ stored = {"plain"}
          /\ ocrQueue = [NoOcrRow EXCEPT !.in = TRUE]
    /\ ocr = [status |-> "none", result |-> FALSE, attempts |-> 0]
    /\ worker = [w \in Workers |-> Idle]
    /\ node = [n \in Nodes |-> "idle"]
    /\ submit = NoSubmit /\ tool = "idle"
    /\ given = 0 /\ results = 0 /\ overran = FALSE

-----------------------------------------------------------------------------
(* The extraction queue.                                                   *)

\* iEile: accept the file if its extraction is out of date and it is not
\* there yet.
Accepts(q, version) == ~q.in /\ version # "current"
Enqueued == [NoRow EXCEPT !.in = TRUE]

\* papildytiEile, run by hand after NUSKAITYMO_VERSIJA was raised.  An insert
\* of the open submission holds it back.
Papildyti ==
    /\ ~submit.enqueues
    /\ Accepts(queue, extraction.version)
    /\ queue' = Enqueued
    /\ UNCHANGED <<extraction, text, stored, ocrRows, worker, external>>
    /\ UNCHANGED history

\* Mutation: the attempt is not counted.
BumpUncounted(q) == [NoRow EXCEPT !.in = TRUE, !.attempts = q.attempts]

\* An attempt is counted and the row unlocked; the DELETE at the limit finds
\* a row its own statement has updated and leaves it.
Bump(q) == [NoRow EXCEPT !.in = TRUE, !.attempts = q.attempts + 1]

CountAttempt == queue' = IF queue.in THEN Bump(queue) ELSE queue

-----------------------------------------------------------------------------
(* An extraction worker: nuskaitytiVienoDokumentoDuomenis.                 *)

At(w, step) == worker[w].step = step
Goto(w, step) == worker' = [worker EXCEPT ![w].step = step]
\* From here on nothing the worker remembers is used.
Forget(w, step) == worker' = [worker EXCEPT ![w] = [Idle EXCEPT !.step = step]]

\* paimtiNuskaitymui: lock the row and read the file, its OCR status included.
Claim(w) ==
    /\ At(w, "idle")
    /\ queue.in /\ ~queue.locked /\ queue.attempts < MaxAttempts
    /\ queue' = [queue EXCEPT !.locked = TRUE, !.expired = FALSE]
    /\ worker' = [worker EXCEPT ![w] =
                    [Idle EXCEPT !.step = "claimed", !.seen = ocr.status]]
    /\ UNCHANGED <<extraction, text, stored, ocrRows, external, history>>

\* The reader is given the OCR text there is now; one that cannot be read is
\* left out.
Send(w) ==
    /\ At(w, "claimed")
    /\ \E kind \in {"plain", "withOcr"} :
         /\ kind = "withOcr" => ocr.result
         /\ kind = "plain"   => ~ocr.result \/ ReadsFail
         /\ worker' = [worker EXCEPT ![w].step = "sent", ![w].reads = kind]
    /\ UNCHANGED <<rows, ocrRows, external, history>>

Answer(w) ==
    /\ At(w, "sent")
    /\ \E words \in BOOLEAN :
         worker' = [worker EXCEPT ![w].step = "answered", ![w].words = words]
    /\ UNCHANGED <<rows, ocrRows, external, history>>

\* The reader refuses or fails: pazymetiNuskaitymoKlaida ...
Refuse(w) ==
    /\ At(w, "claimed") \/ At(w, "sent")
    /\ submit.by = None
    /\ extraction' = [extraction EXCEPT !.failed = TRUE]
    /\ Forget(w, "failed")
    /\ UNCHANGED <<queue, text, stored, ocrRows, external, history>>

\* Mutation: a failed file leaves the queue at once.
GiveBackForGood(w) ==
    /\ At(w, "failed")
    /\ queue' = NoRow
    /\ Goto(w, "idle")
    /\ UNCHANGED <<extraction, text, stored, ocrRows, external, history>>

\* ... and then pazymetiNuskaitymoBandyma.
GiveBack(w) ==
    /\ At(w, "failed")
    /\ CountAttempt
    /\ Goto(w, "idle")
    /\ UNCHANGED <<extraction, text, stored, ocrRows, external, history>>

\* Mutation: a database row that points at the text before it is stored.
SaveNothing(w) ==
    /\ At(w, "answered")
    /\ Goto(w, "saved")
    /\ UNCHANGED <<rows, ocrRows, external, history>>

\* savePreparedFailaiFs: the text is in the sidecar store before the database
\* points at it.
Save(w) ==
    /\ At(w, "answered")
    /\ stored' = stored \union {worker[w].reads}
    /\ Goto(w, "saved")
    /\ UNCHANGED <<queue, extraction, text, ocrRows, external, history>>

\* pazymetiNuskaityta, statement by statement: dataExtraction,
MarkExtracted(w) ==
    /\ At(w, "saved") /\ submit.by = None
    /\ extraction' = [version |-> "current", failed |-> FALSE]
    /\ Goto(w, "marked")
    /\ UNCHANGED <<queue, text, stored, ocrRows, external, history>>

\* infoFiles,
PointAtText(w) ==
    /\ At(w, "marked")
    /\ text' = worker[w].reads
    /\ Goto(w, "pointed")
    /\ UNCHANGED <<queue, extraction, stored, ocrRows, external, history>>

\* the OCR status to write: the one read at the claim, except that a PDF
\* without words and without a status gets OCR recommended,
Verdict(w) ==
    IF worker[w].seen = "none" /\ ~worker[w].words
      THEN "recommended"
      ELSE worker[w].seen

\* ocrStatus, left alone when there is no verdict,
WriteOcrStatus(w) ==
    /\ At(w, "pointed") /\ submit.by = None
    /\ ocr' = IF Verdict(w) = "none"
                THEN ocr
                ELSE [ocr EXCEPT !.status = Verdict(w)]
    /\ Forget(w, "decided")
    /\ UNCHANGED <<rows, ocrQueue, external, history>>

\* Mutation: iOcrEile without the recommended files.
NeedsOcrUnseen ==
    /\ ocr.status = "none" /\ extraction.version # "none"
    /\ ocr.attempts < MaxAttempts

\* iOcrEile's condition,
NeedsOcr ==
    /\ \/ ocr.status = "recommended"
       \/ ocr.status = "none" /\ extraction.version # "none"
    /\ ocr.attempts < MaxAttempts

QueueForOcr(w) ==
    /\ At(w, "decided") /\ submit.by = None
    /\ ocrQueue' = IF NeedsOcr /\ ~ocrQueue.in
                     THEN [NoOcrRow EXCEPT !.in = TRUE]
                     ELSE ocrQueue
    /\ Goto(w, "ocrQueued")
    /\ UNCHANGED <<rows, ocr, external, history>>

\* and isEiles, which asks nobody whose row it is.
Dequeue(w) ==
    /\ At(w, "ocrQueued")
    /\ queue' = NoRow
    /\ worker' = [worker EXCEPT ![w] = Idle]
    /\ UNCHANGED <<extraction, text, stored, ocrRows, external, history>>

\* The process dies, or a statement throws and the job ends: the row stays
\* locked.
Crash(w) ==
    /\ Active(w)
    /\ worker' = [worker EXCEPT ![w] = Idle]
    /\ UNCHANGED <<rows, ocrRows, external, history>>

\* Thirty minutes pass on a locked row.
ReservationExpires ==
    /\ queue.locked /\ ~queue.expired
    /\ queue' = [queue EXCEPT !.expired = TRUE]
    /\ overran' = (overran \/ \E w \in Workers : Active(w))
    /\ UNCHANGED <<extraction, text, stored, ocrRows, worker, external>>
    /\ UNCHANGED <<given, results>>

\* Mutation: a reservation is taken back before it has expired.
PravalytiNuskaitymaEarly ==
    /\ queue.in /\ queue.locked
    /\ CountAttempt
    /\ UNCHANGED <<extraction, text, stored, ocrRows, worker, external>>
    /\ UNCHANGED history

\* pravalytiNuskaitymoRezervacijas
PravalytiNuskaityma ==
    /\ queue.in /\ queue.locked /\ queue.expired
    /\ CountAttempt
    /\ UNCHANGED <<extraction, text, stored, ocrRows, worker, external>>
    /\ UNCHANGED history

-----------------------------------------------------------------------------
(* The OCR nodes: ocr/checkout.ts and ocr/submit.ts.                       *)

\* Mutation: the attempts are not looked at.
LockForOcrAnyway(n) ==
    /\ node[n] = "idle" /\ submit.by = None
    /\ ocrQueue.in /\ ocrQueue.by = None
    /\ results < MaxResults
    /\ ocrQueue' = [ocrQueue EXCEPT !.by = n, !.expired = FALSE]
    /\ node' = [node EXCEPT ![n] = "locking"]
    /\ UNCHANGED <<rows, ocr, worker, submit, tool, history>>

\* paimtiOcr, first statement: lock the row ...
LockForOcr(n) ==
    /\ node[n] = "idle" /\ submit.by = None
    /\ ocrQueue.in /\ ocrQueue.by = None /\ ocrQueue.attempts < MaxAttempts
    /\ results < MaxResults
    /\ ocrQueue' = [ocrQueue EXCEPT !.by = n, !.expired = FALSE]
    /\ node' = [node EXCEPT ![n] = "locking"]
    /\ UNCHANGED <<rows, ocr, worker, submit, tool, history>>

\* ... second statement: show the file as reserved, and tell the node.
Reserve(n) ==
    /\ node[n] = "locking" /\ submit.by = None
    /\ ocr' = [ocr EXCEPT !.status = "reserved"]
    /\ node' = [node EXCEPT ![n] = "working"]
    /\ given' = given + 1
    /\ UNCHANGED <<rows, ocrQueue, worker, submit, tool, results, overran>>

\* The node, or the server before it answered, goes away.
NodeStops(n) ==
    /\ node[n] \in {"locking", "working"}
    /\ node' = [node EXCEPT ![n] = "idle"]
    /\ UNCHANGED <<rows, ocrRows, worker, submit, tool, history>>

\* Mutation: whoever comes with a result is believed.
SubmitAnyway(n) ==
    /\ node[n] = "working" /\ submit.by = None
    /\ submit' = [by |-> n, enqueues |-> Accepts(queue, "none"),
                  saved |-> FALSE]
    /\ node' = [node EXCEPT ![n] = "submitting"]
    /\ UNCHANGED <<rows, ocrRows, worker, tool, history>>

\* The transaction begins: the reservation is the authorisation, and iEile
\* finds out whether the extraction queue has the file.  A node that holds
\* no reservation is told 404.
Submit(n) ==
    /\ node[n] = "working" /\ submit.by = None
    /\ IF ocrQueue.in /\ ocrQueue.by = n
         THEN /\ submit' = [by |-> n, enqueues |-> Accepts(queue, "none"),
                            saved |-> FALSE]
              /\ node' = [node EXCEPT ![n] = "submitting"]
         ELSE /\ node' = [node EXCEPT ![n] = "idle"]
              /\ UNCHANGED submit
    /\ UNCHANGED <<rows, ocrRows, worker, tool, history>>

\* saveRezultatasFs
SaveResult(n) ==
    /\ submit.by = n /\ ~submit.saved
    /\ stored' = stored \union {"result"}
    /\ submit' = [submit EXCEPT !.saved = TRUE]
    /\ UNCHANGED <<queue, extraction, text, ocrRows, worker, node, tool,
                   history>>

\* COMMIT of pazymetiOcrRezultata, atstatytiNuskaityma and iEile.  A node that
\* the answer does not reach will send the result again.
Commit(n) ==
    /\ submit.by = n /\ submit.saved
    /\ ocr' = [ocr EXCEPT !.status = "done", !.result = TRUE]
    /\ ocrQueue' = NoOcrRow
    /\ extraction' = [version |-> "none", failed |-> FALSE]
    /\ IF submit.enqueues
         THEN queue' = Enqueued
         ELSE UNCHANGED queue
    /\ submit' = NoSubmit
    /\ \E next \in {"idle", "working"} : node' = [node EXCEPT ![n] = next]
    /\ results' = results + 1
    /\ UNCHANGED <<text, stored, worker, tool, given, overran>>

\* A statement fails, or the server dies and the node asks again later.
Rollback(n) ==
    /\ submit.by = n
    /\ submit' = NoSubmit
    /\ node' = [node EXCEPT ![n] = "working"]
    /\ UNCHANGED <<rows, ocrRows, worker, tool, history>>

\* An hour passes on a locked row.
OcrReservationExpires ==
    /\ ocrQueue.by # None /\ ~ocrQueue.expired
    /\ ocrQueue' = [ocrQueue EXCEPT !.expired = TRUE]
    /\ UNCHANGED <<rows, ocr, worker, external, history>>

\* Mutation: the attempt is not counted.
PravalytiOcrUncounted ==
    /\ submit.by = None
    /\ ocrQueue.in /\ ocrQueue.by # None /\ ocrQueue.expired
    /\ ocrQueue' = [ocrQueue EXCEPT !.by = None, !.expired = FALSE]
    /\ UNCHANGED <<rows, ocr, worker, external, history>>

\* modules/ocr/pravalytiRezervacijas.js, the only task of the name
\* pravalytiOcrRezervacijas that is left after registration.  The status row
\* is updated if there is one.
PravalytiOcr ==
    /\ submit.by = None
    /\ ocrQueue.in /\ ocrQueue.by # None /\ ocrQueue.expired
    /\ LET attempts == ocrQueue.attempts + 1
       IN  /\ ocrQueue' = [NoOcrRow EXCEPT !.in = TRUE, !.attempts = attempts]
           /\ ocr' = IF ocr.status = "none" THEN ocr
                      ELSE [ocr EXCEPT !.attempts = attempts,
                              !.status = IF attempts >= MaxAttempts
                                         THEN "exhausted" ELSE "recommended"]
    /\ UNCHANGED <<rows, worker, external, history>>

-----------------------------------------------------------------------------
(* The emergency tool nuskaitytiPakartotinai, statement by statement.      *)

\* Take files whose extraction failed, those nobody has locked,
RepeatFailed ==
    /\ MayRepeat
    /\ tool = "idle" /\ submit.by = None
    /\ extraction.failed
    /\ extraction' = [extraction EXCEPT !.failed = FALSE]
    /\ tool' = "picked"
    /\ UNCHANGED <<queue, text, stored, ocrRows, worker, node, submit>>
    /\ UNCHANGED history

\* atstatytiNuskaityma
RepeatReset ==
    /\ tool = "picked" /\ submit.by = None
    /\ extraction' = [version |-> "none", failed |-> FALSE]
    /\ tool' = "reset"
    /\ UNCHANGED <<queue, text, stored, ocrRows, worker, node, submit>>
    /\ UNCHANGED history

\* and iEile.
RepeatQueue ==
    /\ tool = "reset" /\ ~submit.enqueues
    /\ queue' = IF Accepts(queue, extraction.version) THEN Enqueued ELSE queue
    /\ tool' = "idle"
    /\ UNCHANGED <<extraction, text, stored, ocrRows, worker, node, submit,
                   history>>

RepeatStops ==
    /\ tool # "idle"
    /\ tool' = "idle"
    /\ UNCHANGED <<rows, ocrRows, worker, node, submit, history>>

-----------------------------------------------------------------------------
WorkerStep(w) ==
    \/ Claim(w) \/ Send(w) \/ Answer(w) \/ Refuse(w) \/ GiveBack(w)
    \/ Save(w) \/ MarkExtracted(w) \/ PointAtText(w) \/ WriteOcrStatus(w)
    \/ QueueForOcr(w) \/ Dequeue(w)

NodeStep(n) ==
    \/ LockForOcr(n) \/ Reserve(n) \/ Submit(n) \/ SaveResult(n)
    \/ Commit(n)

Next ==
    \/ \E w \in Workers : WorkerStep(w) \/ Crash(w)
    \/ \E n \in Nodes : NodeStep(n) \/ NodeStops(n) \/ Rollback(n)
    \/ Papildyti \/ ReservationExpires \/ PravalytiNuskaityma
    \/ OcrReservationExpires \/ PravalytiOcr
    \/ RepeatFailed \/ RepeatReset \/ RepeatQueue \/ RepeatStops

Spec == Init /\ [][Next]_vars

\* The task runner keeps calling the extraction and both cleaners, time
\* passes, and the nodes keep asking for work and sending what they have.
\* The OCR cleaner runs every minute and meets, sooner or later, a moment
\* without an open submission.
FairSpec ==
    /\ Spec
    /\ \A w \in Workers : WF_vars(WorkerStep(w))
    /\ \A n \in Nodes : WF_vars(NodeStep(n))
    /\ WF_vars(ReservationExpires) /\ WF_vars(PravalytiNuskaityma)
    /\ WF_vars(OcrReservationExpires) /\ SF_vars(PravalytiOcr)

-----------------------------------------------------------------------------
(* Properties.                                                             *)

\* Every table row and every process is in a state the code can tell apart.
TypeOK ==
    /\ queue \in [in : BOOLEAN, locked : BOOLEAN, expired : BOOLEAN,
                  attempts : Nat]
    /\ extraction \in [version : Versions, failed : BOOLEAN]
    /\ text \in Texts
    /\ stored \subseteq {"plain", "withOcr", "result"}
    /\ ocrQueue \in [in : BOOLEAN, by : Nodes \union {None},
                     expired : BOOLEAN, attempts : 0 .. MaxAttempts]
    /\ ocr \in [status : Statuses, result : BOOLEAN,
                attempts : 0 .. MaxAttempts]
    /\ worker \in [Workers -> [step : Steps, seen : Statuses, reads : Texts,
                               words : BOOLEAN]]
    /\ node \in [Nodes -> {"idle", "locking", "working", "submitting"}]
    /\ submit \in [by : Nodes \union {None}, enqueues : BOOLEAN,
                   saved : BOOLEAN]
    /\ tool \in {"idle", "picked", "reset"}
    /\ given \in Nat /\ results \in Nat /\ overran \in BOOLEAN

\* Whatever dies when, the database never points at a text or an OCR result
\* that is not in its sidecar store yet (nuskaitytiTeksta.js saves before
\* pazymetiNuskaityta; submit.ts saves before COMMIT).
StoredFirst ==
    /\ text # "none" => text \in stored
    /\ ocr.result => "result" \in stored

\* However late, repeated or misdirected a node's result is, a reservation
\* yields at most one accepted result (submit.ts deletes the row by holder).
OneResultPerReservation == results <= given

\* A file that has used up its OCR attempts (ocrStatus) is never given to a
\* node again (paimtiOcr, which asks the queue's own count), although late
\* extractions go on writing its status and calling iOcrEile.
ExhaustedStaysOut ==
    [][ocr.attempts >= MaxAttempts
         => \A n \in Nodes : node[n] = "idle" => node'[n] = "idle"]_vars

\* As long as live extractions end within their thirty minutes, no file is
\* extracted by two workers at once, whatever crashes and whatever the
\* cleaner takes back.
OneExtractor ==
    overran \/ \A v, w \in Workers : Active(v) /\ Active(w) => v = w

\* As long as that is so, a file leaves the extraction queue with a published
\* text and no error, and in no other way.
LeavesQueueSettled ==
    overran \/ queue.in \/ (text # "none" /\ ~extraction.failed)

\* As long as that is so, a file shown as recommended for OCR is in the OCR
\* queue, or its extraction is unfinished: the statement that writes the
\* status and the one that fills the queue are not one transaction.
RecommendedIsQueued ==
    ~overran /\ ocr.status = "recommended" /\ ocr.attempts < MaxAttempts
      => ocrQueue.in \/ queue.in

\* Every file in the extraction queue is extracted or has used up its
\* attempts, in spite of crashes that leave its row locked.
ExtractionEnds == queue.in ~> ~queue.in \/ queue.attempts >= MaxAttempts

\* Every file in the OCR queue gets its result or uses up its attempts, though
\* nodes take files and are not heard of again.
OcrEnds ==
    ocrQueue.in ~> \/ ~ocrQueue.in
                   \/ ocrQueue.attempts >= MaxAttempts
                   \/ results = MaxResults

-----------------------------------------------------------------------------
(* What the code says of itself and does not keep.                         *)

\* "Eileje laikomi tik neatlikti darbai" and "virsijus riba eilute pasalinama"
\* (nuskaitymoEile.js:8 and :146; pravalytiRezervacijas.js:7 for OCR): a row
\* whose attempts are used up is no longer in its queue.
ExhaustedIsDropped ==
    /\ queue.in => queue.attempts < MaxAttempts
    /\ ocrQueue.in => ocrQueue.attempts < MaxAttempts
=============================================================================
