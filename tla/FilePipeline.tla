---------------------------- MODULE FilePipeline ----------------------------
(***************************************************************************)
(* A purchase's file on its way through the queues, and the description of *)
(* the purchase, which waits for it.  The file, an archive with one child, *)
(* is downloaded as in DownloadQueue; here it is then read and given to OCR*)
(* (ExtractionOcr has that part statement by statement; here are the steps *)
(* another queue can see), and so is the child.  aprasymuEile describes a  *)
(* purchase once none of its files is in any of the three queues.          *)
(***************************************************************************)
EXTENDS DownloadQueue

CONSTANTS
    Describers,  \* processViesiejiPirkimaiAprasymaiQueue, in any process
    MaxAttempts  \* MAX_BANDYMAI

ASSUME PipelineAssumption == MaxAttempts \in Nat \ {0}

VARIABLES
    extraction,  \* the rows of the extraction queue
    reader,      \* how far the reading of a file has come
    text,        \* the text that is published: none, without OCR, final
    ocr,         \* the rows of the OCR queue
    kid,         \* the child has been inserted into files
    missed,      \* history: files that are due to be read and got no row
    eile,        \* the purchase's row in aprasymaiQueue
    described,   \* the purchase has its description
    describer,   \* each describer's step
    late         \* history: a live describer has outlasted its reservation

files == <<extraction, reader, text, ocr, kid, missed>>
pvars == <<vars, files, eile, described, describer, late>>
purchase == <<eile, described, describer, late>>

Parts == {"file", "child"}
NoDemand == [in |-> FALSE, locked |-> FALSE, expired |-> FALSE, later |-> FALSE,
             attempts |-> 0]

PInit ==
    /\ Init
    /\ extraction = [p \in Parts |-> "none"]
    /\ reader = [p \in Parts |-> "idle"]
    /\ text = [p \in Parts |-> "none"]
    /\ ocr = [p \in Parts |-> "none"]
    /\ kid = FALSE /\ missed = {}
    /\ eile = NoDemand
    /\ described = FALSE
    /\ describer = [d \in Describers |-> "idle"]
    /\ late = FALSE

-----------------------------------------------------------------------------
(* The download, and iEile.                                                *)

\* iEile: a file whose text is not current gets a row, if it has none.
Queued(p) ==
    [extraction EXCEPT ![p] = IF @ = "none" /\ text[p] = "none" THEN "waiting" ELSE @]

Download(w) == Downloading(w) /\ UNCHANGED <<files, purchase>>

DownloadDies(w) == Crash(w) /\ UNCHANGED <<files, purchase>>

DownloadEnds(w) ==
    /\ HandOver(w)
    /\ extraction' = IF status = "downloaded" THEN Queued("file") ELSE extraction
    /\ UNCHANGED <<reader, text, ocr, kid, missed, purchase>>

Around ==
    /\ \/ Insert \/ QueueDownload \/ ImportStops
       \/ ReservationExpires \/ DelayEnds \/ Pravalyti \/ ParsiustiPakartotinai
    /\ UNCHANGED <<files, purchase>>

-----------------------------------------------------------------------------
(* The reading of a file, and OCR.                                         *)

Reads(p, step) == reader[p] = step
GoOn(p, step)  == reader' = [reader EXCEPT ![p] = step]

TakeText(p) ==
    /\ extraction[p] = "waiting"
    /\ extraction' = [extraction EXCEPT ![p] = "taken"]
    /\ GoOn(p, "reading")
    /\ UNCHANGED <<vars, text, ocr, kid, missed, purchase>>

\* irasytiFailus: a child that exists already is not returned as new ...
InsertChild ==
    /\ Reads("file", "reading")
    /\ kid' = TRUE
    /\ GoOn("file", IF kid THEN "unpacked" ELSE "inserted")
    /\ UNCHANGED <<vars, extraction, text, ocr, missed, purchase>>

\* ... and only new ones are queued.
QueueChild ==
    /\ Reads("file", "inserted")
    /\ extraction' = Queued("child")
    /\ GoOn("file", "unpacked")
    /\ UNCHANGED <<vars, text, ocr, kid, missed, purchase>>

\* The text is published and, when it calls for it, OCR asked for, ...
Publish(p) ==
    /\ Reads(p, IF p = "file" THEN "unpacked" ELSE "reading")
    /\ \/ text' = [text EXCEPT ![p] = "final"] /\ UNCHANGED ocr
       \/ /\ ocr[p] = "none"
          /\ text' = [text EXCEPT ![p] = "without OCR"]
          /\ ocr' = [ocr EXCEPT ![p] = "waiting"]
    /\ GoOn(p, "published")
    /\ UNCHANGED <<vars, extraction, kid, missed, purchase>>

\* ... then the row is deleted.
LeaveExtraction(p) ==
    /\ Reads(p, "published")
    /\ extraction' = [extraction EXCEPT ![p] = "none"]
    /\ GoOn(p, "idle")
    /\ UNCHANGED <<vars, text, ocr, kid, missed, purchase>>

\* An error, or the reader dies and the cleaner comes: the row is free again,
Reread(p, outcome) ==
    /\ ~Reads(p, "idle")
    /\ extraction' = [extraction EXCEPT ![p] = outcome]
    /\ GoOn(p, "idle")
    /\ missed' = missed \union (IF Reads(p, "inserted") THEN {"child"} ELSE {})
    /\ UNCHANGED <<vars, text, ocr, kid, purchase>>

ReadFails(p) == Reread(p, "waiting")

\* and stays for good when its attempts are used up.
ReadGivenUp(p) == Reread(p, "used up")

\* submit: the text is no longer current and the file is queued again.
OcrResult(p) ==
    /\ ocr[p] = "waiting"
    /\ ocr' = [ocr EXCEPT ![p] = "done"]
    /\ text' = [text EXCEPT ![p] = "none"]
    /\ extraction' = [extraction EXCEPT ![p] = IF @ = "none" THEN "waiting" ELSE @]
    /\ missed' = missed \union (IF Reads(p, "idle") THEN {} ELSE {p})
    /\ UNCHANGED <<vars, reader, kid, purchase>>

OcrGivenUp(p) ==
    /\ ocr[p] = "waiting"
    /\ ocr' = [ocr EXCEPT ![p] = "used up"]
    /\ UNCHANGED <<vars, extraction, reader, text, kid, missed, purchase>>

Reading(p) ==
    \/ TakeText(p) \/ Publish(p) \/ LeaveExtraction(p)
    \/ ReadFails(p) \/ ReadGivenUp(p) \/ OcrResult(p) \/ OcrGivenUp(p)

Unpacking == InsertChild \/ QueueChild

-----------------------------------------------------------------------------
(* aprasymuEile.                                                           *)

Does(d, step) == describer[d] = step
Turn(d, step) == describer' = [describer EXCEPT ![d] = step]

\* papildytiEileTrukstamais, or a trigger of the database: a purchase without
\* a description is queued, be its files already known or not.
Announce ==
    /\ ~eile.in /\ ~described
    /\ eile' = [NoDemand EXCEPT !.in = TRUE]
    /\ UNCHANGED <<vars, files, described, describer, late>>

\* Mutation: only the file's own download and extraction are looked at.
FailaiParuostiNoOcr == ~row.in /\ extraction["file"] = "none"

\* FAILAI_PARUOSTI_SQL
FailaiParuosti ==
    /\ ~row.in
    /\ \A p \in Parts : extraction[p] = "none" /\ ocr[p] \in {"none", "done"}

\* atlaisvintiPakibusius, at the beginning of the job
FreeStuck(d) ==
    /\ Does(d, "idle")
    /\ eile.locked /\ eile.expired
    /\ eile' = [eile EXCEPT !.locked = FALSE, !.expired = FALSE]
    /\ UNCHANGED <<vars, files, described, describer, late>>

\* paimtiAprasymus: rows of described purchases go,
DropDescribed(d) ==
    /\ Does(d, "idle")
    /\ eile.in /\ ~eile.locked /\ described
    /\ eile' = NoDemand
    /\ UNCHANGED <<vars, files, described, describer, late>>

Take(d) ==
    /\ eile' = [eile EXCEPT !.locked = TRUE, !.expired = FALSE]
    /\ Turn(d, "describing")
    /\ UNCHANGED <<vars, files, described, late>>

\* Mutation: a locked row is taken too.
TakePurchaseAnyway(d) ==
    /\ Does(d, "idle")
    /\ eile.in /\ eile.attempts < MaxAttempts /\ ~eile.later
    /\ FailaiParuosti
    /\ Take(d)

\* Mutation: the text is waited for, not the queues.
TakePurchaseWhenRead(d) ==
    /\ Does(d, "idle")
    /\ eile.in /\ ~eile.locked /\ eile.attempts < MaxAttempts /\ ~eile.later
    /\ \A p \in Parts : text[p] = "final" \/ (p = "child" /\ ~kid)
    /\ Take(d)

\* and one that may be taken is locked.
TakePurchase(d) ==
    /\ Does(d, "idle")
    /\ eile.in /\ ~eile.locked /\ eile.attempts < MaxAttempts /\ ~eile.later
    /\ FailaiParuosti
    /\ Take(d)

\* The model answers: INSERT ... ON CONFLICT DO NOTHING,
SaveDescription(d) ==
    /\ Does(d, "describing")
    /\ described' = TRUE
    /\ Turn(d, "saved")
    /\ UNCHANGED <<vars, files, eile, late>>

\* and the row goes, whoever holds it.
DeleteDemand(d) ==
    /\ Does(d, "saved")
    /\ eile' = NoDemand
    /\ Turn(d, "idle")
    /\ UNCHANGED <<vars, files, described, late>>

\* An error, of the purchase's or of the surroundings (infrastrukturine): the
\* row is free, to be taken later; only the first kind is counted.
DescribeFails(d) ==
    /\ Does(d, "describing") \/ Does(d, "saved")
    /\ \E counted \in {0, 1} :
         eile' = IF ~eile.in THEN eile
                 ELSE [in |-> TRUE, locked |-> FALSE, expired |-> FALSE, later |-> TRUE,
                       attempts |-> IF eile.attempts + counted > MaxAttempts
                                      THEN MaxAttempts ELSE eile.attempts + counted]
    /\ Turn(d, "idle")
    /\ UNCHANGED <<vars, files, described, late>>

DescriberDies(d) ==
    /\ ~Does(d, "idle")
    /\ Turn(d, "idle")
    /\ UNCHANGED <<vars, files, eile, described, late>>

\* Thirty minutes pass on a locked row.
DemandExpires ==
    /\ eile.locked /\ ~eile.expired
    /\ eile' = [eile EXCEPT !.expired = TRUE]
    /\ late' = (late \/ \E d \in Describers : ~Does(d, "idle"))
    /\ UNCHANGED <<vars, files, described, describer>>

DemandDelayEnds ==
    /\ eile.later
    /\ eile' = [eile EXCEPT !.later = FALSE]
    /\ UNCHANGED <<vars, files, described, describer, late>>

-----------------------------------------------------------------------------
Describe(d) ==
    \/ FreeStuck(d) \/ DropDescribed(d) \/ TakePurchase(d)
    \/ SaveDescription(d) \/ DeleteDemand(d) \/ DescribeFails(d)

PNext ==
    \/ Around
    \/ \E w \in Workers : Download(w) \/ DownloadEnds(w) \/ DownloadDies(w)
    \/ Unpacking
    \/ \E p \in Parts : Reading(p)
    \/ \E d \in Describers : Describe(d) \/ DescriberDies(d)
    \/ Announce \/ DemandExpires \/ DemandDelayEnds

PSpec == PInit /\ [][PNext]_pvars

\* The task runner keeps calling the jobs and time passes, though nobody is
\* promised a turn of its own; readings do not fail for ever without using
\* attempts up (ExtractionEnds of ExtractionOcr), and a description that is
\* tried again and again is written once.  Nothing is asked of the download.
PFairSpec ==
    /\ PSpec
    /\ WF_pvars(Unpacking \/ \E p \in Parts : Reading(p))
    /\ SF_pvars(\E p \in Parts : ReadGivenUp(p))
    /\ WF_pvars(\E d \in Describers : Describe(d))
    /\ SF_pvars(\E d \in Describers : SaveDescription(d))
    /\ WF_pvars(DemandExpires \/ DemandDelayEnds)

-----------------------------------------------------------------------------
(* Properties.                                                             *)

\* As long as live describers end within their half hour, one at most is at
\* work on a purchase, whatever dies, fails or is dropped from the queue: the
\* model's answers cost money.
OneDescriber ==
    late \/ \A c, d \in Describers : ~Does(c, "idle") /\ ~Does(d, "idle") => c = d

\* "Paruosta = failo nera ne vienoje is triju eiliu" (aprasymuEile.js:72): when
\* a description begins, the texts of the file and of its child are final.
\* Except for what the three queues cannot know: a file not yet imported, or
\* between its download and iEile, or lost there; a child lost between
\* irasytiFailus and iEile; a file whose OCR result came while it was read.
ReadyMeansRead ==
    [][\A d \in Describers : Does(d, "idle") /\ describer'[d] = "describing" =>
         /\ text["file"] = "final" \/ ~handed \/ "file" \in missed
         /\ kid => text["child"] = "final" \/ "child" \in missed]_pvars

\* A purchase that waits is described, or has failed MAX_BANDYMAI times, or
\* one of its files keeps it waiting: one that is not downloaded or whose
\* attempts are used up.
DescribedInTheEnd ==
    eile.in ~>
      \/ described \/ eile.attempts = MaxAttempts
      \/ row.in
      \/ \E p \in Parts : "used up" \in {extraction[p], ocr[p]}
=============================================================================
