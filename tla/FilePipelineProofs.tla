------------------------- MODULE FilePipelineProofs -------------------------
(* Proofs about FilePipeline: it implements DownloadQueue, whose results   *)
(* it inherits; one describer works; and a description begins only over    *)
(* final texts.                                                            *)
EXTENDS FilePipeline, DownloadQueueProofs

\* Every step of the pipeline is a step of the download or leaves it alone.
THEOREM PipelineDownloads == PSpec => Spec
<1>1. PInit => Init  BY DEF PInit
<1>2. [PNext]_pvars => [Next]_vars
  <2> SUFFICES ASSUME [PNext]_pvars PROVE [Next]_vars  OBVIOUS
  <2>1. CASE Around
    BY <2>1 DEF Around, Next
  <2>2. CASE \E w \in Workers : Download(w) \/ DownloadEnds(w) \/ DownloadDies(w)
    BY <2>2 DEF Download, DownloadEnds, DownloadDies, WorkerStep, Next
  <2>3. CASE Unpacking \/ \E p \in Parts : Reading(p)
    BY <2>3 DEF Unpacking, InsertChild, QueueChild, Reading, TakeText, Publish,
                LeaveExtraction, ReadFails, ReadGivenUp, Reread, OcrResult, OcrGivenUp
  <2>4. CASE \E d \in Describers : Describe(d) \/ DescriberDies(d)
    BY <2>4 DEF Describe, DescriberDies, FreeStuck, DropDescribed, TakePurchase, Take,
                SaveDescription, DeleteDemand, DescribeFails
  <2>5. CASE Announce \/ DemandExpires \/ DemandDelayEnds
    BY <2>5 DEF Announce, DemandExpires, DemandDelayEnds
  <2>6. CASE UNCHANGED pvars
    BY <2>6 DEF pvars
  <2>7. QED  BY <2>1, <2>2, <2>3, <2>4, <2>5, <2>6 DEF PNext
<1>3. QED  BY <1>1, <1>2, PTL DEF PSpec, Spec

\* Whatever follows the download, a file that is shown as downloaded or has
\* been handed over can be served.
THEOREM PipelineServable == PSpec => []DownloadedIsServable
BY PipelineDownloads, Servable

-----------------------------------------------------------------------------
(* One describer: while none has been late, the one at work holds the row. *)

DemandType == [in : BOOLEAN, locked : BOOLEAN, expired : BOOLEAN, later : BOOLEAN,
               attempts : 0 .. MaxAttempts]

DemandInv ==
    /\ eile \in DemandType
    /\ describer \in [Describers -> {"idle", "describing", "saved"}]
    /\ late \in BOOLEAN
    /\ ~late =>
         /\ \A c, d \in Describers : ~Does(c, "idle") /\ ~Does(d, "idle") => c = d
         /\ \A d \in Describers : ~Does(d, "idle") => eile.in /\ eile.locked /\ ~eile.expired

\* The steps of the files do not touch the purchase.
LEMMA FilesLeavePurchase ==
  ASSUME \/ Around \/ Unpacking
         \/ \E w \in Workers : Download(w) \/ DownloadEnds(w) \/ DownloadDies(w)
         \/ \E p \in Parts : Reading(p)
  PROVE  UNCHANGED purchase
BY DEF Around, Unpacking, InsertChild, QueueChild, Download, DownloadEnds, DownloadDies,
       Reading, TakeText, Publish, LeaveExtraction, ReadFails, ReadGivenUp, Reread,
       OcrResult, OcrGivenUp

LEMMA EmptyDemand ==
  NoDemand \in DemandType /\ [NoDemand EXCEPT !.in = TRUE] \in DemandType
<1>1. 0 \in 0 .. MaxAttempts  BY PipelineAssumption
<1>2. QED  BY <1>1 DEF NoDemand, DemandType

LEMMA DemandStep == ASSUME DemandInv, [PNext]_pvars PROVE DemandInv'
<1> USE DEF DemandInv, DemandType, Does
<1>1. /\ MaxAttempts \in Nat \ {0}
      /\ NoDemand \in DemandType /\ [NoDemand EXCEPT !.in = TRUE] \in DemandType
  BY EmptyDemand, PipelineAssumption
<1>2. CASE UNCHANGED purchase
  BY <1>2 DEF purchase
<1>3. ASSUME NEW d \in Describers, Describe(d) \/ DescriberDies(d)
      PROVE  DemandInv'
  <2>1. CASE FreeStuck(d) \/ DropDescribed(d)
    <3>1. eile' \in DemandType
      BY <1>1, <2>1 DEF FreeStuck, DropDescribed
    <3>2. late \/ \A c \in Describers : Does(c, "idle")
      BY <2>1 DEF FreeStuck, DropDescribed
    <3>3. QED  BY <2>1, <3>1, <3>2 DEF FreeStuck, DropDescribed
  <2>2. CASE TakePurchase(d)
    BY <1>1, <2>2 DEF TakePurchase, Take, Turn
  <2>3. CASE SaveDescription(d)
    BY <2>3 DEF SaveDescription, Turn
  <2>4. CASE DeleteDemand(d)
    BY <1>1, <2>4 DEF DeleteDemand, Turn, NoDemand
  <2>5. CASE DescribeFails(d)
    <3>1. PICK counted \in {0, 1} :
         eile' = IF ~eile.in THEN eile
                 ELSE [in |-> TRUE, locked |-> FALSE, expired |-> FALSE, later |-> TRUE,
                       attempts |-> IF eile.attempts + counted > MaxAttempts
                                      THEN MaxAttempts ELSE eile.attempts + counted]
      BY <2>5 DEF DescribeFails
    <3>2. eile' \in DemandType
      BY <1>1, <3>1
    <3>3. QED  BY <2>5, <3>2 DEF DescribeFails, Turn
  <2>6. CASE DescriberDies(d)
    BY <2>6 DEF DescriberDies, Turn
  <2>7. QED  BY <1>3, <2>1, <2>2, <2>3, <2>4, <2>5, <2>6 DEF Describe
<1>4. CASE Announce
  <2>1. late \/ \A c \in Describers : Does(c, "idle")
    BY <1>4 DEF Announce
  <2>2. eile' \in DemandType
    BY <1>1, <1>4 DEF Announce
  <2>3. QED  BY <1>4, <2>1, <2>2 DEF Announce
<1>5. CASE DemandExpires \/ DemandDelayEnds
  BY <1>5 DEF DemandExpires, DemandDelayEnds
<1>6. QED
  BY <1>2, <1>3, <1>4, <1>5, FilesLeavePurchase DEF PNext, pvars, purchase

LEMMA DemandKept == PSpec => []DemandInv
<1>1. ASSUME PInit PROVE DemandInv
  <2>1. eile \in DemandType  BY <1>1, EmptyDemand DEF PInit
  <2>2. \A d \in Describers : Does(d, "idle")  BY <1>1 DEF PInit, Does
  <2>3. QED  BY <1>1, <2>1, <2>2 DEF PInit, DemandInv
<1>2. QED  BY <1>1, DemandStep, PTL DEF PSpec

\* For any number of describers, while live ones end within their half hour
\* at most one of them is at work on a purchase.
THEOREM DescribesAlone == PSpec => []OneDescriber
<1>1. DemandInv => OneDescriber
  BY DEF DemandInv, OneDescriber
<1>2. QED  BY <1>1, DemandKept, PTL

-----------------------------------------------------------------------------
(* The text of every part whose reading is due is final, or one of the     *)
(* queues knows that it is not.                                            *)

Due(p) == IF p = "file" THEN handed ELSE kid /\ ~Reads("file", "inserted")

Final(p) == text[p] = "final"
InQueue(p) == extraction[p] # "none" \/ ocr[p] \in {"waiting", "used up"}

FilesType ==
    /\ extraction \in [Parts -> {"none", "waiting", "taken", "used up"}]
    /\ reader \in [Parts -> {"idle", "reading", "inserted", "unpacked", "published"}]
    /\ text \in [Parts -> {"none", "without OCR", "final"}]
    /\ ocr \in [Parts -> {"none", "waiting", "done", "used up"}]

PartInv(p) ==
    /\ ~Reads(p, "idle") => extraction[p] = "taken"
    /\ p = "child" => ~Reads(p, "inserted")
    /\ text[p] = "without OCR" => ocr[p] \in {"waiting", "used up"}
    /\ Reads(p, "published") => text[p] # "none" \/ p \in missed
    /\ Due(p) => Final(p) \/ InQueue(p) \/ p \in missed

FilesInv == FilesType /\ \A p \in Parts : PartInv(p)

\* The steps of the purchase and the rest of the download do not touch the
\* files.
LEMMA OthersLeaveFiles ==
  ASSUME \/ Around \/ Announce \/ DemandExpires \/ DemandDelayEnds
         \/ \E w \in Workers : Download(w) \/ DownloadDies(w)
         \/ \E d \in Describers : Describe(d) \/ DescriberDies(d)
  PROVE  UNCHANGED <<files, handed>>
BY DEF Around, Announce, DemandExpires, DemandDelayEnds, Download, DownloadDies, Describe,
       DescriberDies, FreeStuck, DropDescribed, TakePurchase, Take, SaveDescription,
       DeleteDemand, DescribeFails, files, vars, Insert, QueueDownload, ImportStops,
       ReservationExpires, DelayEnds, Pravalyti, ParsiustiPakartotinai, Downloading, Claim,
       NoSpace, Fetch, FetchFails, RecordBox, MarkDownloaded, Dequeue, Throw, MarkFailed,
       Unlock, Crash

LEMMA FilesStep == ASSUME FilesInv, [PNext]_pvars PROVE FilesInv'
<1> USE DEF FilesInv, FilesType, PartInv, Due, Final, InQueue, Parts, Reads
<1>1. CASE UNCHANGED <<files, handed>>
  BY <1>1 DEF files
<1>2. ASSUME NEW w \in Workers, DownloadEnds(w)  PROVE FilesInv'
  BY <1>2 DEF DownloadEnds, HandOver, Queued
<1>3. CASE InsertChild
  BY <1>3 DEF InsertChild, GoOn, vars
<1>4. CASE QueueChild
  BY <1>4 DEF QueueChild, GoOn, Queued, vars
<1>5. ASSUME NEW p \in Parts, Reading(p)  PROVE FilesInv'
  <2>1. CASE TakeText(p)
    BY <1>5, <2>1 DEF TakeText, GoOn, vars
  <2>2. CASE Publish(p)
    <3>1. FilesType' /\ UNCHANGED <<extraction, kid, missed, handed>>
      <4>1. reader' = [reader EXCEPT ![p] = "published"]
            /\ UNCHANGED <<extraction, kid, missed, handed>>
        BY <2>2 DEF Publish, GoOn, vars
      <4>2. /\ text' \in [Parts -> {"none", "without OCR", "final"}]
            /\ ocr' \in [Parts -> {"none", "waiting", "done", "used up"}]
        <5>1. \/ text' = [text EXCEPT ![p] = "final"] /\ ocr' = ocr
              \/ /\ text' = [text EXCEPT ![p] = "without OCR"]
                 /\ ocr' = [ocr EXCEPT ![p] = "waiting"]
          BY <2>2 DEF Publish
        <5>2. text \in [Parts -> {"none", "without OCR", "final"}]
              /\ ocr \in [Parts -> {"none", "waiting", "done", "used up"}]
          BY <1>5
        <5> HIDE DEF Parts
        <5>3. QED  BY <5>1, <5>2
      <4>3. QED  BY <1>5, <4>1, <4>2
    <3>2. /\ reader'[p] = "published" /\ ~Reads(p, "idle")
          /\ p = "child" => Reads(p, "reading")
          /\ p = "file" => Reads(p, "unpacked")
          /\ \/ text'[p] = "final"
             \/ text'[p] = "without OCR" /\ ocr'[p] = "waiting"
      BY <1>5, <2>2 DEF Publish, GoOn
    <3>3. \A q \in Parts : q # p =>
            reader'[q] = reader[q] /\ text'[q] = text[q] /\ ocr'[q] = ocr[q]
      BY <1>5, <2>2 DEF Publish, GoOn
    <3>4. PartInv(p)'
      BY <1>5, <3>1, <3>2
    <3>5. ASSUME NEW q \in Parts, q # p  PROVE PartInv(q)'
      <4>1. PartInv(q)  BY <1>5
      <4>2. Due(q)' => Due(q)
        BY <1>5, <3>1, <3>2, <3>5
      <4>3. QED  BY <3>1, <3>3, <3>5, <4>1, <4>2
    <3>6. QED  BY <3>1, <3>4, <3>5
  <2>3. CASE LeaveExtraction(p)
    BY <1>5, <2>3 DEF LeaveExtraction, GoOn, vars
  <2>4. CASE ReadFails(p) \/ ReadGivenUp(p)
    <3>1. PICK outcome \in {"waiting", "used up"} : Reread(p, outcome)
      BY <2>4 DEF ReadFails, ReadGivenUp
    <3>2. FilesType' /\ UNCHANGED <<text, ocr, kid, handed>>
      BY <1>5, <3>1 DEF Reread, GoOn, vars
    <3>3. /\ reader'[p] = "idle" /\ extraction'[p] = outcome /\ missed \subseteq missed'
          /\ Reads("file", "inserted") /\ p = "file" => "child" \in missed'
          /\ \A q \in Parts : q # p =>
               reader'[q] = reader[q] /\ extraction'[q] = extraction[q]
      BY <1>5, <3>1 DEF Reread, GoOn
    <3>4. PartInv(p)'
      BY <1>5, <3>2, <3>3
    <3>5. \A q \in Parts : q # p => PartInv(q)'
      BY <1>5, <3>2, <3>3
    <3>6. QED  BY <3>2, <3>4, <3>5
  <2>5. CASE OcrResult(p)
    BY <1>5, <2>5 DEF OcrResult, vars
  <2>6. CASE OcrGivenUp(p)
    BY <1>5, <2>6 DEF OcrGivenUp, vars
  <2>7. QED  BY <1>5, <2>1, <2>2, <2>3, <2>4, <2>5, <2>6 DEF Reading
<1>6. QED
  BY <1>1, <1>2, <1>3, <1>4, <1>5, OthersLeaveFiles DEF PNext, pvars, Unpacking, files, vars

\* A description begins only over final texts of the file and of its child,
\* but for what the three queues cannot know (FAILAI_PARUOSTI_SQL).
THEOREM DescribesFinalTexts == PSpec => ReadyMeansRead
<1>1. PInit => FilesInv
  BY DEF PInit, Init, FilesInv, FilesType, PartInv, Due, Reads, Parts
<1>2. ASSUME DemandInv, FilesInv, [PNext]_pvars
      PROVE  [\A d \in Describers : Does(d, "idle") /\ describer'[d] = "describing" =>
                /\ text["file"] = "final" \/ ~handed \/ "file" \in missed
                /\ kid => text["child"] = "final" \/ "child" \in missed]_pvars
  <2> SUFFICES ASSUME PNext, NEW d \in Describers,
                      Does(d, "idle"), describer'[d] = "describing"
               PROVE  /\ text["file"] = "final" \/ ~handed \/ "file" \in missed
                      /\ kid => text["child"] = "final" \/ "child" \in missed
    BY <1>2
  <2>1. FailaiParuosti
    <3>1. UNCHANGED describer => FALSE  BY DEF Does
    <3>2. PICK c \in Describers : Describe(c) \/ DescriberDies(c)
      BY <3>1, FilesLeavePurchase
         DEF PNext, purchase, Announce, DemandExpires, DemandDelayEnds
    <3>3. CASE TakePurchase(c)
      BY <3>3 DEF TakePurchase
    <3>4. CASE ~TakePurchase(c)
      <4>1. describer' = describer \/ describer' = [describer EXCEPT ![c] = "idle"]
              \/ describer' = [describer EXCEPT ![c] = "saved"]
        BY <3>2, <3>4 DEF Describe, DescriberDies, FreeStuck, DropDescribed,
           SaveDescription, DeleteDemand, DescribeFails, Turn
      <4>2. describer'[d] \in {describer[d], "idle", "saved"}
        BY <1>2, <4>1 DEF DemandInv
      <4>3. QED  BY <4>2 DEF Does
    <3>5. QED  BY <3>3, <3>4
  <2>2. \A p \in Parts : ~InQueue(p) /\ Reads(p, "idle")
    BY <1>2, <2>1 DEF FailaiParuosti, InQueue, FilesInv, PartInv
  <2>3. QED
    BY <1>2, <2>2 DEF FilesInv, PartInv, Due, Final, Parts, Reads
<1>3. QED  BY <1>1, <1>2, FilesStep, DemandKept, PTL DEF PSpec, ReadyMeansRead
=============================================================================
