------------------------------ MODULE MCQueues ------------------------------
(***************************************************************************)
(* The queue of the download and, beside it, those of the extraction with  *)
(* OCR and of e-TAR, this one with a job of either kind, each with small   *)
(* constants.  Here is asked whether each gets through its work.  They     *)
(* share no row and no worker, so that what one of them does is what it    *)
(* does beside the others: TLC takes up one at a time, service, and lets   *)
(* the others stand still.                                                 *)
(***************************************************************************)
EXTENDS DownloadQueue

CONSTANTS Extractors, Nodes, None, Attempts, Results, Scrapers, Job, Tokens, NoToken,
          NoJob, Nobody

VARIABLES
    service,
    queue, extraction, text, stored, ocrQueue, ocr, extractor, node, submit,
    tool, given, results, lateExtraction,
    progress, queued, token, failures, backoff, expired, scraper, lateScrape

extracting == <<queue, extraction, text, stored, ocrQueue, ocr, extractor, node,
                submit, tool, given, results, lateExtraction>>
eTar == <<progress, queued, token, failures, backoff, expired, scraper,
          lateScrape>>

Extraction == INSTANCE ExtractionOcr WITH
    Workers <- Extractors, MaxAttempts <- Attempts, MaxResults <- Results,
    MayRepeat <- FALSE, ReadsFail <- TRUE,
    worker <- extractor, overran <- lateExtraction

\* A queue of acts, and one of editions.
Acts == INSTANCE ETarQueue WITH
    Jobs <- {Job}, Editions <- {}, Workers <- Scrapers, MaxFailures <- Attempts,
    worker <- scraper, overran <- lateScrape

Editions == INSTANCE ETarQueue WITH
    Jobs <- {Job}, Editions <- {Job}, Workers <- Scrapers, MaxFailures <- Attempts,
    worker <- scraper, overran <- lateScrape

QueuesInit ==
    /\ service \in {"download", "extraction", "acts", "editions"}
    /\ Init /\ Extraction!Init /\ Acts!Init

Fetching == service = "download"
Reading  == service = "extraction"
Scraping == service \in {"acts", "editions"}

QueuesNext ==
    \/ Fetching /\ Next /\ UNCHANGED <<service, extracting, eTar>>
    \/ Reading /\ Extraction!Next /\ UNCHANGED <<service, vars, eTar>>
    \/ service = "acts" /\ Acts!Next /\ UNCHANGED <<service, vars, extracting>>
    \/ service = "editions" /\ Editions!Next
         /\ UNCHANGED <<service, vars, extracting>>

\* The fairness that FairSpec of DownloadQueue, ExtractionOcr and ETarQueue
\* states and justifies, for the queue that is taken up; none of e-TAR's
\* depends on Editions.
QueuesSpec ==
    /\ QueuesInit /\ [][QueuesNext]_<<service, vars, extracting, eTar>>
    /\ \A w \in Workers : WF_vars(Fetching /\ WorkerStep(w))
    /\ WF_vars(Fetching /\ ReservationExpires)
    /\ WF_vars(Fetching /\ DelayEnds)
    /\ WF_vars(Fetching /\ Pravalyti)
    /\ \A w \in Extractors : WF_extracting(Reading /\ Extraction!WorkerStep(w))
    /\ \A n \in Nodes : WF_extracting(Reading /\ Extraction!NodeStep(n))
    /\ WF_extracting(Reading /\ Extraction!ReservationExpires)
    /\ WF_extracting(Reading /\ Extraction!PravalytiNuskaityma)
    /\ WF_extracting(Reading /\ Extraction!OcrReservationExpires)
    /\ SF_extracting(Reading /\ Extraction!PravalytiOcr)
    /\ \A w \in Scrapers :
         /\ WF_eTar(Scraping /\ Acts!WorkerStep(w))
         /\ SF_eTar(Scraping /\ Acts!ClaimNothing(w))
         /\ SF_eTar(Scraping /\ Acts!Reconcile(w))
    /\ WF_eTar(Scraping /\ Acts!LeaseEnds(Job))
    /\ WF_eTar(Scraping /\ Acts!BackoffEnds(Job))
    /\ SF_eTar(Scraping /\ \E w \in Scrapers : Acts!Claim(w, Job))
    /\ SF_eTar(Scraping /\ \E w \in Scrapers :
                 Acts!Save(w) \/ Acts!FindGone(w) \/ Acts!Throw(w))
    /\ SF_eTar(Scraping /\ \E w \in Scrapers : Acts!Fail(w))

-----------------------------------------------------------------------------
(* Properties: those of DownloadQueue, and of the other two queues.        *)

\* A file in the extraction queue is extracted or has used up its attempts,
\* though crashes leave its row locked (paimtiNuskaitymui, its cleaner).
ExtractionEnds == Reading => Extraction!ExtractionEnds

\* A file in the OCR queue gets its result or uses up its attempts, though
\* nodes take it at checkout and never submit.
OcrEnds == Reading => Extraction!OcrEnds

\* A pending e-TAR job is scraped, vanishes or has failed as often as it may,
\* over crashed scrapers, failing failETarJob and resets (claimNextETarJob).
PendingEnds == Scraping => Acts!PendingEnds
=============================================================================
