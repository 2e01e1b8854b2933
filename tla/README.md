# A specification of viespirkiai.org's background processing

Viespirkiai collects Lithuanian public procurement data, the files that belong
to it and the legal acts around it. What the site shows is the result of
background work: a task runner calls jobs, jobs take work from queues in
PostgreSQL, download and read files, scrape registers, feed the search index.
Several processes do this at once, any of them may die at any moment, external
readers and nodes come and go, and signals between them may be lost. This
directory specifies that part in TLA+, checks it with TLC and proves the most
important properties with TLAPS. Paths in this file are those of the repository.

- [1 Inventory](#1-inventory)
- [2 Plan](#2-plan)
- [3 Modules and their correspondence to the code](#3-modules-and-their-correspondence-to-the-code)
- [4 Runs](#4-runs)
- [5 Fairness](#5-fairness)
- [6 Findings](#6-findings)
- [7 Proofs](#7-proofs)
- [8 What is not modelled](#8-what-is-not-modelled)

## 1 Inventory

| Component | State it keeps | Operations | What is hard | Correct when |
|---|---|---|---|---|
| Task runner (`runner/`) | desired counts, workers with abort signals, admission entries with their age, `#activeJobs`, cron runs | start, stop, setWorkerCount, wake, admission, job, cooldown, cron | interleaving of promises; no polling timer; lost signals; scaling while jobs run; stop at any time | slots are exact, none is idle beside a waiter, nobody starves, counts converge, stop waits for everything and nothing starts after it |
| Dynamic readers (`tasks/dokNuskaitytojai.js`) | one sync promise | sync table -> setWorkerCount | a failing row in the middle; overlap with stop | every enabled reader gets its count |
| Process start and shutdown (`tasks/index.js`) | flags and a force timer | shutdown | duplicate signals, second signal, forced exit | resources close after the last job |
| Work signals (`utils/natsHub.js`, `utils/taskSignals.js`) | NATS connection | publish, subscribe | at most once, connection lost or late | losing a signal delays, and never loses work |
| File download (`modules/failai/parsi*`, `failuIrasymas.js`) | `files.files`, `files."downloadQueue"`, `files."md5Boxes"`, storage boxes | import, claim, fetch, success, failure, clean, retry | separate statements, crashes, late workers, full boxes | what is shown as downloaded can be served; a request is not lost; a lock ends |
| Text extraction (`modules/failai/nuskaity*`) | `files."extractionQueue"`, `dataExtraction`, `infoFiles`, content store | queue, claim, read, publish, fail, clean, repeat | as above; state read at the claim and written at the end; two stores | nothing is published before it is stored; one worker per file; files leave the queue settled |
| OCR (`ocrEile.js`, `modules/ocr`, `src/pages/failas/ocr`) | `files."ocrQueue"`, `ocrStatus`, result store | queue, checkout, submit, clean | external nodes, late and repeated results, a transaction with a file in it | one result per reservation; attempts are bounded; exhausted files stay out |
| Purchase descriptions (`modules/viesiejiPirkimai/aprasym*`) | `aprasymaiQueue`, descriptions | queue, free, drop, take, save, fail | waits for three queues that others fill and empty statement by statement | described once its texts are final, by one describer, and in the end |
| e-TAR queue (`modules/eTar/eTarTask*.js`, `store/`) | `scrapeQueue`, progress marks of acts and editions | discover, reconcile, claim, complete, fail, reset; the command line beside it | leases and crashes, late workers, two sources of truth | one holder per lease; a late worker has no say; pending work ends |
| e-TAR editions (`eTarScrape.js`) | the above and a set of reloaded acts per process | scrape an edition, reload its list | tokens that go stale, reloads that race | an edition that left the list is given up, one that did not is retried |
| Quickwit indexing (`quickwit/`) | index queues, the map `quickwit.eilutes`, shards `quickwit.indeksai` | drain, plan, publish, delete, requeue | indexing outside the queue's transaction; a lock cycle through Node; changes that overtake a drain | search shows what the source has, never goes back, and nobody waits in a circle |
| S3 backup (`modules/s3backup`) | SQLite tables of queue, uploads and errors; temporary files; buffers in memory | queue, upload, flush, stop, requeue | no lock column; a cursor that wraps; results kept back; kill at any point | recorded means stored, one worker per file, done means done, nodes independent |
| e-Seimas queue (`modules/eSeimas`) | as e-TAR with a category | the same | the same | the same |
| Documents projection (`modules/documents`) | `documentsQueue`, documents | merge rows, upsert, delete | deletes between enqueue and read | the projection follows the files |
| Sidecar stores (`utils/sidecar*`, `utils/sqliteSidecar*`) | SQLite files, reader threads, waiting promises | read, write, close | threads that die, close with waiters | every promise settles |
| Helpers (`utils/workerPool.js`, `ttlPromiseCache.js`, `postgres/sessionLock.js`) | cursors, cached promises, a connection | | interleaving at awaits | each item once; errors not cached |
| Registers, contracts, risk, web pages | tables | imports, calculations, reads | little concurrency | see section 8 |

How they interact: the task runner calls `parsiustiFaila`, the readers
(`nuskaitytiVienoDokumentoDuomenis`), the cleaners and the e-TAR jobs; these
share nothing in memory except the e-TAR scraper of a process, and meet in
PostgreSQL. A download hands its file to the extraction queue (`iEile`), an
extraction fills the OCR queue (`iOcrEile`) and the documents queue, an OCR
result puts the file back into the extraction queue. OCR nodes are external
clients of two endpoints. A purchase waits in its own queue until none of its
files is in any of these three. Database triggers put a changed object into an
index queue, which drains carry into Quickwit. The backup copies what the boxes
hold, one process per S3 node. Producers publish signals that only hasten what
the cooldowns would find anyway.

The hazards of this code, each at its line with the properties that cover it,
are in `PROJECT.json`.

## 2 Plan

The most central behaviour first; each component's proofs follow its runs.

1. `TaskRunner`: everything else is scheduled by it. `TaskRunnerProofs`.
2. `ExtractionOcr`: two queues, two stores, external nodes; the component with
   the most hazards. `ExtractionOcrProofs`.
3. `DownloadQueue`, `DownloadQueueProofs`.
4. `ETarQueue` with the abstract `JobLease`, refinement checked and proved in
   `ETarQueueProofs`.
5. `HistoricalEditions`, which extends `ETarQueue` and implements it,
   `HistoricalEditionsProofs`.
6. `IndexDrain`: the drains of an index queue, the map of live rows, shards,
   requeueing and the row locks between them; the abstract `SearchCopy`.
   `IndexDrainProofs`, with the refinement.
7. `FilePipeline`: `DownloadQueue`, a coarser extraction and OCR with an
   archive's child, and the purchase description that waits for all three
   queues. `FilePipelineProofs`, which show that it implements `DownloadQueue`.
8. `S3Backup`: the upload process, its tables and temporary files.
   `S3BackupProofs`.

All of it is done. What was considered and left out, with the reason, is in
section 8. Parameters are CONSTANTS with named assumptions, operations are
actions of their own and no module uses a RECURSIVE operator, so that every
module can be proved about.

## 3 Modules and their correspondence to the code

`PROJECT.json` maps each definition to its lines. In general: one SQL statement
outside a transaction is one step, a transaction is one step at its COMMIT when
its locks make it so (the OCR submission is in two steps because it also writes
to a file store), and a run-to-completion segment of the event loop is one
step. A process dies by losing what its workers remember.

**TaskRunner.** A worker is a slot `<<task, index>>`, the code's `task#index`.
`pc` follows `Worker.#run`: `stagger`, `waiting` (an admission entry), the job
in three places (`job`, then `found` or `empty` after it has looked into its
durable queue), `sleep` (a cooldown), `resume` (a promise that is settled and
whose continuation has not run), `leaving` (the loop is over, `onStopped` has
not run). `QueueAndDispatch` is `#waitForAdmission` with the `#dispatch` it
calls; since entries age alike, the order of two entries is fixed when the
later one is queued and is kept in `ahead`. `Reconcile` is `#reconcileWorkers`;
stopping workers keep occupying their slot, as the map `#workers` does.
`JobReturnsMore` is one segment that releases, dispatches, queues again and
dispatches again. `pending` stands for the durable work a job looks for;
`Wake` is a signal that arrives.

**ExtractionOcr.** One PDF file. `queue`, `extraction`, `text`, `ocrQueue`,
`ocr` are its rows in `extractionQueue`, `dataExtraction`, `infoFiles`,
`ocrQueue`, `ocrStatus`; `stored` is what the content and result stores have.
A worker goes through `paimtiNuskaitymui`, the request to the reader, the
content store and the statements of `pazymetiNuskaityta`; it remembers the OCR
status it read at the claim (`seen`). `submit` is the open transaction of
`submit.ts` with the decision `iEile` has taken in it; statements on rows it
has locked wait. Of the two cleaners called pravalytiOcrRezervacijas the model
has the one that is registered last (`tasks/misc.js:141`). `CountAttempt` has
PostgreSQL's semantics of a row updated and deleted in one statement (section
6). `given`, `results` and `overran` are history.

**DownloadQueue.** One file from its import on. `Claim` puts the next attempt
off at once, as `paimtiParsiuntimui` does. The three statements of
`pazymetiParsiusta` and the two of `pazymetiKlaida` are steps; `Throw` is an
error in any of them; `NoSpace` leaves the `try` and the row locked.

**ETarQueue** and **JobLease.** One kind of job. `progress` is the mark in
`legalActScrape` or `edition` (absent, pending, done), the rest is the row of
`scrapeQueue`. The abstract `JobLease` knows no tokens: a job has a holder or
none, only the holder finishes or fails it, and it is taken over only when it is
overdue. The refinement maps the holder of a job to the worker whose token the
row has. `Relist` is `saveEditionList`; `CommandLineScrape` and
`ResetScrapeMarks` are what operators do beside the queue.

**HistoricalEditions.** Extends ETarQueue by the steps inside a job for a
historical edition: the request, the stale-token answer, the set
`sąrašaiAtnaujinti`, the reload and the check `editionExists`; and by the stage
that scrapes edition lists, whose answer can be old when it is saved. An
edition is a pair of itself and the generation of its token; `Reissue` gives the
act's editions tokens of the next generation, as often as MaxGeneration lets it.
`outdated` and `reissued` are history: what has happened since the act was
marked as reloaded. Every step is a step of ETarQueue or leaves it alone
(`QueueSpec`).

**IndexDrain** and **SearchCopy.** One table's objects. `version` and `present` are the source
row, `waiting` the queue rows nobody has locked, `eilutes` the map that decides
what search shows, `indeksai`, `current` and `iterptos` the shards. A drain
goes from `Claim` (its transaction is open from here on, so its rows are in
`worker[w].rows`) over `Fetch`, the plan of `indexDocs` and its short
publishing transaction `Publish`, which happens on another connection, to the
deletes and the `Commit`. Which rows of `quickwit.indeksai` an open
transaction has locked, and whom the next statement waits for, is derived
(`Locked`, `Published`, `WaitsFor`); a statement that waits is an action that
is not enabled. `Mine` says which keys a drain may claim: disjoint sets for
`runShardedDrain`, all keys for the workers of a TaskRunner task.
`MarkShards` and `ReplaceRows` are `requeueIndexes`. The abstract `SearchCopy`
knows the source, what is shown and which objects are owed something (`owed`,
mapped to the keys some queue row, waiting or claimed, is about): a change owes,
`Serve` shows owed objects in a newer version, `Settle` hides what is gone and
stops owing only where search agrees with the source, `Again` is a requeueing.

**FilePipeline.** Extends DownloadQueue by what follows a download. `DownloadEnds`
is DownloadQueue's `HandOver` with the `iEile` it calls. The reading of a file
and OCR are kept to the steps another queue can see (rows appearing and
disappearing, the text that is published); an archive's reader inserts a child
and queues it in two steps. `eile` is the purchase's row, a describer frees
stuck rows, drops rows of described purchases, takes a row when
`FAILAI_PARUOSTI_SQL` finds no file in a queue, saves and deletes. `missed`
remembers the files that are due to be read and got no row, which no queue can
tell.

**S3Backup.** One action is what a worker does up to its next await. `process`
is what an upload process has in memory: the buffer of the batch, `vykdomi`,
the cursor `poMd5`, unflushed results, its flags. `Papildyti` takes the next
batch and wraps round; `FlushAndTake` and `Take` are the loop with and without
a flush, since the second that must have gone by is open; a file over
`inlineMaxBytes` goes through `temp`, the name `<md5>.part` that processes of
the same host share: who opened the file last and whether it is whole is all
that is kept of it. `shared` is history, the files two processes had in hand
under that name at a time. A crash may leave an upload that S3 has completed.

**MCQueues.** DownloadQueue with instances of ExtractionOcr and ETarQueue beside
it, with small constants, for the questions that ask for fairness. `service`
says which of them a behaviour is about.

A definition marked "Mutation" changes the definition after it the way a
plausible bug would. It is used by no specification; the property it is made
for fails when it takes the place of that definition.

## 4 Runs

| Run | Instance | Bounds | States |
|---|---|---|---|
| task_runner | a task of priority 1 with one worker, a dynamic one of priority 3 with up to two, one cron task, one gate slot | MaxIndex 2, AgeCap 2 (the largest difference of priorities), two scalings | 11 thousand |
| extraction_ocr | two workers, one node, with the emergency tool | MaxAttempts 2, no new reservation after 1 result | 3.0 million |
| queues | one of: two download workers; an extraction worker and a node, with unreadable OCR texts; an e-TAR worker with three tokens and one act or one edition | MaxAttempts 2, no new reservation after 1 result, MaxFailures 2 | 71 thousand |
| pipeline | a file and its child, one download worker, two describers | MaxAttempts 1 | 456 thousand |
| editions | two workers, two tokens, an edition of the first list and one of the second | two reissues, MaxFailures 1 | 211 thousand |
| index | two drains with a key each, one of which may be deleted and return | MaxVersion 3, ShardSize 1, MaxShards 2 | 2.2 million |
| backup | one node, two workers, a small and a big file | MaxRetries 2, BatchSize 1, FlushRows 2, one clearing of marks | 56 thousand |
| extraction_ocr_exhausted, index_unsharded, editions_second_reissue, backup_never_ends, backup_two_nodes | what shows the finding | | |

What the properties say is above each of them in the modules. In short:

- *task_runner*: `SlotAccounting`, `WorkConserving`, `StopWaitsForAll`,
  `CountsBracketed`, `NothingStartsAfterStop`, `ReplacementsWait` for safety; `WorkIsTaken`,
  `NoStarvation`, `ScalingConverges`, `StopCompletes` for progress.
- *extraction_ocr*: `StoredFirst`, `OneResultPerReservation`, `OneExtractor`,
  `LeavesQueueSettled`, `RecommendedIsQueued`, `ExhaustedStaysOut`.
- *queues*: `DownloadedIsServable`, `RequestOutlivesTheWork`, `OneDownload`,
  `TriedAgain` of the download; `ExtractionEnds`, `OcrEnds`; `PendingEnds` of
  e-TAR.
- *pipeline*: `OneDescriber`; `ReadyMeansRead`, what the comment "Paruošta =
  failo nėra nė vienoje iš trijų eilių" comes to, with the exceptions it has;
  `DescribedInTheEnd`.
- *editions*: `OneHolder`, `OneScraper`, the refinements `QueueSpec` and
  `LeaseSpec`, `OneReloadServesAll`.
- *index*: `Mirrored`, the refinement `SearchSpec` (of which `NeverGoesBack` is a
  part), `DeadNotNegative`, `WaitedForGoesOn`.
- *backup*: `OneHolder`, `RecordedUnlessShared`, `DoneMeansDone`, `StopEnds`,
  `GetsThrough`.

In *queues* a behaviour takes up one queue and lets the others stand still. They
share no row and no worker, so that what a queue does beside the others is what
it does alone, and the fairness is the one each module states, for the queue
that is taken up.

Why the bounds are enough. One gate slot makes every admission contended; with
two indexes a task has a replacement that must wait for a stopping worker; two
scalings are a down and an up. Two workers are a late one and its successor; a
third, which takes the row that a late worker frees under a second, is left to
the theorems of DownloadQueueProofs. Attempts only count up to a limit; 2 is a
limit that is not reached at once. One result lets a node repeat it and an
extraction overlap it. In *pipeline* what several downloads do to each other is
left to *queues*; one failure more or less of a describer changes nothing it
compares. In *editions* a row that fails once is used up, and the second of two
reissues can find the act marked as reloaded, by the same process or, after a
restart, not. In *index* a shard of one document is full at once, so that every
write moves to another shard; three versions are one shown, one read and one
that overtakes it; the last shard is never full and never requeued, as there
would be no next one. In *backup* a batch of one makes the cursor wrap while the
other file is in hand, two results make a flush due or not; what several nodes
do to each other in `temp` is in *backup_two_nodes* and, for
`RecordedUnlessShared`, in its theorem. Symmetry is used on workers, nodes,
tokens and acts in runs without liveness properties. Deadlock is checked for the
editions and the backup, where there is always a next step; elsewhere the system
may really come to rest, and the comment in the configuration or below says
when: the runner stops after `stop()`, and one file's processing ends.

`overran` (and `late` in the pipeline and e-TAR) in a property means "a live
worker has outlasted its reservation". The code bounds that time only in part
(nine minutes against fifteen for a download; for a reader only the timeouts
Node's fetch has by itself, for a describer none), so these properties say what holds as long as it
has not happened, and say nothing after. `StoredFirst`, `DownloadedIsServable`,
`RequestOutlivesTheWork`, the e-TAR `OneHolder`, `LeaseSpec`,
`OneResultPerReservation`, `OneReloadServesAll` and everything about the index
and the backup hold without it.

## 5 Fairness

- *TaskRunner*: settled promises run, timers fire, jobs and cron runs end
  (weak fairness of each). A worker admitted again and again looks into its
  queue at last, that is, its job does not throw before it every time (strong
  fairness of `JobLooks`). Nothing is assumed of signals, producers, scaling,
  failures or `stop()`.
- *ExtractionOcr*, *DownloadQueue*: the runner calls workers and cleaners again
  and again (`tasks/failai.js`, cooldowns of 5 and 60 s) and time passes, so
  every enabled worker step, expiry and cleaner step is weakly fair. The OCR
  cleaner needs strong fairness: an open submission locks the row it wants, and
  it comes every minute while submissions are short. Crashes, refusals and
  nodes that stop owe nothing, and may happen every time.
- *FilePipeline*: nothing is asked of the download; a file that is never
  downloaded keeps its purchase waiting, which `DescribedInTheEnd` allows. The
  readings together, the describers together and the clock are weakly fair,
  which promises no file and no describer a turn of its own; readings that fail
  again and again use up attempts (`ExtractionEnds` of ExtractionOcr is the
  reason), and a describer whose model is asked again and again is answered
  once.
- *S3Backup*: the event loop comes to every continuation and downloads time
  out, so each worker's steps are weakly fair, and so is the end of a process
  whose workers have returned. Nobody has to start or stop a process, and the
  flush may always come too soon.
- *IndexDrain* has safety properties only: what a drain fails at, it may fail at
  for ever.
- *ETarQueue*: time passes; rows are claimed oldest first, so each claimable row
  is claimed at last; reconciliation happens between claims; a job that is
  claimed again and again does not kill its process every time before it is
  saved or fails, nor before the failure is written.

## 6 Findings

Each is a run that expects its violation; `PROJECT.json` quotes the lines.

- **extraction_ocr_exhausted.** "Viršijus ribą eilutė pašalinama" is not what
  happens: the statement updates and deletes the same row, and PostgreSQL
  performs only the update. Rows whose attempts are used up stay in the
  extraction and OCR queues. The file is never queued again and a purchase that
  waits for its files waits for ever.
- **index_unsharded.** `tasks/documents.js`, `sutartys.js` and
  `viesiejiPirkimai.js` start several drains of one queue without shards, which
  `tasks/misc.js:287-289` explains must not be done. Two drains can then hold
  different changes of one object; an object that is gone stays in search, or
  one that is there is missing.
- **backup_never_ends.** The last results of an upload process are flushed only
  if a second has gone by when they come. If not, their md5 stay in `vykdomi`,
  and the process, which a comment says ends, sleeps and asks for ever.
  Nothing is lost: a signal ends it and records them (`StopEnds`).
- **editions_second_reissue.** The comment over `sąrašaiAtnaujinti`
  (`eTarScrape.js:107-110`) promises that one reload of an act's list serves all
  jobs that meet stale tokens. The set is never cleared: after a second reissue
  in the life of a process nobody reloads, the edition is still listed when its
  job looks, and the job fails, until its failures are used up, the list stage
  comes by or the process restarts. What the code keeps is `OneReloadServesAll`,
  up to the next reissue.
- **backup_two_nodes.** `s3backup/README.md:122-123` says that an archive can be
  uploaded to several S3 nodes independently. The processes of two nodes on one
  host share `<md5>.part` and empty the directory at their start, as if what is
  in it were nobody's (`s3backupUpload.js:399`). One can upload what the other
  has just truncated: the md5 compared is that of the stream, an upload in parts
  has no checksum of the whole, and the file is recorded. `RecordedUnlessShared`
  says that nothing else spoils an object.

Met while modelling, and not a disagreement with anything the code says of
itself, so no run is made of it:

- An OCR result accepted while an extraction of its file is under way is not
  read: `iEile` does nothing because the row is there, and the extraction then
  marks the file current and deletes the row (`missed` in FilePipeline).
- An error after the download row was deleted marks a downloaded file as failed,
  with no row to retry it; `parsiustiPakartotinai` is the way back.
- A crash between the insertion of files and their queueing, or between the end
  of a download and `iEile`, leaves a file in no queue.
- `requeueIndexes` locks rows of `quickwit.indeksai` and then deletes queue rows
  that a drain may hold, while that drain's publication waits for those very
  rows of `quickwit.indeksai`, on another connection: the kind of circle the
  comment over the drain's deletes excludes among drains (`WaitsForTool` and
  `ToolWaitsFor` can hold at once). It ends when the tool is stopped.
- An insert and a delete of one key claimed in one batch count as a delete, also
  when the insert is the later one: an object that was deleted and came back is
  missing from search until its next change (`Returning` in `Mirrored`).

## 7 Proofs

`tlapm` checks every step. The theorems hold for every value of the constants
that satisfies the named assumptions of their modules: `RunnerAssumption`,
`PipelineAssumption` (of ExtractionOcr and of FilePipeline), `QueueAssumption`,
`DrainAssumption`, `BackupAssumption`; `DownloadQueue` has none. One assumption
is a hypothesis of single theorems: `Disjoint` (drains share no key).

- **TaskRunnerProofs.** `TypeCorrect`, `SlotsExact`, `NoIdleSlot`,
  `StopIsComplete` and `GracefulStop` for any tasks, priorities, counts and gate
  size. The inductive invariant joins `SlotAccounting` and `WorkConserving` with
  what they rest on: only a worker in a job or on its way out has been aborted
  (`AbortInv`), so a waiter is never admitted after its abort; after a stop
  nothing is wanted and every worker left has been aborted (`ShutdownInv`);
  `stop()` waits for everything that is still there (`AwaitInv`).
  `WorkConserving` needs that the winners of a dispatch are as many as there are
  free slots or waiters, `DispatchLemma`, which all actions that dispatch cite.
  `GracefulStop` follows because a stopped runner has no free slot to give
  (`StoppedDispatch`). (Types have a theorem and no run of their own.)

  *Scaling.* `CountsHeld` and `NoOvershoot` rest on `CountsInv`, which is
  `CountsBracketed` and that nobody runs before the start. `ReconcileCounts` is the core: `Surplus` is the last so
  many workers that are not stopping and `Missing` the first so many free
  indexes, so reconciliation leaves `desired` workers that are not stopping, or
  fewer and `desired` in all. That "the first n" are n needs the lemmas on
  finite linear orders (`FirstMember`, `ClosedUnique`): an initial segment is
  determined by its size, and there is one of every size.

  *Admission.* `AdmissionIsOrdered`: `ahead` is a linear order of the waiters in
  every state. It is a comparison of priority plus age made when an entry is
  queued; `OrderInv` adds that of two entries the one ahead has no lower score
  or has aged to the cap, which `Order` needs of the older entries to place the
  newer ones transitively. From it `DispatchIsDetermined` (the winners of a
  dispatch exist and are unique, so that the model's `\E S` hides no choice and
  blocks no step) and `AgedAreNotOvertaken`, the safety half of
  `NoStarvation`: the set before an aged entry only shrinks.

  *Stop.* `StopAwaitsWhatEnds`, the safety half of `StopCompletes`: `awaited` is
  in every state exactly what has yet to end, so `stop()` neither misses a
  worker nor waits for one that is gone.
- **ExtractionOcrProofs.** `TypeCorrect`, `StoresFirst`, `OneResult`,
  `ExtractsAlone`, `LeavesSettled`, `RecommendedKept` and `ExhaustedKept`, all
  from one inductive invariant of seven parts, each preserved by a lemma of its
  own that may use the others. `StoredInv`: what a worker is about to point at
  has been stored. `ResultInv`: a node that may still submit has a reservation
  no result has come for. `AttemptsInv`: the count in the queue's row is not
  behind that in ocrStatus, which is why the one paimtiOcr asks is enough.
  `AloneInv`: while no extraction is late, an active worker is alone and its row
  in the queue, locked and not expired, and a submission that has found no row
  keeps others from making one; `SettledInv` and `RecommendedInv` say what such
  a lone worker has done so far and finds undisturbed.
- **DownloadQueueProofs.** `Servable` needs that a worker past `Fetch` has its
  content in a box and one past `RecordBox` has it recorded (`ContentInv`);
  `RequestKept` follows from it. `DownloadsAlone` needs that, while nobody
  has outlasted a reservation, an active worker either has the row locked, or
  has taken it out and is the last one to work on the file (`AloneInv`).
- **FilePipelineProofs.** `PipelineDownloads`: every step of the pipeline is a
  step of DownloadQueue or changes none of its variables, so that its theorems
  hold in the pipeline (`PipelineServable`). `DescribesAlone` rests on
  `DemandInv`: a describer at work has the row, locked and not expired, as long
  as none is late. `DescribesFinalTexts` rests on `FilesInv`: a file that is in
  no queue has its final text or is one of those no queue can know of.
- **ETarQueueProofs.** `SingleHolder` needs that tokens are unique: a busy
  worker's token is on no other worker and on no other row. `ScrapedAlone` needs
  that a busy worker holds its row as long as nobody has outlasted a lease, and
  is invariant under relisting and resets since these leave the queue alone.
  `Refinement` maps each action to one of `JobLease` or a stutter; the lemmas
  `HolderIs` and `HolderStays` say what the mapped holder is, and a late worker's
  report is a stutter.
- **HistoricalEditionsProofs.** `EditionsImplementQueue`: each inner step is
  a step of ETarQueue or changes none of its variables; with `Refinement` it
  follows that editions keep leases. `EditionTypes` are its types.
  `ReloadServesAll`, for any number of reissues, needs that what is listed,
  queued or worked on has been listed by e-TAR (`ListedInv`), and that from the
  moment the act is marked as refreshed its list is being reloaded, or is
  reloaded and stays so, unless that reload failed, an older answer was saved
  after it or the tokens were reissued again (`MarkInv`).
- **IndexDrainProofs.** `TypeCorrect` (there is always a shard to publish to),
  `DrainsGoOn` and `TombstonesCounted` (a batch counts at least what it moves
  into its shard, and what leaves a shard stays counted) for any drains.
  `MirrorKept`, `NoOlderVersion` and the refinement `SearchFollows` under
  `Disjoint`. `Mirrored` alone is not inductive: a drain that has read and not
  yet published must have read a version that is not newer than the source
  (`Dated`) and not older than what is shown, and what changed since must have
  left a queue row (`Current`, `Gone`); a key no longer wanted is about to be
  removed (`Lost`). Rollbacks and requeueing only add queue rows, which is why
  they are harmless. `SearchFollows` maps each step to one of `SearchCopy` or a
  stutter: a change to `Write` or `Remove`, `Publish` to `Serve`, `Commit` to
  `Settle`, `ReplaceRows` to `Again`, and the claim, reading, planning and a
  rollback to nothing, since the same keys stay owed (`ClaimPending`,
  `BatchKeepsRows`, `RollbackPending`).
- **S3BackupProofs.** `TypeCorrect`, `NobodyTakesTwice`, `DoneIsDone` for any
  processes, workers and batch sizes. The
  invariant `Consistent` says that the buffer, what workers have and the
  unflushed results are disjoint and together `vykdomi`, that results are of
  files tried less often than maxRetries, and that a process is done only when
  nothing of the queue is left. `Least` and `Greatest` show that the CHOOSEs of
  the batch mean what they say for a finite set. From the same invariant
  `NoUploadTwice` (a batch takes only what is not recorded, and a flush takes out
  of hand what it records) and `SignalIsHeeded`. `RecordsAreTrue`, for any number
  of nodes, rests on `Good`: the file of an md5 that is not in `shared`, while a
  process is at it, was opened by that process last (`Own`), so that it is whole
  once the process has spilled it; and a file another process removes can only
  be missing.

Only model-checked: the liveness properties (`WorkIsTaken`, `NoStarvation`,
`ScalingConverges`, `StopCompletes`, `ExtractionEnds`, `OcrEnds`, `TriedAgain`,
`DescribedInTheEnd`, `PendingEnds`, `StopEnds`, `GetsThrough`), since the prover
does no reasoning about fairness and ENABLED. Where their safety halves say
something of their own they are proved: `AgedAreNotOvertaken`, `CountsHeld`,
`StopAwaitsWhatEnds`, `SignalIsHeeded`. Every safety property of a passing run
has a theorem. There is no induction over data in these modules.

## 8 What is not modelled

Components without a module are listed in `PROJECT.json` with the reason. Most
of the repository by lines is of a kind there is nothing to check about with
these means: some hundred parsers and importers of registers, each a conversion
and one statement or transaction, and the pages and queries of the web site,
which only read. What coordinates processes is modelled; it is a few thousand
lines.

Considered and left out:

- *Signal handler of `tasks/index.js`*: decided by clocks (a second signal
  within or after a second, a forced exit); for the other modules it is a crash
  or a stop.
- *`sqliteSidecarPoolas.js`*: threads are replaced one for one and every request
  has one answer or one error. `close()` forgets the reads that wait, against
  its comment, but is called at the end of a process only.
- *`ttlPromiseCache.js`*, *`workerPool.js`*, *`sessionLock.js`*: a few lines
  each, used by reads and by scripts run by hand.
- *Documents projection*: one worker and one transaction from the claim to the
  delete; nothing can come between.
- *e-Seimas queue*: the same code as e-TAR's with one more column.
- *`dokNuskaitytojai.js`*: a row with an unusable concurrency stops the
  synchronisation of the rows after it; a type error and no interleaving.
- *Statistics*, among them the counter of an OCR node, which is raised twice for
  one result: nothing is decided by them.

Within the modelled components: registration of tasks and the disabled list;
deleting a file; several files that share one content; the choice of boxes and
readers; the content of texts, documents and results beyond what the properties
tell apart; photos; NATS itself; the order in which rows of different files are
taken; the days of e-TAR discovery; purchases of several files; whole shards
being deleted, and the delay until Quickwit shows what it has accepted, during
which an object is missing from search and shown again by itself; `--limit`,
verification and listing scripts of the backup. A PostgreSQL connection that
fails is a statement that throws.
