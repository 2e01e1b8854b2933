---------------------- MODULE HistoricalEditionsProofs ----------------------
(***************************************************************************)
(* The historical editions are an instance of the queue, so what is proved *)
(* of the queue holds of them; and from the moment an act is marked to the *)
(* next reissue of its tokens, whoever met a stale one finds its edition   *)
(* off the list.                                                           *)
(***************************************************************************)
EXTENDS HistoricalEditions, ETarQueueProofs

\* Saving an edition list is something ETarQueue allows at any moment, old or
\* new.
LEMMA RelistIsNext ==
  ASSUME NEW list \in SUBSET Jobs, Relist(list)
  PROVE  Next
BY HistoricalAssumption DEF Next

\* A step of scraping one edition is a step of the queue's worker, a reload of
\* the list, or nothing the queue can see.
LEMMA WorkStep ==
  ASSUME NEW w \in Workers, Work(w)
  PROVE  Next \/ UNCHANGED vars
<1>1. CASE Fetch(w) \/ FetchStale(w)
  BY <1>1 DEF Fetch, FetchStale
<1>2. CASE SaveEdition(w) \/ Check(w) \/ FetchFails(w) \/ RefreshFails(w)
  <2>1. Save(w) \/ FindGone(w) \/ Throw(w)
    BY <1>2 DEF SaveEdition, Check, FetchFails, RefreshFails
  <2>2. QED  BY <2>1 DEF Next, WorkerStep
<1>3. CASE Refresh(w)
  BY <1>3, RelistIsNext, Current \in SUBSET Jobs DEF Refresh, Current
<1>4. QED
  BY <1>1, <1>2, <1>3 DEF Work

\* However many workers reload the list, and whatever fails, the queue sees
\* only steps of its own: a job ends without content only if its edition is
\* off the list.
THEOREM EditionsImplementQueue == HSpec => QueueSpec
<1>1. HInit => Init
  BY DEF HInit
<1>2. [HNext]_hvars => [Next]_vars
  <2> SUFFICES ASSUME [HNext]_hvars  PROVE Next \/ UNCHANGED vars
    OBVIOUS
  <2>1. ASSUME NEW w \in Workers, QueueStep(w)  PROVE Next
    <3>1. CASE Crash({w})
      BY <3>1 DEF Next
    <3>2. QED
      BY <2>1, <3>1 DEF QueueStep, Next, WorkerStep
  <2>2. ASSUME NEW w \in Workers, Work(w)  PROVE Next \/ UNCHANGED vars
    BY <2>2, WorkStep
  <2>3. CASE TimeOrOperator
    BY <2>3 DEF TimeOrOperator, Next, JobStep
  <2>4. CASE Reissue \/ ResetEditions \/ RequestList
    BY <2>4 DEF Reissue, ResetEditions, RequestList
  <2>5. CASE ListEditions
    <3>1. PICK generation \in listing :
            Relist({j \in Jobs : Generation(j) = generation})
      BY <2>5 DEF ListEditions
    <3>2. QED  BY <3>1, RelistIsNext
  <2>6. CASE Restart
    <3>1. {w \in Workers : Busy(w)} \in SUBSET Workers
      OBVIOUS
    <3>2. QED  BY <2>6, <3>1 DEF Restart, Next
  <2>7. CASE UNCHANGED hvars
    BY <2>7 DEF hvars
  <2>8. QED
    BY <2>1, <2>2, <2>3, <2>4, <2>5, <2>6, <2>7 DEF HNext
<1>3. QED
  BY <1>1, <1>2, PTL DEF HSpec, QueueSpec, Spec

\* A worker that is late with an edition changes nothing in the queue.
THEOREM EditionsKeepLeases == HSpec => LeaseSpec
BY EditionsImplementQueue, Refinement, PTL DEF QueueSpec

-----------------------------------------------------------------------------
(* Stale tokens.                                                           *)

\* What is listed, queued or worked on has been listed by e-TAR.
ListedInv ==
  /\ \A j \in Jobs : progress[j] # "absent" \/ j \in queued => Generation(j) =< source
  /\ \A w \in Workers : Busy(w) => Generation(JobOf(w)) =< source
  /\ listing \subseteq 0 .. source

\* The act is marked by the first worker with a stale token; from the mark on the
\* list is being reloaded, or is reloaded and stays so until the next reissue.
\* A stale token stays stale.
MarkInv ==
  /\ \A w \in Workers : inner[w] \in {"refreshing", "checking"} =>
       refreshed /\ JobOf(w) \notin Current
  /\ \/ ~refreshed \/ outdated \/ reissued
     \/ \E w \in Workers : inner[w] = "refreshing"
     \/ \A j \in Jobs \ Current : progress[j] = "absent"

EditionInv == IInv /\ HTypeOK /\ ListedInv

LEMMA GenerationType ==
  /\ MaxGeneration \in Nat
  /\ \A j \in Jobs : Generation(j) \in Nat
BY HistoricalAssumption

LEMMA EditionsBegin == HInit => HTypeOK /\ ListedInv /\ MarkInv
<1> SUFFICES ASSUME HInit  PROVE HTypeOK /\ ListedInv /\ MarkInv
  OBVIOUS
<1>1. Init /\ TypeOK
  BY InitIInv DEF HInit, IInv
<1>2. \A w \in Workers : ~Busy(w)
  BY <1>1 DEF Init, Busy, Idle
<1>3. HTypeOK
  <2>1. source \in 0 .. MaxGeneration /\ listing \subseteq 0 .. MaxGeneration
    BY GenerationType DEF HInit
  <2>2. {listDue, refreshed, outdated, reissued} \subseteq BOOLEAN
    BY Zenon DEF HInit
  <2>3. inner \in [Workers -> InnerSteps] /\ \A w \in Workers : inner[w] = "none"
    BY DEF HInit, InnerSteps
  <2>4. QED  BY <1>1, <2>1, <2>2, <2>3 DEF HTypeOK
<1>4. ListedInv
  BY <1>1, <1>2, GenerationType DEF HInit, Init, ListedInv
<1>5. MarkInv
  BY DEF HInit, MarkInv
<1>6. QED
  BY <1>3, <1>4, <1>5

\* An inner step is taken by a worker at work, touches no other worker, and leaves
\* it at work or ends.
LEMMA InnerMoves ==
  ASSUME EditionInv, NEW v \in Workers, Work(v)
  PROVE  \E step \in InnerSteps :
           /\ At(v, "working")
           /\ inner' = [inner EXCEPT ![v] = step]
           /\ step # "none" => worker' = worker
           /\ \A w \in Workers : w # v => worker'[w] = worker[w]
<1>1. At(v, "working")
  BY DEF Work, Fetch, SaveEdition, FetchStale, Refresh, RefreshFails, Check, FetchFails, In
<1>2. CASE Fetch(v)
  BY <1>1, <1>2 DEF Fetch, GoIn, vars, InnerSteps
<1>3. CASE FetchStale(v)
  BY <1>1, <1>3 DEF FetchStale, GoIn, vars, InnerSteps
<1>4. CASE Refresh(v)
  BY <1>1, <1>4 DEF Refresh, GoIn, Relist, InnerSteps
<1>5. CASE SaveEdition(v) \/ RefreshFails(v) \/ Check(v) \/ FetchFails(v)
  <2>1. inner' = [inner EXCEPT ![v] = "none"]
    BY <1>5 DEF SaveEdition, RefreshFails, Check, FetchFails, GoIn
  <2>2. Save(v) \/ FindGone(v) \/ Throw(v)
    BY <1>5 DEF SaveEdition, RefreshFails, Check, FetchFails
  <2>3. \A w \in Workers : w # v => worker'[w] = worker[w]
    BY <2>2 DEF Save, FindGone, Throw, Goto, EditionInv, HTypeOK, TypeOK
  <2>4. QED  BY <1>1, <2>1, <2>3 DEF InnerSteps
<1>6. QED
  BY <1>2, <1>3, <1>4, <1>5 DEF Work

\* The queue's own steps are not those of a worker at work.
LEMMA QueueMoves ==
  ASSUME EditionInv, NEW v \in Workers, QueueStep(v)
  PROVE  /\ ~At(v, "working")
         /\ \A w \in Workers : w # v => worker'[w] = worker[w]
<1>1. ~At(v, "working")
  BY DEF QueueStep, Claim, ClaimNothing, Reconcile, ReconciledRecently, Complete, Fail, Crash, At
<1>2. \A w \in Workers : w # v => worker'[w] = worker[w]
  BY DEF QueueStep, Claim, ClaimNothing, Reconcile, ReconciledRecently, Complete, Fail, Crash,
     Rest, Goto, Throw, EditionInv, HTypeOK, TypeOK
<1>3. QED
  BY <1>1, <1>2

\* What has nothing to do with a single worker.
Beside == \/ TimeOrOperator \/ Reissue \/ RequestList \/ ListEditions \/ ResetEditions
          \/ UNCHANGED hvars

LEMMA BesideKeeps == ASSUME Beside PROVE UNCHANGED <<worker, inner, refreshed>>
BY DEF Beside, TimeOrOperator, Reissue, RequestList, ListEditions, ResetEditions, hvars, vars,
   LeaseEnds, BackoffEnds, ResetScrapeMarks, CommandLineScrape, Relist

\* A worker in the middle of a job keeps it, whatever the others do.
LEMMA InsideKeepsJob ==
  ASSUME EditionInv, [HNext]_hvars, NEW w \in Workers, inner'[w] # "none"
  PROVE  At(w, "working") /\ worker'[w] = worker[w]
<1>1. /\ inner[w] # "none" => At(w, "working")
      /\ inner \in [Workers -> InnerSteps]
  BY DEF EditionInv, HTypeOK
<1>2. ASSUME NEW v \in Workers, QueueStep(v)  PROVE At(w, "working") /\ worker'[w] = worker[w]
  <2>1. inner' = inner
    BY <1>2 DEF QueueStep
  <2>2. QED  BY <1>1, <1>2, <2>1, QueueMoves
<1>3. ASSUME NEW v \in Workers, Work(v)  PROVE At(w, "working") /\ worker'[w] = worker[w]
  <2>1. PICK step \in InnerSteps :
          /\ At(v, "working")
          /\ inner' = [inner EXCEPT ![v] = step]
          /\ step # "none" => worker' = worker
          /\ \A u \in Workers : u # v => worker'[u] = worker[u]
    BY <1>3, InnerMoves
  <2>2. CASE w = v
    BY <1>1, <2>1, <2>2
  <2>3. CASE w # v
    BY <1>1, <2>1, <2>3
  <2>4. QED  BY <2>2, <2>3
<1>4. CASE Beside
  BY <1>1, <1>4, BesideKeeps
<1>5. CASE Restart
  BY <1>5 DEF Restart
<1>6. QED
  BY <1>2, <1>3, <1>4, <1>5 DEF HNext, Beside

\* Only a worker at work has an inner step.
LEMMA InnerTypeStep ==
  ASSUME EditionInv, IInv', [HNext]_hvars
  PROVE  HTypeOK'
<1>1. \A w \in Workers : inner'[w] # "none" => At(w, "working")'
  BY InsideKeepsJob DEF At
<1>2. inner' \in [Workers -> InnerSteps]
  <2>1. inner \in [Workers -> InnerSteps] /\ "none" \in InnerSteps
    BY DEF EditionInv, HTypeOK, InnerSteps
  <2>2. CASE Beside \/ Restart
    BY <2>1, <2>2, BesideKeeps DEF Restart
  <2>3. ASSUME NEW v \in Workers, QueueStep(v)  PROVE inner' = inner
    BY <2>3 DEF QueueStep
  <2>4. ASSUME NEW v \in Workers, Work(v)  PROVE inner' \in [Workers -> InnerSteps]
    BY <2>1, <2>4, InnerMoves
  <2>5. QED  BY <2>1, <2>2, <2>3, <2>4 DEF HNext, Beside
<1>3. /\ source' \in 0 .. MaxGeneration
      /\ {listDue, refreshed, outdated, reissued}' \subseteq BOOLEAN
      /\ listing' \subseteq 0 .. MaxGeneration
  <2>1. /\ source \in 0 .. MaxGeneration /\ listing \subseteq 0 .. MaxGeneration
        /\ listDue \in BOOLEAN /\ refreshed \in BOOLEAN
        /\ outdated \in BOOLEAN /\ reissued \in BOOLEAN
    BY DEF EditionInv, HTypeOK
  <2>2. ASSUME Beside \/ Restart
        PROVE  /\ source' \in 0 .. MaxGeneration /\ listing' \subseteq 0 .. MaxGeneration
               /\ listDue' \in BOOLEAN /\ refreshed' \in BOOLEAN
               /\ outdated' \in BOOLEAN /\ reissued' \in BOOLEAN
    <3>1. CASE Reissue \/ RequestList
      <4>1. /\ source' \in {source, source + 1} /\ (source' # source => source < MaxGeneration)
            /\ listing' \in {listing, {source}}
            /\ UNCHANGED <<listDue, refreshed, outdated>>
            /\ reissued' \in {reissued, refreshed}
        BY <3>1 DEF Reissue, RequestList, lists
      <4>2. QED  BY <2>1, <4>1, GenerationType
    <3>2. CASE ListEditions
      <4>1. PICK g \in listing : outdated' = (outdated \/ (refreshed /\ g # source))
        BY <3>2 DEF ListEditions
      <4>2. QED  BY <2>1, <3>2, <4>1 DEF ListEditions
    <3>3. CASE TimeOrOperator \/ ResetEditions \/ Restart \/ UNCHANGED hvars
      BY <2>1, <3>3 DEF TimeOrOperator, ResetEditions, Restart, hvars, lists
    <3>4. QED  BY <2>2, <3>1, <3>2, <3>3 DEF Beside
  <2>3. ASSUME NEW v \in Workers, QueueStep(v)
        PROVE  UNCHANGED <<source, listDue, listing, outdated, reissued, refreshed>>
    BY <2>3 DEF QueueStep, lists
  <2>4. ASSUME NEW v \in Workers, Work(v)
        PROVE  /\ source' = source /\ listing' = listing /\ listDue' \in BOOLEAN
               /\ refreshed' \in BOOLEAN /\ outdated' \in BOOLEAN /\ reissued' \in BOOLEAN
    BY <2>1, <2>4 DEF Work, Fetch, SaveEdition, FetchStale, Refresh, RefreshFails, Check,
       FetchFails, lists
  <2>5. QED  BY <2>1, <2>2, <2>3, <2>4 DEF HNext, Beside
<1>4. QED
  BY <1>1, <1>2, <1>3 DEF IInv, HTypeOK

\* Only what e-TAR knows is listed, so only that is queued and claimed.
LEMMA ListedStep ==
  ASSUME EditionInv, [HNext]_hvars
  PROVE  ListedInv'
<1> USE GenerationType
<1>1. /\ source \in Nat /\ TypeOK
      /\ \A w \in Workers : Busy(w) => JobOf(w) \in Jobs
  <2>1. source \in 0 .. MaxGeneration /\ TypeOK /\ TokenInv
    BY DEF EditionInv, HTypeOK, IInv
  <2>2. \A w \in Workers : Busy(w) => JobOf(w) \in Jobs
    BY <2>1 DEF TokenInv, JobOf
  <2>3. QED  BY <2>1, <2>2
<1>2. ASSUME NEW v \in Workers, QueueStep(v)  PROVE ListedInv'
  <2>1. UNCHANGED <<source, listing>>
    BY <1>2 DEF QueueStep, lists
  <2>2. progress' = progress /\ queued' \subseteq queued \union {j \in Jobs : progress[j] = "pending"}
    BY <1>2 DEF QueueStep, Claim, ClaimNothing, Reconcile, ReconciledRecently, Complete, Fail,
       Crash, Throw, rows
  <2>3. Busy(v)' => Generation(JobOf(v)') =< source
    <3>1. ASSUME NEW j \in Jobs, Claim(v, j)  PROVE Generation(JobOf(v)') =< source
      <4>1. j \in queued /\ JobOf(v)' = j
        BY <1>1, <3>1 DEF Claim, Claimable, JobOf, TypeOK
      <4>2. QED  BY <4>1 DEF EditionInv, ListedInv
    <3>2. CASE ErrorsHappen /\ At(v, "saved") /\ Throw(v)
      <4>1. JobOf(v)' = JobOf(v) /\ Busy(v)
        BY <1>1, <3>2 DEF Throw, Goto, JobOf, TypeOK, At, Busy
      <4>2. QED  BY <4>1 DEF EditionInv, ListedInv
    <3>3. CASE \/ ClaimNothing(v) \/ Reconcile(v) \/ ReconciledRecently(v)
               \/ Complete(v) \/ Fail(v) \/ Crash({v})
      BY <1>1, <3>3 DEF ClaimNothing, Reconcile, ReconciledRecently, Complete, Fail, Crash,
         Rest, Goto, Busy, Idle, TypeOK
    <3>4. QED  BY <1>2, <3>1, <3>2, <3>3 DEF QueueStep
  <2>4. \A w \in Workers : w # v => worker'[w] = worker[w]
    BY <1>2, QueueMoves
  <2>5. \A w \in Workers : Busy(w)' => Generation(JobOf(w)') =< source
    BY <2>3, <2>4 DEF EditionInv, ListedInv, Busy, JobOf
  <2>6. QED  BY <2>1, <2>2, <2>5 DEF EditionInv, ListedInv
<1>3. ASSUME \A w \in Workers : Busy(w)' => Busy(w) /\ JobOf(w)' = JobOf(w),
             queued' = queued, source' >= source, source' \in Nat,
             listing' \subseteq 0 .. source',
             \A j \in Jobs : progress'[j] # "absent" =>
               progress[j] # "absent" \/ Generation(j) =< source'
      PROVE  ListedInv'
  BY <1>1, <1>3 DEF EditionInv, ListedInv
<1>4. listing \subseteq 0 .. source
  BY DEF EditionInv, ListedInv
<1>5. ASSUME NEW v \in Workers, Work(v)  PROVE ListedInv'
  <2>1. \A w \in Workers : Busy(w)' => Busy(w) /\ JobOf(w)' = JobOf(w)
    <3>1. At(v, "working") /\ \A w \in Workers : w # v => worker'[w] = worker[w]
      BY <1>5, InnerMoves
    <3>2. JobOf(v)' = JobOf(v)
      BY <1>1, <1>5 DEF Work, Fetch, SaveEdition, FetchStale, Refresh, RefreshFails, Check,
         FetchFails, vars, Save, FindGone, Throw, Goto, Relist, JobOf, TypeOK
    <3>3. QED  BY <3>1, <3>2 DEF Busy, JobOf, At
  <2>2. UNCHANGED <<queued, source, listing>>
    BY <1>5 DEF Work, Fetch, SaveEdition, FetchStale, Refresh, RefreshFails, Check, FetchFails,
       vars, rows, lists, Save, FindGone, Throw, Relist
  <2>3. \A j \in Jobs : progress'[j] # "absent" =>
               progress[j] # "absent" \/ Generation(j) =< source
    <3>1. CASE Refresh(v)
      BY <1>1, <3>1, HistoricalAssumption DEF Refresh, Relist, Relisted, Current, TypeOK
    <3>2. CASE SaveEdition(v)
      BY <1>1, <3>2 DEF SaveEdition, Save, TypeOK
    <3>3. QED  BY <1>5, <3>1, <3>2 DEF Work, Fetch, FetchStale, RefreshFails, Check, FetchFails,
       vars, FindGone, Throw
  <2>4. QED  BY <1>1, <1>3, <1>4, <2>1, <2>2, <2>3
<1>6. CASE Beside
  <2>1. \A w \in Workers : Busy(w)' => Busy(w) /\ JobOf(w)' = JobOf(w)
    BY <1>6, BesideKeeps DEF Busy, JobOf
  <2>2. queued' = queued /\ source' >= source /\ source' \in Nat /\ listing' \subseteq 0 .. source'
    <3>1. queued' = queued
      BY <1>6 DEF Beside, TimeOrOperator, Reissue, RequestList, ListEditions, ResetEditions,
         hvars, vars, rows, LeaseEnds, BackoffEnds, ResetScrapeMarks, CommandLineScrape, Relist
    <3>2. CASE Reissue \/ RequestList
      <4>1. source' \in {source, source + 1} /\ listing' \in {listing, {source}}
        BY <3>2 DEF Reissue, RequestList, lists
      <4>2. source' \in Nat /\ source' >= source /\ source \in 0 .. source'
        BY <1>1, <4>1
      <4>3. listing' \subseteq 0 .. source'
        BY <1>1, <1>4, <4>1, <4>2
      <4>4. QED  BY <3>1, <4>2, <4>3
    <3>3. CASE TimeOrOperator \/ ListEditions \/ ResetEditions \/ UNCHANGED hvars
      <4>1. source' = source /\ (listing' = listing \/ listing' = {})
        BY <3>3 DEF TimeOrOperator, ListEditions, ResetEditions, hvars, lists
      <4>2. listing' \subseteq 0 .. source'
        BY <1>4, <4>1
      <4>3. source' >= source /\ source' \in Nat
        BY <1>1, <4>1
      <4>4. QED  BY <3>1, <4>2, <4>3
    <3>4. QED  BY <1>6, <3>2, <3>3 DEF Beside
  <2>3. \A j \in Jobs : progress'[j] # "absent" =>
               progress[j] # "absent" \/ Generation(j) =< source'
    <3>1. CASE ListEditions
      <4>1. PICK g \in listing : Relist({j \in Jobs : Generation(j) = g}) /\ source' = source
        BY <3>1 DEF ListEditions
      <4>2. QED  BY <1>1, <1>4, <4>1, HistoricalAssumption DEF Relist, Relisted, TypeOK
    <3>2. QED
      BY <1>1, <1>6, <3>1 DEF Beside, TimeOrOperator, Reissue, RequestList,
       ResetEditions, hvars, vars, LeaseEnds, BackoffEnds, ResetScrapeMarks,
       CommandLineScrape, TypeOK
  <2>4. QED  BY <1>3, <2>1, <2>2, <2>3
<1>7. CASE Restart
  <2>1. \A w \in Workers : Busy(w)' => Busy(w) /\ JobOf(w)' = JobOf(w)
    BY <1>7 DEF Restart, Crash, Busy, JobOf, Idle
  <2>2. UNCHANGED <<queued, source, progress>> /\ listing' = {}
    BY <1>7 DEF Restart, Crash, rows
  <2>3. QED  BY <1>1, <1>3, <2>1, <2>2
<1>8. QED
  BY <1>2, <1>5, <1>6, <1>7 DEF HNext, Beside

\* A list as e-TAR has it leaves nothing out of date on the act's own.
LEMMA CurrentListOnly ==
  ASSUME TypeOK, Relist(Current)
  PROVE  \A j \in Jobs \ Current : progress'[j] = "absent"
BY HistoricalAssumption DEF Relist, Relisted, TypeOK

\* What was off the list stays off.
StaysAbsent == \A j \in Jobs : progress[j] = "absent" => progress'[j] = "absent"

\* The mark is kept by every step that leaves e-TAR, the mark and the reload alone.
LEMMA MarkKept ==
  ASSUME EditionInv, MarkInv, [HNext]_hvars, StaysAbsent,
         UNCHANGED <<source, refreshed, reissued>>, outdated => outdated',
         \A w \in Workers : inner'[w] \in {"refreshing", "checking"} => inner'[w] = inner[w],
         \/ outdated'
         \/ \A w \in Workers : inner[w] = "refreshing" => inner'[w] = "refreshing"
  PROVE  MarkInv'
<1>1. Current' = Current
  BY DEF Current
<1>2. \A w \in Workers : inner'[w] \in {"refreshing", "checking"} => JobOf(w)' = JobOf(w)
  BY InsideKeepsJob DEF JobOf
<1>3. QED
  BY <1>1, <1>2 DEF MarkInv, StaysAbsent, Current

\* Whoever meets a stale token finds the act marked, or marks it and reloads.
LEMMA StaleMarks ==
  ASSUME EditionInv, MarkInv, NEW v \in Workers, FetchStale(v)
  PROVE  MarkInv'
<1>1. /\ inner[v] = "none" /\ JobOf(v) \in Jobs /\ JobOf(v) \notin Current /\ Busy(v)
      /\ UNCHANGED <<vars, source, outdated, reissued>> /\ refreshed' = TRUE
      /\ inner' = [inner EXCEPT ![v] = IF refreshed THEN "checking" ELSE "refreshing"]
  BY DEF FetchStale, In, At, Busy, GoIn, lists, EditionInv, IInv, TokenInv, JobOf
<1>2. Current' = Current /\ (\A w \in Workers : JobOf(w)' = JobOf(w)) /\ progress' = progress
  BY <1>1 DEF Current, JobOf, vars
<1>3. inner \in [Workers -> InnerSteps]
  BY DEF EditionInv, HTypeOK
<1>4. \A w \in Workers : inner'[w] \in {"refreshing", "checking"} => JobOf(w)' \notin Current'
  BY <1>1, <1>2, <1>3 DEF MarkInv
<1>5. \/ outdated' \/ reissued'
      \/ \E w \in Workers : inner'[w] = "refreshing"
      \/ \A j \in Jobs \ Current' : progress'[j] = "absent"
  <2>1. CASE refreshed
    <3>1. \A w \in Workers : inner[w] = "refreshing" => inner'[w] = "refreshing"
      BY <1>1, <1>3
    <3>2. QED  BY <1>1, <1>2, <2>1, <3>1 DEF MarkInv
  <2>2. CASE ~refreshed
    BY <1>1, <1>3, <2>2
  <2>3. QED  BY <2>1, <2>2
<1>6. QED
  BY <1>1, <1>4, <1>5 DEF MarkInv

LEMMA MarkStep ==
  ASSUME EditionInv, MarkInv, [HNext]_hvars
  PROVE  MarkInv'
<1>1. TypeOK /\ inner \in [Workers -> InnerSteps]
  BY DEF EditionInv, HTypeOK
<1>2. ASSUME NEW v \in Workers, QueueStep(v)  PROVE MarkInv'
  <2>1. UNCHANGED <<progress, source, refreshed, outdated, reissued, inner>>
    BY <1>2 DEF QueueStep, lists, Claim, ClaimNothing, Reconcile, ReconciledRecently,
       Complete, Fail, Throw, Crash
  <2>2. QED  BY <2>1, MarkKept DEF StaysAbsent
<1>3. ASSUME NEW v \in Workers, Work(v)  PROVE MarkInv'
  <2>1. CASE FetchStale(v)
    BY <2>1, StaleMarks
  <2>2. CASE Refresh(v)
    <3>1. /\ \A j \in Jobs \ Current : progress'[j] = "absent"
          /\ UNCHANGED <<worker, source, refreshed>>
          /\ inner' = [inner EXCEPT ![v] = "checking"] /\ inner[v] = "refreshing"
      BY <1>1, <2>2, CurrentListOnly DEF Refresh, Relist, GoIn, In
    <3>2. Current' = Current /\ \A w \in Workers : JobOf(w)' = JobOf(w)
      BY <3>1 DEF Current, JobOf
    <3>3. QED  BY <1>1, <3>1, <3>2 DEF MarkInv
  <2>3. CASE Fetch(v) \/ SaveEdition(v) \/ Check(v) \/ FetchFails(v)
    <3>1. UNCHANGED <<source, refreshed, outdated, reissued>>
      BY <2>3 DEF Fetch, SaveEdition, Check, FetchFails, lists
    <3>2. StaysAbsent
      BY <1>1, <2>3 DEF Fetch, SaveEdition, Check, FetchFails, StaysAbsent, vars, Save,
         FindGone, Throw, TypeOK
    <3>3. /\ inner[v] # "refreshing"
          /\ \E step \in {"fetched", "none"} : inner' = [inner EXCEPT ![v] = step]
      BY <2>3 DEF Fetch, SaveEdition, Check, FetchFails, In, GoIn
    <3>4. QED  BY <1>1, <3>1, <3>2, <3>3, MarkKept
  <2>4. CASE RefreshFails(v)
    <3>1. UNCHANGED <<source, refreshed, reissued, progress>> /\ outdated' = TRUE
      BY <2>4 DEF RefreshFails, Throw
    <3>2. inner' = [inner EXCEPT ![v] = "none"]
      BY <2>4 DEF RefreshFails, GoIn
    <3>3. QED  BY <1>1, <3>1, <3>2, MarkKept DEF StaysAbsent
  <2>5. QED  BY <1>3, <2>1, <2>2, <2>3, <2>4 DEF Work
<1>4. CASE Beside
  <2>1. UNCHANGED <<worker, inner, refreshed>>
    BY <1>4, BesideKeeps
  <2>2. CASE Reissue
    <3>1. source' = source + 1 /\ reissued' = refreshed /\ source \in Nat
      BY <2>2, GenerationType DEF Reissue, EditionInv, HTypeOK
    <3>2. ASSUME NEW w \in Workers, inner[w] \in {"refreshing", "checking"}
          PROVE  JobOf(w) \notin Current'
      <4>1. Busy(w) /\ JobOf(w) \in Jobs
        BY <3>2 DEF EditionInv, HTypeOK, IInv, TokenInv, At, Busy, JobOf
      <4>2. Generation(JobOf(w)) =< source /\ Generation(JobOf(w)) \in Nat
        BY <4>1, GenerationType DEF EditionInv, ListedInv
      <4>3. QED  BY <3>1, <4>2 DEF Current
    <3>3. QED  BY <2>1, <3>1, <3>2 DEF MarkInv, JobOf
  <2>3. CASE ListEditions
    <3>1. PICK g \in listing : /\ Relist({j \in Jobs : Generation(j) = g})
                               /\ outdated' = (outdated \/ (refreshed /\ g # source))
      BY <2>3 DEF ListEditions
    <3>2. source' = source /\ Current' = Current /\ \A w \in Workers : JobOf(w)' = JobOf(w)
      BY <2>1, <2>3 DEF ListEditions, Current, JobOf
    <3>3. \/ ~refreshed \/ outdated' = TRUE
          \/ \A j \in Jobs \ Current' : progress'[j] = "absent"
      <4>1. g = source => Relist(Current)
        BY <3>1 DEF Current
      <4>2. QED  BY <1>1, <3>1, <3>2, <4>1, CurrentListOnly
    <3>4. QED  BY <2>1, <3>2, <3>3 DEF MarkInv
  <2>4. CASE TimeOrOperator \/ RequestList \/ ResetEditions \/ UNCHANGED hvars
    <3>1. UNCHANGED <<source, outdated, reissued>>
      BY <2>4 DEF TimeOrOperator, RequestList, ResetEditions, hvars, lists
    <3>2. StaysAbsent
      BY <1>1, <2>4 DEF TimeOrOperator, RequestList, ResetEditions, hvars, vars, LeaseEnds,
         BackoffEnds, ResetScrapeMarks, CommandLineScrape, TypeOK, StaysAbsent
    <3>3. QED  BY <2>1, <3>1, <3>2, MarkKept
  <2>5. QED  BY <1>4, <2>2, <2>3, <2>4 DEF Beside
<1>5. CASE Restart
  BY <1>5 DEF Restart, MarkInv
<1>6. QED
  BY <1>2, <1>3, <1>4, <1>5 DEF HNext, Beside

\* The queue's invariant, the inner steps' types and what has been listed, in
\* every state.
LEMMA EditionInvariance == HSpec => []EditionInv
<1>1. HSpec => []IInv
  BY EditionsImplementQueue, Invariance, PTL DEF QueueSpec
<1>2. EditionInv /\ IInv' /\ [HNext]_hvars => EditionInv'
  <2> SUFFICES ASSUME EditionInv, IInv', [HNext]_hvars  PROVE EditionInv'
    OBVIOUS
  <2>1. HTypeOK' /\ ListedInv'
    BY InnerTypeStep, ListedStep
  <2>2. QED  BY <2>1 DEF EditionInv
<1>3. HInit /\ IInv => EditionInv
  BY EditionsBegin DEF EditionInv
<1>4. QED
  BY <1>1, <1>2, <1>3, PTL DEF HSpec

\* Only a worker that is scraping an edition is within its steps, whatever
\* fails, dies or is reloaded meanwhile.
THEOREM EditionTypes == HSpec => []HTypeOK
<1>1. EditionInv => HTypeOK
  BY DEF EditionInv
<1>2. QED
  BY <1>1, EditionInvariance, PTL

\* "Kiti to paties akto darbai jau ras sviezias eilutes", until the next reissue:
\* for any editions, workers and number of reissues, whoever comes to look for its
\* edition after a stale token finds it off the list, though another worker
\* reloaded the list.
THEOREM ReloadServesAll == HSpec => []OneReloadServesAll
<1>1. HInit => MarkInv
  BY EditionsBegin
<1>2. EditionInv /\ MarkInv /\ [HNext]_hvars => MarkInv'
  BY MarkStep
<1>3. EditionInv /\ MarkInv => OneReloadServesAll
  <2> SUFFICES ASSUME EditionInv, MarkInv, ~outdated, ~reissued,
                      NEW w \in Workers, inner[w] = "checking",
                      \A v \in Workers : inner[v] # "refreshing"
               PROVE  progress[JobOf(w)] = "absent"
    BY DEF OneReloadServesAll, StaleAreGone
  <2>1. At(w, "working")
    BY DEF EditionInv, HTypeOK
  <2>2. JobOf(w) \in Jobs
    BY <2>1 DEF EditionInv, IInv, TokenInv, Busy, At, JobOf
  <2>3. QED  BY <2>2 DEF MarkInv
<1>4. QED
  BY <1>1, <1>2, <1>3, EditionInvariance, PTL DEF HSpec
=============================================================================
