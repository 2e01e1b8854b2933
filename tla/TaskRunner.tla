------------------------------ MODULE TaskRunner ------------------------------
(***************************************************************************)
(* The in-process job scheduler: runner/TaskRunner.js with the worker loop *)
(* of runner/Worker.js.  Every action is one run-to-completion segment of  *)
(* the event loop, so a call that synchronously queues a worker and then   *)
(* dispatches is one action.                                               *)
(*                                                                         *)
(* A worker of the model is a slot <<task, index>>, the code's key         *)
(* "task#index".  Time is counted in priority points: one Tick is the time *)
(* in which a waiting entry gains one point (1000 ms).                     *)
(***************************************************************************)
EXTENDS Integers, FiniteSets

CONSTANTS
  NTasks,            \* the "asap" tasks, 1..NTasks in registration order
  Priority,          \* priority of each task
  Concurrency,       \* worker count of each task at start
  DynamicTasks,      \* tasks whose count a controller changes at run time
  MaxIndex,          \* bound: worker slots per task
  MaxConcurrentJobs, \* capacity of the admission gate
  AgeCap,            \* bound: age at which every priority difference is made up
  MaxScalings,       \* bound: changes of a worker count after start
  CronTasks          \* tasks that run on a cron schedule

Tasks   == 1..NTasks
Indexes == 0..(MaxIndex - 1)
Workers == Tasks \X Indexes

ASSUME RunnerAssumption ==
  /\ NTasks \in Nat \ {0}
  /\ MaxIndex \in Nat \ {0}
  /\ MaxConcurrentJobs \in Nat \ {0}
  /\ MaxScalings \in Nat
  /\ AgeCap \in Nat
  /\ Priority \in [Tasks -> Nat]
  /\ Concurrency \in [Tasks -> 0..MaxIndex]
  /\ DynamicTasks \subseteq Tasks
  /\ CronTasks \cap Workers = {}
  /\ \A t, u \in Tasks : Priority[t] - Priority[u] <= AgeCap

VARIABLES
  started, stopping, stopped,  \* stopped: the promise of stop() has resolved
  awaited,                     \* the workers and cron runs stop() waits for
  desired,                     \* desiredWorkerCounts
  pc,                          \* where each worker is
  aborted,                     \* its abort signal
  age,                         \* time a waiting worker has waited, capped
  ahead,                       \* for a waiting worker, those dispatched before it
  active,                      \* activeJobs
  cron,                        \* cron tasks whose run is executing
  pending,                     \* durable work a task's job would find
  scalings

gateVars   == <<pc, age, ahead, active>>
stopVars   == <<started, stopping, stopped, awaited>>
vars       == <<gateVars, stopVars, desired, aborted, cron, pending, scalings>>

Holding       == {"job", "found", "empty"}                 \* admitted, not yet released
Interruptible == {"stagger", "waiting", "resume", "sleep"} \* an abort ends these at once
Places        == {"none", "leaving"} \cup Holding \cup Interruptible

Waiting == {w \in Workers : pc[w] = "waiting"}
Holders == {w \in Workers : pc[w] \in Holding}

TypeOK ==
  /\ started \in BOOLEAN /\ stopping \in BOOLEAN /\ stopped \in BOOLEAN
  /\ awaited \subseteq Workers \cup CronTasks
  /\ desired \in [Tasks -> 0..MaxIndex]
  /\ pc \in [Workers -> Places]
  /\ aborted \in [Workers -> BOOLEAN]
  /\ age \in [Workers -> 0..AgeCap]
  /\ ahead \in [Workers -> SUBSET Workers]
  /\ active \in 0..MaxConcurrentJobs
  /\ cron \subseteq CronTasks
  /\ pending \in [Tasks -> BOOLEAN]
  /\ scalings \in 0..MaxScalings

Init ==
  /\ started = FALSE /\ stopping = FALSE /\ stopped = FALSE
  /\ awaited = {}
  /\ desired = [t \in Tasks |-> 0]
  /\ pc = [w \in Workers |-> "none"]
  /\ aborted = [w \in Workers |-> FALSE]
  /\ age = [w \in Workers |-> 0]
  /\ ahead = [w \in Workers |-> {}]
  /\ active = 0
  /\ cron = {}
  /\ pending = [t \in Tasks |-> FALSE]
  /\ scalings = 0

-----------------------------------------------------------------------------
(* The admission gate.                                                     *)

Smaller(a, b) == IF a <= b THEN a ELSE b

\* Mutation: priorities without aging.
StaysAheadWithoutAging(e, w) == Priority[e[1]] >= Priority[w[1]]

\* A waiting entry e is dispatched before an entry w queued now: all entries
\* age alike, so the order of two entries never changes afterwards.
StaysAhead(e, w) == Priority[e[1]] + age[e] >= Priority[w[1]]

\* Two entries queued in the same instant: by priority, then in queue order.
QueuedFirst(v, w) ==
  \/ Priority[v[1]] > Priority[w[1]]
  \/ Priority[v[1]] = Priority[w[1]] /\ v[1] < w[1]

Order(old, new) ==
  [w \in Workers |->
    CASE w \in new -> {e \in old : StaysAhead(e, w)} \cup {v \in new : QueuedFirst(v, w)}
      [] w \in old -> (ahead[w] \cap old) \cup {v \in new : ~StaysAhead(w, v)}
      [] OTHER     -> {}]

FreeSlots(act) == IF stopping THEN 0 ELSE MaxConcurrentJobs - act

\* The entries dispatch() admits: as many as there are free slots, best first.
Winners(waiting, order, act, S) ==
  /\ Cardinality(S) = Smaller(FreeSlots(act), Cardinality(waiting))
  /\ \A w \in S : order[w] \subseteq S

\* Queue the workers of new (already "waiting" in p) and dispatch.
QueueAndDispatch(p, new, act) ==
  LET waiting == {w \in Workers : p[w] = "waiting"}
      order   == Order(waiting \ new, new)
  IN \E S \in SUBSET waiting :
       /\ Winners(waiting, order, act, S)
       /\ pc'     = [w \in Workers |-> IF w \in S THEN "job" ELSE p[w]]
       /\ active' = act + Cardinality(S)
       /\ ahead'  = [w \in Workers |-> IF w \in waiting \ S THEN order[w] \ S ELSE {}]
       /\ age'    = [w \in Workers |-> IF w \in waiting \ (S \cup new) THEN age[w] ELSE 0]

-----------------------------------------------------------------------------
(* Scaling.                                                                *)

Existing(p, t) == {i \in Indexes : p[<<t, i>>] # "none"}

\* Mutation: one worker too many is left running.
SurplusOneTooFew(p, t, d) ==
  {<<t, i>> : i \in {k \in Existing(p, t) : Cardinality({j \in Existing(p, t) : j < k}) > d}}

\* Stopping workers still occupy their slots and still count.
Surplus(p, t, d) ==
  {<<t, i>> : i \in {k \in Existing(p, t) : Cardinality({j \in Existing(p, t) : j < k}) >= d}}

\* Mutation: workers still stopping are not counted.
MissingBesideLive(p, t, d) ==
  LET free == Indexes \ Existing(p, t)
      live == {i \in Existing(p, t) : ~aborted[<<t, i>>]}
  IN {<<t, i>> : i \in {k \in free : Cardinality({j \in free : j < k}) < d - Cardinality(live)}}

Missing(p, t, d) ==
  LET free == Indexes \ Existing(p, t)
  IN {<<t, i>> : i \in {k \in free :
        Cardinality({j \in free : j < k}) < d - Cardinality(Existing(p, t))}}

\* Mutation: the abort ends a job like a wait, without its release.
AfterStopEndsJobs(p, A) ==
  [w \in Workers |-> IF w \in A /\ p[w] # "none" THEN "leaving" ELSE p[w]]

\* Mutation: a waiting entry has no abort listener.
AfterStopKeepsWaiters(p, A) ==
  [w \in Workers |-> IF w \in A /\ p[w] \in Interruptible \ {"waiting"} THEN "leaving" ELSE p[w]]

\* Worker.stop(): the listeners of the abort signal end a wait at once, a job
\* runs on to its end.
AfterStop(p, A) ==
  [w \in Workers |-> IF w \in A /\ p[w] \in Interruptible THEN "leaving" ELSE p[w]]

\* A new worker 0 queues for admission at once, the others stagger first.
AfterSpawn(p, A) ==
  [w \in Workers |-> IF w \in A THEN (IF w[2] = 0 THEN "waiting" ELSE "stagger") ELSE p[w]]

Reconcile(t, d, p, sig) ==
  LET stops  == Surplus(p, t, d)
      spawns == Missing(p, t, d)
  IN /\ aborted' = [w \in Workers |-> IF w \in stops THEN TRUE ELSE sig[w]]
     /\ QueueAndDispatch(AfterSpawn(AfterStop(p, stops), spawns),
                         {w \in spawns : w[2] = 0}, active)

Start ==
  LET spawns == UNION {Missing(pc, t, Concurrency[t]) : t \in Tasks}
  IN /\ ~started /\ ~stopping
     /\ started' = TRUE
     /\ desired' = Concurrency
     /\ QueueAndDispatch(AfterSpawn(pc, spawns), {w \in spawns : w[2] = 0}, active)
     /\ UNCHANGED <<stopping, stopped, awaited, aborted, cron, pending, scalings>>

\* A shutdown lets nothing but a count of zero through.
SetWorkerCount(t, n) ==
  /\ started \/ stopping
  /\ scalings < MaxScalings
  /\ n # desired[t]
  /\ stopping => n = 0
  /\ desired' = [desired EXCEPT ![t] = n]
  /\ Reconcile(t, n, pc, aborted)
  /\ scalings' = scalings + 1
  /\ UNCHANGED <<stopVars, cron, pending>>

\* Mutation: the slot is freed and the task is not reconciled.
WorkerStoppedNoReconcile(w) ==
  /\ pc[w] = "leaving"
  /\ pc' = [pc EXCEPT ![w] = "none"]
  /\ aborted' = [aborted EXCEPT ![w] = FALSE]
  /\ awaited' = awaited \ {w}
  /\ UNCHANGED <<age, ahead, active, started, stopping, stopped, desired, cron, pending, scalings>>

\* The worker loop has ended: its slot is freed and the task reconciled.
WorkerStopped(w) ==
  /\ pc[w] = "leaving"
  /\ Reconcile(w[1], desired[w[1]], [pc EXCEPT ![w] = "none"], [aborted EXCEPT ![w] = FALSE])
  /\ awaited' = awaited \ {w}
  /\ UNCHANGED <<started, stopping, stopped, desired, cron, pending, scalings>>

-----------------------------------------------------------------------------
(* The worker loop.                                                        *)

\* Mutation: an idle worker waits for a signal only.
TimerOfStaggerOnly(w) ==
  /\ pc[w] = "stagger"
  /\ pc' = [pc EXCEPT ![w] = "resume"]
  /\ UNCHANGED <<age, ahead, active, stopVars, desired, aborted, cron, pending, scalings>>

\* A stagger or a cooldown runs out.
Timer(w) ==
  /\ pc[w] \in {"stagger", "sleep"}
  /\ pc' = [pc EXCEPT ![w] = "resume"]
  /\ UNCHANGED <<age, ahead, active, stopVars, desired, aborted, cron, pending, scalings>>

\* A signal reaches the runner: it wakes the sleepers and nobody else.
Wake(t) ==
  /\ desired[t] > 0
  /\ \E i \in Indexes : pc[<<t, i>>] = "sleep"
  /\ pc' = [w \in Workers |-> IF w[1] = t /\ pc[w] = "sleep" THEN "resume" ELSE pc[w]]
  /\ UNCHANGED <<age, ahead, active, stopVars, desired, aborted, cron, pending, scalings>>

\* The top of the loop: the worker asks for admission.
WaitForAdmission(w) ==
  /\ pc[w] = "resume"
  /\ QueueAndDispatch([pc EXCEPT ![w] = "waiting"], {w}, active)
  /\ UNCHANGED <<stopVars, desired, aborted, cron, pending, scalings>>

\* The job looks for work in its durable queue.
JobLooks(w) ==
  /\ pc[w] = "job"
  /\ pc' = [pc EXCEPT ![w] = IF pending[w[1]] THEN "found" ELSE "empty"]
  /\ pending' = [pending EXCEPT ![w[1]] = FALSE]
  /\ UNCHANGED <<age, ahead, active, stopVars, desired, aborted, cron, scalings>>

\* Mutation: the release does not dispatch.
ReleaseWithoutDispatch(w, place) ==
  /\ pc' = [pc EXCEPT ![w] = IF aborted[w] THEN "leaving" ELSE place]
  /\ active' = active - 1
  /\ UNCHANGED <<age, ahead>>

\* The job is over and the worker will not loop at once: the slot is released.
ReleaseInto(w, place) ==
  QueueAndDispatch([pc EXCEPT ![w] = IF aborted[w] THEN "leaving" ELSE place], {}, active - 1)

JobReturnsIdle(w) ==
  /\ pc[w] = "empty"
  /\ ReleaseInto(w, "sleep")
  /\ UNCHANGED <<stopVars, desired, aborted, cron, pending, scalings>>

\* A job that throws leaves its work in the durable queue.
JobFails(w) ==
  /\ pc[w] \in {"job", "found"}
  /\ ReleaseInto(w, "sleep")
  /\ pending' = [pending EXCEPT ![w[1]] = @ \/ pc[w] = "found"]
  /\ UNCHANGED <<stopVars, desired, aborted, cron, scalings>>

\* There was work: release and dispatch, then queue again and dispatch, in one
\* segment.  An aborted worker leaves the loop after the release.
JobReturnsMore(w) ==
  /\ pc[w] = "found"
  /\ IF aborted[w]
     THEN ReleaseInto(w, "leaving")
     ELSE \E S \in SUBSET Waiting :
            /\ Winners(Waiting, ahead, active - 1, S)
            /\ QueueAndDispatch(
                 [v \in Workers |-> IF v = w THEN "waiting" ELSE IF v \in S THEN "job" ELSE pc[v]],
                 {w}, active - 1 + Cardinality(S))
  /\ UNCHANGED <<stopVars, desired, aborted, cron, pending, scalings>>

-----------------------------------------------------------------------------
(* Cron tasks, shutdown, and the world around the runner.                  *)

\* Mutation: a cron callback does not look at the shutdown.
CronFiresAlways(c) ==
  /\ started \/ stopping
  /\ c \notin cron
  /\ cron' = cron \cup {c}
  /\ UNCHANGED <<gateVars, stopVars, desired, aborted, pending, scalings>>

CronFires(c) ==
  /\ started
  /\ ~stopping
  /\ c \notin cron
  /\ cron' = cron \cup {c}
  /\ UNCHANGED <<gateVars, stopVars, desired, aborted, pending, scalings>>

CronEnds(c) ==
  /\ c \in cron
  /\ cron' = cron \ {c}
  /\ awaited' = awaited \ {c}
  /\ UNCHANGED <<gateVars, started, stopping, stopped, desired, aborted, pending, scalings>>

\* Mutation: stop() waits for the workers only.
StopWithoutCron ==
  LET all == {w \in Workers : pc[w] # "none"}
  IN /\ started
     /\ started' = FALSE
     /\ stopping' = TRUE
     /\ desired' = [t \in Tasks |-> 0]
     /\ aborted' = [w \in Workers |-> w \in all]
     /\ pc' = AfterStop(pc, all)
     /\ age' = [w \in Workers |-> 0]
     /\ ahead' = [w \in Workers |-> {}]
     /\ awaited' = all
     /\ UNCHANGED <<active, stopped, cron, pending, scalings>>

Stop ==
  LET all == {w \in Workers : pc[w] # "none"}
  IN /\ started
     /\ started' = FALSE
     /\ stopping' = TRUE
     /\ desired' = [t \in Tasks |-> 0]
     /\ aborted' = [w \in Workers |-> w \in all]
     /\ pc' = AfterStop(pc, all)
     /\ age' = [w \in Workers |-> 0]
     /\ ahead' = [w \in Workers |-> {}]
     /\ awaited' = all \cup cron
     /\ UNCHANGED <<active, stopped, cron, pending, scalings>>

StopResolves ==
  /\ stopping /\ ~stopped
  /\ awaited = {}
  /\ stopped' = TRUE
  /\ UNCHANGED <<gateVars, started, stopping, awaited, desired, aborted, cron, pending, scalings>>

\* A producer adds durable work; its signal (Wake) may come late or never.
Produce(t) ==
  /\ ~pending[t]
  /\ pending' = [pending EXCEPT ![t] = TRUE]
  /\ UNCHANGED <<gateVars, stopVars, desired, aborted, cron, scalings>>

Tick ==
  /\ \E w \in Waiting : age[w] < AgeCap
  /\ age' = [w \in Workers |-> IF w \in Waiting THEN Smaller(age[w] + 1, AgeCap) ELSE 0]
  /\ UNCHANGED <<pc, ahead, active, stopVars, desired, aborted, cron, pending, scalings>>

Next ==
  \/ Start
  \/ Stop
  \/ StopResolves
  \/ Tick
  \/ \E t \in DynamicTasks, n \in 0..MaxIndex : SetWorkerCount(t, n)
  \/ \E t \in Tasks : Wake(t)
  \/ \E t \in Tasks : Produce(t)
  \/ \E w \in Workers : WorkerStopped(w)
  \/ \E w \in Workers : Timer(w)
  \/ \E w \in Workers : WaitForAdmission(w)
  \/ \E w \in Workers : JobLooks(w)
  \/ \E w \in Workers : JobReturnsIdle(w)
  \/ \E w \in Workers : JobReturnsMore(w)
  \/ \E w \in Workers : JobFails(w)
  \/ \E c \in CronTasks : CronFires(c)
  \/ \E c \in CronTasks : CronEnds(c)

Spec == Init /\ [][Next]_vars

(***************************************************************************)
(* Fairness: promises that are ready run, timers fire, jobs and cron runs  *)
(* end, and a job that is started again and again does not throw every     *)
(* time.  Signals, producers, controllers and stop() owe nothing.          *)
(***************************************************************************)
Fairness ==
  /\ WF_vars(Start) /\ WF_vars(StopResolves) /\ WF_vars(Tick)
  /\ \A w \in Workers :
       /\ WF_vars(WorkerStopped(w)) /\ WF_vars(Timer(w)) /\ WF_vars(WaitForAdmission(w))
       /\ WF_vars(JobReturnsIdle(w)) /\ WF_vars(JobReturnsMore(w))
       /\ SF_vars(JobLooks(w))
  /\ \A c \in CronTasks : WF_vars(CronEnds(c))

FairSpec == Spec /\ Fairness

-----------------------------------------------------------------------------
(* Properties.                                                             *)

\* Every admission is released exactly once, whatever order jobs end, waiters
\* are cancelled and workers are stopped in: the counter is the number of
\* workers inside a job, and the gate is never overbooked.
SlotAccounting ==
  /\ active = Cardinality(Holders)
  /\ active <= MaxConcurrentJobs

\* There is no polling timer, so no event may leave a free slot beside a
\* waiting worker: nothing would come to repair it.
WorkConserving ==
  Waiting # {} => ~stopping /\ active = MaxConcurrentJobs

\* When the promise of stop() resolves, no job and no cron run is left that
\* could still use the connections the shutdown closes next.
StopWaitsForAll ==
  stopped => cron = {} /\ \A w \in Workers : pc[w] = "none"

\* Graceful stop: after stop() no worker enters a job and no cron run begins.
NothingStartsAfterStop ==
  [][stopping => (Holders' \subseteq Holders /\ cron' \subseteq cron)]_vars

\* A fast down/up scaling never runs more workers of a task than desired: a
\* worker is added only when, counting those still finishing a job after their
\* stop, the task stays within its desired count.
Grows ==
  \A t \in Tasks :
    Cardinality(Existing(pc', t)) > Cardinality(Existing(pc, t))
      => Cardinality(Existing(pc', t)) <= desired'[t]

ReplacementsWait == [][Grows]_vars

Remaining(t) == {i \in Existing(pc, t) : ~aborted[<<t, i>>]}

\* Whatever scalings, ends of workers and shutdowns come together, the desired
\* count lies between the workers that are not stopping and all workers there
\* are: none beyond the count is left running, and none is missing that no
\* stopping worker still stands in for.
CountsBracketed ==
  \A t \in Tasks :
    /\ Cardinality(Remaining(t)) <= desired[t]
    /\ desired[t] <= Cardinality(Existing(pc, t))

\* Durable work is found even when every signal for it is lost, or arrives
\* while the task's workers are busy: the cooldown brings them back.
WorkIsTaken ==
  \A t \in Tasks : pending[t] ~> (~pending[t] \/ desired[t] = 0)

\* Aging: no stream of higher-priority jobs keeps a waiting worker waiting.
NoStarvation ==
  \A w \in Workers : pc[w] = "waiting" ~> pc[w] # "waiting"

\* However counts went up and down while workers were still stopping, the
\* number of workers that are not stopping becomes the desired one.
ScalingConverges ==
  \A t \in Tasks :
    <>[](started \/ stopping => Cardinality(Remaining(t)) = desired[t])

\* stop() resolves.
StopCompletes == stopping ~> stopped
=============================================================================
