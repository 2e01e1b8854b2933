--------------------------- MODULE TaskRunnerProofs ---------------------------
(***************************************************************************)
(* Proofs about the scheduler, for every number of tasks, workers and      *)
(* slots.  The gate and the shutdown rest on one inductive invariant, IInv;*)
(* the counts of scaling (CountsInv), the order of admission (OrderInv) and*)
(* what stop() waits for (AwaitedInv) are kept beside it.                  *)
(***************************************************************************)
EXTENDS TaskRunner, FiniteSetTheorems, TLAPS

\* Only a worker that is in a job, or on its way out, has been aborted.
AbortInv == \A w \in Workers : aborted[w] => pc[w] \in Holding \cup {"leaving"}

\* After stop() nothing is wanted, and every worker left has been aborted.
ShutdownInv ==
  stopping => /\ ~started
              /\ \A t \in Tasks : desired[t] = 0
              /\ \A w \in Workers : pc[w] # "none" => aborted[w]

\* stop() waits for everything that is still there.
AwaitInv ==
  /\ stopping => cron \subseteq awaited /\ \A w \in Workers : pc[w] # "none" => w \in awaited
  /\ stopped => stopping /\ awaited = {}

IInv == TypeOK /\ SlotAccounting /\ WorkConserving /\ AbortInv /\ ShutdownInv /\ AwaitInv

HoldersOf(p) == {w \in Workers : p[w] \in Holding}

-----------------------------------------------------------------------------
\* Both sets can be counted.
LEMMA FiniteWorkers == IsFiniteSet(Workers) /\ IsFiniteSet(Indexes)
<1>1. IsFiniteSet(Tasks)
  BY FS_Interval, RunnerAssumption DEF Tasks
<1>2. IsFiniteSet(Indexes)
  BY FS_Interval, RunnerAssumption DEF Indexes
<1>3. QED
  BY <1>1, <1>2, FS_Product DEF Workers

\* What one dispatch does to the gate: it only turns waiting workers into jobs,
\* the counter stays exact, and a waiting worker remains only if the gate is full.
LEMMA DispatchLemma ==
  ASSUME TypeOK,
         NEW p \in [Workers -> Places],
         NEW new \in SUBSET Workers, \A w \in new : p[w] = "waiting",
         NEW act \in 0..MaxConcurrentJobs, act = Cardinality(HoldersOf(p)),
         QueueAndDispatch(p, new, act)
  PROVE  /\ pc' \in [Workers -> Places]
         /\ age' \in [Workers -> 0..AgeCap]
         /\ ahead' \in [Workers -> SUBSET Workers]
         /\ active' \in 0..MaxConcurrentJobs
         /\ active' = Cardinality(Holders')
         /\ \A w \in Workers :
              \/ pc'[w] = p[w]
              \/ ~stopping /\ p[w] = "waiting" /\ pc'[w] = "job"
         /\ ~stopping /\ Waiting' # {} => active' = MaxConcurrentJobs
<1> DEFINE waiting == {w \in Workers : p[w] = "waiting"}
           order   == Order(waiting \ new, new)
<1>1. PICK S \in SUBSET waiting :
        /\ Winners(waiting, order, act, S)
        /\ pc'     = [w \in Workers |-> IF w \in S THEN "job" ELSE p[w]]
        /\ active' = act + Cardinality(S)
        /\ ahead'  = [w \in Workers |-> IF w \in waiting \ S THEN order[w] \ S ELSE {}]
        /\ age'    = [w \in Workers |-> IF w \in waiting \ (S \cup new) THEN age[w] ELSE 0]
  BY DEF QueueAndDispatch
<1>2. IsFiniteSet(waiting) /\ IsFiniteSet(S) /\ IsFiniteSet(HoldersOf(p))
  <2>1. waiting \in SUBSET Workers /\ S \in SUBSET Workers /\ HoldersOf(p) \in SUBSET Workers
    BY DEF HoldersOf
  <2>2. QED  BY <2>1, FiniteWorkers, FS_Subset
<1>3. /\ Cardinality(waiting) \in Nat
      /\ Cardinality(S) \in Nat
      /\ Cardinality(S) = Smaller(FreeSlots(act), Cardinality(waiting))
  BY <1>1, <1>2, FS_CardinalityType DEF Winners
<1>4. MaxConcurrentJobs \in Nat /\ stopping \in BOOLEAN
  BY RunnerAssumption DEF TypeOK
<1>5. /\ Cardinality(S) <= MaxConcurrentJobs - act
      /\ stopping => Cardinality(S) = 0
      /\ ~stopping => \/ Cardinality(S) = MaxConcurrentJobs - act
                      \/ Cardinality(S) = Cardinality(waiting)
  BY <1>3, <1>4 DEF Smaller, FreeSlots
<1>6. active' \in 0..MaxConcurrentJobs
  BY <1>1, <1>3, <1>4, <1>5
<1>7. active' = Cardinality(Holders')
  <2>1. Holders' = HoldersOf(p) \cup S
    BY <1>1 DEF Holders, HoldersOf, Holding
  <2>2. HoldersOf(p) \cap S = {}
    BY <1>1 DEF HoldersOf, Holding
  <2>3. Cardinality(HoldersOf(p) \cup S)
          = Cardinality(HoldersOf(p)) + Cardinality(S) - Cardinality({})
    BY <1>2, <2>2, FS_Union, Zenon
  <2>4. QED  BY <2>1, <2>3, <1>1, <1>3, FS_EmptySet
<1>8. stopping => S = {}
  BY <1>2, <1>5, FS_EmptySet
<1>9. ~stopping /\ Waiting' # {} => active' = MaxConcurrentJobs
  <2>1. SUFFICES ASSUME ~stopping, Waiting' # {}  PROVE active' = MaxConcurrentJobs
    OBVIOUS
  <2>2. Waiting' = waiting \ S
    BY <1>1 DEF Waiting
  <2>3. Cardinality(S) # Cardinality(waiting)
    BY <2>1, <2>2, <1>2, FS_Subset
  <2>4. QED  BY <2>1, <2>3, <1>1, <1>3, <1>4, <1>5
<1>10. pc' \in [Workers -> Places]
  BY <1>1 DEF Places, Holding
<1>11. age' \in [Workers -> 0..AgeCap]
  BY <1>1, RunnerAssumption DEF TypeOK
<1>12. ahead' \in [Workers -> SUBSET Workers]
  <2>1. \A w \in Workers : order[w] \in SUBSET Workers
    BY DEF Order, TypeOK
  <2>2. QED  BY <1>1, <2>1
<1>13. \A w \in Workers : \/ pc'[w] = p[w]
                          \/ ~stopping /\ p[w] = "waiting" /\ pc'[w] = "job"
  BY <1>1, <1>8
<1>14. QED
  BY <1>6, <1>7, <1>9, <1>10, <1>11, <1>12, <1>13

-----------------------------------------------------------------------------
\* Reconciling a task touches a worker in one of four ways, and spawns nothing
\* when nothing is wanted.
LEMMA ReconcileLemma ==
  ASSUME TypeOK,
         NEW t \in Tasks, NEW d \in 0..MaxIndex,
         NEW p \in [Workers -> Places], NEW sig \in [Workers -> BOOLEAN],
         active = Cardinality(HoldersOf(p)),
         Reconcile(t, d, p, sig)
  PROVE  /\ pc' \in [Workers -> Places]
         /\ age' \in [Workers -> 0..AgeCap]
         /\ ahead' \in [Workers -> SUBSET Workers]
         /\ active' \in 0..MaxConcurrentJobs
         /\ active' = Cardinality(Holders')
         /\ ~stopping /\ Waiting' # {} => active' = MaxConcurrentJobs
         /\ aborted' \in [Workers -> BOOLEAN]
         /\ \A w \in Workers :
              \/ pc'[w] = p[w] /\ aborted'[w] = sig[w]
              \/ /\ p[w] # "none" /\ aborted'[w]
                 /\ pc'[w] = IF p[w] \in Interruptible THEN "leaving" ELSE p[w]
              \/ /\ d > 0 /\ p[w] = "none" /\ aborted'[w] = sig[w]
                 /\ pc'[w] \in {"waiting", "stagger", "job"}
              \/ /\ ~stopping /\ p[w] = "waiting" /\ pc'[w] = "job" /\ aborted'[w] = sig[w]
<1> DEFINE stops  == Surplus(p, t, d)
           spawns == Missing(p, t, d)
           q      == AfterSpawn(AfterStop(p, stops), spawns)
           new    == {w \in spawns : w[2] = 0}
<1>1. /\ aborted' = [w \in Workers |-> IF w \in stops THEN TRUE ELSE sig[w]]
      /\ QueueAndDispatch(q, new, active)
  BY DEF Reconcile
<1>2. /\ stops \in SUBSET Workers
      /\ \A w \in stops : p[w] # "none"
  BY DEF Surplus, Existing, Workers
<1>3. /\ spawns \in SUBSET Workers
      /\ \A w \in spawns : p[w] = "none"
  BY DEF Missing, Existing, Workers
<1>4. d = 0 => spawns = {}
  <2>1. Existing(p, t) \in SUBSET Indexes
    BY DEF Existing
  <2>2. /\ Cardinality(Existing(p, t)) \in Nat
        /\ \A k : Cardinality({j \in Indexes \ Existing(p, t) : j < k}) \in Nat
    <3>1. \A A \in SUBSET Indexes : Cardinality(A) \in Nat
      BY FiniteWorkers, FS_Subset, FS_CardinalityType
    <3>2. \A k : {j \in Indexes \ Existing(p, t) : j < k} \in SUBSET Indexes
      OBVIOUS
    <3>3. QED  BY <2>1, <3>1, <3>2
  <2>3. \A k : ~(Cardinality({j \in Indexes \ Existing(p, t) : j < k})
                  < 0 - Cardinality(Existing(p, t)))
    <3> DEFINE below(k) == Cardinality({j \in Indexes \ Existing(p, t) : j < k})
               have     == Cardinality(Existing(p, t))
    <3>1. have \in Nat /\ \A k : below(k) \in Nat
      BY <2>2
    <3> HIDE DEF below, have
    <3>2. \A k : ~(below(k) < 0 - have)
      BY <3>1
    <3>3. QED  BY <3>2 DEF below, have
  <2>4. QED  BY <2>3, Zenon DEF Missing
<1>5. q = [w \in Workers |->
             IF w \in spawns THEN (IF w[2] = 0 THEN "waiting" ELSE "stagger")
             ELSE IF w \in stops /\ p[w] \in Interruptible THEN "leaving" ELSE p[w]]
  BY DEF AfterSpawn, AfterStop
<1>6. q \in [Workers -> Places]
  BY <1>5 DEF Places, Interruptible
<1>7. new \in SUBSET Workers /\ \A w \in new : q[w] = "waiting"
  BY <1>3, <1>5
<1>8. HoldersOf(q) = HoldersOf(p)
  BY <1>3, <1>5 DEF HoldersOf, Holding, Interruptible
<1>9. active \in 0..MaxConcurrentJobs /\ active = Cardinality(HoldersOf(q))
  BY <1>8 DEF TypeOK
<1> HIDE DEF q, new, stops, spawns
<1>10. /\ pc' \in [Workers -> Places]
       /\ age' \in [Workers -> 0..AgeCap]
       /\ ahead' \in [Workers -> SUBSET Workers]
       /\ active' \in 0..MaxConcurrentJobs
       /\ active' = Cardinality(Holders')
       /\ \A w \in Workers :
            \/ pc'[w] = q[w]
            \/ ~stopping /\ q[w] = "waiting" /\ pc'[w] = "job"
       /\ ~stopping /\ Waiting' # {} => active' = MaxConcurrentJobs
  BY <1>1, <1>6, <1>7, <1>9, DispatchLemma
<1>11. aborted' \in [Workers -> BOOLEAN]
  BY <1>1
<1>12. ASSUME NEW w \in Workers
       PROVE  \/ pc'[w] = p[w] /\ aborted'[w] = sig[w]
              \/ /\ p[w] # "none" /\ aborted'[w]
                 /\ pc'[w] = IF p[w] \in Interruptible THEN "leaving" ELSE p[w]
              \/ /\ d > 0 /\ p[w] = "none" /\ aborted'[w] = sig[w]
                 /\ pc'[w] \in {"waiting", "stagger", "job"}
              \/ /\ ~stopping /\ p[w] = "waiting" /\ pc'[w] = "job" /\ aborted'[w] = sig[w]
  <2>1. CASE w \in spawns
    <3>1. w \notin stops /\ p[w] = "none"
      BY <1>2, <1>3, <2>1
    <3>2. d > 0
      BY <1>4, <2>1
    <3>3. q[w] \in {"waiting", "stagger"}
      BY <1>5, <2>1
    <3>4. pc'[w] \in {"waiting", "stagger", "job"}
      BY <1>10, <3>3
    <3>5. aborted'[w] = sig[w]
      BY <1>1, <3>1
    <3>6. QED  BY <3>1, <3>2, <3>4, <3>5
  <2>2. CASE w \in stops
    <3>1. w \notin spawns /\ p[w] # "none"
      BY <1>2, <1>3, <2>2
    <3>2. q[w] = IF p[w] \in Interruptible THEN "leaving" ELSE p[w]
      BY <1>5, <2>2, <3>1
    <3>3. q[w] # "waiting"
      BY <3>2 DEF Interruptible
    <3>4. pc'[w] = q[w] /\ aborted'[w]
      BY <1>1, <1>10, <2>2, <3>3
    <3>5. QED  BY <3>1, <3>2, <3>4
  <2>3. CASE w \notin spawns /\ w \notin stops
    <3>1. q[w] = p[w] /\ aborted'[w] = sig[w]
      BY <1>1, <1>5, <2>3
    <3>2. QED  BY <3>1, <1>10
  <2>4. QED  BY <2>1, <2>2, <2>3
<1>13. QED
  BY <1>10, <1>11, <1>12
-----------------------------------------------------------------------------
\* Nothing runs and nothing is owed before start().
LEMMA InitIInv == Init => IInv
<1> SUFFICES ASSUME Init PROVE IInv
  OBVIOUS
<1>1. Holders = {} /\ Waiting = {}
  BY DEF Init, Holders, Waiting, Holding
<1>2. TypeOK
  <2>1. 0 \in 0..MaxIndex /\ 0 \in 0..AgeCap /\ 0 \in 0..MaxConcurrentJobs /\ 0 \in 0..MaxScalings
    BY RunnerAssumption
  <2>2. QED  BY <2>1 DEF Init, TypeOK, Places
<1>3. SlotAccounting
  BY <1>1, FS_EmptySet, RunnerAssumption DEF Init, SlotAccounting
<1>4. QED
  BY <1>1, <1>2, <1>3 DEF Init, IInv, WorkConserving, AbortInv, ShutdownInv, AwaitInv

\* reconcile starts workers only in slots that are free.
LEMMA MissingSlots ==
  ASSUME NEW p, NEW t \in Tasks, NEW d
  PROVE  /\ Missing(p, t, d) \in SUBSET Workers
         /\ \A w \in Missing(p, t, d) : p[w] = "none"
<1>1. ASSUME NEW w \in Missing(p, t, d)  PROVE w \in Workers /\ p[w] = "none"
  <2>1. PICK i \in Indexes \ Existing(p, t) : w = <<t, i>>
    BY DEF Missing
  <2>2. QED  BY <2>1 DEF Existing, Workers
<1>2. QED
  BY <1>1

\* start() fills every task from an empty runner.
LEMMA StartStep == ASSUME IInv, Start PROVE IInv'
<1> DEFINE spawns == UNION {Missing(pc, t, Concurrency[t]) : t \in Tasks}
           q      == AfterSpawn(pc, spawns)
           new    == {w \in spawns : w[2] = 0}
<1>1. /\ TypeOK /\ ~stopping /\ QueueAndDispatch(q, new, active)
      /\ active = Cardinality(Holders)
  BY DEF IInv, Start, SlotAccounting
<1>2. spawns \in SUBSET Workers /\ \A w \in spawns : pc[w] = "none"
  <2>1. ASSUME NEW t \in Tasks
        PROVE  /\ Missing(pc, t, Concurrency[t]) \in SUBSET Workers
               /\ \A w \in Missing(pc, t, Concurrency[t]) : pc[w] = "none"
    BY MissingSlots
  <2>2. QED  BY <2>1
<1>3. q = [w \in Workers |->
             IF w \in spawns THEN (IF w[2] = 0 THEN "waiting" ELSE "stagger") ELSE pc[w]]
  BY DEF AfterSpawn
<1> HIDE DEF spawns
<1>4. q \in [Workers -> Places]
  BY <1>1, <1>3 DEF Places, Interruptible, TypeOK
<1>5. HoldersOf(q) = Holders
  BY <1>2, <1>3 DEF HoldersOf, Holders, Holding
<1>6. /\ new \in SUBSET Workers /\ \A w \in new : q[w] = "waiting"
      /\ active \in 0..MaxConcurrentJobs /\ active = Cardinality(HoldersOf(q))
  BY <1>1, <1>2, <1>3, <1>5 DEF TypeOK
<1>7. \A w \in Workers : q[w] # pc[w] => pc[w] = "none"
  BY <1>2, <1>3
<1> HIDE DEF q, new
<1>8. /\ pc' \in [Workers -> Places]
      /\ age' \in [Workers -> 0..AgeCap]
      /\ ahead' \in [Workers -> SUBSET Workers]
      /\ active' \in 0..MaxConcurrentJobs
      /\ active' = Cardinality(Holders')
      /\ \A w \in Workers : \/ pc'[w] = q[w]
                            \/ ~stopping /\ q[w] = "waiting" /\ pc'[w] = "job"
      /\ ~stopping /\ Waiting' # {} => active' = MaxConcurrentJobs
  BY <1>1, <1>4, <1>6, DispatchLemma
<1>9. TypeOK'
  BY <1>1, <1>8, RunnerAssumption DEF TypeOK, Start
<1>10. SlotAccounting'
  BY <1>8, RunnerAssumption DEF SlotAccounting
<1>11. WorkConserving' /\ ShutdownInv'
  BY <1>1, <1>8 DEF Start, WorkConserving, ShutdownInv
<1>12. AbortInv'
  <2>1. ASSUME NEW w \in Workers, aborted'[w]  PROVE pc'[w] \in Holding \cup {"leaving"}
    <3>1. pc[w] \in Holding \cup {"leaving"}
      BY <2>1 DEF Start, IInv, AbortInv
    <3>2. q[w] = pc[w] /\ pc[w] # "waiting"
      BY <3>1, <1>7 DEF Holding
    <3>3. QED  BY <3>1, <3>2, <1>8
  <2>2. QED  BY <2>1 DEF AbortInv
<1>13. AwaitInv'
  BY <1>1 DEF Start, IInv, AwaitInv
<1>14. QED
  BY <1>9, <1>10, <1>11, <1>12, <1>13 DEF IInv

\* A scaling, and a worker whose loop ended: pc and signals before the
\* reconciliation are p and sig.
LEMMA ScalingStep ==
  ASSUME IInv,
         NEW t \in Tasks, NEW d \in 0..MaxIndex, stopping => d = 0,
         NEW p \in [Workers -> Places], NEW sig \in [Workers -> BOOLEAN],
         HoldersOf(p) = Holders,
         \A w \in Workers : p[w] = pc[w] \/ p[w] = "none",
         \A w \in Workers : IF p[w] = "none" THEN ~sig[w] ELSE sig[w] = aborted[w],
         Reconcile(t, d, p, sig),
         desired' = [desired EXCEPT ![t] = d],
         UNCHANGED <<started, stopping, stopped, cron, pending>>,
         scalings' \in 0..MaxScalings,
         \/ awaited' = awaited
         \/ \E w \in Workers : pc[w] # "none" /\ p[w] = "none" /\ awaited' = awaited \ {w}
  PROVE  IInv'
<1>1. TypeOK /\ active = Cardinality(HoldersOf(p))
  BY DEF IInv, SlotAccounting
<1>2. /\ pc' \in [Workers -> Places]
      /\ age' \in [Workers -> 0..AgeCap]
      /\ ahead' \in [Workers -> SUBSET Workers]
      /\ active' \in 0..MaxConcurrentJobs
      /\ active' = Cardinality(Holders')
      /\ ~stopping /\ Waiting' # {} => active' = MaxConcurrentJobs
      /\ aborted' \in [Workers -> BOOLEAN]
      /\ \A w \in Workers :
           \/ pc'[w] = p[w] /\ aborted'[w] = sig[w]
           \/ /\ p[w] # "none" /\ aborted'[w]
              /\ pc'[w] = IF p[w] \in Interruptible THEN "leaving" ELSE p[w]
           \/ /\ d > 0 /\ p[w] = "none" /\ aborted'[w] = sig[w]
              /\ pc'[w] \in {"waiting", "stagger", "job"}
           \/ /\ ~stopping /\ p[w] = "waiting" /\ pc'[w] = "job" /\ aborted'[w] = sig[w]
  BY <1>1, ReconcileLemma
<1>3. TypeOK'
  BY <1>1, <1>2 DEF TypeOK
<1>4. SlotAccounting'
  BY <1>2, RunnerAssumption DEF SlotAccounting
<1>5. AbortInv'
  <2>1. ASSUME NEW w \in Workers, aborted'[w]  PROVE pc'[w] \in Holding \cup {"leaving"}
    <3>1. CASE pc'[w] = p[w] /\ aborted'[w] = sig[w]
      <4>1. p[w] # "none" /\ p[w] = pc[w] /\ aborted[w]
        BY <2>1, <3>1
      <4>2. QED  BY <3>1, <4>1 DEF IInv, AbortInv
    <3>2. CASE /\ p[w] # "none"
               /\ pc'[w] = IF p[w] \in Interruptible THEN "leaving" ELSE p[w]
      BY <3>2 DEF Places, Interruptible, Holding
    <3>3. CASE p[w] = "none" /\ aborted'[w] = sig[w]
      BY <2>1, <3>3
    <3>4. CASE p[w] = "waiting" /\ aborted'[w] = sig[w]
      <4>1. pc[w] = "waiting" /\ aborted[w]
        BY <2>1, <3>4
      <4>2. QED  BY <4>1 DEF IInv, AbortInv, Holding
    <3>5. QED  BY <1>2, <3>1, <3>2, <3>3, <3>4
  <2>2. QED  BY <2>1 DEF AbortInv
<1>6. ShutdownInv'
  <2>1. SUFFICES ASSUME stopping
                 PROVE  /\ ~started /\ \A u \in Tasks : desired'[u] = 0
                        /\ \A w \in Workers : pc'[w] # "none" => aborted'[w]
    BY DEF ShutdownInv
  <2>2. /\ ~started /\ d = 0 /\ \A u \in Tasks : desired[u] = 0
        /\ \A w \in Workers : pc[w] # "none" => aborted[w]
    BY <2>1 DEF IInv, ShutdownInv
  <2>3. \A u \in Tasks : desired'[u] = 0
    BY <2>2, <1>1 DEF TypeOK
  <2>4. ASSUME NEW w \in Workers, pc'[w] # "none"  PROVE aborted'[w]
    BY <2>1, <2>2, <2>4, <1>2
  <2>5. QED  BY <2>2, <2>3, <2>4
<1>7. WorkConserving'
  <2>1. stopping => Waiting' = {}
    <3>1. \A w \in Workers : stopping => pc'[w] # "waiting"
      BY <1>5, <1>6 DEF AbortInv, ShutdownInv, Holding
    <3>2. QED  BY <3>1 DEF Waiting
  <2>2. QED  BY <2>1, <1>2 DEF WorkConserving
<1>8. AwaitInv'
  <2>1. stopping => cron \subseteq awaited /\ \A w \in Workers : pc[w] # "none" => w \in awaited
    BY DEF IInv, AwaitInv
  <2>2. stopped => stopping /\ awaited = {}
    BY DEF IInv, AwaitInv
  <2>3. stopping => \A w \in Workers : pc'[w] # "none" => p[w] # "none"
    <3>1. stopping => d = 0
      OBVIOUS
    <3>2. QED  BY <3>1, <1>2
  <2>4. cron \cap Workers = {}
    BY <1>1, RunnerAssumption DEF TypeOK
  <2>5. stopping => cron' \subseteq awaited'
    BY <2>1, <2>4
  <2>6. stopping => \A w \in Workers : pc'[w] # "none" => w \in awaited'
    <3>1. ASSUME stopping, NEW w \in Workers, pc'[w] # "none"  PROVE w \in awaited'
      <4>1. p[w] # "none" /\ pc[w] # "none"
        BY <2>3, <3>1
      <4>2. QED  BY <2>1, <3>1, <4>1
    <3>2. QED  BY <3>1
  <2>7. stopped' => stopping' /\ awaited' = {}
    BY <2>2
  <2>8. QED  BY <2>5, <2>6, <2>7 DEF AwaitInv
<1>9. QED
  BY <1>3, <1>4, <1>5, <1>6, <1>7, <1>8 DEF IInv

\* setWorkerCount() aborts the surplus and starts what is missing.
LEMMA SetWorkerCountStep ==
  ASSUME IInv, NEW t \in DynamicTasks, NEW n \in 0..MaxIndex, SetWorkerCount(t, n)
  PROVE  IInv'
<1>1. t \in Tasks /\ TypeOK
  BY RunnerAssumption DEF IInv
<1>2. pc \in [Workers -> Places] /\ aborted \in [Workers -> BOOLEAN] /\ HoldersOf(pc) = Holders
  BY <1>1 DEF TypeOK, HoldersOf, Holders
<1>3. \A w \in Workers : IF pc[w] = "none" THEN ~aborted[w] ELSE aborted[w] = aborted[w]
  BY DEF IInv, AbortInv, Holding
<1>4. /\ stopping => n = 0
      /\ Reconcile(t, n, pc, aborted)
      /\ desired' = [desired EXCEPT ![t] = n]
      /\ UNCHANGED <<started, stopping, stopped, cron, pending>>
      /\ awaited' = awaited
  BY DEF SetWorkerCount, stopVars
<1>5. scalings' \in 0..MaxScalings
  BY <1>1, RunnerAssumption DEF SetWorkerCount, TypeOK
<1>6. QED
  BY <1>1, <1>2, <1>3, <1>4, <1>5, ScalingStep

\* A worker that has left is replaced, if it is still wanted.
LEMMA WorkerStoppedStep ==
  ASSUME IInv, NEW w \in Workers, WorkerStopped(w)
  PROVE  IInv'
<1> DEFINE t == w[1]
           p == [pc EXCEPT ![w] = "none"]
           s == [aborted EXCEPT ![w] = FALSE]
<1>1. t \in Tasks /\ TypeOK /\ pc[w] = "leaving"
  BY DEF IInv, Workers, WorkerStopped
<1>2. p \in [Workers -> Places] /\ s \in [Workers -> BOOLEAN]
  BY <1>1 DEF TypeOK, Places
<1>3. HoldersOf(p) = Holders
  BY <1>1 DEF TypeOK, HoldersOf, Holders, Holding
<1>4. \A v \in Workers : p[v] = pc[v] \/ p[v] = "none"
  BY <1>1 DEF TypeOK
<1>5. \A v \in Workers : IF p[v] = "none" THEN ~s[v] ELSE s[v] = aborted[v]
  <2>1. \A v \in Workers : pc[v] = "none" => ~aborted[v]
    BY DEF IInv, AbortInv, Holding
  <2>2. QED  BY <1>1, <2>1 DEF TypeOK
<1>6. /\ Reconcile(t, desired[t], p, s)
      /\ desired' = [desired EXCEPT ![t] = desired[t]]
      /\ UNCHANGED <<started, stopping, stopped, cron, pending>>
      /\ \E v \in Workers : pc[v] # "none" /\ p[v] = "none" /\ awaited' = awaited \ {v}
      /\ scalings' \in 0..MaxScalings
  BY <1>1 DEF WorkerStopped, TypeOK
<1>7. desired[t] \in 0..MaxIndex /\ (stopping => desired[t] = 0)
  BY <1>1 DEF TypeOK, IInv, ShutdownInv
<1> HIDE DEF t, p, s
<1>8. QED
  BY <1>1, <1>2, <1>3, <1>4, <1>5, <1>6, <1>7, ScalingStep
\* A step of one worker through the gate: p is pc after the worker's own move,
\* act the counter, and whatever the dispatch changes comes on top.
LEMMA GateStep ==
  ASSUME IInv,
         NEW p \in [Workers -> Places],
         NEW new \in SUBSET Workers, \A w \in new : p[w] = "waiting",
         NEW act \in 0..MaxConcurrentJobs, act = Cardinality(HoldersOf(p)),
         \A w \in Workers : p[w] # pc[w] =>
           /\ p[w] # "none" /\ pc[w] # "none"
           /\ aborted[w] => p[w] = "leaving",
         QueueAndDispatch(p, new, act),
         UNCHANGED <<stopVars, desired, aborted, cron, scalings>>,
         pending' \in [Tasks -> BOOLEAN]
  PROVE  IInv'
<1>1. TypeOK
  BY DEF IInv
<1>2. /\ pc' \in [Workers -> Places]
      /\ age' \in [Workers -> 0..AgeCap]
      /\ ahead' \in [Workers -> SUBSET Workers]
      /\ active' \in 0..MaxConcurrentJobs
      /\ active' = Cardinality(Holders')
      /\ \A w \in Workers : \/ pc'[w] = p[w]
                            \/ ~stopping /\ p[w] = "waiting" /\ pc'[w] = "job"
      /\ ~stopping /\ Waiting' # {} => active' = MaxConcurrentJobs
  BY <1>1, DispatchLemma
<1>3. TypeOK'
  BY <1>1, <1>2 DEF TypeOK, stopVars
<1>4. SlotAccounting'
  BY <1>2, RunnerAssumption DEF SlotAccounting
<1>5. AbortInv'
  <2>1. ASSUME NEW w \in Workers, aborted'[w]  PROVE pc'[w] \in Holding \cup {"leaving"}
    <3>1. pc[w] \in Holding \cup {"leaving"}
      BY <2>1 DEF IInv, AbortInv
    <3>2. p[w] \in Holding \cup {"leaving"}
      BY <2>1, <3>1
    <3>3. p[w] # "waiting"
      BY <3>2 DEF Holding
    <3>4. QED  BY <3>2, <3>3, <1>2
  <2>2. QED  BY <2>1 DEF AbortInv
<1>6. \A w \in Workers : pc'[w] # "none" => pc[w] # "none"
  BY <1>2
<1>7. ShutdownInv' /\ AwaitInv'
  BY <1>6 DEF IInv, ShutdownInv, AwaitInv, stopVars
<1>8. WorkConserving'
  <2>1. stopping => Waiting' = {}
    BY <1>5, <1>7 DEF AbortInv, ShutdownInv, Holding, Waiting, stopVars
  <2>2. QED  BY <2>1, <1>2 DEF WorkConserving, stopVars
<1>9. QED
  BY <1>3, <1>4, <1>5, <1>7, <1>8 DEF IInv

\* Giving a slot back keeps the counter in its range.
LEMMA HoldersTypes == ASSUME IInv
                      PROVE  /\ IsFiniteSet(Holders) /\ active = Cardinality(Holders)
                             /\ active \in 0..MaxConcurrentJobs
                             /\ \A w \in Holders : active - 1 \in 0..MaxConcurrentJobs
<1>1. IsFiniteSet(Holders)
  <2>1. Holders \in SUBSET Workers
    BY DEF Holders
  <2>2. QED  BY <2>1, FiniteWorkers, FS_Subset
<1>2. active = Cardinality(Holders) /\ active \in 0..MaxConcurrentJobs
  BY DEF IInv, SlotAccounting, TypeOK
<1>3. Holders # {} => active # 0
  BY <1>1, <1>2, FS_EmptySet
<1>4. QED
  BY <1>1, <1>2, <1>3, RunnerAssumption

\* A worker with nothing free stays in the queue; another takes the slot.
LEMMA WaitForAdmissionStep ==
  ASSUME IInv, NEW w \in Workers, WaitForAdmission(w)
  PROVE  IInv'
<1> DEFINE p == [pc EXCEPT ![w] = "waiting"]
<1>1. pc \in [Workers -> Places] /\ pc[w] = "resume" /\ ~aborted[w] /\ pending' \in [Tasks -> BOOLEAN]
  BY DEF IInv, TypeOK, AbortInv, WaitForAdmission, Holding
<1>2. p \in [Workers -> Places] /\ HoldersOf(p) = Holders
  BY <1>1 DEF Places, Interruptible, HoldersOf, Holders, Holding
<1>3. /\ \A v \in {w} : p[v] = "waiting"
      /\ \A v \in Workers : p[v] # pc[v] => v = w
      /\ QueueAndDispatch(p, {w}, active)
      /\ UNCHANGED <<stopVars, desired, aborted, cron, scalings>>
  BY <1>1 DEF WaitForAdmission
<1>4. \A v \in Workers : p[v] # pc[v] =>
           /\ p[v] # "none" /\ pc[v] # "none"
           /\ aborted[v] => p[v] = "leaving"
  BY <1>1, <1>3
<1> HIDE DEF p
<1>5. QED
  BY <1>1, <1>2, <1>3, <1>4, HoldersTypes, GateStep

\* A job that ends hands its slot to a waiter, when there is one.
LEMMA ReleaseStep ==
  ASSUME IInv, NEW w \in Holders, NEW place \in {"sleep", "leaving"},
         ReleaseInto(w, place),
         UNCHANGED <<stopVars, desired, aborted, cron, scalings>>,
         pending' \in [Tasks -> BOOLEAN]
  PROVE  IInv'
<1> DEFINE p == [pc EXCEPT ![w] = IF aborted[w] THEN "leaving" ELSE place]
<1>1. pc \in [Workers -> Places] /\ w \in Workers /\ pc[w] \in Holding
  BY DEF IInv, TypeOK, Holders
<1>2. p \in [Workers -> Places] /\ HoldersOf(p) = Holders \ {w}
  BY <1>1 DEF Places, Interruptible, HoldersOf, Holders, Holding
<1>3. active - 1 \in 0..MaxConcurrentJobs /\ active - 1 = Cardinality(HoldersOf(p))
  BY <1>2, HoldersTypes, FS_RemoveElement
<1>4. QueueAndDispatch(p, {}, active - 1)
  BY DEF ReleaseInto
<1>5. \A v \in Workers : p[v] # pc[v] =>
           /\ p[v] # "none" /\ pc[v] # "none"
           /\ aborted[v] => p[v] = "leaving"
  BY <1>1 DEF Holding
<1> HIDE DEF p
<1>6. QED
  BY <1>2, <1>3, <1>4, <1>5, GateStep

\* A job that found work goes to the back of the queue.
LEMMA JobReturnsMoreStep ==
  ASSUME IInv, NEW w \in Workers, JobReturnsMore(w)
  PROVE  IInv'
<1>1. /\ pc \in [Workers -> Places] /\ pc[w] = "found" /\ w \in Holders
      /\ pending' \in [Tasks -> BOOLEAN]
      /\ UNCHANGED <<stopVars, desired, aborted, cron, scalings>>
  BY DEF JobReturnsMore, IInv, TypeOK, Holders, Holding
<1>2. CASE aborted[w]
  BY <1>1, <1>2, ReleaseStep DEF JobReturnsMore
<1>3. CASE ~aborted[w]
  <2>1. PICK S \in SUBSET Waiting :
          /\ Winners(Waiting, ahead, active - 1, S)
          /\ QueueAndDispatch(
               [v \in Workers |-> IF v = w THEN "waiting" ELSE IF v \in S THEN "job" ELSE pc[v]],
               {w}, active - 1 + Cardinality(S))
    BY <1>3 DEF JobReturnsMore
  <2> DEFINE p == [v \in Workers |-> IF v = w THEN "waiting" ELSE IF v \in S THEN "job" ELSE pc[v]]
             act == active - 1 + Cardinality(S)
  <2>2. IsFiniteSet(Waiting) /\ IsFiniteSet(S)
    <3>1. Waiting \in SUBSET Workers /\ S \in SUBSET Workers
      BY DEF Waiting
    <3>2. QED  BY <3>1, FiniteWorkers, FS_Subset
  <2>3. /\ Cardinality(S) \in Nat /\ Cardinality(Waiting) \in Nat
        /\ Cardinality(S) = Smaller(FreeSlots(active - 1), Cardinality(Waiting))
    BY <2>1, <2>2, FS_CardinalityType DEF Winners
  <2>4. /\ IsFiniteSet(Holders) /\ active = Cardinality(Holders)
        /\ active \in 0..MaxConcurrentJobs /\ active - 1 \in 0..MaxConcurrentJobs
    BY <1>1, HoldersTypes
  <2>5. Cardinality(S) <= MaxConcurrentJobs - (active - 1)
    BY <2>3, <2>4, RunnerAssumption DEF Smaller, FreeSlots, IInv, TypeOK
  <2>6. act \in 0..MaxConcurrentJobs
    BY <2>3, <2>4, <2>5, RunnerAssumption
  <2>7. HoldersOf(p) = (Holders \ {w}) \cup S
    BY <1>1, <2>1 DEF HoldersOf, Holders, Holding, Waiting
  <2>8. act = Cardinality(HoldersOf(p))
    <3> DEFINE rest == Holders \ {w}
    <3>1. IsFiniteSet(rest) /\ Cardinality(rest) = active - 1
      BY <1>1, <2>4, FS_RemoveElement
    <3>2. rest \cap S = {} /\ HoldersOf(p) = rest \cup S
      BY <2>1, <2>7 DEF Holders, Waiting, Holding
    <3> HIDE DEF rest
    <3>3. Cardinality(rest \cup S) = Cardinality(rest) + Cardinality(S) - Cardinality(rest \cap S)
      BY <2>2, <3>1, FS_Union
    <3>4. Cardinality(rest \cap S) = 0
      BY <3>2, FS_EmptySet
    <3>5. Cardinality(HoldersOf(p)) = active - 1 + Cardinality(S)
      <4>1. Cardinality(HoldersOf(p)) = Cardinality(rest \cup S)
        BY <3>2, Zenon
      <4> HIDE DEF p
      <4>2. QED  BY <4>1, <2>3, <2>4, <3>1, <3>3, <3>4
    <3>6. QED  BY <3>5
  <2>9. p \in [Workers -> Places] /\ {w} \in SUBSET Workers /\ \A v \in {w} : p[v] = "waiting"
    BY <1>1 DEF Places, Interruptible, Holding
  <2>10. \A v \in Workers : p[v] # pc[v] =>
           /\ p[v] # "none" /\ pc[v] # "none"
           /\ aborted[v] => p[v] = "leaving"
    <3>1. \A v \in S : pc[v] = "waiting" /\ ~aborted[v]
      BY <2>1 DEF Waiting, IInv, AbortInv, Holding
    <3>2. QED  BY <1>1, <1>3, <3>1
  <2>11. QueueAndDispatch(p, {w}, act)
    BY <2>1
  <2> HIDE DEF p, act
  <2>12. QED
    BY <1>1, <2>6, <2>8, <2>9, <2>10, <2>11, GateStep
<1>4. QED
  BY <1>2, <1>3

\* stop() aborts every worker and empties the queue.
LEMMA StopStep == ASSUME IInv, Stop PROVE IInv'
<1> DEFINE all == {w \in Workers : pc[w] # "none"}
<1>1. /\ TypeOK /\ started /\ started' = FALSE /\ stopping' = TRUE /\ stopped' = stopped
      /\ desired' = [t \in Tasks |-> 0]
      /\ aborted' = [w \in Workers |-> w \in all]
      /\ pc' = [w \in Workers |-> IF w \in all /\ pc[w] \in Interruptible THEN "leaving" ELSE pc[w]]
      /\ age' = [w \in Workers |-> 0] /\ ahead' = [w \in Workers |-> {}]
      /\ awaited' = all \cup cron
      /\ UNCHANGED <<active, cron, pending, scalings>>
  BY DEF IInv, Stop, AfterStop
<1>2. pc' \in [Workers -> Places] /\ pc \in [Workers -> Places]
  BY <1>1 DEF TypeOK, Places
<1>3. TypeOK'
  <2>1. 0 \in 0..MaxIndex /\ 0 \in 0..AgeCap
    BY RunnerAssumption
  <2>2. awaited' \in SUBSET (Workers \cup CronTasks)
    BY <1>1 DEF TypeOK
  <2>3. aborted' \in [Workers -> BOOLEAN]
    <3>1. \A w \in Workers : (w \in all) \in BOOLEAN
      OBVIOUS
    <3> HIDE DEF all
    <3>2. [w \in Workers |-> w \in all] \in [Workers -> BOOLEAN]
      BY <3>1, Zenon
    <3>3. QED  BY <1>1, <3>2, Zenon
  <2>4. started' \in BOOLEAN /\ stopping' \in BOOLEAN /\ stopped' \in BOOLEAN
    BY <1>1 DEF TypeOK
  <2>5. QED  BY <1>1, <1>2, <2>1, <2>2, <2>3, <2>4 DEF TypeOK
<1>4. Holders' = Holders
  BY <1>1, <1>2 DEF Holders, Holding, Interruptible
<1>5. SlotAccounting'
  BY <1>1, <1>4 DEF IInv, SlotAccounting
<1>6. Waiting' = {}
  BY <1>1, <1>2 DEF Waiting, Interruptible
<1>7. AbortInv'
  <2>1. ASSUME NEW w \in Workers, aborted'[w]  PROVE pc'[w] \in Holding \cup {"leaving"}
    BY <1>1, <1>2, <2>1 DEF Places
  <2>2. QED  BY <2>1 DEF AbortInv
<1>8. ShutdownInv'
  BY <1>1 DEF ShutdownInv
<1>9. ~stopped
  BY <1>1 DEF IInv, AwaitInv, ShutdownInv
<1>10. AwaitInv'
  BY <1>1, <1>9 DEF AwaitInv
<1>11. QED
  BY <1>3, <1>5, <1>6, <1>7, <1>8, <1>10 DEF IInv, WorkConserving

\* The steps that leave the gate's accounting alone: a worker outside the gate,
\* or a job between its admission and its release, changes place.
LEMMA QuietStep ==
  ASSUME IInv,
         pc' \in [Workers -> Places],
         Holders' = Holders, Waiting' = Waiting,
         \A w \in Workers : pc'[w] # pc[w] =>
            /\ pc[w] # "none"
            /\ aborted[w] => pc'[w] \in Holding \cup {"leaving"},
         age' \in [Workers -> 0..AgeCap],
         UNCHANGED <<ahead, active, stopVars, desired, aborted, cron, scalings>>,
         pending' \in [Tasks -> BOOLEAN]
  PROVE  IInv'
<1>1. TypeOK'
  BY DEF IInv, TypeOK, stopVars
<1>2. SlotAccounting' /\ WorkConserving'
  BY DEF IInv, SlotAccounting, WorkConserving, stopVars
<1>3. AbortInv'
  BY DEF IInv, AbortInv
<1>4. ShutdownInv' /\ AwaitInv'
  BY DEF IInv, ShutdownInv, AwaitInv, stopVars
<1>5. QED
  BY <1>1, <1>2, <1>3, <1>4 DEF IInv

\* A timer only brings a worker to the door.
LEMMA TimerStep == ASSUME IInv, NEW w \in Workers, Timer(w) PROVE IInv'
<1>1. /\ pc \in [Workers -> Places] /\ pc[w] \in {"stagger", "sleep"}
      /\ pc' = [pc EXCEPT ![w] = "resume"] /\ ~aborted[w]
  BY DEF Timer, IInv, TypeOK, AbortInv, Holding
<1>2. pc' \in [Workers -> Places] /\ Holders' = Holders /\ Waiting' = Waiting
  BY <1>1 DEF Places, Interruptible, Holders, Holding, Waiting
<1>3. QED
  BY <1>1, <1>2, QuietStep DEF Timer, IInv, TypeOK

\* A wake brings the sleepers of one task to the door.
LEMMA WakeStep == ASSUME IInv, NEW t \in Tasks, Wake(t) PROVE IInv'
<1>1. /\ pc \in [Workers -> Places]
      /\ pc' = [w \in Workers |-> IF w[1] = t /\ pc[w] = "sleep" THEN "resume" ELSE pc[w]]
      /\ \A w \in Workers : pc[w] = "sleep" => ~aborted[w]
  BY DEF Wake, IInv, TypeOK, AbortInv, Holding
<1>2. pc' \in [Workers -> Places] /\ Holders' = Holders /\ Waiting' = Waiting
  BY <1>1 DEF Places, Interruptible, Holders, Holding, Waiting
<1>3. QED
  BY <1>1, <1>2, QuietStep DEF Wake, IInv, TypeOK

\* A job that looks for work keeps its slot.
LEMMA JobLooksStep == ASSUME IInv, NEW w \in Workers, JobLooks(w) PROVE IInv'
<1>1. /\ pc \in [Workers -> Places] /\ pc[w] = "job"
      /\ pc' = [pc EXCEPT ![w] = IF pending[w[1]] THEN "found" ELSE "empty"]
      /\ pending' \in [Tasks -> BOOLEAN]
  BY DEF JobLooks, IInv, TypeOK, Workers
<1>2. pc' \in [Workers -> Places] /\ Holders' = Holders /\ Waiting' = Waiting
  BY <1>1 DEF Places, Holders, Holding, Waiting
<1>3. \A v \in Workers : pc'[v] # pc[v] => pc[v] # "none" /\ pc'[v] \in Holding
  BY <1>1 DEF Holding
<1>4. QED
  BY <1>1, <1>2, <1>3, QuietStep DEF JobLooks, IInv, TypeOK

\* Time only makes the waiting older.
LEMMA TickStep == ASSUME IInv, Tick PROVE IInv'
<1>1. /\ age \in [Workers -> 0..AgeCap] /\ pc \in [Workers -> Places]
      /\ age' = [w \in Workers |-> IF w \in Waiting THEN Smaller(age[w] + 1, AgeCap) ELSE 0]
      /\ pc' = pc
  BY DEF Tick, IInv, TypeOK
<1>2. age' \in [Workers -> 0..AgeCap]
  BY <1>1, RunnerAssumption DEF Smaller
<1>3. Holders' = Holders /\ Waiting' = Waiting
  BY <1>1 DEF Holders, Waiting
<1>4. QED
  BY <1>1, <1>2, <1>3, QuietStep DEF Tick, IInv, TypeOK

\* The steps that leave the workers alone.
LEMMA OutsideStep ==
  ASSUME IInv,
         \/ StopResolves
         \/ \E t \in Tasks : Produce(t)
         \/ \E c \in CronTasks : CronFires(c) \/ CronEnds(c)
         \/ UNCHANGED vars
  PROVE  IInv'
<1>1. TypeOK /\ UNCHANGED <<gateVars, desired, aborted, scalings, started, stopping>>
  BY DEF IInv, StopResolves, Produce, CronFires, CronEnds, vars, stopVars
<1>2. Holders' = Holders /\ Waiting' = Waiting
  BY <1>1 DEF Holders, Waiting, gateVars
<1>3. /\ stopped' \in BOOLEAN /\ pending' \in [Tasks -> BOOLEAN]
      /\ cron' \in SUBSET CronTasks /\ awaited' \in SUBSET (Workers \cup CronTasks)
  BY <1>1 DEF StopResolves, Produce, CronFires, CronEnds, vars, stopVars, TypeOK
<1>4. TypeOK'
  BY <1>1, <1>3 DEF TypeOK, gateVars
<1>5. SlotAccounting' /\ WorkConserving' /\ AbortInv' /\ ShutdownInv'
  BY <1>1, <1>2 DEF IInv, SlotAccounting, WorkConserving, AbortInv, ShutdownInv, gateVars
<1>6. AwaitInv'
  <2>1. AwaitInv /\ pc' = pc
    BY <1>1 DEF IInv, gateVars
  <2>2. CASE StopResolves
    BY <2>1, <2>2 DEF StopResolves, AwaitInv
  <2>3. CASE (\E t \in Tasks : Produce(t)) \/ UNCHANGED vars
    BY <2>1, <2>3 DEF Produce, AwaitInv, stopVars, vars
  <2>4. CASE \E c \in CronTasks : CronFires(c)
    BY <2>1, <2>4 DEF CronFires, AwaitInv, stopVars
  <2>5. CASE \E c \in CronTasks : CronEnds(c)
    <3>1. PICK c \in CronTasks : CronEnds(c)
      BY <2>5
    <3>2. c \notin Workers
      BY RunnerAssumption
    <3>3. QED  BY <2>1, <3>1, <3>2 DEF CronEnds, AwaitInv
  <2>6. QED  BY <2>2, <2>3, <2>4, <2>5
<1>7. QED
  BY <1>4, <1>5, <1>6 DEF IInv

\* A job that ends idle or fails gives its slot back.
LEMMA JobEndStep ==
  ASSUME IInv, NEW w \in Workers, JobReturnsIdle(w) \/ JobFails(w)
  PROVE  IInv'
<1>1. /\ w \in Holders /\ ReleaseInto(w, "sleep")
      /\ UNCHANGED <<stopVars, desired, aborted, cron, scalings>>
  BY DEF JobReturnsIdle, JobFails, Holders, Holding
<1>2. pending' \in [Tasks -> BOOLEAN]
  BY DEF JobReturnsIdle, JobFails, IInv, TypeOK
<1>3. QED
  BY <1>1, <1>2, ReleaseStep

-----------------------------------------------------------------------------
\* Each step of the runner keeps the invariant.
LEMMA NextIInv == IInv /\ [Next]_vars => IInv'
<1> SUFFICES ASSUME IInv, [Next]_vars PROVE IInv'
  OBVIOUS
<1>1. CASE Start  BY <1>1, StartStep
<1>2. CASE Stop  BY <1>2, StopStep
<1>3. CASE Tick  BY <1>3, TickStep
<1>4. CASE \E t \in DynamicTasks, n \in 0..MaxIndex : SetWorkerCount(t, n)
  BY <1>4, SetWorkerCountStep
<1>5. CASE \E t \in Tasks : Wake(t)  BY <1>5, WakeStep
<1>6. CASE \E w \in Workers : WorkerStopped(w)  BY <1>6, WorkerStoppedStep
<1>7. CASE \E w \in Workers : Timer(w)  BY <1>7, TimerStep
<1>8. CASE \E w \in Workers : WaitForAdmission(w)  BY <1>8, WaitForAdmissionStep
<1>9. CASE \E w \in Workers : JobLooks(w)  BY <1>9, JobLooksStep
<1>10. CASE \E w \in Workers : JobReturnsIdle(w) \/ JobFails(w)  BY <1>10, JobEndStep
<1>11. CASE \E w \in Workers : JobReturnsMore(w)  BY <1>11, JobReturnsMoreStep
<1>12. CASE \/ StopResolves
            \/ \E t \in Tasks : Produce(t)
            \/ \E c \in CronTasks : CronFires(c) \/ CronEnds(c)
            \/ UNCHANGED vars
  BY <1>12, OutsideStep
<1>13. QED
  BY <1>1, <1>2, <1>3, <1>4, <1>5, <1>6, <1>7, <1>8, <1>9, <1>10, <1>11, <1>12 DEF Next

\* Every state the scheduler reaches satisfies the inductive invariant.
THEOREM Invariance == Spec => []IInv
  BY InitIInv, NextIInv, PTL DEF Spec

\* The types, for every instance.
THEOREM TypeCorrect == Spec => []TypeOK
<1>1. IInv => TypeOK
  BY DEF IInv
<1>2. QED
  BY <1>1, Invariance, PTL

\* Exactly one release for every admission, whatever ends or cancels a worker,
\* and never more jobs than the gate admits (TaskRunner.js #activeJobs).
THEOREM SlotsExact == Spec => []SlotAccounting
<1>1. IInv => SlotAccounting
  BY DEF IInv
<1>2. QED
  BY <1>1, Invariance, PTL

\* No worker waits beside a free slot: dispatching on queue and capacity
\* changes alone, without a polling timer, is enough (TaskRunner.js #dispatch).
THEOREM NoIdleSlot == Spec => []WorkConserving
<1>1. IInv => WorkConserving
  BY DEF IInv
<1>2. QED
  BY <1>1, Invariance, PTL

\* The promise of stop() resolves only when nothing runs any more.
THEOREM StopIsComplete == Spec => []StopWaitsForAll
<1>1. IInv => StopWaitsForAll
  BY DEF IInv, AwaitInv, StopWaitsForAll
<1>2. QED
  BY <1>1, Invariance, PTL
\* While the runner is stopping, a dispatch admits nobody.
LEMMA StoppedDispatch ==
  ASSUME stopping, NEW p, NEW new, NEW act, QueueAndDispatch(p, new, act)
  PROVE  \A w \in Workers : pc'[w] = p[w]
<1> DEFINE waiting == {w \in Workers : p[w] = "waiting"}
<1>1. PICK S \in SUBSET waiting :
        /\ Winners(waiting, Order(waiting \ new, new), act, S)
        /\ pc' = [w \in Workers |-> IF w \in S THEN "job" ELSE p[w]]
  BY DEF QueueAndDispatch
<1>2. IsFiniteSet(waiting) /\ IsFiniteSet(S)
  <2>1. waiting \in SUBSET Workers /\ S \in SUBSET Workers
    OBVIOUS
  <2>2. QED  BY <2>1, FiniteWorkers, FS_Subset
<1>3. Cardinality(waiting) \in Nat /\ Cardinality(S) = Smaller(0, Cardinality(waiting))
  BY <1>1, <1>2, FS_CardinalityType DEF Winners, FreeSlots
<1>4. S = {}
  BY <1>2, <1>3, FS_EmptySet DEF Smaller
<1>5. QED
  BY <1>1, <1>4

\* While the runner is stopping, reconciling a task puts nobody into a job.
LEMMA StoppedReconcile ==
  ASSUME IInv, stopping, NEW t \in Tasks,
         NEW p \in [Workers -> Places], NEW sig \in [Workers -> BOOLEAN],
         HoldersOf(p) = Holders, Reconcile(t, 0, p, sig)
  PROVE  \A w \in Workers : pc'[w] \in Holding => p[w] \in Holding
<1>1. TypeOK /\ active = Cardinality(HoldersOf(p)) /\ 0 \in 0..MaxIndex
  BY RunnerAssumption DEF IInv, SlotAccounting
<1>2. \A w \in Workers :
        \/ pc'[w] = p[w]
        \/ pc'[w] = IF p[w] \in Interruptible THEN "leaving" ELSE p[w]
  BY <1>1, ReconcileLemma
<1>3. QED
  BY <1>2 DEF Holding

\* After stop() no worker enters a job and no cron run begins.
THEOREM GracefulStop == Spec => NothingStartsAfterStop
<1>1. ASSUME IInv, [Next]_vars, stopping
      PROVE  Holders' \subseteq Holders /\ cron' \subseteq cron
  <2>1. /\ TypeOK /\ ~started
        /\ \A t \in Tasks : desired[t] = 0
        /\ \A w \in Workers : pc[w] # "none" => aborted[w] /\ pc[w] \in Holding \cup {"leaving"}
    BY <1>1 DEF IInv, ShutdownInv, AbortInv
  <2>2. cron' \subseteq cron
    BY <1>1, <2>1 DEF Next, vars, Start, Stop, StopResolves, Tick, SetWorkerCount, Wake, Produce,
       WorkerStopped, Timer, WaitForAdmission, JobLooks, JobReturnsIdle, JobReturnsMore, JobFails,
       CronFires, CronEnds
  <2>3. ASSUME NEW v \in Workers, NEW place \in {"sleep", "leaving"}, ReleaseInto(v, place),
               pc[v] \in Holding
        PROVE  \A w \in Workers : pc'[w] \in Holding => pc[w] \in Holding
    <3> DEFINE p == [pc EXCEPT ![v] = IF aborted[v] THEN "leaving" ELSE place]
    <3>1. \A w \in Workers : pc'[w] = p[w]
      BY <1>1, <2>3, StoppedDispatch DEF ReleaseInto
    <3>2. QED  BY <2>1, <2>3, <3>1 DEF TypeOK, Holding
  <2>4. \A w \in Workers : pc'[w] \in Holding => pc[w] \in Holding
    <3>1. CASE Start \/ Stop
      BY <1>1, <2>1, <3>1 DEF Start, Stop
    <3>2. CASE \/ StopResolves \/ Tick \/ UNCHANGED vars
               \/ \E t \in Tasks : Produce(t)
               \/ \E c \in CronTasks : CronFires(c) \/ CronEnds(c)
      BY <3>2 DEF StopResolves, Tick, Produce, CronFires, CronEnds, vars, gateVars
    <3>3. CASE \E t \in DynamicTasks, n \in 0..MaxIndex : SetWorkerCount(t, n)
      <4>1. PICK t \in Tasks : Reconcile(t, 0, pc, aborted)
        BY <1>1, <3>3, RunnerAssumption DEF SetWorkerCount
      <4>2. HoldersOf(pc) = Holders
        BY DEF HoldersOf, Holders
      <4>3. QED  BY <1>1, <2>1, <4>1, <4>2, StoppedReconcile DEF TypeOK
    <3>4. CASE \E w \in Workers : WorkerStopped(w)
      <4>1. PICK v \in Workers : WorkerStopped(v)
        BY <3>4
      <4> DEFINE p == [pc EXCEPT ![v] = "none"]
                 s == [aborted EXCEPT ![v] = FALSE]
      <4>2. v[1] \in Tasks /\ Reconcile(v[1], 0, p, s) /\ pc[v] = "leaving"
        BY <2>1, <4>1 DEF WorkerStopped, Workers
      <4>3. p \in [Workers -> Places] /\ s \in [Workers -> BOOLEAN] /\ HoldersOf(p) = Holders
        BY <2>1, <4>2 DEF TypeOK, Places, HoldersOf, Holders, Holding
      <4>4. \A w \in Workers : pc'[w] \in Holding => p[w] \in Holding
        <5> HIDE DEF p, s
        <5>1. QED  BY <1>1, <4>2, <4>3, StoppedReconcile
      <4>5. QED  BY <2>1, <4>4 DEF TypeOK, Holding
    <3>5. CASE \/ \E t \in Tasks : Wake(t)
               \/ \E w \in Workers : Timer(w) \/ JobLooks(w)
      BY <2>1, <3>5 DEF Wake, Timer, JobLooks, TypeOK, Holding
    <3>6. CASE \E w \in Workers : WaitForAdmission(w)
      BY <2>1, <3>6 DEF WaitForAdmission, Holding
    <3>7. CASE \E w \in Workers : JobReturnsIdle(w) \/ JobFails(w) \/ JobReturnsMore(w)
      <4>1. PICK v \in Workers :
              pc[v] \in Holding /\ \E place \in {"sleep", "leaving"} : ReleaseInto(v, place)
        BY <2>1, <3>7 DEF JobReturnsIdle, JobFails, JobReturnsMore, Holding
      <4>2. QED  BY <2>3, <4>1
    <3>8. QED
      BY <1>1, <3>1, <3>2, <3>3, <3>4, <3>5, <3>6, <3>7 DEF Next
  <2>5. QED  BY <2>2, <2>4 DEF Holders
<1>2. QED
  BY <1>1, Invariance, PTL DEF Spec, NothingStartsAfterStop

-----------------------------------------------------------------------------
(* Finite linear orders.  b[w] is the set of those before w; the members   *)
(* with fewer than n before them are the first n.                          *)

Linear(F, b) ==
  /\ \A w \in F : b[w] \subseteq F /\ w \notin b[w]
  /\ \A v, w \in F : v # w => v \in b[w] \/ w \in b[v]
  /\ \A u, v, w \in F : u \in b[v] /\ v \in b[w] => u \in b[w]

Closed(M, b) == \A w \in M : b[w] \subseteq M

First(F, b, n) == {w \in F : Cardinality(b[w]) < n}

\* Who comes later has more before them.
LEMMA LaterHasMore ==
  ASSUME NEW F, IsFiniteSet(F), NEW b, Linear(F, b),
         NEW v \in F, NEW w \in F, v \in b[w]
  PROVE  Cardinality(b[v]) < Cardinality(b[w])
<1>1. b[v] \in SUBSET F /\ b[w] \in SUBSET F
  BY DEF Linear
<1>2. b[v] \cup {v} \in SUBSET b[w] /\ v \notin b[v]
  BY <1>1 DEF Linear
<1>3. IsFiniteSet(b[v]) /\ IsFiniteSet(b[w])
  BY <1>1, FS_Subset
<1>4. Cardinality(b[v]) \in Nat /\ Cardinality(b[w]) \in Nat
  BY <1>3, FS_CardinalityType
<1>5. Cardinality(b[v] \cup {v}) = Cardinality(b[v]) + 1
  BY <1>2, <1>3, FS_AddElement
<1>6. Cardinality(b[v] \cup {v}) <= Cardinality(b[w])
  BY <1>2, <1>3, FS_Subset
<1>7. QED
  BY <1>4, <1>5, <1>6

\* A nonempty part of a finite linear order has a first member.
LEMMA FirstMember ==
  ASSUME NEW F, IsFiniteSet(F), NEW b, Linear(F, b),
         NEW G \in SUBSET F, G # {}
  PROVE  \E m \in G : b[m] \cap G = {}
<1> DEFINE T == {b[m] : m \in G}
<1>1. T \subseteq SUBSET F /\ T # {}
  BY DEF Linear
<1>2. PICK X \in T : \A Y \in T : <<Y, X>> \notin StrictSubsetOrdering(F)
  <2> HIDE DEF T
  <2>1. T \subseteq FiniteSubsetsOf(F)
    BY <1>1, FS_Subset DEF FiniteSubsetsOf
  <2>2. QED  BY <1>1, <2>1, FS_StrictSubsetOrderingWellFounded, WFMin
<1>3. PICK m \in G : X = b[m]
  BY <1>2
<1>4. ASSUME NEW k \in b[m] \cap G  PROVE FALSE
  <2>1. k \in F /\ m \in F /\ k \in b[m] /\ b[k] \in T
    OBVIOUS
  <2>2. b[k] \subseteq b[m] /\ b[k] \in SUBSET F /\ b[m] \in SUBSET F
    BY <2>1 DEF Linear
  <2>3. k \notin b[k]
    BY <2>1 DEF Linear
  <2>4. <<b[k], b[m]>> \in StrictSubsetOrdering(F)
    BY <2>1, <2>2, <2>3 DEF StrictSubsetOrdering
  <2>5. QED  BY <1>2, <1>3, <2>1, <2>4
<1>5. QED
  BY <1>4

\* The first n are at most n, and n at least unless they are all there is;
\* they are closed under what comes before.
LEMMA FirstMembers ==
  ASSUME NEW F, IsFiniteSet(F), NEW b, Linear(F, b), NEW n \in Int
  PROVE  /\ n <= 0 => First(F, b, n) = {}
         /\ n >= 0 => Cardinality(First(F, b, n)) <= n
         /\ First(F, b, n) = F \/ Cardinality(First(F, b, n)) >= n
         /\ Closed(First(F, b, n), b)
<1> DEFINE M == First(F, b, n)
           rank(k) == Cardinality(b[k])
<1>1. \A k \in F : IsFiniteSet(b[k]) /\ rank(k) \in Nat
  <2>1. \A k \in F : b[k] \in SUBSET F
    BY DEF Linear
  <2>2. QED  BY <2>1, FS_Subset, FS_CardinalityType
<1>2. \A k \in F : k \in M <=> rank(k) < n
  BY DEF First
<1>3. M \in SUBSET F
  BY DEF First
<1> HIDE DEF M
<1>4. IsFiniteSet(M) /\ Cardinality(M) \in Nat
  BY <1>3, FS_Subset, FS_CardinalityType
<1>5. \A j, k \in F : j \in b[k] => rank(j) < rank(k)
  BY LaterHasMore
<1> HIDE DEF rank
<1>6. n <= 0 => M = {}
  BY <1>1, <1>2, <1>3
<1>7. ASSUME n > 0  PROVE Cardinality(M) <= n
  <2> DEFINE f == [k \in M |-> rank(k)]
  <2>1. f \in [M -> 0..(n - 1)]
    BY <1>1, <1>2, <1>3, <1>7
  <2>2. ASSUME NEW j \in M, NEW k \in M, f[j] = f[k]  PROVE j = k
    <3>1. j \in F /\ k \in F /\ rank(j) = rank(k) /\ rank(j) \in Nat
      BY <1>1, <1>3, <2>2
    <3>2. j \notin b[k] /\ k \notin b[j]
      BY <1>5, <3>1
    <3>3. QED  BY <3>1, <3>2 DEF Linear
  <2>3. f \in Injection(M, 0..(n - 1))
    BY <2>1, <2>2 DEF Injection, IsInjective
  <2>4. IsFiniteSet(0..(n - 1)) /\ Cardinality(0..(n - 1)) = n
    BY <1>7, FS_Interval
  <2> HIDE DEF f
  <2>5. QED  BY <2>3, <2>4, FS_Injection
<1>8. n >= 0 => Cardinality(M) <= n
  BY <1>6, <1>7, FS_EmptySet
<1>9. ASSUME M # F  PROVE Cardinality(M) >= n
  <2> DEFINE G == F \ M
  <2>1. G \in SUBSET F /\ G # {}
    BY <1>3, <1>9
  <2>2. PICK m \in G : b[m] \cap G = {}
    <3> HIDE DEF G
    <3> QED  BY <2>1, FirstMember
  <2>3. b[m] \in SUBSET M
    BY <2>2 DEF Linear
  <2>4. Cardinality(b[m]) <= Cardinality(M)
    BY <1>4, <2>3, FS_Subset
  <2>5. ~(rank(m) < n) /\ rank(m) \in Nat
    BY <1>1, <1>2, <2>2
  <2>6. rank(m) <= Cardinality(M)
    BY <2>4 DEF rank
  <2>7. QED  BY <1>4, <2>5, <2>6
<1>10. Closed(M, b)
  <2>1. ASSUME NEW w \in M, NEW v \in b[w]  PROVE v \in M
    <3>1. w \in F /\ v \in F
      BY <1>3, <2>1 DEF Linear
    <3>2. rank(v) < rank(w) /\ rank(w) < n
      BY <1>2, <1>5, <2>1, <3>1
    <3>3. rank(v) \in Nat /\ rank(w) \in Nat
      BY <1>1, <3>1
    <3>4. rank(v) < n
      BY <3>2, <3>3
    <3>5. QED  BY <1>2, <3>1, <3>4
  <2>2. QED  BY <2>1 DEF Closed
<1>11. QED
  BY <1>6, <1>8, <1>9, <1>10 DEF M

\* No other closed set is as large.
LEMMA ClosedUnique ==
  ASSUME NEW F, IsFiniteSet(F), NEW b, Linear(F, b),
         NEW S \in SUBSET F, NEW T \in SUBSET F, Closed(S, b), Closed(T, b),
         Cardinality(S) = Cardinality(T)
  PROVE  S = T
<1>1. S \subseteq T \/ T \subseteq S
  <2>1. SUFFICES ASSUME NEW s \in S \ T, NEW t \in T \ S  PROVE FALSE
    OBVIOUS
  <2>2. s \in b[t] \/ t \in b[s]
    BY DEF Linear
  <2>3. QED  BY <2>2 DEF Closed
<1>2. IsFiniteSet(S) /\ IsFiniteSet(T)
  BY FS_Subset
<1>3. QED
  BY <1>1, <1>2, FS_Subset

-----------------------------------------------------------------------------
(* Scaling.  Rank(F, k) is the position of k in F: reconciling keeps the   *)
(* first members of one set and takes the first members of another.        *)

Rank(F, k) == Cardinality({j \in F : j < k})

\* A set of worker indexes is finite, and so is every part of it.
LEMMA IndexSets ==
  ASSUME NEW F \in SUBSET Indexes
  PROVE  /\ IsFiniteSet(F) /\ Cardinality(F) \in Nat
         /\ \A k : IsFiniteSet({j \in F : j < k}) /\ Rank(F, k) \in Nat
<1>1. \A A \in SUBSET Indexes : IsFiniteSet(A) /\ Cardinality(A) \in Nat
  BY FiniteWorkers, FS_Subset, FS_CardinalityType
<1>2. \A k : {j \in F : j < k} \in SUBSET Indexes
  OBVIOUS
<1>3. QED
  BY <1>1, <1>2 DEF Rank

\* Indexes in their order: the members of rank below n are at most n, and at
\* least n unless they are the whole set.
LEMMA FirstIndexes ==
  ASSUME NEW F \in SUBSET Indexes, NEW n \in Int
  PROVE  LET M == {k \in F : Rank(F, k) < n}
         IN  /\ n <= 0 => M = {}
             /\ n >= 0 => Cardinality(M) <= n
             /\ M = F \/ Cardinality(M) >= n
<1> DEFINE b == [k \in F |-> {j \in F : j < k}]
<1>1. IsFiniteSet(F) /\ F \in SUBSET Int
  BY IndexSets, RunnerAssumption DEF Indexes
<1>2. Linear(F, b)
  BY <1>1 DEF Linear
<1>3. {k \in F : Rank(F, k) < n} = First(F, b, n)
  BY DEF First, Rank
<1> HIDE DEF b
<1>4. QED
  BY <1>1, <1>2, <1>3, FirstMembers

\* The indexes reconciling takes into use, and those it lets run on, when the
\* indexes E are in use and d are wanted.
Taken(E, d) ==
  {k \in Indexes \ E : Rank(Indexes \ E, k) < d - Cardinality(E)}
Kept(E, d) == {k \in E : Rank(E, k) < d}

\* Reconciling fills the task up to the count, never beyond it, and lets no
\* more than the count run on.
LEMMA Refill ==
  ASSUME NEW E \in SUBSET Indexes, NEW d \in 0..MaxIndex
  PROVE  /\ d <= Cardinality(E \cup Taken(E, d))
         /\ Taken(E, d) = {} \/ Cardinality(E \cup Taken(E, d)) <= d
         /\ Cardinality(Kept(E, d) \cup Taken(E, d)) <= d
<1> DEFINE T == Taken(E, d)
           F == Indexes \ E
           n == d - Cardinality(E)
<1>1. /\ IsFiniteSet(E) /\ Cardinality(E) \in Nat /\ d \in Nat /\ n \in Int
      /\ MaxIndex \in Nat /\ d <= MaxIndex
  BY IndexSets, RunnerAssumption
<1>2. /\ T \in SUBSET Indexes /\ IsFiniteSet(T) /\ Cardinality(T) \in Nat
      /\ Kept(E, d) \in SUBSET E
  <2>1. T \in SUBSET Indexes /\ Kept(E, d) \in SUBSET E
    BY DEF Taken, Kept
  <2>2. QED  BY <2>1, IndexSets
<1>3. /\ n <= 0 => T = {}
      /\ n >= 0 => Cardinality(T) <= n
      /\ T = F \/ Cardinality(T) >= n
  <2> HIDE DEF n
  <2>1. /\ n <= 0 => {k \in F : Rank(F, k) < n} = {}
        /\ n >= 0 => Cardinality({k \in F : Rank(F, k) < n}) <= n
        /\ {k \in F : Rank(F, k) < n} = F \/ Cardinality({k \in F : Rank(F, k) < n}) >= n
    BY <1>1, FirstIndexes
  <2>2. T = {k \in F : Rank(F, k) < n}
    BY DEF Taken, n
  <2>3. QED  BY <2>1, <2>2
<1>4. E \cap T = {}
  BY DEF Taken
<1>5. Cardinality(E \cup T) = Cardinality(E) + Cardinality(T)
  <2> HIDE DEF T
  <2>1. Cardinality(E \cup T) = Cardinality(E) + Cardinality(T) - Cardinality({})
    BY <1>1, <1>2, <1>4, FS_Union, Zenon
  <2>2. QED  BY <2>1, <1>1, <1>2, FS_EmptySet
<1>6. d <= Cardinality(E \cup T)
  <2>1. CASE T = F
    <3>1. E \cup T = Indexes
      BY <2>1
    <3>2. Cardinality(Indexes) = MaxIndex
      BY RunnerAssumption, FS_Interval DEF Indexes
    <3>3. QED  BY <3>1, <3>2, <1>1
  <2>2. CASE Cardinality(T) >= n
    <3> HIDE DEF T
    <3> QED  BY <2>2, <1>1, <1>2, <1>5
  <2>3. QED  BY <2>1, <2>2, <1>3
<1>7. T = {} \/ Cardinality(E \cup T) <= d
  <2> HIDE DEF T
  <2> QED  BY <1>1, <1>2, <1>3, <1>5
<1>8. Cardinality(Kept(E, d) \cup T) <= d
  <2>1. CASE T = {}
    <3>1. Cardinality(Kept(E, d)) <= d
      BY <1>1, FirstIndexes DEF Kept
    <3>2. Kept(E, d) \cup T = Kept(E, d)
      BY <2>1
    <3>3. QED  BY <3>1, <3>2
  <2>2. CASE Cardinality(E \cup T) <= d
    <3>1. Kept(E, d) \cup T \in SUBSET (E \cup T) /\ E \cup T \in SUBSET Indexes
      BY <1>2
    <3> HIDE DEF T
    <3>2. Cardinality(Kept(E, d) \cup T) <= Cardinality(E \cup T)
      BY <3>1, IndexSets, FS_Subset
    <3>3. Kept(E, d) \cup T \in SUBSET Indexes
      BY <3>1
    <3>4. Cardinality(Kept(E, d) \cup T) \in Nat /\ Cardinality(E \cup T) \in Nat
      BY <3>1, <3>3, IndexSets
    <3>5. QED  BY <3>2, <3>4, <2>2, <1>1
  <2>3. QED  BY <2>1, <2>2, <1>7
<1>9. QED
  BY <1>6, <1>7, <1>8

\* A dispatch frees no slot and takes none into use.
LEMMA DispatchKeepsSlots ==
  ASSUME NEW p, NEW new, NEW act, QueueAndDispatch(p, new, act)
  PROVE  \A w \in Workers : pc'[w] = "none" <=> p[w] = "none"
<1>1. PICK S \in SUBSET {w \in Workers : p[w] = "waiting"} :
        pc' = [w \in Workers |-> IF w \in S THEN "job" ELSE p[w]]
  BY DEF QueueAndDispatch
<1>2. QED
  BY <1>1

\* The workers reconciling starts and those it stops, by their indexes.
LEMMA ReconcileSlots ==
  ASSUME NEW p, NEW u \in Tasks, NEW d
  PROVE  \A t \in Tasks, i \in Indexes :
           /\ <<t, i>> \in Missing(p, u, d) <=> t = u /\ i \in Taken(Existing(p, u), d)
           /\ <<t, i>> \in Surplus(p, u, d) <=>
                t = u /\ i \in Existing(p, u) /\ Rank(Existing(p, u), i) >= d
  BY DEF Missing, Surplus, Taken, Rank

\* Reconciling task u changes the slots of u alone, takes the missing ones
\* into use, and leaves running only the first of those that were there.
LEMMA ReconcileCounts ==
  ASSUME NEW u \in Tasks, NEW d \in 0..MaxIndex,
         NEW p \in [Workers -> Places], NEW sig \in [Workers -> BOOLEAN],
         Reconcile(u, d, p, sig)
  PROVE  /\ \A t \in Tasks \ {u} :
              /\ Existing(pc', t) = Existing(p, t)
              /\ \A i \in Indexes : aborted'[<<t, i>>] = sig[<<t, i>>]
         /\ Existing(pc', u) = Existing(p, u) \cup Taken(Existing(p, u), d)
         /\ Remaining(u)' \subseteq Kept(Existing(p, u), d) \cup Taken(Existing(p, u), d)
<1> DEFINE stops  == Surplus(p, u, d)
           spawns == Missing(p, u, d)
           q      == AfterSpawn(AfterStop(p, stops), spawns)
           E      == Existing(p, u)
<1>1. /\ aborted' = [w \in Workers |-> IF w \in stops THEN TRUE ELSE sig[w]]
      /\ \A w \in Workers : pc'[w] = "none" <=> q[w] = "none"
  <2>1. /\ aborted' = [w \in Workers |-> IF w \in stops THEN TRUE ELSE sig[w]]
        /\ QueueAndDispatch(q, {w \in spawns : w[2] = 0}, active)
    BY DEF Reconcile
  <2> HIDE DEF q
  <2>2. QED  BY <2>1, DispatchKeepsSlots
<1>2. \A w \in Workers : q[w] = "none" <=> p[w] = "none" /\ w \notin spawns
  <2>1. q = [w \in Workers |->
               IF w \in spawns THEN (IF w[2] = 0 THEN "waiting" ELSE "stagger")
               ELSE IF w \in stops /\ p[w] \in Interruptible THEN "leaving" ELSE p[w]]
    BY DEF AfterSpawn, AfterStop
  <2> HIDE DEF stops, spawns
  <2>2. QED  BY <2>1 DEF Interruptible
<1>3. \A t \in Tasks, i \in Indexes :
        /\ <<t, i>> \in Workers
        /\ <<t, i>> \in spawns <=> t = u /\ i \in Taken(E, d)
        /\ <<t, i>> \in stops <=> t = u /\ i \in E /\ Rank(E, i) >= d
  <2> HIDE DEF stops, spawns
  <2>1. \A t \in Tasks, i \in Indexes : <<t, i>> \in Workers
    BY DEF Workers
  <2>2. QED  BY <2>1, ReconcileSlots, Zenon DEF stops, spawns
<1> HIDE DEF stops, spawns, q
<1>4. \A t \in Tasks, i \in Indexes :
        pc'[<<t, i>>] # "none" <=> p[<<t, i>>] # "none" \/ (t = u /\ i \in Taken(E, d))
  BY <1>1, <1>2, <1>3, Zenon
<1>5. Taken(E, d) \subseteq Indexes
  BY DEF Taken
<1>6. \A t \in Tasks \ {u} :
        /\ Existing(pc', t) = Existing(p, t)
        /\ \A i \in Indexes : aborted'[<<t, i>>] = sig[<<t, i>>]
  BY <1>1, <1>3, <1>4 DEF Existing
<1>7. Existing(pc', u) = E \cup Taken(E, d)
  <2>1. \A i \in Indexes : i \in Existing(pc', u) <=> i \in E \/ i \in Taken(E, d)
    BY <1>4 DEF Existing
  <2>2. Existing(pc', u) \subseteq Indexes /\ E \subseteq Indexes
    BY DEF Existing
  <2> HIDE DEF E
  <2>3. QED  BY <2>1, <2>2, <1>5
<1>8. ASSUME NEW i \in E, ~aborted'[<<u, i>>]  PROVE i \in Kept(E, d)
  <2>1. i \in Indexes /\ E \in SUBSET Indexes
    BY DEF Existing
  <2>2. <<u, i>> \in Workers /\ <<u, i>> \notin stops
    BY <1>1, <1>3, <1>8, <2>1
  <2>3. ~(Rank(E, i) >= d)
    BY <1>3, <2>1, <2>2, Zenon
  <2> HIDE DEF E
  <2>4. Rank(E, i) \in Nat
    BY <2>1, IndexSets
  <2>5. d \in Int
    BY RunnerAssumption
  <2>6. QED  BY <2>3, <2>4, <2>5 DEF Kept
<1>9. Remaining(u)' \subseteq Kept(E, d) \cup Taken(E, d)
  BY <1>7, <1>8 DEF Remaining
<1>10. QED
  BY <1>6, <1>7, <1>9

\* The invariant behind the counts: before start() there are no workers.
CountsInv ==
  /\ CountsBracketed
  /\ ~started /\ ~stopping => \A w \in Workers : pc[w] = "none"

\* A step that neither takes a slot into use nor frees one, changes no count
\* and lets no aborted worker run on, keeps the counts.
LEMMA SlotsUnchanged ==
  ASSUME IInv, CountsInv,
         \A w \in Workers : pc'[w] = "none" <=> pc[w] = "none",
         UNCHANGED <<started, stopping, desired, aborted>>
  PROVE  CountsInv' /\ Grows
<1>1. ASSUME NEW t \in Tasks
      PROVE  Existing(pc', t) = Existing(pc, t) /\ Remaining(t)' = Remaining(t)
  <2>1. \A i \in Indexes : <<t, i>> \in Workers
    BY DEF Workers
  <2>2. Existing(pc', t) = Existing(pc, t)
    BY <2>1 DEF Existing
  <2>3. QED  BY <2>2 DEF Remaining
<1>2. \A t \in Tasks : ~(Cardinality(Existing(pc', t)) > Cardinality(Existing(pc, t)))
  <2>1. \A t \in Tasks : Cardinality(Existing(pc, t)) \in Nat
    BY IndexSets DEF Existing
  <2>2. QED  BY <1>1, <2>1
<1>3. QED
  BY <1>1, <1>2 DEF CountsInv, CountsBracketed, Grows

\* Counts after task u was reconciled: p and sig as in ScalingStep.
LEMMA ReconciledCounts ==
  ASSUME IInv, CountsInv, started \/ stopping,
         NEW u \in Tasks, NEW d \in 0..MaxIndex,
         NEW p \in [Workers -> Places], NEW sig \in [Workers -> BOOLEAN],
         \A w \in Workers : p[w] = pc[w] \/ (p[w] = "none" /\ w[1] = u),
         \A w \in Workers : w[1] # u => sig[w] = aborted[w],
         Reconcile(u, d, p, sig),
         desired' = [desired EXCEPT ![u] = d],
         UNCHANGED <<started, stopping>>
  PROVE  CountsInv' /\ Grows
<1> DEFINE E == Existing(p, u)
<1>1. /\ desired \in [Tasks -> 0..MaxIndex] /\ desired' \in [Tasks -> 0..MaxIndex]
      /\ desired'[u] = d /\ \A t \in Tasks \ {u} : desired'[t] = desired[t]
  BY DEF IInv, TypeOK
<1>2. \A q : \A t \in Tasks : Existing(q, t) \in SUBSET Indexes
  BY DEF Existing
<1>3. \A q : \A t \in Tasks : Cardinality(Existing(q, t)) \in Nat
  BY <1>2, IndexSets
<1>4. /\ \A t \in Tasks \ {u} :
              /\ Existing(pc', t) = Existing(p, t)
              /\ \A i \in Indexes : aborted'[<<t, i>>] = sig[<<t, i>>]
      /\ Existing(pc', u) = E \cup Taken(E, d)
      /\ Remaining(u)' \subseteq Kept(E, d) \cup Taken(E, d)
  BY ReconcileCounts
<1>5. ASSUME NEW t \in Tasks \ {u}
      PROVE  Existing(pc', t) = Existing(pc, t) /\ Remaining(t)' = Remaining(t)
  <2>1. \A i \in Indexes : <<t, i>> \in Workers /\ <<t, i>>[1] # u
    BY DEF Workers
  <2>2. Existing(p, t) = Existing(pc, t)
    BY <2>1 DEF Existing
  <2>3. \A i \in Indexes : aborted'[<<t, i>>] = aborted[<<t, i>>]
    BY <1>4, <2>1
  <2>4. QED  BY <1>2, <1>4, <2>2, <2>3 DEF Remaining
<1>6. E \in SUBSET Existing(pc, u)
  BY DEF Existing, Workers
<1>7. /\ d <= Cardinality(E \cup Taken(E, d))
      /\ Taken(E, d) = {} \/ Cardinality(E \cup Taken(E, d)) <= d
      /\ Cardinality(Kept(E, d) \cup Taken(E, d)) <= d
  BY <1>2, Refill
<1>8. Cardinality(Remaining(u)') <= d
  <2>1. Kept(E, d) \cup Taken(E, d) \in SUBSET Indexes
    BY <1>2 DEF Kept, Taken
  <2>2. Remaining(u)' \in SUBSET Indexes
    BY <1>4, <2>1
  <2> HIDE DEF E
  <2>3. Cardinality(Remaining(u)') <= Cardinality(Kept(E, d) \cup Taken(E, d))
    BY <1>4, <2>1, IndexSets, FS_Subset
  <2>4. /\ Cardinality(Remaining(u)') \in Nat /\ d \in Int
        /\ Cardinality(Kept(E, d) \cup Taken(E, d)) \in Nat
    BY <2>1, <2>2, IndexSets, RunnerAssumption
  <2>5. QED  BY <1>7, <2>3, <2>4
<1>9. CountsBracketed'
  BY <1>1, <1>4, <1>5, <1>7, <1>8 DEF CountsInv, CountsBracketed
<1>10. Grows
  <2>1. ASSUME NEW t \in Tasks,
               Cardinality(Existing(pc', t)) > Cardinality(Existing(pc, t))
        PROVE  Cardinality(Existing(pc', t)) <= desired'[t]
    <3>1. t = u
      BY <1>3, <1>5, <2>1
    <3>2. Cardinality(E) <= Cardinality(Existing(pc, u))
      BY <1>2, <1>6, IndexSets, FS_Subset
    <3>3. Taken(E, d) # {}
      <4>1. SUFFICES ASSUME Taken(E, d) = {} PROVE FALSE
        OBVIOUS
      <4>2. Cardinality(Existing(pc', u)) = Cardinality(E)
        BY <1>4, <4>1
      <4>3. QED  BY <1>3, <2>1, <3>1, <3>2, <4>2
    <3>4. QED  BY <1>1, <1>4, <1>7, <3>1, <3>3
  <2>2. QED  BY <2>1 DEF Grows
<1>11. QED
  BY <1>9, <1>10 DEF CountsInv

\* start() fills every task from an empty runner.
LEMMA StartCounts == ASSUME IInv, CountsInv, Start PROVE CountsInv' /\ Grows
<1> DEFINE spawns == UNION {Missing(pc, t, Concurrency[t]) : t \in Tasks}
           q      == AfterSpawn(pc, spawns)
<1>1. /\ \A w \in Workers : pc[w] = "none" /\ ~aborted[w]
      /\ started' /\ desired' = Concurrency /\ aborted' = aborted
      /\ Concurrency \in [Tasks -> 0..MaxIndex]
  BY RunnerAssumption DEF IInv, CountsInv, AbortInv, Start, Holding
<1>2. \A w \in Workers : pc'[w] = "none" <=> q[w] = "none"
  <2>1. QueueAndDispatch(q, {w \in spawns : w[2] = 0}, active)
    BY DEF Start
  <2> HIDE DEF q, spawns
  <2>2. QED  BY <2>1, DispatchKeepsSlots
<1>3. \A w \in Workers : q[w] = "none" <=> w \notin spawns
  <2>1. q = [w \in Workers |->
               IF w \in spawns THEN (IF w[2] = 0 THEN "waiting" ELSE "stagger") ELSE pc[w]]
    BY DEF AfterSpawn
  <2> HIDE DEF q, spawns
  <2>2. QED  BY <1>1, <2>1
<1>4. ASSUME NEW t \in Tasks
      PROVE  /\ Existing(pc, t) = {}
             /\ Existing(pc', t) = {} \cup Taken({}, Concurrency[t])
             /\ Remaining(t)' \in SUBSET Existing(pc', t)
  <2>1. \A i \in Indexes : <<t, i>> \in Workers
    BY DEF Workers
  <2>2. Existing(pc, t) = {}
    BY <1>1, <2>1 DEF Existing
  <2>3. \A i \in Indexes : <<t, i>> \in spawns <=> i \in Taken({}, Concurrency[t])
    <3>1. \A u \in Tasks, i \in Indexes :
            <<t, i>> \in Missing(pc, u, Concurrency[u]) <=>
              t = u /\ i \in Taken(Existing(pc, u), Concurrency[u])
      BY ReconcileSlots, Zenon
    <3>2. QED  BY <2>2, <3>1, Zenon
  <2>4. \A i \in Indexes : i \in Existing(pc', t) <=> i \in Taken({}, Concurrency[t])
    <3> HIDE DEF q, spawns
    <3> QED  BY <1>2, <1>3, <2>1, <2>3 DEF Existing
  <2>5. Existing(pc', t) \subseteq Indexes /\ Taken({}, Concurrency[t]) \subseteq Indexes
    BY DEF Existing, Taken
  <2>6. Existing(pc', t) = {} \cup Taken({}, Concurrency[t])
    BY <2>4, <2>5
  <2>7. Remaining(t)' \in SUBSET Existing(pc', t)
    BY DEF Remaining
  <2>8. QED  BY <2>2, <2>6, <2>7
<1>5. ASSUME NEW t \in Tasks
      PROVE  /\ desired'[t] <= Cardinality(Existing(pc', t))
             /\ Cardinality(Existing(pc', t)) <= desired'[t]
             /\ Cardinality(Remaining(t)') <= desired'[t]
  <2> DEFINE d == Concurrency[t]
             X == {} \cup Taken({}, d)
  <2>1. d \in 0..MaxIndex /\ {} \in SUBSET Indexes
    BY <1>1
  <2>2. X \in SUBSET Indexes
    BY DEF Taken
  <2> HIDE DEF d
  <2>3. d <= Cardinality(X) /\ (Taken({}, d) = {} \/ Cardinality(X) <= d)
    BY <2>1, Refill
  <2>4. Cardinality(X) \in Nat /\ d \in Nat
    BY <2>1, <2>2, IndexSets, RunnerAssumption
  <2>5. Cardinality(X) <= d
    <3>1. CASE Taken({}, d) = {}
      BY <2>1, <2>4, <3>1, FS_EmptySet
    <3>2. QED  BY <2>3, <3>1
  <2>6. Existing(pc', t) = X /\ Remaining(t)' \in SUBSET X /\ desired'[t] = d
    BY <1>1, <1>4 DEF d
  <2> HIDE DEF X
  <2>7. Cardinality(Remaining(t)') <= Cardinality(X) /\ Cardinality(Remaining(t)') \in Nat
    <3>1. IsFiniteSet(X)
      BY <2>2, IndexSets
    <3>2. QED  BY <2>6, <3>1, FS_Subset, FS_CardinalityType
  <2>8. QED  BY <2>3, <2>4, <2>5, <2>6, <2>7
<1>6. QED
  BY <1>1, <1>5 DEF CountsInv, CountsBracketed, Grows

\* stop() wants nothing and aborts everything.
LEMMA StopCounts == ASSUME IInv, CountsInv, Stop PROVE CountsInv' /\ Grows
<1>1. /\ stopping' /\ pc \in [Workers -> Places]
      /\ \A t \in Tasks : desired'[t] = 0
      /\ \A w \in Workers : aborted'[w] <=> pc[w] # "none"
      /\ \A w \in Workers : pc'[w] = "none" <=> pc[w] = "none"
  <2> DEFINE all == {w \in Workers : pc[w] # "none"}
  <2>1. /\ pc \in [Workers -> Places] /\ stopping'
        /\ desired' = [t \in Tasks |-> 0]
        /\ aborted' = [w \in Workers |-> w \in all]
        /\ pc' = [w \in Workers |->
                    IF w \in all /\ pc[w] \in Interruptible THEN "leaving" ELSE pc[w]]
    BY DEF IInv, TypeOK, Stop, AfterStop
  <2>2. \A w \in Workers : pc'[w] = "none" <=> pc[w] = "none"
    BY <2>1
  <2>3. \A w \in Workers : aborted'[w] <=> pc[w] # "none"
    <3>1. \A w \in Workers : w \in all <=> pc[w] # "none"
      OBVIOUS
    <3> HIDE DEF all
    <3>2. \A w \in Workers : aborted'[w] <=> w \in all
      BY <2>1, Zenon
    <3>3. QED  BY <3>1, <3>2, Zenon
  <2>4. QED  BY <2>1, <2>2, <2>3
<1>2. ASSUME NEW t \in Tasks
      PROVE  /\ Existing(pc', t) = Existing(pc, t)
             /\ Remaining(t)' = {}
             /\ Cardinality(Existing(pc, t)) \in Nat
  <2>1. \A i \in Indexes : <<t, i>> \in Workers
    BY DEF Workers
  <2>2. Existing(pc', t) = Existing(pc, t) /\ Existing(pc, t) \in SUBSET Indexes
    BY <1>1, <2>1 DEF Existing
  <2>3. Remaining(t)' = {}
    BY <1>1, <2>1 DEF Existing, Remaining
  <2>4. QED  BY <2>2, <2>3, IndexSets
<1>3. Grows
  BY <1>2 DEF Grows
<1>4. CountsBracketed'
  <2>1. Cardinality({}) = 0
    BY FS_EmptySet
  <2>2. ASSUME NEW t \in Tasks
        PROVE  /\ Cardinality(Remaining(t)') <= desired'[t]
               /\ desired'[t] <= Cardinality(Existing(pc', t))
    BY <1>1, <1>2, <2>1
  <2>3. QED  BY <2>2 DEF CountsBracketed
<1>5. QED
  BY <1>1, <1>3, <1>4 DEF CountsInv

\* A release frees no slot and takes none.
LEMMA ReleaseKeepsSlots ==
  ASSUME IInv, NEW v \in Workers, pc[v] # "none",
         NEW place \in {"sleep", "leaving"}, ReleaseInto(v, place)
  PROVE  \A w \in Workers : pc'[w] = "none" <=> pc[w] = "none"
<1> DEFINE p == [pc EXCEPT ![v] = IF aborted[v] THEN "leaving" ELSE place]
<1>1. \A w \in Workers : p[w] = "none" <=> pc[w] = "none"
  BY DEF IInv, TypeOK
<1>2. \A w \in Workers : pc'[w] = "none" <=> p[w] = "none"
  <2>1. QueueAndDispatch(p, {}, active - 1)
    BY DEF ReleaseInto
  <2> HIDE DEF p
  <2>2. QED  BY <2>1, DispatchKeepsSlots
<1>3. QED
  BY <1>1, <1>2

\* Starting, scaling and the end of a worker apart, no step takes a slot into
\* use or frees one.
SlotsKept == \A w \in Workers : pc'[w] = "none" <=> pc[w] = "none"

LEMMA QuietSlots ==
  ASSUME IInv, [Next]_vars, ~Start, ~Stop,
         ~\E t \in DynamicTasks, n \in 0..MaxIndex : SetWorkerCount(t, n),
         ~\E w \in Workers : WorkerStopped(w)
  PROVE  SlotsKept /\ UNCHANGED <<started, stopping, desired, aborted>>
<1>1. TypeOK
  BY DEF IInv
<1>2. CASE \/ \E t \in Tasks : Wake(t)
           \/ \E w \in Workers : Timer(w) \/ JobLooks(w)
  <2>1. UNCHANGED <<started, stopping, desired, aborted>>
    BY <1>2 DEF Wake, Timer, JobLooks, stopVars
  <2>2. \A w \in Workers : pc'[w] = "none" <=> pc[w] = "none"
    BY <1>1, <1>2 DEF Wake, Timer, JobLooks, TypeOK
  <2>3. QED  BY <2>1, <2>2 DEF SlotsKept
<1>3. CASE \E w \in Workers : WaitForAdmission(w)
  <2>1. PICK v \in Workers : WaitForAdmission(v)
    BY <1>3
  <2> DEFINE p == [pc EXCEPT ![v] = "waiting"]
  <2>2. QueueAndDispatch(p, {v}, active) /\ UNCHANGED <<started, stopping, desired, aborted>>
    BY <2>1 DEF WaitForAdmission, stopVars
  <2>3. \A w \in Workers : p[w] = "none" <=> pc[w] = "none"
    BY <1>1, <2>1 DEF WaitForAdmission, TypeOK
  <2> HIDE DEF p
  <2>4. \A w \in Workers : pc'[w] = "none" <=> p[w] = "none"
    BY <2>2, DispatchKeepsSlots
  <2>5. QED  BY <2>2, <2>3, <2>4 DEF SlotsKept
<1>4. CASE \E w \in Workers : JobReturnsIdle(w) \/ JobFails(w) \/ JobReturnsMore(w)
  <2>1. PICK v \in Workers : JobReturnsIdle(v) \/ JobFails(v) \/ JobReturnsMore(v)
    BY <1>4
  <2>2. pc[v] # "none" /\ UNCHANGED <<started, stopping, desired, aborted>>
    BY <2>1 DEF JobReturnsIdle, JobFails, JobReturnsMore, stopVars
  <2>3. CASE \E place \in {"sleep", "leaving"} : ReleaseInto(v, place)
    BY <2>2, <2>3, ReleaseKeepsSlots DEF SlotsKept
  <2>4. CASE JobReturnsMore(v) /\ ~aborted[v]
    <3>1. PICK S \in SUBSET Waiting :
            QueueAndDispatch(
              [w \in Workers |-> IF w = v THEN "waiting" ELSE IF w \in S THEN "job" ELSE pc[w]],
              {v}, active - 1 + Cardinality(S))
      BY <2>4 DEF JobReturnsMore
    <3> DEFINE p == [w \in Workers |->
                       IF w = v THEN "waiting" ELSE IF w \in S THEN "job" ELSE pc[w]]
    <3>2. \A w \in Workers : p[w] = "none" <=> pc[w] = "none"
      BY <2>2 DEF Waiting
    <3>3. \A w \in Workers : pc'[w] = "none" <=> p[w] = "none"
      <4>1. QueueAndDispatch(p, {v}, active - 1 + Cardinality(S))
        BY <3>1
      <4> HIDE DEF p
      <4>2. QED  BY <4>1, DispatchKeepsSlots
    <3> HIDE DEF p
    <3>4. QED  BY <2>2, <3>2, <3>3 DEF SlotsKept
  <2>5. QED
    BY <2>1, <2>3, <2>4 DEF JobReturnsIdle, JobFails, JobReturnsMore
<1>5. CASE \/ StopResolves \/ Tick \/ UNCHANGED vars
           \/ \E t \in Tasks : Produce(t)
           \/ \E c \in CronTasks : CronFires(c) \/ CronEnds(c)
  <2>1. pc' = pc /\ UNCHANGED <<started, stopping, desired, aborted>>
    BY <1>5 DEF StopResolves, Tick, Produce, CronFires, CronEnds, vars, gateVars, stopVars
  <2>2. QED  BY <2>1 DEF SlotsKept
<1>6. QED
  BY <1>2, <1>3, <1>4, <1>5 DEF Next

\* Every step keeps the counts, and takes slots into use up to the count only.
LEMMA CountsStep == ASSUME IInv, CountsInv, [Next]_vars PROVE CountsInv' /\ Grows
<1>1. TypeOK /\ ShutdownInv
  BY DEF IInv
<1>2. CASE Start  BY <1>2, StartCounts
<1>3. CASE Stop  BY <1>3, StopCounts
<1>4. CASE \E t \in DynamicTasks, n \in 0..MaxIndex : SetWorkerCount(t, n)
  <2>1. PICK t \in DynamicTasks, n \in 0..MaxIndex : SetWorkerCount(t, n)
    BY <1>4
  <2>2. /\ t \in Tasks /\ pc \in [Workers -> Places] /\ aborted \in [Workers -> BOOLEAN]
        /\ started \/ stopping
        /\ Reconcile(t, n, pc, aborted)
        /\ desired' = [desired EXCEPT ![t] = n]
        /\ UNCHANGED <<started, stopping>>
    BY <1>1, <2>1, RunnerAssumption DEF SetWorkerCount, TypeOK, stopVars
  <2>3. QED  BY <2>2, ReconciledCounts
<1>5. CASE \E w \in Workers : WorkerStopped(w)
  <2>1. PICK v \in Workers : WorkerStopped(v)
    BY <1>5
  <2> DEFINE t == v[1]
             p == [pc EXCEPT ![v] = "none"]
             s == [aborted EXCEPT ![v] = FALSE]
             d == desired[t]
  <2>2. /\ t \in Tasks /\ d \in 0..MaxIndex
        /\ pc[v] = "leaving"
        /\ Reconcile(t, d, p, s)
        /\ desired' = desired /\ UNCHANGED <<started, stopping>>
    BY <1>1, <2>1 DEF WorkerStopped, Workers, TypeOK
  <2>3. started \/ stopping
    BY <2>2 DEF CountsInv
  <2>4. /\ p \in [Workers -> Places] /\ s \in [Workers -> BOOLEAN]
        /\ \A w \in Workers : p[w] = pc[w] \/ (p[w] = "none" /\ w[1] = t)
        /\ \A w \in Workers : w[1] # t => s[w] = aborted[w]
    BY <1>1 DEF TypeOK, Places
  <2>5. desired' = [desired EXCEPT ![t] = d]
    BY <1>1, <2>2 DEF TypeOK
  <2> HIDE DEF t, p, s, d
  <2>6. QED  BY <2>2, <2>3, <2>4, <2>5, ReconciledCounts, Zenon
<1>6. CASE /\ ~Start /\ ~Stop
           /\ ~\E t \in DynamicTasks, n \in 0..MaxIndex : SetWorkerCount(t, n)
           /\ ~\E w \in Workers : WorkerStopped(w)
  BY <1>6, QuietSlots, SlotsUnchanged DEF SlotsKept
<1>7. QED
  BY <1>2, <1>3, <1>4, <1>5, <1>6

\* No worker exists and none is wanted before start().
LEMMA InitCounts == Init => CountsInv
<1>1. ASSUME Init, NEW t \in Tasks  PROVE Existing(pc, t) = {} /\ Remaining(t) = {}
  BY <1>1 DEF Init, Existing, Remaining, Workers
<1>2. ASSUME Init  PROVE CountsBracketed
  <2>1. Cardinality({}) = 0 /\ \A t \in Tasks : desired[t] = 0
    BY <1>2, FS_EmptySet DEF Init
  <2>2. QED  BY <1>1, <1>2, <2>1 DEF CountsBracketed
<1>3. QED
  BY <1>2 DEF Init, CountsInv

\* Every state the scheduler reaches satisfies the counting invariant.
LEMMA CountsInvariance == Spec => []CountsInv
  BY InitCounts, CountsStep, Invariance, PTL DEF Spec

\* However counts are changed while stopped workers still finish their jobs,
\* the desired count stays between the workers left running and the workers
\* there are (TaskRunner.js reconcileWorkers, handleWorkerStopped).
THEOREM CountsHeld == Spec => []CountsBracketed
<1>1. CountsInv => CountsBracketed
  BY DEF CountsInv
<1>2. QED
  BY <1>1, CountsInvariance, PTL

\* A task gains workers only up to its desired count, the workers still
\* finishing a job after their stop counted with them.
THEOREM NoOvershoot == Spec => ReplacementsWait
<1>1. IInv /\ CountsInv /\ [Next]_vars => [Grows]_vars
  BY CountsStep
<1>2. QED
  BY <1>1, Invariance, CountsInvariance, PTL DEF Spec, ReplacementsWait

-----------------------------------------------------------------------------
(* The order of admission.  The queue is sorted by priority plus age; ages *)
(* stop at AgeCap, where every difference of priorities is made up.        *)

Score(w) == Priority[w[1]] + age[w]

\* Who is ahead has the higher score, or is so old that nobody overtakes it.
AgedInv ==
  \A v, w \in Waiting : v \in ahead[w] => age[v] = AgeCap \/ Score(v) >= Score(w)

OrderInv == Linear(Waiting, ahead) /\ AgedInv

\* A worker that has waited long enough is overtaken by nobody.
NotOvertaken ==
  \A w \in Waiting \cap Waiting' : age[w] = AgeCap => ahead'[w] \subseteq ahead[w]

\* Priorities and ages are numbers, and an aged worker is ahead of any other.
LEMMA Scores ==
  ASSUME TypeOK
  PROVE  /\ \A w \in Workers : w[1] \in Nat /\ Priority[w[1]] \in Nat /\ age[w] \in Nat
         /\ \A w \in Workers : age[w] <= AgeCap /\ Score(w) = Priority[w[1]] + age[w]
         /\ \A v, w \in Workers : age[v] = AgeCap => Score(v) >= Priority[w[1]]
<1>1. \A w \in Workers : w[1] \in Tasks /\ w[1] \in Nat
  BY RunnerAssumption DEF Workers, Tasks
<1>2. /\ AgeCap \in Nat /\ age \in [Workers -> 0..AgeCap] /\ Priority \in [Tasks -> Nat]
      /\ \A t, u \in Tasks : Priority[t] - Priority[u] <= AgeCap
  BY RunnerAssumption DEF TypeOK
<1>3. /\ \A w \in Workers : Priority[w[1]] \in Nat /\ age[w] \in Nat /\ age[w] <= AgeCap
      /\ \A v, w \in Workers : Priority[w[1]] - Priority[v[1]] <= AgeCap
  BY <1>1, <1>2
<1>4. \A v, w \in Workers : age[v] = AgeCap => Score(v) >= Priority[w[1]]
  BY <1>2, <1>3 DEF Score
<1>5. QED
  BY <1>1, <1>3, <1>4 DEF Score

\* Queueing workers of different tasks keeps the order linear and the aged in
\* front.
LEMMA OrderLemma ==
  ASSUME TypeOK, OrderInv,
         NEW old \in SUBSET Waiting, NEW new \in SUBSET Workers, new \cap Waiting = {},
         \A v, w \in new : v # w => v[1] # w[1]
  PROVE  LET order == Order(old, new)
         IN  /\ Linear(old \cup new, order)
             /\ \A v, w \in old : v \in order[w] <=> v \in ahead[w]
             /\ \A v \in old, w \in new : v \in order[w] => Score(v) >= Priority[w[1]]
             /\ \A v \in new, w \in old : v \in order[w] => Priority[v[1]] > Score(w)
             /\ \A v, w \in new : v \in order[w] => Priority[v[1]] >= Priority[w[1]]
<1> DEFINE order == Order(old, new)
           pr(w) == Priority[w[1]]
<1>1. old \in SUBSET Workers /\ old \cap new = {}
  BY DEF Waiting
<1>2. /\ \A w \in Workers : w[1] \in Nat /\ pr(w) \in Nat /\ Score(w) \in Nat
      /\ \A v, w \in Workers : age[v] = AgeCap => Score(v) >= pr(w)
  <2>1. \A w \in Workers : Score(w) \in Nat
    BY Scores
  <2>2. QED  BY <2>1, Scores
<1>3. \A v, w \in Workers :
        StaysAhead(v, w) <=> Score(v) >= pr(w)
  BY DEF StaysAhead, Score
<1>4. \A v, w \in Workers :
        QueuedFirst(v, w) <=> pr(v) > pr(w) \/ (pr(v) = pr(w) /\ v[1] < w[1])
  BY DEF QueuedFirst
<1>5. /\ \A w \in new : order[w] = {e \in old : StaysAhead(e, w)} \cup {v \in new : QueuedFirst(v, w)}
      /\ \A w \in old : order[w] = (ahead[w] \cap old) \cup {v \in new : ~StaysAhead(w, v)}
  BY <1>1 DEF Order
<1> HIDE DEF order
<1>6. /\ \A v \in old, w \in new : v \in order[w] <=> Score(v) >= pr(w)
      /\ \A v, w \in new :
           v \in order[w] <=> pr(v) > pr(w) \/ (pr(v) = pr(w) /\ v[1] < w[1])
      /\ \A v, w \in old : v \in order[w] <=> v \in ahead[w]
      /\ \A v \in new, w \in old : v \in order[w] <=> pr(v) > Score(w)
  <2>1. \A v \in old, w \in new : v \in order[w] <=> Score(v) >= pr(w)
    BY <1>1, <1>3, <1>5
  <2>2. \A v, w \in new :
           v \in order[w] <=> pr(v) > pr(w) \/ (pr(v) = pr(w) /\ v[1] < w[1])
    BY <1>1, <1>4, <1>5
  <2>3. \A v, w \in old : v \in order[w] <=> v \in ahead[w]
    BY <1>1, <1>5
  <2>4. \A v \in new, w \in old : v \in order[w] <=> ~(Score(w) >= pr(v))
    BY <1>1, <1>3, <1>5
  <2>5. \A v \in new, w \in old : ~(Score(w) >= pr(v)) <=> pr(v) > Score(w)
    BY <1>1, <1>2
  <2>6. QED  BY <2>1, <2>2, <2>3, <2>4, <2>5
<1>7. \A w \in old \cup new : order[w] \subseteq old \cup new
  BY <1>5
<1>8. /\ \A v, w \in old : v \in ahead[w] => age[v] = AgeCap \/ Score(v) >= Score(w)
      /\ \A w \in old : w \notin ahead[w]
      /\ \A v, w \in old : v # w => v \in ahead[w] \/ w \in ahead[v]
      /\ \A u, v, w \in old : u \in ahead[v] /\ v \in ahead[w] => u \in ahead[w]
  BY DEF OrderInv, AgedInv, Linear
<1> HIDE DEF pr
<1>9. \A w \in old \cup new : w \notin order[w]
  BY <1>1, <1>2, <1>6, <1>8
<1>10. \A v, w \in old \cup new : v # w => v \in order[w] \/ w \in order[v]
  <2>1. \A v, w \in new : v # w => v \in order[w] \/ w \in order[v]
    BY <1>2, <1>6
  <2>2. \A v \in old, w \in new : v \in order[w] \/ w \in order[v]
    BY <1>1, <1>2, <1>6
  <2>3. QED  BY <2>1, <2>2, <1>6, <1>8
<1>11. ASSUME NEW u \in old \cup new, NEW v \in old \cup new, NEW w \in old \cup new,
              u \in order[v], v \in order[w]
       PROVE  u \in order[w]
  <2>0. /\ u \in Workers /\ v \in Workers /\ w \in Workers
        /\ pr(u) \in Nat /\ pr(v) \in Nat /\ pr(w) \in Nat
        /\ Score(u) \in Nat /\ Score(v) \in Nat /\ Score(w) \in Nat
        /\ u[1] \in Nat /\ v[1] \in Nat /\ w[1] \in Nat
    BY <1>1, <1>2
  <2>1. CASE u \in old /\ v \in old /\ w \in old
    BY <2>1, <1>6, <1>8, <1>11
  <2>2. CASE u \in old /\ v \in old /\ w \in new
    <3>1. Score(v) >= pr(w) /\ (age[u] = AgeCap \/ Score(u) >= Score(v))
      BY <2>2, <1>6, <1>8, <1>11
    <3>2. Score(u) >= pr(w)
      BY <2>0, <3>1, <1>2
    <3>3. QED  BY <2>2, <3>2, <1>6
  <2>3. CASE u \in old /\ v \in new /\ w \in old
    <3>1. Score(u) >= pr(v) /\ pr(v) > Score(w)
      BY <2>3, <1>6, <1>11
    <3>2. u # w /\ ~(Score(w) >= Score(u)) /\ ~(Score(w) >= pr(v))
      BY <2>0, <3>1
    <3>3. w \notin ahead[u]
      BY <2>0, <2>3, <3>2, <1>2, <1>8
    <3>4. QED  BY <2>3, <3>2, <3>3, <1>6, <1>8
  <2>4. CASE u \in new /\ v \in old /\ w \in old
    <3>1. pr(u) > Score(v) /\ (age[v] = AgeCap \/ Score(v) >= Score(w))
      BY <2>4, <1>6, <1>8, <1>11
    <3>2. Score(v) >= Score(w)
      <4>1. age[v] = AgeCap => Score(v) >= pr(u)
        BY <2>0, <1>2
      <4>2. QED  BY <2>0, <3>1, <4>1
    <3>3. pr(u) > Score(w)
      BY <2>0, <3>1, <3>2
    <3>4. QED  BY <2>4, <3>3, <1>6
  <2>5. CASE u \in old /\ v \in new /\ w \in new
    <3>1. Score(u) >= pr(v) /\ pr(v) >= pr(w)
      BY <2>0, <2>5, <1>6, <1>11
    <3>2. Score(u) >= pr(w)
      BY <2>0, <3>1
    <3>3. QED  BY <2>5, <3>2, <1>6
  <2>6. CASE u \in new /\ v \in old /\ w \in new
    <3>1. pr(u) > Score(v) /\ Score(v) >= pr(w)
      BY <2>6, <1>6, <1>11
    <3>2. pr(u) > pr(w)
      BY <2>0, <3>1
    <3>3. QED  BY <2>6, <3>2, <1>6
  <2>7. CASE u \in new /\ v \in new /\ w \in old
    <3>1. pr(u) >= pr(v) /\ pr(v) > Score(w)
      BY <2>0, <2>7, <1>6, <1>11
    <3>2. pr(u) > Score(w)
      BY <2>0, <3>1
    <3>3. QED  BY <2>7, <3>2, <1>6
  <2>8. CASE u \in new /\ v \in new /\ w \in new
    <3>1. /\ pr(u) > pr(v) \/ (pr(u) = pr(v) /\ u[1] < v[1])
          /\ pr(v) > pr(w) \/ (pr(v) = pr(w) /\ v[1] < w[1])
      BY <2>8, <1>6, <1>11
    <3>2. pr(u) > pr(w) \/ (pr(u) = pr(w) /\ u[1] < w[1])
      BY <2>0, <3>1
    <3>3. QED  BY <2>8, <3>2, <1>6
  <2>9. QED
    BY <2>1, <2>2, <2>3, <2>4, <2>5, <2>6, <2>7, <2>8
<1>12. Linear(old \cup new, order)
  BY <1>7, <1>9, <1>10, <1>11 DEF Linear
<1>13. \A v, w \in new : v \in order[w] => pr(v) >= pr(w)
  BY <1>2, <1>6
<1>14. QED
  BY <1>6, <1>12, <1>13 DEF order, pr

\* A dispatch takes the first away and leaves the others in order.
LEMMA DispatchOrder ==
  ASSUME TypeOK, OrderInv,
         NEW p \in [Workers -> Places], NEW new \in SUBSET Workers,
         \A w \in new : p[w] = "waiting", new \cap Waiting = {},
         \A v, w \in new : v # w => v[1] # w[1],
         \A w \in Workers : p[w] = "waiting" => w \in new \/ w \in Waiting,
         NEW act, QueueAndDispatch(p, new, act)
  PROVE  OrderInv' /\ NotOvertaken
<1> DEFINE waiting == {w \in Workers : p[w] = "waiting"}
           old     == waiting \ new
           order   == Order(old, new)
           pr(w)   == Priority[w[1]]
<1>1. PICK S \in SUBSET waiting :
        /\ pc'    = [w \in Workers |-> IF w \in S THEN "job" ELSE p[w]]
        /\ ahead' = [w \in Workers |-> IF w \in waiting \ S THEN order[w] \ S ELSE {}]
        /\ age'   = [w \in Workers |-> IF w \in waiting \ (S \cup new) THEN age[w] ELSE 0]
  BY DEF QueueAndDispatch
<1>2. /\ old \in SUBSET Waiting /\ old \cup new = waiting /\ old \cap new = {}
      /\ waiting \in SUBSET Workers
  OBVIOUS
<1>3. /\ Linear(old \cup new, order)
      /\ \A v, w \in old : v \in order[w] <=> v \in ahead[w]
      /\ \A v \in old, w \in new : v \in order[w] => Score(v) >= pr(w)
      /\ \A v \in new, w \in old : v \in order[w] => pr(v) > Score(w)
      /\ \A v, w \in new : v \in order[w] => pr(v) >= pr(w)
  <2> HIDE DEF old
  <2>1. QED  BY <1>2, OrderLemma
<1>4. Waiting' = waiting \ S
  BY <1>1 DEF Waiting
<1>5. \A w \in waiting \ S : ahead'[w] = order[w] \ S
  BY <1>1, <1>2
<1>6. \A w \in waiting \ S : age'[w] = IF w \in new THEN 0 ELSE age[w]
  BY <1>1, <1>2
<1> HIDE DEF order
<1>7. Linear(Waiting', ahead')
  <2>1. Linear(waiting, order)
    BY <1>2, <1>3
  <2> HIDE DEF waiting
  <2>2. Linear(waiting \ S, ahead')
    BY <1>5, <2>1 DEF Linear
  <2>3. QED  BY <1>4, <2>2
<1>8. /\ \A w \in Workers : pr(w) \in Nat /\ Score(w) \in Nat /\ Score(w) = pr(w) + age[w]
      /\ \A w \in Workers : Score(w)' = pr(w) + age'[w]
      /\ \A v, w \in Workers : age[v] = AgeCap => Score(v) >= pr(w)
  <2>1. \A w \in Workers : Score(w) \in Nat
    BY Scores
  <2>2. QED  BY <2>1, Scores DEF Score
<1>9. /\ \A w \in old \ S : age'[w] = age[w] /\ Score(w)' = Score(w)
      /\ \A w \in new \ S : Score(w)' = pr(w)
  <2>1. \A w \in old \ S : age'[w] = age[w] /\ w \in Workers
    BY <1>2, <1>6
  <2>2. \A w \in new \ S : age'[w] = 0 /\ w \in Workers
    BY <1>2, <1>6
  <2> HIDE DEF pr, old
  <2>3. QED  BY <1>8, <2>1, <2>2
<1>10. \A v, w \in old : v \in ahead[w] => age[v] = AgeCap \/ Score(v) >= Score(w)
  BY <1>2 DEF OrderInv, AgedInv
<1> HIDE DEF pr
<1>11. AgedInv'
  <2>1. ASSUME NEW v \in waiting \ S, NEW w \in waiting \ S, v \in ahead'[w]
        PROVE  age'[v] = AgeCap \/ Score(v)' >= Score(w)'
    <3>1. v \in order[w]
      BY <1>5, <2>1
    <3>2. CASE v \in old /\ w \in old
      BY <3>1, <3>2, <2>1, <1>3, <1>9, <1>10
    <3>3. CASE v \in old /\ w \in new
      BY <3>1, <3>3, <2>1, <1>3, <1>9
    <3>4. CASE v \in new /\ w \in old
      <4>1. pr(v) > Score(w) /\ pr(v) \in Nat /\ Score(w) \in Nat
        BY <3>1, <3>4, <2>1, <1>2, <1>3, <1>8
      <4>2. Score(v)' = pr(v) /\ Score(w)' = Score(w)
        BY <3>4, <2>1, <1>9
      <4>3. QED  BY <4>1, <4>2
    <3>5. CASE v \in new /\ w \in new
      BY <3>1, <3>5, <2>1, <1>3, <1>9
    <3>6. QED  BY <3>2, <3>3, <3>4, <3>5, <1>2
  <2> HIDE DEF waiting
  <2>2. QED  BY <2>1, <1>4 DEF AgedInv
<1>12. NotOvertaken
  <2>1. ASSUME NEW w \in Waiting \cap (waiting \ S), age[w] = AgeCap, NEW v \in ahead'[w]
        PROVE  v \in ahead[w]
    <3>1. w \in old /\ v \in order[w]
      BY <1>5, <2>1
    <3>2. v \in waiting
      BY <1>2, <1>3, <3>1 DEF Linear
    <3>3. v \notin new
      <4>1. SUFFICES ASSUME v \in new PROVE FALSE
        OBVIOUS
      <4>2. pr(v) > Score(w) /\ Score(w) >= pr(v)
        BY <1>2, <1>3, <1>8, <2>1, <3>1, <4>1
      <4>3. pr(v) \in Nat /\ Score(w) \in Nat
        BY <1>2, <1>8, <3>1, <3>2
      <4>4. QED  BY <4>2, <4>3
    <3>4. QED  BY <1>3, <3>1, <3>2, <3>3
  <2> HIDE DEF waiting
  <2>2. QED  BY <2>1, <1>4 DEF NotOvertaken
<1>13. QED
  BY <1>7, <1>11, <1>12 DEF OrderInv

\* A step that moves no waiting worker and queues none leaves the order alone.
LEMMA OrderUnchanged ==
  ASSUME OrderInv, Waiting' = Waiting, UNCHANGED <<age, ahead>>
  PROVE  OrderInv' /\ NotOvertaken
<1>1. \A w \in Waiting : Score(w)' = Score(w)
  BY DEF Score
<1>2. QED
  BY <1>1 DEF OrderInv, AgedInv, NotOvertaken

\* All who wait grow older together until they are old enough.
LEMMA TickOrder == ASSUME TypeOK, OrderInv, Tick PROVE OrderInv' /\ NotOvertaken
<1>1. Waiting' = Waiting /\ ahead' = ahead
  BY DEF Tick, Waiting
<1>2. \A w \in Waiting : age'[w] = Smaller(age[w] + 1, AgeCap)
  BY DEF Tick, Waiting
<1>3. ASSUME NEW v \in Waiting, NEW w \in Waiting, v \in ahead[w]
      PROVE  age'[v] = AgeCap \/ Score(v)' >= Score(w)'
  <2>1. age[v] = AgeCap \/ Score(v) >= Score(w)
    BY <1>3 DEF OrderInv, AgedInv
  <2>2. v \in Workers /\ w \in Workers
    BY DEF Waiting
  <2>3. /\ Priority[v[1]] \in Nat /\ Priority[w[1]] \in Nat /\ AgeCap \in Nat
        /\ age[v] \in Nat /\ age[w] \in Nat /\ age[v] <= AgeCap /\ age[w] <= AgeCap
    BY <2>2, Scores, RunnerAssumption
  <2>4. /\ age'[v] = Smaller(age[v] + 1, AgeCap)
        /\ age'[w] = Smaller(age[w] + 1, AgeCap)
    BY <1>2
  <2>5. age'[v] = AgeCap \/ (age'[v] = age[v] + 1 /\ age[v] # AgeCap)
    BY <2>3, <2>4 DEF Smaller
  <2>6. age'[w] <= age[w] + 1 /\ age'[w] \in Nat
    BY <2>3, <2>4 DEF Smaller
  <2>7. QED  BY <2>1, <2>3, <2>5, <2>6 DEF Score
<1>4. QED
  BY <1>1, <1>3 DEF OrderInv, AgedInv, NotOvertaken

\* Reconciling queues at most one worker.
LEMMA ReconcileOrder ==
  ASSUME TypeOK, OrderInv,
         NEW t \in Tasks, NEW d,
         NEW p \in [Workers -> Places], NEW sig,
         \A w \in Workers : p[w] = pc[w] \/ (p[w] = "none" /\ pc[w] = "leaving"),
         Reconcile(t, d, p, sig)
  PROVE  OrderInv' /\ NotOvertaken
<1> DEFINE stops  == Surplus(p, t, d)
           spawns == Missing(p, t, d)
           q      == AfterSpawn(AfterStop(p, stops), spawns)
           new    == {w \in spawns : w[2] = 0}
<1>1. QueueAndDispatch(q, new, active)
  BY DEF Reconcile
<1>2. spawns \in SUBSET Workers /\ \A w \in spawns : p[w] = "none"
  BY MissingSlots
<1>3. q = [w \in Workers |->
             IF w \in spawns THEN (IF w[2] = 0 THEN "waiting" ELSE "stagger")
             ELSE IF w \in stops /\ p[w] \in Interruptible THEN "leaving" ELSE p[w]]
  BY DEF AfterSpawn, AfterStop
<1>4. ASSUME NEW w \in spawns  PROVE w = <<t, w[2]>>
  <2>1. PICK i \in Indexes \ Existing(p, t) : w = <<t, i>>
    BY DEF Missing
  <2>2. QED  BY <2>1
<1> HIDE DEF stops, spawns, q
<1>5. q \in [Workers -> Places]
  BY <1>3 DEF Places, Interruptible
<1>6. new \in SUBSET Workers /\ \A w \in new : q[w] = "waiting"
  BY <1>2, <1>3
<1>7. new \cap Waiting = {}
  <2>1. \A w \in new : pc[w] # "waiting"
    <3>1. \A w \in new : w \in Workers /\ p[w] = "none"
      BY <1>2
    <3> HIDE DEF new
    <3>2. QED  BY <3>1
  <2> HIDE DEF new
  <2>2. QED  BY <2>1 DEF Waiting
<1>8. \A v, w \in new : v # w => v[1] # w[1]
  <2>1. \A v, w \in new : v = w
    BY <1>4
  <2> HIDE DEF new
  <2>2. QED  BY <2>1
<1>9. \A w \in Workers : q[w] = "waiting" => w \in new \/ w \in Waiting
  BY <1>3 DEF Waiting
<1> HIDE DEF new
<1>10. QED
  BY <1>1, <1>5, <1>6, <1>7, <1>8, <1>9, DispatchOrder

\* start() queues the first worker of each task, in the order of priorities.
LEMMA StartOrder ==
  ASSUME IInv, CountsInv, OrderInv, Start  PROVE OrderInv' /\ NotOvertaken
<1> DEFINE spawns == UNION {Missing(pc, t, Concurrency[t]) : t \in Tasks}
           q      == AfterSpawn(pc, spawns)
           new    == {w \in spawns : w[2] = 0}
<1>1. /\ TypeOK /\ QueueAndDispatch(q, new, active)
      /\ \A w \in Workers : pc[w] = "none"
  BY DEF IInv, CountsInv, Start
<1>2. ASSUME NEW w \in spawns  PROVE w \in Workers /\ w = <<w[1], w[2]>>
  <2>1. PICK t \in Tasks, i \in Indexes : w = <<t, i>>
    BY DEF Missing
  <2>2. QED  BY <2>1 DEF Workers
<1>3. q = [w \in Workers |->
             IF w \in spawns THEN (IF w[2] = 0 THEN "waiting" ELSE "stagger") ELSE pc[w]]
  BY DEF AfterSpawn
<1> HIDE DEF spawns, q
<1>4. q \in [Workers -> Places]
  BY <1>1, <1>3 DEF Places, Interruptible
<1>5. new \in SUBSET Workers /\ \A w \in new : q[w] = "waiting"
  BY <1>2, <1>3
<1>6. Waiting = {} /\ new \cap Waiting = {}
  BY <1>1 DEF Waiting
<1>7. \A v, w \in new : v # w => v[1] # w[1]
  <2>1. \A v, w \in new : v[1] = w[1] => v = w
    BY <1>2
  <2> HIDE DEF new
  <2>2. QED  BY <2>1
<1>8. \A w \in Workers : q[w] = "waiting" => w \in new \/ w \in Waiting
  BY <1>1, <1>3
<1> HIDE DEF new
<1>9. QED
  BY <1>1, <1>4, <1>5, <1>6, <1>7, <1>8, DispatchOrder

\* A release that queues nobody keeps the order.
LEMMA ReleaseOrder ==
  ASSUME TypeOK, OrderInv, NEW v \in Workers, pc[v] \in Holding,
         NEW place \in {"sleep", "leaving"}, ReleaseInto(v, place)
  PROVE  OrderInv' /\ NotOvertaken
<1> DEFINE p == [pc EXCEPT ![v] = IF aborted[v] THEN "leaving" ELSE place]
<1>1. QueueAndDispatch(p, {}, active - 1)
  BY DEF ReleaseInto
<1>2. p \in [Workers -> Places]
  BY DEF TypeOK, Places, Interruptible
<1>3. \A w \in Workers : p[w] = "waiting" => w \in Waiting
  BY DEF TypeOK, Waiting
<1> HIDE DEF p
<1>4. QED
  BY <1>1, <1>2, <1>3, DispatchOrder

\* A worker that has released queues again behind the others.
LEMMA RequeueOrder ==
  ASSUME TypeOK, OrderInv, NEW w \in Workers, JobReturnsMore(w), ~aborted[w]
  PROVE  OrderInv' /\ NotOvertaken
<1>1. PICK S \in SUBSET Waiting :
        QueueAndDispatch(
          [v \in Workers |-> IF v = w THEN "waiting" ELSE IF v \in S THEN "job" ELSE pc[v]],
          {w}, active - 1 + Cardinality(S))
  BY DEF JobReturnsMore
<1> DEFINE p == [v \in Workers |->
                   IF v = w THEN "waiting" ELSE IF v \in S THEN "job" ELSE pc[v]]
<1>2. p \in [Workers -> Places] /\ p[w] = "waiting"
  BY DEF TypeOK, Places, Holding, Interruptible
<1>3. {w} \cap Waiting = {}
  BY DEF JobReturnsMore, Waiting
<1>4. \A v \in Workers : p[v] = "waiting" => v \in {w} \/ v \in Waiting
  BY DEF Waiting
<1>5. QueueAndDispatch(p, {w}, active - 1 + Cardinality(S))
  BY <1>1
<1> HIDE DEF p
<1>6. \A u, v \in {w} : u # v => u[1] # v[1]
  OBVIOUS
<1>7. QED
  BY <1>2, <1>3, <1>4, <1>5, <1>6, DispatchOrder

\* Every step keeps the order, and lets nobody overtake an aged worker.
LEMMA OrderStep ==
  ASSUME IInv, CountsInv, OrderInv, [Next]_vars  PROVE OrderInv' /\ NotOvertaken
<1>1. TypeOK
  BY DEF IInv
<1>2. CASE Start  BY <1>2, StartOrder
<1>3. CASE Stop
  <2>1. Waiting' = {}
    BY <1>1, <1>3 DEF Stop, AfterStop, Waiting, TypeOK, Interruptible
  <2>2. QED  BY <2>1 DEF OrderInv, Linear, AgedInv, NotOvertaken
<1>4. CASE Tick  BY <1>1, <1>4, TickOrder
<1>5. CASE \E t \in DynamicTasks, n \in 0..MaxIndex : SetWorkerCount(t, n)
  <2>1. PICK t \in DynamicTasks, n \in 0..MaxIndex : SetWorkerCount(t, n)
    BY <1>5
  <2>2. t \in Tasks /\ pc \in [Workers -> Places] /\ Reconcile(t, n, pc, aborted)
    BY <1>1, <2>1, RunnerAssumption DEF SetWorkerCount, TypeOK
  <2>3. QED  BY <1>1, <2>2, ReconcileOrder
<1>6. CASE \E w \in Workers : WorkerStopped(w)
  <2>1. PICK v \in Workers : WorkerStopped(v)
    BY <1>6
  <2> DEFINE p == [pc EXCEPT ![v] = "none"]
             s == [aborted EXCEPT ![v] = FALSE]
  <2>2. v[1] \in Tasks /\ Reconcile(v[1], desired[v[1]], p, s)
    BY <2>1 DEF WorkerStopped, Workers
  <2>3. /\ p \in [Workers -> Places]
        /\ \A w \in Workers : p[w] = pc[w] \/ (p[w] = "none" /\ pc[w] = "leaving")
    BY <1>1, <2>1 DEF WorkerStopped, TypeOK, Places
  <2> HIDE DEF p, s
  <2>4. QED  BY <1>1, <2>2, <2>3, ReconcileOrder
<1>7. CASE \E w \in Workers : WaitForAdmission(w)
  <2>1. PICK v \in Workers : WaitForAdmission(v)
    BY <1>7
  <2> DEFINE p == [pc EXCEPT ![v] = "waiting"]
  <2>2. QueueAndDispatch(p, {v}, active) /\ {v} \cap Waiting = {}
    BY <2>1 DEF WaitForAdmission, Waiting
  <2>3. /\ p \in [Workers -> Places] /\ \A w \in {v} : p[w] = "waiting"
        /\ \A w \in Workers : p[w] = "waiting" => w \in {v} \/ w \in Waiting
    BY <1>1 DEF TypeOK, Places, Interruptible, Waiting
  <2>4. \A u, w \in {v} : u # w => u[1] # w[1]
    OBVIOUS
  <2> HIDE DEF p
  <2>5. QED  BY <1>1, <2>2, <2>3, <2>4, DispatchOrder
<1>8. CASE \E w \in Workers : JobReturnsIdle(w) \/ JobFails(w) \/ JobReturnsMore(w)
  <2>1. PICK v \in Workers : JobReturnsIdle(v) \/ JobFails(v) \/ JobReturnsMore(v)
    BY <1>8
  <2>2. pc[v] \in Holding
    BY <2>1 DEF JobReturnsIdle, JobFails, JobReturnsMore, Holding
  <2>3. CASE \E place \in {"sleep", "leaving"} : ReleaseInto(v, place)
    BY <1>1, <2>2, <2>3, ReleaseOrder
  <2>4. CASE JobReturnsMore(v) /\ ~aborted[v]
    BY <1>1, <2>4, RequeueOrder
  <2>5. QED
    BY <2>1, <2>3, <2>4 DEF JobReturnsIdle, JobFails, JobReturnsMore
<1>9. CASE \/ \E t \in Tasks : Wake(t)
           \/ \E w \in Workers : Timer(w) \/ JobLooks(w)
  <2>1. UNCHANGED <<age, ahead>>
    BY <1>9 DEF Wake, Timer, JobLooks
  <2>2. Waiting' = Waiting
    BY <1>1, <1>9 DEF Wake, Timer, JobLooks, TypeOK, Waiting
  <2>3. QED  BY <2>1, <2>2, OrderUnchanged
<1>10. CASE \/ StopResolves \/ UNCHANGED vars
            \/ \E t \in Tasks : Produce(t)
            \/ \E c \in CronTasks : CronFires(c) \/ CronEnds(c)
  <2>1. UNCHANGED <<age, ahead, pc>>
    BY <1>10 DEF StopResolves, Produce, CronFires, CronEnds, vars, gateVars
  <2>2. Waiting' = Waiting
    BY <2>1 DEF Waiting
  <2>3. QED  BY <2>1, <2>2, OrderUnchanged
<1>11. QED
  BY <1>2, <1>3, <1>4, <1>5, <1>6, <1>7, <1>8, <1>9, <1>10 DEF Next

\* Nobody waits before start().
LEMMA InitOrder == Init => OrderInv
<1>1. Init => Waiting = {}
  BY DEF Init, Waiting
<1>2. QED
  BY <1>1 DEF OrderInv, Linear, AgedInv

\* The order holds in every state the scheduler reaches.
LEMMA OrderInvariance == Spec => []OrderInv
  BY InitOrder, OrderStep, Invariance, CountsInvariance, PTL DEF Spec

\* The first S of an ordered queue are the only winners there can be.
LEMMA OneSetOfWinners ==
  ASSUME TypeOK, NEW W \in SUBSET Workers, NEW b, Linear(W, b),
         NEW act \in 0..MaxConcurrentJobs
  PROVE  \E S \in SUBSET W :
           /\ Winners(W, b, act, S)
           /\ \A T \in SUBSET W : Winners(W, b, act, T) => T = S
<1> DEFINE n == Smaller(FreeSlots(act), Cardinality(W))
           S == First(W, b, n)
<1>1. IsFiniteSet(W)
  BY FiniteWorkers, FS_Subset
<1>2. Cardinality(W) \in Nat
  BY <1>1, FS_CardinalityType
<1>3. n \in Nat /\ n <= Cardinality(W)
  BY <1>2, RunnerAssumption DEF Smaller, FreeSlots
<1> HIDE DEF n
<1>4. S \in SUBSET W
  BY DEF First
<1>5. /\ Cardinality(S) <= n
      /\ S = W \/ Cardinality(S) >= n
      /\ Closed(S, b)
  BY <1>1, <1>3, FirstMembers
<1>6. Cardinality(S) \in Nat
  BY <1>1, <1>4, FS_Subset, FS_CardinalityType
<1> HIDE DEF S
<1>7. Cardinality(S) = n
  BY <1>2, <1>3, <1>5, <1>6
<1>8. \A T \in SUBSET W : Winners(W, b, act, T) <=> Cardinality(T) = n /\ Closed(T, b)
  BY DEF Winners, Closed, n
<1>9. \A T \in SUBSET W : Winners(W, b, act, T) => T = S
  BY <1>1, <1>4, <1>5, <1>7, <1>8, ClosedUnique
<1>10. QED
  BY <1>4, <1>5, <1>7, <1>8, <1>9

\* Whoever is still waiting or queued together with others of different
\* tasks, there is exactly one way to dispatch them.
DispatchDefined ==
  \A old \in SUBSET Waiting, new \in SUBSET (Workers \ Waiting), act \in 0..MaxConcurrentJobs :
    (\A v, w \in new : v # w => v[1] # w[1]) =>
      \E S \in SUBSET (old \cup new) :
        /\ Winners(old \cup new, Order(old, new), act, S)
        /\ \A T \in SUBSET (old \cup new) :
             Winners(old \cup new, Order(old, new), act, T) => T = S

\* The sort of #dispatch is by a strict order: however long entries have aged
\* and whichever were queued together, no three of them are in a circle, and
\* who is admitted does not depend on the order of the list.
THEOREM AdmissionIsOrdered == Spec => []Linear(Waiting, ahead)
<1>1. OrderInv => Linear(Waiting, ahead)
  BY DEF OrderInv
<1>2. QED
  BY <1>1, OrderInvariance, PTL

\* So that a dispatch is never impossible and never a choice.
THEOREM DispatchIsDetermined == Spec => []DispatchDefined
<1>1. ASSUME TypeOK, OrderInv,
             NEW old \in SUBSET Waiting, NEW new \in SUBSET (Workers \ Waiting),
             NEW act \in 0..MaxConcurrentJobs, \A v, w \in new : v # w => v[1] # w[1]
      PROVE  \E S \in SUBSET (old \cup new) :
               /\ Winners(old \cup new, Order(old, new), act, S)
               /\ \A T \in SUBSET (old \cup new) :
                    Winners(old \cup new, Order(old, new), act, T) => T = S
  <2>1. Linear(old \cup new, Order(old, new))
    BY <1>1, OrderLemma
  <2>2. old \cup new \in SUBSET Workers
    BY DEF Waiting
  <2>3. QED  BY <1>1, <2>1, <2>2, OneSetOfWinners
<1>2. TypeOK /\ OrderInv => DispatchDefined
  BY <1>1, Zenon DEF DispatchDefined
<1>3. QED
  BY <1>2, TypeCorrect, OrderInvariance, PTL

\* The safety half of NoStarvation: a waiter of full age, of whatever
\* priority, is overtaken by nobody any more; those ahead of it only get fewer.
THEOREM AgedAreNotOvertaken == Spec => [][NotOvertaken]_vars
<1>1. IInv /\ CountsInv /\ OrderInv /\ [Next]_vars => [NotOvertaken]_vars
  BY OrderStep
<1>2. QED
  BY <1>1, Invariance, CountsInvariance, OrderInvariance, PTL DEF Spec

-----------------------------------------------------------------------------
(* The shutdown waits for what is there, and for nothing else.             *)

AwaitedInv ==
  stopping => awaited \subseteq {w \in Workers : pc[w] # "none"} \cup cron

\* A worker that ends is waited for no longer; no other one disappears.
LEMMA AwaitedStep == ASSUME IInv, AwaitedInv, [Next]_vars PROVE AwaitedInv'
<1>1. TypeOK /\ CronTasks \cap Workers = {} /\ cron \subseteq CronTasks
  BY RunnerAssumption DEF IInv, TypeOK
<1>2. CASE Start  BY <1>2 DEF Start, AwaitedInv
<1>3. CASE Stop
  BY <1>1, <1>3 DEF Stop, AwaitedInv, AfterStop, TypeOK
<1>4. ASSUME NEW t \in Tasks, NEW d \in 0..MaxIndex,
             NEW p \in [Workers -> Places], NEW sig \in [Workers -> BOOLEAN],
             HoldersOf(p) = Holders, Reconcile(t, d, p, sig)
      PROVE  \A w \in Workers : p[w] # "none" => pc'[w] # "none"
  <2>1. active = Cardinality(HoldersOf(p))
    BY <1>4 DEF IInv, SlotAccounting
  <2>2. \A w \in Workers :
          p[w] # "none" => \/ pc'[w] = p[w]
                           \/ pc'[w] = IF p[w] \in Interruptible THEN "leaving" ELSE p[w]
                           \/ pc'[w] = "job"
    BY <1>1, <1>4, <2>1, ReconcileLemma
  <2>3. QED  BY <2>2
<1>5. CASE \E t \in DynamicTasks, n \in 0..MaxIndex : SetWorkerCount(t, n)
  <2>1. PICK t \in DynamicTasks, n \in 0..MaxIndex : SetWorkerCount(t, n)
    BY <1>5
  <2>2. /\ t \in Tasks /\ Reconcile(t, n, pc, aborted) /\ HoldersOf(pc) = Holders
        /\ pc \in [Workers -> Places] /\ aborted \in [Workers -> BOOLEAN]
        /\ UNCHANGED <<stopping, awaited, cron>>
    BY <1>1, <2>1, RunnerAssumption DEF SetWorkerCount, TypeOK, stopVars, HoldersOf, Holders
  <2>3. \A w \in Workers : pc[w] # "none" => pc'[w] # "none"
    BY <1>4, <2>2
  <2>4. QED  BY <2>2, <2>3 DEF AwaitedInv
<1>6. CASE \E w \in Workers : WorkerStopped(w)
  <2>1. PICK v \in Workers : WorkerStopped(v)
    BY <1>6
  <2> DEFINE p == [pc EXCEPT ![v] = "none"]
             s == [aborted EXCEPT ![v] = FALSE]
             d == desired[v[1]]
             t == v[1]
  <2>2. /\ t \in Tasks /\ d \in 0..MaxIndex /\ Reconcile(t, d, p, s)
        /\ awaited' = awaited \ {v} /\ UNCHANGED <<stopping, cron>>
    BY <1>1, <2>1 DEF WorkerStopped, Workers, TypeOK
  <2>3. /\ p \in [Workers -> Places] /\ s \in [Workers -> BOOLEAN]
        /\ HoldersOf(p) = Holders
        /\ \A w \in Workers \ {v} : p[w] = pc[w]
    BY <1>1, <2>1 DEF WorkerStopped, TypeOK, Places, HoldersOf, Holders, Holding
  <2> HIDE DEF p, s, d, t
  <2>4. \A w \in Workers \ {v} : pc[w] # "none" => pc'[w] # "none"
    BY <1>4, <2>2, <2>3
  <2>5. QED  BY <2>2, <2>4 DEF AwaitedInv
<1>7. CASE /\ ~Start /\ ~Stop
           /\ ~\E t \in DynamicTasks, n \in 0..MaxIndex : SetWorkerCount(t, n)
           /\ ~\E w \in Workers : WorkerStopped(w)
  <2>1. stopping' = stopping /\ \A w \in Workers : pc'[w] = "none" <=> pc[w] = "none"
    BY <1>7, QuietSlots DEF SlotsKept
  <2>2. \/ UNCHANGED <<awaited, cron>>
        \/ \E c \in CronTasks : CronEnds(c)
        \/ awaited' = awaited /\ cron \subseteq cron'
    BY <1>7 DEF Next, vars, stopVars, StopResolves, Tick, Wake, Produce, Timer,
       WaitForAdmission, JobLooks, JobReturnsIdle, JobReturnsMore, JobFails, CronFires
  <2>3. CASE \E c \in CronTasks : CronEnds(c)
    <3>1. PICK c \in CronTasks : cron' = cron \ {c} /\ awaited' = awaited \ {c}
      BY <2>3 DEF CronEnds
    <3>2. QED  BY <2>1, <3>1 DEF AwaitedInv
  <2>4. QED  BY <2>1, <2>2, <2>3 DEF AwaitedInv
<1>8. QED
  BY <1>2, <1>3, <1>5, <1>6, <1>7

\* The safety half of StopCompletes: what stop() waits for is exactly the cron
\* runs in progress and the workers that are in a job or on their way out, each
\* of which ends by itself; no waiting or sleeping worker is among them.
THEOREM StopAwaitsWhatEnds ==
  Spec => [](stopping => awaited = {w \in Workers : pc[w] \in Holding \cup {"leaving"}} \cup cron)
<1>1. Init => AwaitedInv
  BY DEF Init, AwaitedInv
<1>2. ASSUME IInv, AwaitedInv, stopping
      PROVE  awaited = {w \in Workers : pc[w] \in Holding \cup {"leaving"}} \cup cron
  <2>1. \A w \in Workers : pc[w] # "none" <=> pc[w] \in Holding \cup {"leaving"}
    BY <1>2 DEF IInv, AbortInv, ShutdownInv, Holding
  <2>2. cron \subseteq awaited /\ \A w \in Workers : pc[w] # "none" => w \in awaited
    BY <1>2 DEF IInv, AwaitInv
  <2>3. QED  BY <1>2, <2>1, <2>2 DEF AwaitedInv
<1>3. QED
  BY <1>1, <1>2, AwaitedStep, Invariance, PTL DEF Spec
=============================================================================
