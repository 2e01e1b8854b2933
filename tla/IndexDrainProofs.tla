-------------------------- MODULE IndexDrainProofs --------------------------
(***************************************************************************)
(* Proofs about IndexDrain, for any number of keys, workers and shards.    *)
(* That the map mirrors the source, that search never goes back and that   *)
(* the drains implement SearchCopy are proved of drains that share no key  *)
(* (runShardedDrain); without that all three are false (the run            *)
(* index_unsharded).                                                       *)
(***************************************************************************)
EXTENDS IndexDrain, FiniteSetTheorems, TLAPS

\* There is always a shard with room or a number left for the next one.
LastShard ==
    /\ indeksai = MaxShards => MaxShards \in current
    /\ MaxShards \notin tool.shards

\* Workers that share no key, as runShardedDrain divides them.
Disjoint == \A v, w \in Workers : v # w => Mine[v] \intersect Mine[w] = {}

Waiting(k) == \E c \in Changes : <<k, c>> \in waiting

\* What is shown is not newer than the source, and what has a row, or is in
\* search, has been in the source.
Dated ==
    \A k \in Keys :
      /\ version[k] =< clock
      /\ eilutes[k].version =< version[k]
      /\ Shown(k) => eilutes[k].version # 0
      /\ k \in present \/ Pending(k) => version[k] # 0

\* An object that cannot return and is to be deleted is not in the source.
Gone ==
    \A k \in Keys \ Returning :
      <<k, "delete">> \in waiting \/ (\E w \in Workers : k \in ToDelete(w))
        => k \notin present

\* A batch is about the worker's keys and is filled step by step.
Batch(w) ==
    /\ Claimed(w) \subseteq Mine[w]
    /\ At(w, "idle") => worker[w].rows = {}
    /\ At(w, "idle") \/ At(w, "claimed") => Found(w) = {}
    /\ Found(w) \subseteq ToIndex(w)
    /\ worker[w].removed =
         IF At(w, "deleted") THEN ToDelete(w) \union Vanished(w) ELSE {}

AllBatches == \A w \in Workers : Batch(w)

\* A document that is behind the source has a row waiting; none is older than
\* what is shown; once published it is what is shown.
Current(w) ==
    \A k \in Found(w) :
      /\ worker[w].docs[k] =< version[k]
      /\ Waiting(k) \/ (k \in present /\ version[k] = worker[w].docs[k])
      /\ At(w, "built") \/ At(w, "planned") => eilutes[k].version =< worker[w].docs[k]
      /\ At(w, "planned") /\ k \in worker[w].existing => Shown(k)
      /\ At(w, "indexed") \/ At(w, "deleted") => eilutes[k].version = worker[w].docs[k]

\* What was not found and cannot return is not in the source.
Lost(w) ==
    ~At(w, "claimed") => \A k \in Vanished(w) \ Returning : k \notin present

MirrorInv ==
    /\ Mirrored /\ Dated /\ Gone
    /\ \A w \in Workers : Current(w) /\ Lost(w)

IInv == TypeOK /\ AllBatches /\ MirrorInv

-----------------------------------------------------------------------------
(* Types.                                                                  *)

LEMMA CapType == Cap \in Nat \ {0}
BY DrainAssumption, FS_CardinalityType DEF Cap

LEMMA InitType == Init => TypeOK /\ LastShard
BY CapType, DrainAssumption
   DEF Init, TypeOK, LastShard, NoDocs, NoRow, Idle, Unused, Steps, Shards, Versions

BatchType ==
  [step : Steps, rows : SUBSET (Keys \X Changes), docs : [Keys -> Versions],
   existing : SUBSET Keys, shard : 0 .. MaxShards, removed : SUBSET Keys]

\* What a drain does to its own record keeps it a record of a drain.
LEMMA WorkerType ==
  ASSUME TypeOK, NEW w \in Workers, NEW rows \in SUBSET waiting,
         Claim(w, rows) \/ Fetch(w) \/ Plan(w) \/ PlanNewShard(w) \/ Publish(w)
           \/ DeleteEilutes(w) \/ Commit(w) \/ Rollback(w),
         indeksai' \in 0 .. MaxShards
  PROVE  worker' \in [Workers -> BatchType]
<1> DEFINE batch == worker[w]
<1> worker \in [Workers -> BatchType] /\ batch \in BatchType
  BY DEF TypeOK, BatchType
<1>1. Idle \in BatchType
  BY DrainAssumption DEF Idle, NoDocs, Versions, Steps, BatchType
<1> SUFFICES \E b \in BatchType : worker' = [worker EXCEPT ![w] = b]
  OBVIOUS
<1>2. CASE Claim(w, rows)
  <2>1. rows \in SUBSET (Keys \X Changes)
    BY DEF TypeOK
  <2>2. [Idle EXCEPT !.step = "claimed", !.rows = rows] \in BatchType
    BY <1>1, <2>1 DEF BatchType, Steps
  <2>3. QED  BY <1>2, <2>2 DEF Claim
<1>3. CASE Fetch(w)
  <2> DEFINE docs == [k \in Keys |-> IF k \in ToIndex(w) \intersect present
                                     THEN version[k] ELSE 0]
  <2>1. docs \in [Keys -> Versions]
    BY DrainAssumption DEF Versions, TypeOK
  <2> HIDE DEF docs
  <2>2. ASSUME NEW step \in Steps
        PROVE  [batch EXCEPT !.docs = docs, !.step = step] \in BatchType
    BY <2>1 DEF BatchType
  <2>3. PICK step \in Steps :
          worker' = [worker EXCEPT ![w] = [batch EXCEPT !.docs = docs, !.step = step]]
    BY <1>3 DEF Fetch, Steps, docs
  <2>4. QED  BY <2>2, <2>3
<1>4. CASE Plan(w) \/ PlanNewShard(w)
  <2>1. PICK s \in 0 .. MaxShards : Planned(w, s)
    <3>1. current \subseteq 0 .. MaxShards
      BY DrainAssumption DEF TypeOK
    <3>2. QED  BY <1>4, <3>1 DEF Plan, PlanNewShard, WithRoom
  <2> DEFINE existing == {k \in Found(w) : Shown(k)}
  <2>2. existing \in SUBSET Keys
    BY DEF Found
  <2> HIDE DEF existing
  <2>3. [batch EXCEPT !.step = "planned", !.shard = s, !.existing = existing] \in BatchType
    BY <2>2 DEF BatchType, Steps
  <2>4. worker' = [worker EXCEPT ![w] = [batch EXCEPT !.step = "planned", !.shard = s,
                                                     !.existing = existing]]
    BY <2>1 DEF Planned, existing
  <2>5. QED  BY <2>3, <2>4
<1>5. CASE Publish(w)
  <2>1. [batch EXCEPT !.step = "indexed"] \in BatchType
    BY DEF BatchType, Steps
  <2>2. worker' = [worker EXCEPT ![w] = [batch EXCEPT !.step = "indexed"]]
    BY <1>5 DEF Publish, Goto
  <2>3. QED  BY <2>1, <2>2
<1>6. CASE DeleteEilutes(w)
  <2> DEFINE removed == ToDelete(w) \union Vanished(w)
  <2>1. removed \in SUBSET Keys
    BY DEF ToDelete, Vanished, ToIndex, Claimed, BatchType
  <2> HIDE DEF removed
  <2>2. [batch EXCEPT !.step = "deleted", !.removed = removed] \in BatchType
    BY <2>1 DEF BatchType, Steps
  <2>3. worker' = [worker EXCEPT ![w] = [batch EXCEPT !.step = "deleted",
                                                     !.removed = removed]]
    BY <1>6 DEF DeleteEilutes, removed
  <2>4. QED  BY <2>2, <2>3
<1>7. CASE Commit(w) \/ Rollback(w)
  BY <1>1, <1>7 DEF Commit, Rollback
<1>8. QED
  BY <1>2, <1>3, <1>4, <1>5, <1>6, <1>7

LEMMA TypeStep == TypeOK /\ LastShard /\ [Next]_vars => TypeOK' /\ LastShard'
<1> SUFFICES ASSUME TypeOK, LastShard, [Next]_vars  PROVE TypeOK' /\ LastShard'
  OBVIOUS
<1> USE DrainAssumption DEF TypeOK, LastShard, BatchType
<1>1. ASSUME NEW k \in Keys, Change(k)  PROVE TypeOK' /\ LastShard'
  <2>1. {<<k, "write">>, <<k, "delete">>} \subseteq Keys \X Changes
    BY DEF Changes
  <2>2. CASE Write(k)
    <3>1. clock' \in Versions /\ version' \in [Keys -> Versions]
      BY <2>2 DEF Write, Versions
    <3>2. QED
      BY <1>1, <2>1, <3>1 DEF Change, Insert, Patch, Delete, shardVars, source
  <2>3. CASE Delete(k)
    BY <2>1, <2>3 DEF Delete, shardVars
  <2>4. QED
    BY <1>1, <2>2, <2>3 DEF Change, Insert, Patch
<1>2. ASSUME NEW w \in Workers, Drain(w)  PROVE TypeOK' /\ LastShard'
  <2>1. CASE \E rows \in SUBSET waiting : Claim(w, rows)
    <3>1. PICK rows \in SUBSET waiting : Claim(w, rows)
      BY <2>1
    <3>2. QED  BY <3>1, WorkerType DEF Claim, source, shardVars
  <2>2. CASE Fetch(w) \/ Plan(w) \/ DeleteEilutes(w)
    BY <2>2, WorkerType DEF Fetch, Plan, DeleteEilutes, source, shardVars
  <2>3. CASE PlanNewShard(w)
    <3>1. indeksai # MaxShards
      BY <2>3 DEF PlanNewShard, WithRoom
    <3>2. indeksai' \in 1 .. MaxShards /\ current' = current \union {indeksai'}
      BY <2>3, <3>1 DEF PlanNewShard
    <3>3. worker' \in [Workers -> BatchType]
      <4>1. indeksai' \in 0 .. MaxShards
        BY <3>2
      <4>2. QED  BY <2>3, <4>1, WorkerType
    <3>4. QED
      BY <2>3, <3>1, <3>2, <3>3 DEF PlanNewShard, source
  <2>4. CASE Publish(w)
    <3>1. eilutes' \in [Keys -> [version : Versions, shard : 0 .. MaxShards]]
      BY <2>4 DEF Publish
    <3>2. Cardinality(Found(w)) \in Nat
      BY FS_Subset, FS_CardinalityType DEF Found
    <3>3. iterptos' \in [Shards -> 0 .. Cap]
      <4>1. ASSUME NEW n \in 0 .. Cap
            PROVE  (IF n + Cardinality(Found(w)) > Cap THEN Cap
                      ELSE n + Cardinality(Found(w))) \in 0 .. Cap
        BY <3>2, CapType
      <4>2. QED  BY <2>4, <4>1 DEF Publish
    <3>4. QED
      BY <2>4, <3>1, <3>3, WorkerType DEF Publish, source
  <2>5. CASE Commit(w)
    <3>1. eilutes' \in [Keys -> [version : Versions, shard : 0 .. MaxShards]]
      BY <2>5 DEF Commit, NoRow, Versions
    <3>2. QED
      BY <2>5, <3>1, WorkerType DEF Commit, source, shardVars
  <2>6. CASE Rollback(w)
    BY <2>6, WorkerType DEF Rollback, source, shardVars
  <2>7. QED
    BY <1>2, <2>1, <2>2, <2>3, <2>4, <2>5, <2>6 DEF Drain
<1>3. CASE Requeue
  <2>1. ASSUME NEW chosen \in SUBSET Shards, MarkShards(chosen)
        PROVE  TypeOK' /\ LastShard'
    BY <2>1 DEF MarkShards, source, shardVars
  <2>2. CASE ReplaceRows
    <3>1. waiting' \subseteq Keys \X Changes
      BY <2>2 DEF ReplaceRows, Changes
    <3>2. QED
      BY <2>2, <3>1 DEF ReplaceRows, Unused, source
  <2>3. CASE ToolStops
    BY <2>3 DEF ToolStops, Unused, source, shardVars
  <2>4. QED
    BY <1>3, <2>1, <2>2, <2>3 DEF Requeue
<1>4. CASE UNCHANGED vars
  BY <1>4 DEF vars, source, shardVars
<1>5. QED
  BY <1>1, <1>2, <1>3, <1>4 DEF Next

\* There is always a shard to publish to, and every row, map entry and batch
\* is one the code can produce.
THEOREM TypeCorrect == Spec => []TypeOK
<1>1. Spec => [](TypeOK /\ LastShard)
  BY InitType, TypeStep, PTL DEF Spec
<1>2. QED
  BY <1>1, PTL

-----------------------------------------------------------------------------
(* Batches.                                                                *)

\* What is said of a batch is said of its worker's record.
LEMMA SameRows ==
  ASSUME NEW v, worker'[v].rows = worker[v].rows
  PROVE  /\ Claimed(v)' = Claimed(v) /\ ToDelete(v)' = ToDelete(v)
         /\ ToIndex(v)' = ToIndex(v)
         /\ worker'[v].docs = worker[v].docs =>
              Found(v)' = Found(v) /\ Vanished(v)' = Vanished(v)
BY DEF Claimed, ToDelete, ToIndex, Found, Vanished

LEMMA SameBatch ==
  ASSUME NEW v, worker'[v] = worker[v]
  PROVE  /\ Claimed(v)' = Claimed(v) /\ ToDelete(v)' = ToDelete(v)
         /\ ToIndex(v)' = ToIndex(v) /\ Found(v)' = Found(v)
         /\ Vanished(v)' = Vanished(v)
         /\ \A step \in Steps : At(v, step)' = At(v, step)
         /\ Batch(v)' = Batch(v)
BY DEF Claimed, ToDelete, ToIndex, Found, Vanished, At, Batch

\* Nobody writes into another worker's record, ...
LEMMA OthersKeep ==
  ASSUME TypeOK, NEW w \in Workers, Drain(w), NEW v \in Workers, v # w
  PROVE  worker'[v] = worker[v]
BY DEF Drain, Claim, Fetch, Plan, PlanNewShard, Planned, Publish, Goto,
   DeleteEilutes, Commit, Rollback, TypeOK

\* ... and what a step does to its own is this.
LEMMA OwnRecord ==
  ASSUME TypeOK, NEW w \in Workers
  PROVE  /\ \A rows \in SUBSET waiting : Claim(w, rows) =>
              /\ worker'[w].step = "claimed" /\ worker'[w].rows = rows
              /\ worker'[w].docs = NoDocs /\ worker'[w].removed = {}
         /\ Fetch(w) =>
              /\ worker'[w].step \in {"built", "indexed"}
              /\ worker'[w].step = "indexed" <=> ToIndex(w) \intersect present = {}
              /\ worker'[w].rows = worker[w].rows
              /\ worker'[w].docs = [k \in Keys |-> IF k \in ToIndex(w) \intersect present
                                                   THEN version[k] ELSE 0]
              /\ worker'[w].removed = worker[w].removed
         /\ Plan(w) \/ PlanNewShard(w) =>
              /\ worker'[w].step = "planned" /\ worker'[w].rows = worker[w].rows
              /\ worker'[w].docs = worker[w].docs
              /\ worker'[w].existing = {k \in Found(w) : Shown(k)}
              /\ worker'[w].removed = worker[w].removed
         /\ Publish(w) =>
              /\ worker'[w].step = "indexed" /\ worker'[w].rows = worker[w].rows
              /\ worker'[w].docs = worker[w].docs
              /\ worker'[w].removed = worker[w].removed
         /\ DeleteEilutes(w) =>
              /\ worker'[w].step = "deleted" /\ worker'[w].rows = worker[w].rows
              /\ worker'[w].docs = worker[w].docs
              /\ worker'[w].removed = ToDelete(w) \union Vanished(w)
         /\ Commit(w) \/ Rollback(w) => worker'[w] = Idle
<1> worker \in [Workers -> BatchType]
  BY DEF TypeOK, BatchType
<1> USE DEF BatchType
<1>1. ASSUME NEW rows \in SUBSET waiting, Claim(w, rows)
      PROVE  /\ worker'[w].step = "claimed" /\ worker'[w].rows = rows
             /\ worker'[w].docs = NoDocs /\ worker'[w].removed = {}
  <2>1. worker'[w] = [Idle EXCEPT !.step = "claimed", !.rows = rows]
    BY <1>1 DEF Claim
  <2>2. QED  BY <2>1 DEF Idle
<1>2. CASE Fetch(w)
  <2> DEFINE docs == [k \in Keys |-> IF k \in ToIndex(w) \intersect present
                                     THEN version[k] ELSE 0]
             step == IF ToIndex(w) \intersect present = {} THEN "indexed" ELSE "built"
  <2>1. worker' = [worker EXCEPT ![w].docs = docs, ![w].step = step]
    BY <1>2 DEF Fetch
  <2> HIDE DEF docs, step
  <2>2. worker'[w] = [worker[w] EXCEPT !.docs = docs, !.step = step]
    BY <2>1
  <2>3. /\ worker'[w].step = step /\ worker'[w].rows = worker[w].rows
        /\ worker'[w].docs = docs /\ worker'[w].removed = worker[w].removed
    BY <2>2
  <2>4. step \in {"built", "indexed"}
        /\ (step = "indexed" <=> ToIndex(w) \intersect present = {})
    BY DEF step
  <2>5. QED  BY <2>3, <2>4, <1>2, At(w, "claimed") DEF docs, Fetch, Claim, Plan,
                PlanNewShard, Publish, DeleteEilutes, Commit, Rollback, At
<1>3. ASSUME NEW s, Planned(w, s)
      PROVE  /\ worker'[w].step = "planned" /\ worker'[w].rows = worker[w].rows
             /\ worker'[w].docs = worker[w].docs
             /\ worker'[w].existing = {k \in Found(w) : Shown(k)}
             /\ worker'[w].removed = worker[w].removed
  <2> DEFINE existing == {k \in Found(w) : Shown(k)}
  <2>1. worker' = [worker EXCEPT ![w].step = "planned", ![w].shard = s,
                                 ![w].existing = existing]
    BY <1>3 DEF Planned
  <2> HIDE DEF existing
  <2>2. worker'[w] = [worker[w] EXCEPT !.step = "planned", !.shard = s,
                                       !.existing = existing]
    BY <2>1
  <2>3. QED  BY <2>2 DEF existing
<1>4. ASSUME DeleteEilutes(w)
      PROVE  /\ worker'[w].step = "deleted" /\ worker'[w].rows = worker[w].rows
             /\ worker'[w].docs = worker[w].docs
             /\ worker'[w].removed = ToDelete(w) \union Vanished(w)
  <2> DEFINE removed == ToDelete(w) \union Vanished(w)
  <2>1. worker' = [worker EXCEPT ![w].step = "deleted", ![w].removed = removed]
    BY <1>4 DEF DeleteEilutes
  <2> HIDE DEF removed
  <2>2. worker'[w] = [worker[w] EXCEPT !.step = "deleted", !.removed = removed]
    BY <2>1
  <2>3. QED  BY <2>2 DEF removed
<1>5. QED
  BY <1>1, <1>2, <1>3, <1>4 DEF Plan, PlanNewShard, Publish, Goto, Commit, Rollback

LEMMA BatchStep ==
  TypeOK /\ AllBatches /\ [Next]_vars => AllBatches'
<1> SUFFICES ASSUME TypeOK, AllBatches, [Next]_vars, NEW v \in Workers
             PROVE  Batch(v)'
  BY DEF AllBatches
<1> \A w \in Workers : Batch(w)
  BY DEF AllBatches
<1>1. CASE worker'[v] = worker[v]
  BY <1>1, SameBatch
<1>2. ASSUME NEW w \in Workers, Drain(w)  PROVE Batch(v)'
  <2>1. CASE v # w
    BY <1>2, <2>1, <1>1, OthersKeep
  <2> SUFFICES ASSUME v = w  PROVE Batch(v)'
    BY <2>1
  <2>2. ASSUME NEW rows \in SUBSET waiting, Claim(w, rows)  PROVE Batch(w)'
    <3>1. \A r \in rows : r[1] \in Mine[w]
      BY <2>2 DEF Claim
    <3>2. /\ worker'[w].step = "claimed" /\ worker'[w].rows = rows
          /\ worker'[w].docs = NoDocs /\ worker'[w].removed = {}
      BY <2>2, OwnRecord
    <3>3. Claimed(w)' \subseteq Mine[w]
      BY <3>1, <3>2 DEF Claimed
    <3>4. Found(w)' = {}
      BY <3>2 DEF Found, NoDocs
    <3>5. QED
      BY <3>2, <3>3, <3>4 DEF Batch, At
  <2>3. CASE Fetch(w)
    <3>1. /\ At(w, "claimed") /\ worker'[w].step \in {"built", "indexed"}
          /\ worker'[w].rows = worker[w].rows /\ worker'[w].removed = worker[w].removed
          /\ worker'[w].docs = [k \in Keys |-> IF k \in ToIndex(w) \intersect present
                                               THEN version[k] ELSE 0]
      BY <2>3, OwnRecord DEF Fetch
    <3>2. Claimed(w)' = Claimed(w) /\ ToIndex(w)' = ToIndex(w)
      BY <3>1, SameRows
    <3>3. Found(w)' \subseteq ToIndex(w)
      BY <3>1 DEF Found
    <3>4. QED
      BY <3>1, <3>2, <3>3 DEF Batch, At
  <2>4. CASE Plan(w) \/ PlanNewShard(w) \/ Publish(w)
    <3>1. /\ At(w, "built") \/ At(w, "planned")
          /\ worker'[w].step \in {"planned", "indexed"}
          /\ worker'[w].rows = worker[w].rows /\ worker'[w].docs = worker[w].docs
          /\ worker'[w].removed = worker[w].removed
      BY <2>4, OwnRecord DEF Plan, PlanNewShard, Publish
    <3>2. QED
      BY <3>1, SameRows DEF Batch, At
  <2>5. CASE DeleteEilutes(w)
    <3>1. /\ At(w, "indexed") /\ worker'[w].step = "deleted"
          /\ worker'[w].rows = worker[w].rows /\ worker'[w].docs = worker[w].docs
          /\ worker'[w].removed = ToDelete(w) \union Vanished(w)
      BY <2>5, OwnRecord DEF DeleteEilutes
    <3>2. /\ Claimed(w)' = Claimed(w) /\ ToDelete(w)' = ToDelete(w)
          /\ ToIndex(w)' = ToIndex(w) /\ Found(w)' = Found(w)
          /\ Vanished(w)' = Vanished(w)
      BY <3>1, SameRows
    <3>3. QED
      BY <3>1, <3>2 DEF Batch, At
  <2>6. CASE Commit(w) \/ Rollback(w)
    <3>1. worker'[w] = Idle
      BY <2>6, OwnRecord
    <3>2. Claimed(w)' = {} /\ Found(w)' = {}
      BY <3>1 DEF Idle, NoDocs, Claimed, Found
    <3>3. QED
      BY <3>1, <3>2 DEF Batch, Idle, At
  <2>7. QED
    BY <1>2, <2>2, <2>3, <2>4, <2>5, <2>6 DEF Drain
<1>3. CASE Requeue \/ UNCHANGED vars \/ \E k \in Keys : Change(k)
  <2>1. worker' = worker
    BY <1>3 DEF Requeue, MarkShards, ReplaceRows, ToolStops, vars,
       Change, Insert, Patch, Delete
  <2>2. QED  BY <1>1, <2>1
<1>4. QED
  BY <1>2, <1>3 DEF Next

LEMMA Batches == Spec => []AllBatches
<1>1. Init => AllBatches
  BY DEF Init, AllBatches, Batch, Idle, NoDocs, Claimed, ToDelete, ToIndex, Found, At
<1>2. QED
  BY <1>1, BatchStep, TypeCorrect, PTL DEF Spec

\* Of two drains the one the other waits for can go on, so that no circle of
\* them is ever hidden from PostgreSQL, however they share the keys.
THEOREM DrainsGoOn == Spec => []WaitedForGoesOn
<1>1. TypeOK /\ AllBatches => WaitedForGoesOn
  <2> SUFFICES ASSUME TypeOK, AllBatches,
                      NEW w \in Workers, NEW v \in WaitsFor(w)
               PROVE  Free(v)
    BY DEF WaitedForGoesOn
  <2>1. v \in Workers /\ worker[v].removed # {}
    BY DEF WaitsFor, Locked, ShardsOf
  <2>2. At(v, "deleted")
    BY <2>1 DEF AllBatches, Batch
  <2>3. WaitsFor(v) = {} /\ ~WaitsForTool(v)
    BY <2>2 DEF WaitsFor, WaitsForTool, At
  <2>4. QED  BY <2>3 DEF Free
<1>2. QED
  BY <1>1, Batches, TypeCorrect, PTL

-----------------------------------------------------------------------------
(* The mirror.                                                             *)

\* A key is claimed by one worker only.
LEMMA Alone ==
  ASSUME Disjoint, NEW v \in Workers, NEW w \in Workers, Batch(v), Batch(w), v # w
  PROVE  Claimed(v) \intersect Claimed(w) = {}
BY DEF Disjoint, Batch

\* What is seen from a batch that does not move.
LEMMA OthersSee ==
  ASSUME NEW v \in Workers, Current(v), Lost(v), worker'[v] = worker[v],
         UNCHANGED source,
         \A k \in Found(v) : eilutes'[k] = eilutes[k] /\ (Waiting(k) => Waiting(k)')
  PROVE  Current(v)' /\ Lost(v)'
<1>1. /\ Found(v)' = Found(v) /\ Vanished(v)' = Vanished(v)
      /\ \A step \in Steps : At(v, step)' = At(v, step)
  BY SameBatch
<1>2. version' = version /\ present' = present
  BY DEF source
<1>3. Current(v)'
  <2> SUFFICES ASSUME NEW k \in Found(v)
               PROVE  /\ worker[v].docs[k] =< version[k]
                      /\ Waiting(k)' \/ (k \in present /\ version[k] = worker[v].docs[k])
                      /\ At(v, "built") \/ At(v, "planned")
                           => eilutes[k].version =< worker[v].docs[k]
                      /\ At(v, "planned") /\ k \in worker[v].existing => Shown(k)
                      /\ At(v, "indexed") \/ At(v, "deleted")
                           => eilutes[k].version = worker[v].docs[k]
    BY <1>1, <1>2 DEF Current, Steps, Shown
  <2>1. QED  BY DEF Current
<1>4. Lost(v)'
  BY <1>1, <1>2 DEF Lost, Steps
<1>5. QED  BY <1>3, <1>4

\* Who has a row after a drain's step.
LEMMA PendingAfter ==
  ASSUME TypeOK, NEW w \in Workers, Drain(w), NEW k \in Keys
  PROVE  Pending(k)' <=> \/ Waiting(k)' \/ k \in Claimed(w)'
                         \/ \E v \in Workers \ {w} : k \in Claimed(v)
<1>1. \A v \in Workers \ {w} : Claimed(v)' = Claimed(v)
  BY OthersKeep, SameBatch
<1>2. QED
  BY <1>1 DEF Pending, Waiting

\* The step of a worker that ends its batch.
LEMMA BatchEnds ==
  ASSUME TypeOK, NEW w \in Workers, Commit(w) \/ Rollback(w)
  PROVE  /\ Claimed(w)' = {} /\ ToDelete(w)' = {} /\ Found(w)' = {} /\ Vanished(w)' = {}
         /\ Current(w)' /\ Lost(w)'
<1>1. worker'[w] = Idle
  BY OwnRecord
<1>2. /\ Claimed(w)' = {} /\ ToDelete(w)' = {} /\ Found(w)' = {} /\ Vanished(w)' = {}
  BY <1>1 DEF Idle, NoDocs, Claimed, ToDelete, Found, Vanished, ToIndex
<1>3. QED
  BY <1>2 DEF Current, Lost

\* A change of an object leaves a row about it, and no other.
LEMMA ChangePending ==
  ASSUME NEW k \in Keys, Change(k)
  PROVE  \A j \in Keys : Pending(j)' <=> Pending(j) \/ j = k
<1>1. \A w \in Workers : Claimed(w)' = Claimed(w)
  BY SameBatch DEF Change, Insert, Patch, Delete
<1>2. PICK c \in Changes : waiting' = waiting \union {<<k, c>>}
  BY DEF Change, Insert, Patch, Delete, Changes
<1>3. \A j \in Keys \ {k}, d \in Changes : <<j, d>> \in waiting' <=> <<j, d>> \in waiting
  BY <1>2
<1>4. \A j \in Keys : Waiting(j)' <=> Waiting(j) \/ j = k
  BY <1>2, <1>3 DEF Waiting
<1>5. QED  BY <1>1, <1>4 DEF Pending, Waiting

\* What is written is dated now.
LEMMA ChangeDates ==
  ASSUME TypeOK, Dated, NEW k \in Keys, Change(k)
  PROVE  /\ clock \in Nat /\ clock' \in Nat /\ clock =< clock'
         /\ version[k] \in Nat /\ version'[k] \in Nat /\ version[k] =< version'[k]
         /\ version'[k] # 0 /\ version'[k] =< clock'
         /\ Write(k) => version[k] < version'[k]
<1>1. clock \in Nat /\ version[k] \in Nat /\ version[k] =< clock
  BY DEF TypeOK, Versions, Dated
<1>2. CASE Write(k)
  BY <1>1, <1>2 DEF Write, TypeOK
<1>3. CASE Delete(k) /\ ~Write(k)
  BY <1>1, <1>3 DEF Delete, Dated
<1>4. QED  BY <1>2, <1>3 DEF Change, Insert, Patch

\* A claim takes rows along with what they ask.
LEMMA ClaimPending ==
  ASSUME TypeOK, NEW w \in Workers, Batch(w), NEW rows \in SUBSET waiting, Claim(w, rows)
  PROVE  \A k \in Keys : Pending(k) <=> Pending(k)'
<1>1. Drain(w)
  BY DEF Drain
<1>2. worker'[w].rows = rows /\ waiting' = waiting \ rows /\ worker[w].rows = {}
  BY OwnRecord DEF Claim, Batch
<1>3. Claimed(w)' = {r[1] : r \in rows} /\ Claimed(w) = {}
  BY <1>2 DEF Claimed
<1>4. ASSUME NEW k \in Keys  PROVE Waiting(k)' \/ k \in Claimed(w)' <=> Waiting(k)
  <2>1. ASSUME NEW r \in rows  PROVE r[2] \in Changes /\ r = <<r[1], r[2]>> /\ r \in waiting
    BY DEF TypeOK
  <2>2. ASSUME k \in Claimed(w)'  PROVE Waiting(k)
    <3>1. PICK r \in rows : r[1] = k
      BY <1>3, <2>2
    <3>2. QED  BY <2>1, <3>1 DEF Waiting
  <2>3. ASSUME NEW c \in Changes, <<k, c>> \in rows  PROVE k \in Claimed(w)'
    <3>1. <<k, c>>[1] = k
      OBVIOUS
    <3>2. QED  BY <1>3, <2>3, <3>1
  <2>4. QED  BY <1>2, <2>2, <2>3 DEF Waiting
<1>5. \A k \in Keys : Pending(k) <=> Waiting(k) \/ \E v \in Workers \ {w} : k \in Claimed(v)
  BY <1>3 DEF Pending, Waiting
<1>6. QED  BY <1>1, <1>4, <1>5, PendingAfter

\* A batch that ends is about its keys no more ...
LEMMA CommitPending ==
  ASSUME TypeOK, NEW w \in Workers, Commit(w)
  PROVE  \A k \in Keys : Pending(k) <=> Pending(k)' \/ k \in Claimed(w)
<1>1. Drain(w) /\ waiting' = waiting
  BY DEF Drain, Commit
<1>2. Claimed(w)' = {}
  BY BatchEnds
<1>3. \A k \in Keys : Waiting(k)' <=> Waiting(k)
  BY <1>1 DEF Waiting
<1>4. \A k \in Keys : Pending(k) <=> \/ Waiting(k) \/ k \in Claimed(w)
                                    \/ \E v \in Workers \ {w} : k \in Claimed(v)
  BY DEF Pending, Waiting
<1>5. QED  BY <1>1, <1>2, <1>3, <1>4, PendingAfter

\* ... unless it fails.
LEMMA RollbackPending ==
  ASSUME TypeOK, NEW w \in Workers, Rollback(w)
  PROVE  \A k \in Keys : /\ Waiting(k)' <=> Waiting(k) \/ k \in Claimed(w)
                         /\ Pending(k) <=> Pending(k)'
<1>1. Drain(w) /\ waiting' = waiting \union worker[w].rows
  BY DEF Drain, Rollback
<1>2. Claimed(w)' = {}
  BY BatchEnds
<1>3. ASSUME NEW k \in Keys  PROVE Waiting(k)' <=> Waiting(k) \/ k \in Claimed(w)
  <2>1. ASSUME k \in Claimed(w)  PROVE \E c \in Changes : <<k, c>> \in worker[w].rows
    <3>1. PICK r \in worker[w].rows : r[1] = k
      BY <2>1 DEF Claimed
    <3>2. r[2] \in Changes /\ r = <<r[1], r[2]>>
      BY DEF TypeOK
    <3>3. QED  BY <3>1, <3>2
  <2>2. ASSUME NEW c \in Changes, <<k, c>> \in worker[w].rows  PROVE k \in Claimed(w)
    <3>1. <<k, c>>[1] = k
      OBVIOUS
    <3>2. QED  BY <2>2, <3>1 DEF Claimed
  <2>3. QED  BY <1>1, <2>1, <2>2 DEF Waiting
<1>4. \A k \in Keys : Pending(k) <=> \/ Waiting(k) \/ k \in Claimed(w)
                                    \/ \E v \in Workers \ {w} : k \in Claimed(v)
  BY DEF Pending, Waiting
<1>5. QED  BY <1>1, <1>2, <1>3, <1>4, PendingAfter

\* Requeueing replaces rows and adds some about what is shown.
LEMMA RequeuePending ==
  ASSUME ReplaceRows
  PROVE  /\ \A k \in Keys :
              LET live == Shown(k) /\ eilutes[k].shard \in tool.shards
              IN  /\ Waiting(k)' <=> Waiting(k) \/ live
                  /\ Pending(k)' <=> Pending(k) \/ live
                  /\ ~live => \A c \in Changes : <<k, c>> \in waiting' <=> <<k, c>> \in waiting
                  /\ live => /\ <<k, "delete">> \in waiting' <=> k \notin present
                             /\ <<k, "write">> \in waiting' <=> k \in present
<1> DEFINE live == {k \in Keys : Shown(k) /\ eilutes[k].shard \in tool.shards}
<1>1. /\ \A k \in Keys \ live, c \in Changes : <<k, c>> \in waiting' <=> <<k, c>> \in waiting
      /\ \A k \in live : <<k, "delete">> \in waiting' <=> k \notin present
      /\ \A k \in live : <<k, "write">> \in waiting' <=> k \in present
  <2>1. waiting' = {r \in waiting : r[1] \notin live}
                     \union (live \intersect present) \X {"write"}
                     \union (live \ present) \X {"delete"}
    BY DEF ReplaceRows
  <2>2. \A k \in Keys, c \in Changes : <<k, c>>[1] = k
    OBVIOUS
  <2> HIDE DEF live
  <2>3. QED  BY <2>1, <2>2 DEF Changes, live
<1>2. \A v \in Workers : Claimed(v)' = Claimed(v)
  BY SameBatch DEF ReplaceRows
<1>3. \A k \in Keys : Waiting(k)' <=> Waiting(k) \/ k \in live
  BY <1>1 DEF Waiting, Changes
<1>4. \A k \in Keys : Pending(k)' <=> Pending(k) \/ k \in live
  BY <1>2, <1>3 DEF Pending, Waiting
<1>5. QED  BY <1>1, <1>3, <1>4

LEMMA ChangeMirrors ==
  ASSUME IInv, NEW k \in Keys, Change(k)
  PROVE  MirrorInv'
<1>1. TypeOK /\ AllBatches /\ Mirrored /\ Dated /\ Gone
  BY DEF IInv, MirrorInv
<1>2. worker' = worker /\ eilutes' = eilutes
  BY DEF Change, Insert, Patch, Delete
<1>3. \A w \in Workers : /\ Claimed(w)' = Claimed(w) /\ ToDelete(w)' = ToDelete(w)
                         /\ Found(w)' = Found(w) /\ Vanished(w)' = Vanished(w)
                         /\ \A step \in Steps : At(w, step)' = At(w, step)
  BY <1>2, SameBatch
<1>4. Waiting(k)' /\ \A j \in Keys : Waiting(j) => Waiting(j)'
  BY DEF Change, Insert, Patch, Delete, Waiting, Changes
<1>5. \A j \in Keys \ {k} : version'[j] = version[j] /\ (j \in present' <=> j \in present)
  BY <1>1 DEF Change, Insert, Patch, Delete, Write, TypeOK
<1>6. \A j \in Keys : Pending(j)' <=> Pending(j) \/ j = k
  BY ChangePending
<1>7. /\ clock \in Nat /\ clock' \in Nat /\ clock =< clock'
      /\ version[k] \in Nat /\ version'[k] \in Nat /\ version[k] =< version'[k]
      /\ version'[k] # 0 /\ version'[k] =< clock'
  BY <1>1, ChangeDates
<1>8. Pending(k) /\ k \notin Returning => ~Insert(k)
  BY <1>1 DEF Insert, Dated
<1>9. Mirrored'
  BY <1>1, <1>2, <1>5, <1>6 DEF Mirrored, Shown
<1>10. Dated'
  <2> SUFFICES ASSUME NEW j \in Keys
               PROVE  /\ version'[j] =< clock'
                      /\ eilutes[j].version =< version'[j]
                      /\ Shown(j) => eilutes[j].version # 0
                      /\ j \in present' \/ Pending(j)' => version'[j] # 0
    BY <1>2 DEF Dated, Shown
  <2>1. version[j] \in Nat /\ eilutes[j].version \in Nat
    BY <1>1 DEF TypeOK, Versions
  <2>2. CASE j = k
    BY <1>1, <1>7, <2>1, <2>2 DEF Dated
  <2>3. CASE j # k
    BY <1>1, <1>5, <1>6, <1>7, <2>1, <2>3 DEF Dated
  <2>4. QED  BY <2>2, <2>3
<1>11. Gone'
  <2> SUFFICES ASSUME NEW j \in Keys \ Returning,
                      <<j, "delete">> \in waiting' \/ \E w \in Workers : j \in ToDelete(w)
               PROVE  j \notin present'
    BY <1>3 DEF Gone
  <2>1. CASE Delete(k) /\ j = k
    BY <2>1 DEF Delete
  <2>2. CASE ~(Delete(k) /\ j = k)
    <3>1. <<j, "delete">> \in waiting \/ \E w \in Workers : j \in ToDelete(w)
      BY <2>2 DEF Change, Insert, Patch, Delete
    <3>2. j \notin present /\ Pending(j)
      BY <1>1, <3>1 DEF Gone, Pending, Changes, ToDelete
    <3>3. QED
      BY <1>5, <1>8, <3>2 DEF Change, Insert, Patch, Delete
  <2>3. QED  BY <2>1, <2>2
<1>12. ASSUME NEW w \in Workers  PROVE Current(w)' /\ Lost(w)'
  <2>1. Current(w) /\ Lost(w) /\ Batch(w)
    BY <1>1 DEF IInv, MirrorInv, AllBatches
  <2>2. Current(w)'
    <3> SUFFICES ASSUME NEW j \in Found(w)
                 PROVE  /\ worker[w].docs[j] =< version'[j]
                        /\ Waiting(j)' \/ (j \in present' /\ version'[j] = worker[w].docs[j])
      BY <1>2, <1>3, <2>1 DEF Current, Steps, Shown
    <3>1. /\ j \in Keys /\ version[j] \in Nat /\ worker[w].docs[j] \in Nat
          /\ worker[w].docs[j] =< version[j]
      BY <1>1, <2>1 DEF Found, TypeOK, Versions, Current
    <3>2. CASE j = k
      BY <1>4, <1>7, <3>1, <3>2
    <3>3. CASE j # k
      BY <1>4, <1>5, <2>1, <3>1, <3>3 DEF Current
    <3>4. QED  BY <3>2, <3>3
  <2>3. Lost(w)'
    <3> SUFFICES ASSUME ~At(w, "claimed"), NEW j \in Vanished(w) \ Returning
                 PROVE  j \notin present'
      BY <1>3 DEF Lost, Steps
    <3>1. j \notin present /\ j \in Claimed(w)
      BY <2>1 DEF Lost, Vanished, ToIndex
    <3>2. j \in Keys /\ Pending(j)
      BY <1>1, <3>1 DEF Pending, TypeOK, Claimed
    <3>3. QED
      BY <1>5, <1>8, <3>1, <3>2 DEF Change, Insert, Patch, Delete
  <2>4. QED  BY <2>2, <2>3
<1>13. QED
  BY <1>9, <1>10, <1>11, <1>12 DEF MirrorInv

\* What is about no row a step touches stays mirrored, and a step that changes
\* neither source nor map only has to keep the rows.
LEMMA QuietMirrors ==
  ASSUME TypeOK, Mirrored, Dated, UNCHANGED <<source, eilutes>>,
         \A k \in Keys : Pending(k) <=> Pending(k)'
  PROVE  Mirrored' /\ Dated'
BY DEF Mirrored, Dated, Shown, source

LEMMA ClaimMirrors ==
  ASSUME Disjoint, IInv, NEW w \in Workers, NEW rows \in SUBSET waiting, Claim(w, rows)
  PROVE  MirrorInv'
<1>1. /\ TypeOK /\ AllBatches /\ Mirrored /\ Dated /\ Gone
      /\ \A v \in Workers : Batch(v) /\ Current(v) /\ Lost(v)
  BY DEF IInv, MirrorInv, AllBatches
<1>2. /\ worker'[w].step = "claimed" /\ worker'[w].rows = rows
      /\ worker'[w].docs = NoDocs
  BY <1>1, OwnRecord
<1>3. /\ UNCHANGED <<source, eilutes>> /\ waiting' = waiting \ rows
      /\ rows \subseteq {r \in waiting : r[1] \in Mine[w]} /\ worker[w].rows = {}
  BY <1>1 DEF Claim, Batch
<1>4. Drain(w)
  BY DEF Drain
<1>5. \A v \in Workers \ {w} : worker'[v] = worker[v]
  BY <1>1, <1>4, OthersKeep
<1>6. Found(w)' = {}
  BY <1>2 DEF Found, NoDocs
<1>8. \A k \in Keys : Pending(k) <=> Pending(k)'
  BY <1>1, ClaimPending
<1>9. Mirrored' /\ Dated'
  BY <1>1, <1>3, <1>8, QuietMirrors
<1>10. Gone'
  <2> SUFFICES ASSUME NEW k \in Keys \ Returning,
                      <<k, "delete">> \in waiting' \/ \E v \in Workers : k \in ToDelete(v)'
               PROVE  k \notin present
    BY <1>3 DEF Gone, source
  <2>1. ASSUME NEW v \in Workers \ {w}, k \in ToDelete(v)'  PROVE k \in ToDelete(v)
    BY <1>5, <2>1, SameBatch
  <2>2. k \in ToDelete(w)' => <<k, "delete">> \in waiting
    BY <1>2 DEF ToDelete
  <2>3. QED  BY <1>1, <1>3, <2>1, <2>2 DEF Gone
<1>11. ASSUME NEW v \in Workers, v # w  PROVE Current(v)' /\ Lost(v)'
  <2>1. ASSUME NEW k \in Found(v), Waiting(k)  PROVE Waiting(k)'
    <3>1. k \in Claimed(v) /\ k \in Mine[v] /\ k \notin Mine[w]
      BY <1>1, <1>11 DEF Batch, ToIndex, Disjoint
    <3>2. PICK c \in Changes : <<k, c>> \in waiting
      BY <2>1 DEF Waiting
    <3>3. <<k, c>> \notin rows
      <4>1. <<k, c>>[1] = k
        OBVIOUS
      <4>2. QED  BY <1>3, <3>1, <4>1
    <3>4. QED  BY <1>3, <3>2, <3>3 DEF Waiting
  <2>2. QED
    BY <1>1, <1>3, <1>5, <1>11, <2>1, OthersSee
<1>12. Current(w)' /\ Lost(w)'
  BY <1>2, <1>6 DEF Current, Lost, At
<1>13. QED
  BY <1>9, <1>10, <1>11, <1>12 DEF MirrorInv

\* Between the claim and the end of a batch its rows stay, and so does what
\* only rows are about.
LEMMA BatchKeepsRows ==
  ASSUME IInv, NEW w \in Workers,
         Fetch(w) \/ Plan(w) \/ PlanNewShard(w) \/ Publish(w) \/ DeleteEilutes(w)
  PROVE  /\ UNCHANGED <<source, waiting>>
         /\ Claimed(w)' = Claimed(w) /\ ToDelete(w)' = ToDelete(w)
         /\ ToIndex(w)' = ToIndex(w)
         /\ \A k \in Keys : Waiting(k)' = Waiting(k) /\ (Pending(k) <=> Pending(k)')
         /\ Gone'
<1>1. TypeOK /\ Gone /\ Drain(w)
  BY DEF IInv, MirrorInv, Drain
<1>2. UNCHANGED <<source, waiting>>
  BY DEF Fetch, Plan, PlanNewShard, Publish, DeleteEilutes
<1>3. worker'[w].rows = worker[w].rows
  BY <1>1, OwnRecord
<1>4. /\ Claimed(w)' = Claimed(w) /\ ToDelete(w)' = ToDelete(w)
      /\ ToIndex(w)' = ToIndex(w)
  BY <1>3, SameRows
<1>5. \A k \in Keys : Waiting(k)' = Waiting(k) /\ (Pending(k) <=> Pending(k)')
  <2>1. \A k \in Keys : Waiting(k)' = Waiting(k)
    BY <1>2 DEF Waiting
  <2>2. \A k \in Keys : Pending(k) <=> \/ Waiting(k) \/ k \in Claimed(w)
                                      \/ \E v \in Workers \ {w} : k \in Claimed(v)
    BY DEF Pending, Waiting
  <2>3. QED  BY <1>1, <1>4, <2>1, <2>2, PendingAfter
<1>6. Gone'
  <2>1. \A v \in Workers : ToDelete(v)' = ToDelete(v)
    BY <1>1, <1>4, OthersKeep, SameBatch
  <2>2. QED  BY <1>1, <1>2, <2>1 DEF Gone, source
<1>7. QED  BY <1>2, <1>4, <1>5, <1>6

LEMMA FetchMirrors ==
  ASSUME IInv, NEW w \in Workers, Fetch(w)
  PROVE  MirrorInv'
<1>1. /\ TypeOK /\ AllBatches /\ Mirrored /\ Dated /\ Drain(w)
      /\ \A v \in Workers : Current(v) /\ Lost(v)
  BY DEF IInv, MirrorInv, AllBatches, Drain
<1>2. UNCHANGED <<source, waiting, eilutes>>
  BY DEF Fetch
<1>3. /\ worker'[w].step \in {"built", "indexed"}
      /\ worker'[w].step = "indexed" <=> ToIndex(w) \intersect present = {}
      /\ worker'[w].docs = [k \in Keys |-> IF k \in ToIndex(w) \intersect present
                                           THEN version[k] ELSE 0]
  BY <1>1, OwnRecord
<1>4. ToIndex(w)' = ToIndex(w) /\ ToIndex(w) \subseteq Keys
  BY <1>1, BatchKeepsRows DEF ToIndex, Claimed, TypeOK
<1>5. Found(w)' = ToIndex(w) \intersect present
  BY <1>1, <1>3, <1>4 DEF Found, Dated
<1>6. Mirrored' /\ Dated' /\ Gone'
  BY <1>1, <1>2, BatchKeepsRows, QuietMirrors
<1>7. Current(w)'
  <2> SUFFICES ASSUME NEW k \in ToIndex(w) \intersect present
               PROVE  /\ version[k] =< version[k] /\ eilutes[k].version =< version[k]
                      /\ worker'[w].docs[k] = version[k] /\ worker'[w].step = "built"
    BY <1>2, <1>5 DEF Current, At, source
  <2>1. version[k] \in Nat /\ k \in Keys
    BY <1>1, <1>4 DEF TypeOK, Versions
  <2>2. QED  BY <1>1, <1>3, <2>1 DEF Dated
<1>8. Lost(w)'
  <2>1. Vanished(w)' = ToIndex(w) \ present
    BY <1>4, <1>5 DEF Vanished
  <2>2. QED  BY <1>2, <2>1 DEF Lost, source
<1>9. ASSUME NEW v \in Workers, v # w  PROVE Current(v)' /\ Lost(v)'
  <2>1. worker'[v] = worker[v]
    BY <1>1, <1>9, OthersKeep
  <2>2. QED  BY <1>1, <1>2, <2>1, OthersSee DEF Waiting
<1>10. QED
  BY <1>6, <1>7, <1>8, <1>9 DEF MirrorInv

LEMMA PlanMirrors ==
  ASSUME IInv, NEW w \in Workers, Plan(w) \/ PlanNewShard(w)
  PROVE  MirrorInv'
<1>1. /\ TypeOK /\ AllBatches /\ Mirrored /\ Dated /\ Drain(w)
      /\ \A v \in Workers : Current(v) /\ Lost(v)
  BY DEF IInv, MirrorInv, AllBatches, Drain
<1>2. UNCHANGED <<source, waiting, eilutes>> /\ At(w, "built")
  BY DEF Plan, PlanNewShard
<1>3. /\ worker'[w].step = "planned" /\ worker'[w].rows = worker[w].rows
      /\ worker'[w].docs = worker[w].docs
      /\ worker'[w].existing = {k \in Found(w) : Shown(k)}
  BY <1>1, OwnRecord
<1>4. Found(w)' = Found(w) /\ Vanished(w)' = Vanished(w)
  BY <1>3, SameRows
<1>5. Mirrored' /\ Dated' /\ Gone'
  BY <1>1, <1>2, BatchKeepsRows, QuietMirrors
<1>6. Current(w)'
  BY <1>1, <1>2, <1>3, <1>4 DEF Current, At, source, Shown, Waiting
<1>7. Lost(w)'
  BY <1>1, <1>2, <1>4 DEF Lost, At, source
<1>8. ASSUME NEW v \in Workers, v # w  PROVE Current(v)' /\ Lost(v)'
  <2>1. worker'[v] = worker[v]
    BY <1>1, <1>8, OthersKeep
  <2>2. QED  BY <1>1, <1>2, <2>1, OthersSee DEF Waiting
<1>9. QED
  BY <1>5, <1>6, <1>7, <1>8 DEF MirrorInv

\* Every document of the batch is shown, and is not older than what was.
LEMMA PublishShows ==
  ASSUME IInv, NEW w \in Workers, Publish(w), NEW k \in Found(w)
  PROVE  /\ k \in Keys /\ eilutes'[k].version = worker[w].docs[k]
         /\ eilutes[k].version =< worker[w].docs[k]
         /\ worker[w].docs[k] # 0 /\ worker[w].docs[k] =< version[k]
<1>1. Current(w) /\ At(w, "planned")
  BY DEF IInv, MirrorInv, Publish
<1>2. k \in Keys /\ worker[w].docs[k] # 0
  BY DEF Found
<1>3. k \in worker[w].existing => Shown(k)
  BY <1>1 DEF Current
<1>4. QED
  BY <1>1, <1>2, <1>3 DEF Current, Publish

LEMMA PublishMirrors ==
  ASSUME Disjoint, IInv, NEW w \in Workers, Publish(w)
  PROVE  MirrorInv'
<1>1. /\ TypeOK /\ Mirrored /\ Dated /\ Drain(w)
      /\ \A v \in Workers : Batch(v) /\ Current(v) /\ Lost(v)
  BY DEF IInv, MirrorInv, AllBatches, Drain
<1>2. /\ UNCHANGED <<source, waiting>> /\ At(w, "planned")
      /\ \A k \in Keys \ Found(w) : eilutes'[k] = eilutes[k]
  BY DEF Publish
<1>3. /\ worker'[w].step = "indexed" /\ worker'[w].rows = worker[w].rows
      /\ worker'[w].docs = worker[w].docs
  BY <1>1, OwnRecord
<1>4. Found(w)' = Found(w) /\ Vanished(w)' = Vanished(w)
  BY <1>3, SameRows
<1>5. \A k \in Keys : Waiting(k)' = Waiting(k) /\ (Pending(k) <=> Pending(k)')
  BY BatchKeepsRows
<1>6. \A k \in Found(w) : Pending(k)
  BY <1>1 DEF Batch, ToIndex, Pending
<1>7. Mirrored'
  <2>1. \A k \in Keys : ~Pending(k)' => eilutes'[k] = eilutes[k] /\ ~Pending(k)
    BY <1>2, <1>5, <1>6
  <2>2. version' = version /\ present' = present
    BY <1>2 DEF source
  <2>3. QED  BY <1>1, <2>1, <2>2 DEF Mirrored, Shown
<1>8. Dated'
  <2> SUFFICES ASSUME NEW k \in Keys
               PROVE  /\ version[k] =< clock
                      /\ eilutes'[k].version =< version[k]
                      /\ Shown(k)' => eilutes'[k].version # 0
                      /\ k \in present \/ Pending(k) => version[k] # 0
    BY <1>2, <1>5 DEF Dated, source
  <2>1. CASE k \in Found(w)
    BY <1>1, <2>1, PublishShows DEF Dated
  <2>2. CASE k \notin Found(w)
    BY <1>1, <1>2, <2>2 DEF Dated, Shown
  <2>3. QED  BY <2>1, <2>2
<1>9. Gone'
  BY BatchKeepsRows
<1>10. Current(w)'
  <2> SUFFICES ASSUME NEW k \in Found(w)
               PROVE  /\ worker[w].docs[k] =< version[k]
                      /\ Waiting(k) \/ (k \in present /\ version[k] = worker[w].docs[k])
                      /\ eilutes'[k].version = worker[w].docs[k]
    BY <1>2, <1>3, <1>4 DEF Current, At, source, Waiting
  <2>1. QED  BY <1>1, PublishShows DEF Current
<1>11. Lost(w)'
  BY <1>1, <1>2, <1>4 DEF Lost, At, source
<1>12. ASSUME NEW v \in Workers, v # w  PROVE Current(v)' /\ Lost(v)'
  <2>1. worker'[v] = worker[v]
    BY <1>1, <1>12, OthersKeep
  <2>2. \A k \in Found(v) : k \in Keys /\ k \notin Found(w)
    BY <1>1, <1>12, Alone DEF Batch, ToIndex, Found
  <2>3. QED  BY <1>1, <1>2, <2>1, <2>2, OthersSee DEF Waiting
<1>13. QED
  BY <1>7, <1>8, <1>9, <1>10, <1>11, <1>12 DEF MirrorInv

LEMMA DeleteMirrors ==
  ASSUME IInv, NEW w \in Workers, DeleteEilutes(w)
  PROVE  MirrorInv'
<1>1. /\ TypeOK /\ AllBatches /\ Mirrored /\ Dated /\ Drain(w)
      /\ \A v \in Workers : Current(v) /\ Lost(v)
  BY DEF IInv, MirrorInv, AllBatches, Drain
<1>2. UNCHANGED <<source, waiting, eilutes>> /\ At(w, "indexed")
  BY DEF DeleteEilutes
<1>3. /\ worker'[w].step = "deleted" /\ worker'[w].rows = worker[w].rows
      /\ worker'[w].docs = worker[w].docs
  BY <1>1, OwnRecord
<1>4. Found(w)' = Found(w) /\ Vanished(w)' = Vanished(w)
  BY <1>3, SameRows
<1>5. Mirrored' /\ Dated' /\ Gone'
  BY <1>1, <1>2, BatchKeepsRows, QuietMirrors
<1>6. Current(w)' /\ Lost(w)'
  BY <1>1, <1>2, <1>3, <1>4 DEF Current, Lost, At, source, Waiting
<1>7. ASSUME NEW v \in Workers, v # w  PROVE Current(v)' /\ Lost(v)'
  <2>1. worker'[v] = worker[v]
    BY <1>1, <1>7, OthersKeep
  <2>2. QED  BY <1>1, <1>2, <2>1, OthersSee DEF Waiting
<1>8. QED
  BY <1>5, <1>6, <1>7 DEF MirrorInv

\* What a batch leaves behind for a key that nobody asks about any more.
LEMMA CommitLeaves ==
  ASSUME IInv, NEW w \in Workers, Commit(w), NEW k \in Claimed(w), ~Waiting(k)
  PROVE  /\ Shown(k)' => k \in present /\ eilutes'[k].version = version[k]
         /\ k \in present \ Returning => Shown(k)'
<1>1. /\ TypeOK /\ Gone /\ Batch(w) /\ Current(w) /\ Lost(w) /\ At(w, "deleted")
  BY DEF IInv, MirrorInv, AllBatches, Commit
<1>2. worker[w].removed = ToDelete(w) \union Vanished(w)
  BY <1>1 DEF Batch
<1>3. k \in Keys
  BY <1>1 DEF Claimed, TypeOK
<1>4. CASE k \in ToDelete(w) \union Vanished(w)
  <2>1. eilutes'[k] = NoRow
    BY <1>2, <1>3, <1>4 DEF Commit
  <2>2. k \notin Returning => k \notin present
    BY <1>1, <1>3, <1>4 DEF Gone, Lost, At
  <2>3. QED  BY <2>1, <2>2 DEF Shown
<1>5. CASE k \notin ToDelete(w) \union Vanished(w)
  <2>1. k \in Found(w)
    BY <1>5 DEF Vanished, ToIndex
  <2>2. eilutes'[k] = eilutes[k]
    BY <1>2, <1>3, <1>5 DEF Commit
  <2>3. /\ eilutes[k].version = worker[w].docs[k] /\ worker[w].docs[k] # 0
        /\ k \in present /\ version[k] = worker[w].docs[k]
    BY <1>1, <2>1 DEF Current, Found
  <2>4. QED  BY <2>2, <2>3 DEF Shown, NoRow
<1>6. QED  BY <1>4, <1>5

LEMMA CommitMirrors ==
  ASSUME Disjoint, IInv, NEW w \in Workers, Commit(w)
  PROVE  MirrorInv'
<1>1. /\ TypeOK /\ Mirrored /\ Dated /\ Gone /\ Drain(w)
      /\ \A v \in Workers : Batch(v) /\ Current(v) /\ Lost(v)
  BY DEF IInv, MirrorInv, AllBatches, Drain
<1>2. /\ UNCHANGED <<source, waiting>> /\ At(w, "deleted")
      /\ \A k \in Keys : eilutes'[k] = IF k \in worker[w].removed THEN NoRow ELSE eilutes[k]
  BY DEF Commit
<1>3. /\ Claimed(w)' = {} /\ ToDelete(w)' = {} /\ Current(w)' /\ Lost(w)'
  BY <1>1, BatchEnds
<1>4. worker[w].removed \subseteq Claimed(w)
  BY <1>1, <1>2 DEF Batch, ToDelete, Vanished, ToIndex
<1>5. \A k \in Keys : Pending(k) <=> Pending(k)' \/ k \in Claimed(w)
  BY <1>1, CommitPending
<1>6. Mirrored'
  <2> SUFFICES ASSUME NEW k \in Keys, ~Pending(k)'
               PROVE  /\ Shown(k)' => k \in present /\ eilutes'[k].version = version[k]
                      /\ k \in present \ Returning => Shown(k)'
    BY <1>2 DEF Mirrored, source
  <2>1. CASE k \in Claimed(w)
    <3>1. ~Waiting(k)
      BY <1>2 DEF Pending, Waiting
    <3>2. QED  BY <2>1, <3>1, CommitLeaves
  <2>2. CASE k \notin Claimed(w)
    <3>1. ~Pending(k) /\ eilutes'[k] = eilutes[k]
      BY <1>2, <1>4, <1>5, <2>2
    <3>2. QED  BY <1>1, <3>1 DEF Mirrored, Shown
  <2>3. QED  BY <2>1, <2>2
<1>7. Dated'
  <2> SUFFICES ASSUME NEW k \in Keys
               PROVE  /\ version[k] =< clock
                      /\ eilutes'[k].version =< version[k]
                      /\ Shown(k)' => eilutes'[k].version # 0
                      /\ k \in present \/ Pending(k)' => version[k] # 0
    BY <1>2 DEF Dated, source
  <2>1. version[k] \in Nat
    BY <1>1 DEF TypeOK, Versions
  <2>2. CASE k \in worker[w].removed
    BY <1>1, <1>2, <1>5, <2>1, <2>2 DEF Dated, Shown, NoRow
  <2>3. CASE k \notin worker[w].removed
    BY <1>1, <1>2, <1>5, <2>3 DEF Dated, Shown
  <2>4. QED  BY <2>2, <2>3
<1>8. Gone'
  <2>1. \A v \in Workers \ {w} : ToDelete(v)' = ToDelete(v)
    BY <1>1, OthersKeep, SameBatch
  <2>2. QED  BY <1>1, <1>2, <1>3, <2>1 DEF Gone, source
<1>9. ASSUME NEW v \in Workers, v # w  PROVE Current(v)' /\ Lost(v)'
  <2>1. worker'[v] = worker[v]
    BY <1>1, <1>9, OthersKeep
  <2>2. \A k \in Found(v) : k \in Keys /\ k \notin worker[w].removed
    BY <1>1, <1>4, <1>9, Alone DEF Batch, ToIndex, Found
  <2>3. QED  BY <1>1, <1>2, <2>1, <2>2, OthersSee DEF Waiting
<1>10. QED
  BY <1>3, <1>6, <1>7, <1>8, <1>9 DEF MirrorInv

LEMMA RollbackMirrors ==
  ASSUME IInv, NEW w \in Workers, Rollback(w)
  PROVE  MirrorInv'
<1>1. /\ TypeOK /\ Mirrored /\ Dated /\ Gone /\ Drain(w)
      /\ \A v \in Workers : Current(v) /\ Lost(v)
  BY DEF IInv, MirrorInv, Drain
<1>2. UNCHANGED <<source, eilutes>> /\ waiting' = waiting \union worker[w].rows
  BY DEF Rollback
<1>3. /\ Claimed(w)' = {} /\ ToDelete(w)' = {} /\ Current(w)' /\ Lost(w)'
  BY <1>1, BatchEnds
<1>4. \A k \in Keys : Waiting(k)' <=> Waiting(k) \/ k \in Claimed(w)
  BY <1>1, RollbackPending
<1>5. \A k \in Keys : Pending(k) <=> Pending(k)'
  BY <1>1, RollbackPending
<1>6. Mirrored' /\ Dated'
  BY <1>1, <1>2, <1>5, QuietMirrors
<1>7. Gone'
  <2>1. \A v \in Workers \ {w} : ToDelete(v)' = ToDelete(v)
    BY <1>1, OthersKeep, SameBatch
  <2>2. ASSUME NEW k \in Keys, <<k, "delete">> \in worker[w].rows  PROVE k \in ToDelete(w)
    <3>1. <<k, "delete">>[1] = k
      OBVIOUS
    <3>2. QED  BY <2>2, <3>1 DEF ToDelete, Claimed
  <2>3. QED  BY <1>1, <1>2, <1>3, <2>1, <2>2 DEF Gone, source
<1>8. ASSUME NEW v \in Workers, v # w  PROVE Current(v)' /\ Lost(v)'
  <2>1. worker'[v] = worker[v]
    BY <1>1, <1>8, OthersKeep
  <2>2. \A k \in Found(v) : k \in Keys
    BY DEF Found
  <2>3. QED  BY <1>1, <1>2, <1>4, <2>1, <2>2, OthersSee
<1>9. QED
  BY <1>3, <1>6, <1>7, <1>8 DEF MirrorInv

LEMMA RequeueMirrors ==
  ASSUME IInv, Requeue
  PROVE  MirrorInv'
<1>1. /\ TypeOK /\ Mirrored /\ Dated /\ Gone
      /\ \A v \in Workers : Current(v) /\ Lost(v)
  BY DEF IInv, MirrorInv
<1>2. UNCHANGED <<source, eilutes, worker>>
  BY DEF Requeue, MarkShards, ReplaceRows, ToolStops
<1>3. \A v \in Workers : Claimed(v)' = Claimed(v) /\ ToDelete(v)' = ToDelete(v)
  BY <1>2, SameBatch
<1>4. CASE UNCHANGED waiting
  <2>1. \A k \in Keys : Pending(k) <=> Pending(k)'
    BY <1>3, <1>4 DEF Pending
  <2>2. Mirrored' /\ Dated'
    BY <1>1, <1>2, <2>1, QuietMirrors
  <2>3. Gone'
    BY <1>1, <1>2, <1>3, <1>4 DEF Gone, source
  <2>4. \A v \in Workers : Current(v)' /\ Lost(v)'
    BY <1>1, <1>2, <1>4, OthersSee DEF Waiting
  <2>5. QED  BY <2>2, <2>3, <2>4 DEF MirrorInv
<1>5. CASE ReplaceRows
  <2> DEFINE live == {k \in Keys : Shown(k) /\ eilutes[k].shard \in tool.shards}
  <2>1. /\ \A k \in Keys \ live, c \in Changes : <<k, c>> \in waiting' <=> <<k, c>> \in waiting
        /\ \A k \in live : <<k, "delete">> \in waiting' <=> k \notin present
        /\ \A k \in live : <<k, "write">> \in waiting' <=> k \in present
        /\ \A k \in Keys : /\ Waiting(k)' <=> Waiting(k) \/ k \in live
                           /\ Pending(k)' <=> Pending(k) \/ k \in live
    BY <1>5, RequeuePending
  <2>2. \A k \in live : version[k] # 0
    BY <1>1 DEF Dated, TypeOK, Versions
  <2> HIDE DEF live
  <2>5. Mirrored'
    BY <1>1, <1>2, <2>1 DEF Mirrored, Shown, source
  <2>6. Dated'
    BY <1>1, <1>2, <2>1, <2>2 DEF Dated, Shown, source
  <2>7. Gone'
    BY <1>1, <1>2, <1>3, <2>1 DEF Gone, source, Changes
  <2>8. ASSUME NEW v \in Workers  PROVE Current(v)' /\ Lost(v)'
    <3>1. \A k \in Found(v) : k \in Keys
      BY DEF Found
    <3>2. QED  BY <1>1, <1>2, <2>1, <3>1, OthersSee
  <2>9. QED  BY <2>5, <2>6, <2>7, <2>8 DEF MirrorInv
<1>6. QED
  BY <1>4, <1>5 DEF Requeue, MarkShards, ToolStops

LEMMA MirrorStep ==
  ASSUME Disjoint, IInv, [Next]_vars
  PROVE  MirrorInv'
<1>1. ASSUME NEW w \in Workers, Drain(w)  PROVE MirrorInv'
  BY <1>1, ClaimMirrors, FetchMirrors, PlanMirrors, PublishMirrors, DeleteMirrors,
     CommitMirrors, RollbackMirrors DEF Drain
<1>2. CASE UNCHANGED vars
  <2>1. \A v \in Workers : /\ Claimed(v)' = Claimed(v) /\ ToDelete(v)' = ToDelete(v)
    BY <1>2, SameBatch DEF vars
  <2>2. \A k \in Keys : (Pending(k) <=> Pending(k)') /\ Waiting(k)' = Waiting(k)
    BY <1>2, <2>1 DEF Pending, Waiting, vars
  <2>3. Mirrored' /\ Dated'
    BY <1>2, <2>2, QuietMirrors DEF IInv, MirrorInv, vars
  <2>4. Gone'
    BY <1>2, <2>1 DEF IInv, MirrorInv, Gone, vars, source
  <2>5. ASSUME NEW v \in Workers  PROVE Current(v)' /\ Lost(v)'
    BY <1>2, <2>2, OthersSee DEF IInv, MirrorInv, vars, Waiting
  <2>6. QED  BY <2>3, <2>4, <2>5 DEF MirrorInv
<1>3. QED
  BY <1>1, <1>2, ChangeMirrors, RequeueMirrors DEF Next

LEMMA InitMirrors == Init => MirrorInv
BY DrainAssumption
   DEF Init, MirrorInv, Mirrored, Dated, Gone, Current, Lost, Shown, Pending, NoDocs,
       NoRow, Idle, Claimed, ToDelete, ToIndex, Found, Vanished, At

LEMMA Invariance == ASSUME Disjoint PROVE Spec => []IInv
<1>1. IInv /\ [Next]_vars /\ TypeOK' /\ AllBatches' => IInv'
  BY MirrorStep DEF IInv
<1>2. Init /\ TypeOK /\ AllBatches => IInv
  BY InitMirrors DEF IInv
<1>3. QED
  BY <1>1, <1>2, Batches, TypeCorrect, PTL DEF Spec

\* Drains that share no key lose nothing: an object no row is about is shown
\* as the source has it, whatever fails, comes late, or is requeued.
THEOREM MirrorKept == ASSUME Disjoint PROVE Spec => []Mirrored
<1>1. IInv => Mirrored
  BY DEF IInv, MirrorInv
<1>2. QED
  BY <1>1, Invariance, PTL

\* Nor does search go back to an older version of an object.
THEOREM NoOlderVersion == ASSUME Disjoint PROVE Spec => NeverGoesBack
<1>1. ASSUME IInv, [Next]_vars, NEW k \in Keys, Shown(k), Shown(k)'
      PROVE  eilutes'[k].version >= eilutes[k].version
  <2>1. TypeOK /\ eilutes[k].version \in Nat
    BY <1>1 DEF IInv, TypeOK, Versions
  <2>2. CASE eilutes'[k] = eilutes[k]
    BY <2>1, <2>2
  <2>3. ASSUME NEW w \in Workers, Publish(w), k \in Found(w)
        PROVE  eilutes'[k].version >= eilutes[k].version
    <3>1. worker[w].docs[k] \in Nat
      BY <2>1 DEF TypeOK, Versions
    <3>2. QED  BY <1>1, <2>1, <2>3, <3>1, PublishShows
  <2>4. eilutes'[k] # eilutes[k] => \E w \in Workers : Publish(w) /\ k \in Found(w)
    <3>1. ASSUME NEW w \in Workers, Commit(w)  PROVE eilutes'[k] = eilutes[k]
      BY <1>1, <3>1 DEF Commit, Shown
    <3>2. ASSUME NEW w \in Workers, Publish(w), k \notin Found(w)
          PROVE  eilutes'[k] = eilutes[k]
      BY <3>2 DEF Publish
    <3>3. QED
      BY <1>1, <3>1, <3>2 DEF Next, Change, Insert, Patch, Delete, Drain, Claim, Fetch,
         Plan, PlanNewShard, DeleteEilutes, Rollback, Requeue, MarkShards,
         ReplaceRows, ToolStops, vars
  <2>5. QED  BY <2>2, <2>3, <2>4
<1>2. IInv /\ [Next]_vars => [\A k \in Keys : Shown(k) /\ Shown(k)'
                                => eilutes'[k].version >= eilutes[k].version]_vars
  BY <1>1
<1>3. QED
  BY <1>2, Invariance, PTL DEF Spec, NeverGoesBack

-----------------------------------------------------------------------------
(* The drains implement SearchCopy.                                        *)

Owed   == {k \in Keys : Pending(k)}
InView == [k \in Keys |-> eilutes[k].version]

LEMMA InViewIs ==
  ASSUME TypeOK, NEW k \in Keys
  PROVE  /\ InView[k] = eilutes[k].version /\ InView'[k] = eilutes'[k].version
         /\ eilutes[k].version \in Nat /\ version[k] \in Nat
         /\ eilutes[k] = NoRow => eilutes[k].version = 0
BY DEF InView, TypeOK, Versions, NoRow

\* A step that nobody sees: the source, the map and what is pending stay.
LEMMA Unseen ==
  ASSUME UNCHANGED <<source, eilutes>>, \A k \in Keys : Pending(k)' <=> Pending(k)
  PROVE  UNCHANGED <<version, present, InView, Owed>>
BY DEF source, InView, Owed

LEMMA ChangeRefines ==
  ASSUME IInv, NEW k \in Keys, Change(k)
  PROVE  Search!Write(k) \/ Search!Remove(k)
<1>1. TypeOK /\ Dated
  BY DEF IInv, MirrorInv
<1>2. InView' = InView
  BY DEF Change, Insert, Patch, Delete, InView
<1>3. Owed' = Owed \union {k}
  BY ChangePending DEF Owed
<1>4. CASE Insert(k) \/ Patch(k)
  <2>1. Write(k) /\ version[k] < version'[k] /\ version[k] \in Nat /\ version'[k] \in Nat
    BY <1>1, <1>4, ChangeDates DEF Insert, Patch
  <2>2. /\ k \in present \/ version[k] = 0 \/ k \in Returning
        /\ present' = present \union {k}
    BY <1>4 DEF Insert, Patch
  <2>3. version' = [version EXCEPT ![k] = version'[k]]
    BY <1>1, <2>1 DEF Write, TypeOK
  <2>4. version'[k] > version[k]
    BY <2>1
  <2>5. QED
    BY <1>2, <1>3, <2>2, <2>3, <2>4 DEF Search!Write, Owed, InView
<1>5. CASE Delete(k)
  BY <1>2, <1>3, <1>5 DEF Delete, Search!Remove, Owed, InView
<1>6. QED
  BY <1>4, <1>5 DEF Change

LEMMA PublishRefines ==
  ASSUME IInv, NEW w \in Workers, Publish(w)
  PROVE  Search!Serve
<1>1. TypeOK /\ Batch(w)
  BY DEF IInv, AllBatches
<1>2. UNCHANGED <<version, present>> /\ Owed' = Owed
  BY BatchKeepsRows DEF Owed, source
<1>3. ASSUME NEW k \in Keys, eilutes'[k].version # eilutes[k].version
      PROVE  /\ k \in Owed
             /\ eilutes[k].version < eilutes'[k].version
             /\ eilutes'[k].version =< version[k]
  <2>1. k \in Found(w)
    BY <1>3 DEF Publish
  <2>2. Pending(k)
    BY <1>1, <2>1 DEF Batch, ToIndex, Pending
  <2>3. worker[w].docs[k] \in Nat /\ eilutes[k].version \in Nat
    BY <1>1 DEF TypeOK, Versions
  <2>4. QED
    BY <1>3, <2>1, <2>2, <2>3, PublishShows DEF Owed
<1>4. QED
  BY <1>1, <1>2, <1>3, InViewIs DEF Search!Serve, Owed, InView

LEMMA CommitRefines ==
  ASSUME IInv, MirrorInv', NEW w \in Workers, Commit(w)
  PROVE  Search!Settle
<1>1. /\ TypeOK /\ Gone /\ Batch(w) /\ Lost(w) /\ At(w, "deleted")
  BY DEF IInv, MirrorInv, AllBatches, Commit
<1>2. UNCHANGED <<version, present>>
  BY DEF Commit, source
<1>3. \A k \in Keys : eilutes'[k] = IF k \in worker[w].removed THEN NoRow ELSE eilutes[k]
  BY DEF Commit
<1>4. Owed' \subseteq Owed
  BY <1>1, CommitPending DEF Owed
<1>5. ASSUME NEW k \in Keys, eilutes'[k].version # eilutes[k].version
      PROVE  k \in Owed /\ eilutes'[k].version = 0 /\ k \notin present \ Returning
  <2>1. k \in worker[w].removed /\ eilutes'[k].version = 0
    BY <1>3, <1>5 DEF NoRow
  <2>2. k \in ToDelete(w) \union Vanished(w)
    BY <1>1, <2>1 DEF Batch
  <2>3. Pending(k)
    BY <2>2 DEF ToDelete, Vanished, ToIndex, Pending
  <2>4. k \notin present \ Returning
    BY <1>1, <2>2 DEF Gone, Lost, At
  <2>5. QED  BY <2>1, <2>3, <2>4 DEF Owed
<1>6. ASSUME NEW k \in Owed \ Owed'
      PROVE  IF k \in present' THEN \/ eilutes'[k].version = version'[k]
                                    \/ k \in Returning /\ eilutes'[k].version = 0
                               ELSE eilutes'[k].version = 0
  <2>1. k \in Keys /\ ~Pending(k)'
    BY <1>6 DEF Owed
  <2>2. /\ Shown(k)' => k \in present' /\ eilutes'[k].version = version'[k]
        /\ k \in present' \ Returning => Shown(k)'
    BY <2>1 DEF MirrorInv, Mirrored
  <2>3. ~Shown(k)' => eilutes'[k].version = 0
    BY DEF Shown, NoRow
  <2>4. QED  BY <2>2, <2>3
<1>7. \A k \in Keys : InView[k] = eilutes[k].version /\ InView'[k] = eilutes'[k].version
  BY DEF InView
<1>8. QED
  <2>1. \A k \in Keys : InView'[k] # InView[k] =>
          k \in Owed /\ InView'[k] = 0 /\ k \notin present \ Returning
    BY <1>5, <1>7
  <2>2. \A k \in Owed \ Owed' :
          IF k \in present' THEN InView'[k] = version'[k] \/ (k \in Returning /\ InView'[k] = 0)
                            ELSE InView'[k] = 0
    BY <1>6, <1>7 DEF Owed
  <2>3. QED
    BY <1>2, <1>4, <2>1, <2>2 DEF Search!Settle, Search!Agrees, Owed, InView

LEMMA ReplaceRefines ==
  ASSUME IInv, ReplaceRows
  PROVE  Search!Again
<1>1. TypeOK /\ Dated
  BY DEF IInv, MirrorInv
<1>2. UNCHANGED <<version, present, InView>>
  BY DEF ReplaceRows, source, InView
<1>3. \A k \in Keys : /\ Pending(k) => Pending(k)'
                      /\ Pending(k)' => Pending(k) \/ Shown(k)
  BY RequeuePending
<1>4. Owed \subseteq Owed' /\ \A k \in Owed' \ Owed : InView[k] # 0
  BY <1>1, <1>3 DEF Owed, InView, Dated
<1>5. QED
  BY <1>2, <1>4 DEF Search!Again, Owed, InView

LEMMA StepRefines ==
  ASSUME Disjoint, IInv, [Next]_vars
  PROVE  [Search!Next]_(Search!vars)
<1>1. TypeOK /\ AllBatches
  BY DEF IInv
<1>2. SUFFICES Search!Next \/ UNCHANGED <<version, present, InView, Owed>>
  BY DEF Search!vars, Owed, InView
<1>3. ASSUME NEW w \in Workers, Drain(w)
      PROVE  Search!Next \/ UNCHANGED <<version, present, InView, Owed>>
  <2>1. ASSUME NEW rows \in SUBSET waiting, Claim(w, rows)
        PROVE  UNCHANGED <<version, present, InView, Owed>>
    BY <1>1, <2>1, ClaimPending, Unseen DEF AllBatches, Claim
  <2>2. CASE Fetch(w) \/ Plan(w) \/ PlanNewShard(w) \/ DeleteEilutes(w)
    <3>1. UNCHANGED <<source, eilutes>>
      BY <2>2 DEF Fetch, Plan, PlanNewShard, DeleteEilutes
    <3>2. \A k \in Keys : Pending(k)' <=> Pending(k)
      BY <2>2, BatchKeepsRows
    <3>3. QED  BY <3>1, <3>2, Unseen
  <2>3. CASE Publish(w)
    BY <2>3, PublishRefines DEF Search!Next
  <2>4. CASE Commit(w)
    BY <2>4, CommitRefines, CommitMirrors DEF Search!Next
  <2>5. CASE Rollback(w)
    BY <1>1, <2>5, RollbackPending, Unseen DEF Rollback
  <2>6. QED
    BY <1>3, <2>1, <2>2, <2>3, <2>4, <2>5 DEF Drain
<1>4. CASE ReplaceRows
  BY <1>4, ReplaceRefines DEF Search!Next
<1>5. CASE (Requeue /\ ~ReplaceRows) \/ UNCHANGED vars
  <2>1. UNCHANGED <<source, eilutes, waiting, worker>>
    BY <1>5 DEF Requeue, MarkShards, ToolStops, vars
  <2>2. \A v \in Workers : Claimed(v)' = Claimed(v)
    BY <2>1, SameBatch
  <2>3. \A k \in Keys : Pending(k)' <=> Pending(k)
    BY <2>1, <2>2 DEF Pending
  <2>4. QED  BY <2>1, <2>3, Unseen
<1>6. ASSUME NEW k \in Keys, Change(k)  PROVE Search!Next
  BY <1>6, ChangeRefines DEF Search!Next
<1>7. QED
  BY <1>3, <1>4, <1>5, <1>6 DEF Next

\* Drains that share no key keep all that search promises, whatever fails,
\* comes late or is requeued.
THEOREM SearchFollows == ASSUME Disjoint PROVE Spec => SearchSpec
<1>1. Init => Search!Init
  BY DEF Init, Search!Init, NoDocs, NoRow, Pending, Claimed, Idle
<1>2. IInv /\ [Next]_vars => [Search!Next]_(Search!vars)
  BY StepRefines
<1>3. QED
  BY <1>1, <1>2, Invariance, PTL DEF Spec, SearchSpec, Search!Spec

-----------------------------------------------------------------------------
(* The counters of the shards.                                             *)

Live(s) == {k \in Keys : eilutes[k].shard = s}

\* What cannot have more members than a set that is no larger.
LEMMA CountKeys ==
  /\ \A A \in SUBSET Keys : IsFiniteSet(A) /\ Cardinality(A) \in 0 .. Cardinality(Keys)
  /\ \A A, B \in SUBSET Keys : A \subseteq B => Cardinality(A) =< Cardinality(B)
  /\ \A A, B \in SUBSET Keys :
       Cardinality(A \union B) =< Cardinality(A) + Cardinality(B)
<1>1. ASSUME NEW A \in SUBSET Keys
      PROVE  IsFiniteSet(A) /\ Cardinality(A) \in 0 .. Cardinality(Keys)
  <2>1. IsFiniteSet(A) /\ Cardinality(A) =< Cardinality(Keys)
    BY DrainAssumption, FS_Subset
  <2>2. Cardinality(A) \in Nat /\ Cardinality(Keys) \in Nat
    BY <2>1, DrainAssumption, FS_CardinalityType
  <2>3. QED  BY <2>1, <2>2
<1>2. ASSUME NEW A \in SUBSET Keys, NEW B \in SUBSET Keys, A \subseteq B
      PROVE  Cardinality(A) =< Cardinality(B)
  BY <1>1, <1>2, FS_Subset
<1>3. ASSUME NEW A \in SUBSET Keys, NEW B \in SUBSET Keys
      PROVE  Cardinality(A \union B) =< Cardinality(A) + Cardinality(B)
  <2>1. Cardinality(A \union B)
          = Cardinality(A) + Cardinality(B) - Cardinality(A \intersect B)
    BY <1>1, FS_Union
  <2>2. Cardinality(A \intersect B) \in Nat
    BY <1>1, A \intersect B \in SUBSET Keys
  <2>3. QED  BY <1>1, <2>1, <2>2
<1>4. QED
  BY <1>1, <1>2, <1>3

\* A publication counts at least what it moves into its shard.
LEMMA PublishCounts ==
  ASSUME TypeOK, DeadNotNegative, NEW w \in Workers, Publish(w)
  PROVE  DeadNotNegative'
<1> DEFINE into == worker[w].shard
           found == Found(w)
<1>1. /\ eilutes' = [k \in Keys |->
           IF k \in found /\ (k \in worker[w].existing => Shown(k))
             THEN [version |-> worker[w].docs[k], shard |-> into]
             ELSE eilutes[k]]
      /\ iterptos' = [iterptos EXCEPT ![into] =
           IF @ + Cardinality(found) > Cap THEN Cap ELSE @ + Cardinality(found)]
  BY DEF Publish
<1>2. found \in SUBSET Keys
  BY DEF Found
<1> HIDE DEF into, found
<1> SUFFICES ASSUME NEW s \in Shards  PROVE iterptos'[s] >= Cardinality(Live(s)')
  BY DEF DeadNotNegative, Live
<1>3. iterptos[s] >= Cardinality(Live(s)) /\ iterptos \in [Shards -> 0 .. Cap]
  BY DEF DeadNotNegative, Live, TypeOK
<1>4. Live(s) \in SUBSET Keys /\ Live(s)' \in SUBSET Keys
  BY DEF Live
<1>5. /\ Cardinality(Live(s)) \in Nat /\ Cardinality(found) \in Nat
      /\ Cardinality(Live(s)') \in Nat /\ Cardinality(Keys) \in Nat
      /\ Cardinality(Live(s)') =< Cardinality(Keys)
  BY <1>2, <1>4, CountKeys, DrainAssumption, FS_CardinalityType
<1>6. CASE s = into
  <2>1. Live(s)' \subseteq Live(s) \union found
    BY <1>1 DEF Live
  <2>2. Cardinality(Live(s)') =< Cardinality(Live(s)) + Cardinality(found)
    <3>1. Live(s) \union found \in SUBSET Keys
      BY <1>2, <1>4
    <3>2. Cardinality(Live(s) \union found) \in Nat
      BY <3>1, CountKeys
    <3>3. Cardinality(Live(s)') =< Cardinality(Live(s) \union found)
      BY <1>4, <2>1, <3>1, CountKeys
    <3>4. Cardinality(Live(s) \union found) =< Cardinality(Live(s)) + Cardinality(found)
      BY <1>2, <1>4, CountKeys
    <3>5. QED  BY <1>5, <3>2, <3>3, <3>4
  <2>3. Cap = ShardSize + Cardinality(Keys) /\ ShardSize \in Nat
    BY DrainAssumption DEF Cap
  <2>4. iterptos'[s] = IF iterptos[s] + Cardinality(found) > Cap
                         THEN Cap ELSE iterptos[s] + Cardinality(found)
    BY <1>1, <1>3, <1>6
  <2>5. iterptos[s] \in Nat
    BY <1>3
  <2> HIDE DEF Live
  <2>6. QED  BY <1>3, <1>5, <2>2, <2>3, <2>4, <2>5
<1>7. CASE s # into
  <2>1. Live(s)' \subseteq Live(s) /\ iterptos'[s] = iterptos[s]
    BY <1>1, <1>3, <1>7 DEF Live
  <2>2. Cardinality(Live(s)') =< Cardinality(Live(s))
    BY <1>4, <2>1, CountKeys
  <2>3. iterptos[s] \in Nat
    BY <1>3
  <2>4. QED  BY <1>3, <1>5, <2>1, <2>2, <2>3
<1>8. QED
  BY <1>6, <1>7

\* What no counter can fall behind of: rows that leave a shard.
LEMMA LeavingCounts ==
  ASSUME TypeOK, DeadNotNegative, iterptos' = iterptos,
         \A s \in Shards : Live(s)' \subseteq Live(s)
  PROVE  DeadNotNegative'
<1> SUFFICES ASSUME NEW s \in Shards  PROVE iterptos[s] >= Cardinality(Live(s)')
  BY DEF DeadNotNegative, Live
<1>1. Live(s) \in SUBSET Keys /\ Live(s)' \in SUBSET Keys
  BY DEF Live
<1>2. Cardinality(Live(s)') =< Cardinality(Live(s))
  BY <1>1, CountKeys
<1>3. iterptos[s] >= Cardinality(Live(s)) /\ iterptos[s] \in Nat
  BY DEF DeadNotNegative, Live, TypeOK
<1>4. Cardinality(Live(s)) \in Nat /\ Cardinality(Live(s)') \in Nat
  BY <1>1, CountKeys
<1>5. QED
  BY <1>2, <1>3, <1>4

\* No shard has fewer tombstones than none, for drains that share keys too: a
\* batch counts its rows once into its shard (indexDocs), however out of date
\* its plan is, and a row that moves away or is deleted leaves the count.
THEOREM TombstonesCounted == Spec => []DeadNotNegative
<1>1. Init => DeadNotNegative
  <2> SUFFICES ASSUME Init, NEW s \in Shards
               PROVE  iterptos[s] >= Cardinality(Live(s))
    BY DEF DeadNotNegative, Live
  <2>1. Live(s) = {}
    BY DrainAssumption DEF Init, Live, NoRow, Shards
  <2>2. QED  BY <2>1, FS_EmptySet DEF Init
<1>2. TypeOK /\ DeadNotNegative /\ [Next]_vars => DeadNotNegative'
  <2> SUFFICES ASSUME TypeOK, DeadNotNegative, [Next]_vars  PROVE DeadNotNegative'
    OBVIOUS
  <2>1. CASE UNCHANGED <<eilutes, iterptos>>
    BY <2>1, LeavingCounts DEF Live
  <2>2. ASSUME NEW w \in Workers, Drain(w)  PROVE DeadNotNegative'
    <3>1. CASE Publish(w)
      BY <3>1, PublishCounts
    <3>2. CASE Commit(w)
      <4>1. \A s \in Shards : Live(s)' \subseteq Live(s)
        BY <3>2, DrainAssumption DEF Commit, Live, NoRow, Shards
      <4>2. QED  BY <3>2, <4>1, LeavingCounts DEF Commit, shardVars
    <3>3. ASSUME NEW rows \in SUBSET waiting, Claim(w, rows)  PROVE DeadNotNegative'
      BY <2>1, <3>3 DEF Claim, shardVars
    <3>4. CASE Fetch(w) \/ Plan(w) \/ PlanNewShard(w) \/ DeleteEilutes(w) \/ Rollback(w)
      BY <2>1, <3>4 DEF Fetch, Plan, PlanNewShard, DeleteEilutes, Rollback, shardVars
    <3>5. QED  BY <2>2, <3>1, <3>2, <3>3, <3>4 DEF Drain
  <2>3. CASE Requeue \/ UNCHANGED vars \/ \E k \in Keys : Change(k)
    BY <2>1, <2>3 DEF Requeue, MarkShards, ReplaceRows, ToolStops, vars,
       Change, Insert, Patch, Delete, shardVars
  <2>4. QED
    BY <2>2, <2>3 DEF Next
<1>3. QED
  BY <1>1, <1>2, TypeCorrect, PTL DEF Spec
=============================================================================
