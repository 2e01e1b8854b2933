----------------------------- MODULE IndexDrain -----------------------------
(***************************************************************************)
(* The way of an object into search: a change of its source row puts a row *)
(* into the table's indexQueue (a database trigger), drainIndexQueue reads *)
(* the source, indexDocs ingests the document into a Quickwit shard and    *)
(* publishes it in quickwit.eilutes, the map without which filterLive      *)
(* shows no hit; requeueIndexes sends the live rows of chosen shards       *)
(* through the queue again.                                                *)
(*                                                                         *)
(* A document is the version of the source row it was built from.          *)
(* Abstracted: 'insert' and 'patch', which the drain treats alike, are both*)
(* "write"; queue rows of one key and kind count as one; a batch, the      *)
(* oldest rows up to a limit, is any set of rows nobody has locked.        *)
(* Each action is one statement, transaction or request, and a transaction *)
(* left open between actions keeps its row locks.                          *)
(***************************************************************************)
EXTENDS Naturals, FiniteSets

CONSTANTS
    Keys,        \* the objects of one table
    Returning,   \* those whose source row may be deleted and inserted again
    Workers,     \* the drains, of any number of processes
    Mine,        \* the keys each worker may claim: hash % shardCount = shard
    ShardSize,   \* shardSize
    MaxVersion,  \* bound: how often source rows are written
    MaxShards    \* bound: the last shard is never full and never requeued

ASSUME DrainAssumption ==
    /\ IsFiniteSet(Keys)
    /\ Returning \subseteq Keys
    /\ Mine \in [Workers -> SUBSET Keys]
    /\ ShardSize \in Nat \ {0}
    /\ MaxVersion \in Nat
    /\ MaxShards \in Nat \ {0}

VARIABLES
    clock,     \* how often source rows have been written
    version,   \* what the source row holds, or held: the clock of that time
    present,   \* the keys whose source row exists
    waiting,   \* the rows of indexQueue no transaction has locked
    eilutes,   \* quickwit.eilutes: the version and shard shown of each key
    indeksai,  \* how many shards there are
    current,   \* those marked "current"
    iterptos,  \* iterptosEilutes of each shard
    worker,    \* each worker's step, claimed rows and batch
    tool       \* requeueIndexes: its step and the shards chosen

source == <<clock, version, present>>
shardVars == <<indeksai, current, iterptos>>
vars == <<source, waiting, eilutes, shardVars, worker, tool>>

Changes  == {"write", "delete"}
Shards   == 1 .. MaxShards
Versions == 0 .. MaxVersion
NoRow    == [version |-> 0, shard |-> 0]
NoDocs   == [k \in Keys |-> 0]

Steps == {"idle", "claimed", "built", "planned", "indexed", "deleted"}
Idle  == [step |-> "idle", rows |-> {}, docs |-> NoDocs, existing |-> {},
          shard |-> 0, removed |-> {}]
Unused == [step |-> "idle", shards |-> {}]

\* iterptosEilutes is compared with ShardSize and with the live rows of its
\* shard, |Keys| at most: counting further changes nothing.
Cap == ShardSize + Cardinality(Keys)

Init ==
    /\ clock = 0
    /\ version = NoDocs
    /\ present = {}
    /\ waiting = {}
    /\ eilutes = [k \in Keys |-> NoRow]
    /\ indeksai = 0
    /\ current = {}
    /\ iterptos = [s \in Shards |-> 0]
    /\ worker = [w \in Workers |-> Idle]
    /\ tool = Unused

Shown(k)      == eilutes[k] # NoRow
At(w, step)   == worker[w].step = step
Goto(w, step) == worker' = [worker EXCEPT ![w].step = step]

\* Deduplication by key: delete > patch > insert.  What is not to be deleted
\* is to be indexed.
Claimed(w)  == {r[1] : r \in worker[w].rows}
ToDelete(w) == {k \in Claimed(w) : <<k, "delete">> \in worker[w].rows}
ToIndex(w)  == Claimed(w) \ ToDelete(w)
Found(w)    == {k \in Keys : worker[w].docs[k] # 0}

\* Objects whose source row is gone are treated as deleted.
Vanished(w) == ToIndex(w) \ Found(w)

-----------------------------------------------------------------------------
(* Row locks of transactions that stay open between two actions.           *)

\* The trigger of quickwit.eilutes counts the live rows of a shard in its
\* row of quickwit.indeksai.
ShardsOf(keys) == {eilutes[k].shard : k \in {k \in keys : Shown(k)}}

\* The rows of quickwit.indeksai locked by a worker's queue transaction ...
Locked(w) == ShardsOf(worker[w].removed)

\* ... and by the tool's UPDATE.
LockedByTool == IF tool.step = "marked" THEN tool.shards ELSE {}

\* The rows of quickwit.indeksai the publication changes.
Published(w) == {worker[w].shard} \union ShardsOf(Found(w))

\* Whom a worker's next statement waits for.
WaitsFor(w) ==
    LET shards == CASE At(w, "planned") -> Published(w)
                    [] At(w, "indexed")  -> ShardsOf(ToDelete(w) \union Vanished(w))
                    [] OTHER             -> {}
    IN  {v \in Workers : Locked(v) \intersect shards # {}}

WaitsForTool(w) ==
    \/ At(w, "planned") /\ Published(w) \intersect LockedByTool # {}
    \/ At(w, "indexed")
         /\ ShardsOf(ToDelete(w) \union Vanished(w)) \intersect LockedByTool # {}

\* The tool's DELETE meets queue rows a worker has locked.
ToolWaitsFor(w) ==
    tool.step = "marked" /\ ShardsOf(Claimed(w)) \intersect tool.shards # {}

Free(w) == WaitsFor(w) = {} /\ ~WaitsForTool(w)

-----------------------------------------------------------------------------
(* The source table and its triggers.                                      *)

Write(k) ==
    /\ clock < MaxVersion
    /\ clock' = clock + 1
    /\ version' = [version EXCEPT ![k] = clock']

Insert(k) ==
    /\ k \notin present
    /\ version[k] = 0 \/ k \in Returning
    /\ Write(k)
    /\ present' = present \union {k}
    /\ waiting' = waiting \union {<<k, "write">>}
    /\ UNCHANGED <<eilutes, shardVars, worker, tool>>

Patch(k) ==
    /\ k \in present
    /\ Write(k)
    /\ waiting' = waiting \union {<<k, "write">>}
    /\ UNCHANGED <<present, eilutes, shardVars, worker, tool>>

Delete(k) ==
    /\ k \in present
    /\ present' = present \ {k}
    /\ waiting' = waiting \union {<<k, "delete">>}
    /\ UNCHANGED <<clock, version, eilutes, shardVars, worker, tool>>

-----------------------------------------------------------------------------
(* drainIndexQueue.                                                        *)

\* Mutation: workers are not kept to their shard.
ClaimAnyKey(w, rows) ==
    /\ At(w, "idle")
    /\ rows # {} /\ rows \subseteq waiting
    /\ waiting' = waiting \ rows
    /\ worker' = [worker EXCEPT ![w] = [Idle EXCEPT !.step = "claimed",
                                                    !.rows = rows]]
    /\ UNCHANGED <<source, eilutes, shardVars, tool>>

\* SELECT ... FOR UPDATE SKIP LOCKED
Claim(w, rows) ==
    /\ At(w, "idle")
    /\ rows # {}
    /\ rows \subseteq {r \in waiting : r[1] \in Mine[w]}
    /\ waiting' = waiting \ rows
    /\ worker' = [worker EXCEPT ![w] = [Idle EXCEPT !.step = "claimed",
                                                    !.rows = rows]]
    /\ UNCHANGED <<source, eilutes, shardVars, tool>>

\* Mutation: what is to be deleted is deleted first.
FetchAfterDeletes(w) ==
    /\ At(w, "claimed")
    /\ LET found == ToIndex(w) \intersect present
       IN  worker' = [worker EXCEPT
             ![w].docs = [k \in Keys |-> IF k \in found THEN version[k] ELSE 0],
             ![w].removed = ToDelete(w),
             ![w].step = IF found = {} THEN "indexed" ELSE "built"]
    /\ UNCHANGED <<source, waiting, eilutes, shardVars, tool>>

\* fetchRows and buildDoc; without a row found indexDocs is not called.
Fetch(w) ==
    /\ At(w, "claimed")
    /\ LET found == ToIndex(w) \intersect present
       IN  worker' = [worker EXCEPT
             ![w].docs = [k \in Keys |-> IF k \in found THEN version[k] ELSE 0],
             ![w].step = IF found = {} THEN "indexed" ELSE "built"]
    /\ UNCHANGED <<source, waiting, eilutes, shardVars, tool>>

\* selectActiveShard: the newest current shard with room.
WithRoom == {s \in current : iterptos[s] < ShardSize \/ s = MaxShards}

Planned(w, shard) ==
    worker' = [worker EXCEPT ![w].step = "planned", ![w].shard = shard,
                             ![w].existing = {k \in Found(w) : Shown(k)}]

\* indexDocs sees which rows exist and picks the shard, without any lock ...
Plan(w) ==
    /\ At(w, "built")
    /\ \E s \in WithRoom :
         /\ \A t \in WithRoom : t <= s
         /\ Planned(w, s)
    /\ UNCHANGED <<source, waiting, eilutes, shardVars, tool>>

\* ... or, under the table's advisory lock, creates the next one.
PlanNewShard(w) ==
    /\ At(w, "built") /\ WithRoom = {}
    /\ tool.step = "idle"
    /\ indeksai' = indeksai + 1
    /\ current' = current \union {indeksai'}
    /\ Planned(w, indeksai')
    /\ UNCHANGED <<source, waiting, eilutes, iterptos, tool>>

\* Mutation: only new rows are counted.
PublishCountingNew(w) ==
    /\ At(w, "planned") /\ Free(w)
    /\ eilutes' = [k \in Keys |->
         IF k \in Found(w) /\ (k \in worker[w].existing => Shown(k))
           THEN [version |-> worker[w].docs[k], shard |-> worker[w].shard]
           ELSE eilutes[k]]
    /\ iterptos' = [iterptos EXCEPT ![worker[w].shard] =
         IF Found(w) \subseteq worker[w].existing THEN @ ELSE Cap]
    /\ Goto(w, "indexed")
    /\ UNCHANGED <<source, waiting, indeksai, current, tool>>

\* The documents are in Quickwit under fresh ids, so still hidden; the short
\* transaction at the end of indexDocs shows them: UPDATE of the rows seen by
\* the plan, INSERT ... ON CONFLICT DO UPDATE of the others, the counter last.
Publish(w) ==
    /\ At(w, "planned") /\ Free(w)
    /\ eilutes' = [k \in Keys |->
         IF k \in Found(w) /\ (k \in worker[w].existing => Shown(k))
           THEN [version |-> worker[w].docs[k], shard |-> worker[w].shard]
           ELSE eilutes[k]]
    /\ iterptos' = [iterptos EXCEPT ![worker[w].shard] =
         IF @ + Cardinality(Found(w)) > Cap THEN Cap ELSE @ + Cardinality(Found(w))]
    /\ Goto(w, "indexed")
    /\ UNCHANGED <<source, waiting, indeksai, current, tool>>

\* The two deleteEilutes, seen by the others after the COMMIT.
DeleteEilutes(w) ==
    /\ At(w, "indexed") /\ Free(w)
    /\ worker' = [worker EXCEPT ![w].step = "deleted",
                                ![w].removed = ToDelete(w) \union Vanished(w)]
    /\ UNCHANGED <<source, waiting, eilutes, shardVars, tool>>

\* Mutation: rows that came in meanwhile are deleted too.
CommitByKey(w) ==
    /\ At(w, "deleted")
    /\ eilutes' = [k \in Keys |-> IF k \in worker[w].removed THEN NoRow ELSE eilutes[k]]
    /\ waiting' = {r \in waiting : r[1] \notin Claimed(w)}
    /\ worker' = [worker EXCEPT ![w] = Idle]
    /\ UNCHANGED <<source, shardVars, tool>>

\* DELETE of the claimed rows and COMMIT.
Commit(w) ==
    /\ At(w, "deleted")
    /\ eilutes' = [k \in Keys |-> IF k \in worker[w].removed THEN NoRow ELSE eilutes[k]]
    /\ worker' = [worker EXCEPT ![w] = Idle]
    /\ UNCHANGED <<source, waiting, shardVars, tool>>

\* An error, be it of a statement, a sidecar or Quickwit, or the end of the
\* process: the claimed rows are free again.
Rollback(w) ==
    /\ ~At(w, "idle")
    /\ waiting' = waiting \union worker[w].rows
    /\ worker' = [worker EXCEPT ![w] = Idle]
    /\ UNCHANGED <<source, eilutes, shardVars, tool>>

-----------------------------------------------------------------------------
(* requeueIndexes, under the advisory lock.                                *)

\* The chosen shards lose their mark, not yet visible to others.
MarkShards(chosen) ==
    /\ tool.step = "idle"
    /\ chosen # {} /\ chosen \subseteq 1 .. indeksai \ {MaxShards}
    /\ \A w \in Workers : Locked(w) \intersect chosen = {}
    /\ tool' = [step |-> "marked", shards |-> chosen]
    /\ UNCHANGED <<source, waiting, eilutes, shardVars, worker>>

\* The queue rows of their live rows are replaced by new ones; COMMIT.
ReplaceRows ==
    /\ tool.step = "marked"
    /\ \A w \in Workers : ~ToolWaitsFor(w)
    /\ LET live == {k \in Keys : Shown(k) /\ eilutes[k].shard \in tool.shards}
       IN  waiting' = {r \in waiting : r[1] \notin live}
                        \union (live \intersect present) \X {"write"}
                        \union (live \ present) \X {"delete"}
    /\ current' = current \ tool.shards
    /\ tool' = Unused
    /\ UNCHANGED <<source, eilutes, indeksai, iterptos, worker>>

\* The tool fails or is stopped.
ToolStops ==
    /\ tool.step = "marked"
    /\ tool' = Unused
    /\ UNCHANGED <<source, waiting, eilutes, shardVars, worker>>

-----------------------------------------------------------------------------
Drain(w) ==
    \/ \E rows \in SUBSET waiting : Claim(w, rows)
    \/ Fetch(w) \/ Plan(w) \/ PlanNewShard(w)
    \/ Publish(w) \/ DeleteEilutes(w) \/ Commit(w) \/ Rollback(w)

Change(k) == Insert(k) \/ Patch(k) \/ Delete(k)

Requeue == (\E chosen \in SUBSET Shards : MarkShards(chosen)) \/ ReplaceRows \/ ToolStops

Next ==
    \/ \E k \in Keys : Change(k)
    \/ \E w \in Workers : Drain(w)
    \/ Requeue

Spec == Init /\ [][Next]_vars

-----------------------------------------------------------------------------
(* Properties.                                                             *)

\* Every row, map entry, shard and batch is one the code can produce; what
\* is current exists.
TypeOK ==
    /\ clock \in Versions
    /\ version \in [Keys -> Versions]
    /\ present \subseteq Keys
    /\ waiting \subseteq Keys \X Changes
    /\ eilutes \in [Keys -> [version : Versions, shard : 0 .. MaxShards]]
    /\ indeksai \in 0 .. MaxShards
    /\ current \subseteq 1 .. indeksai
    /\ iterptos \in [Shards -> 0 .. Cap]
    /\ worker \in [Workers -> [step : Steps, rows : SUBSET (Keys \X Changes),
                               docs : [Keys -> Versions], existing : SUBSET Keys,
                               shard : 0 .. MaxShards, removed : SUBSET Keys]]
    /\ tool \in [step : {"idle", "marked"}, shards : SUBSET Shards]

Pending(k) ==
    \/ \E c \in Changes : <<k, c>> \in waiting
    \/ \E w \in Workers : k \in Claimed(w)

\* Between the source, the queue and the map nothing gets lost: what no row
\* of the queue is about is shown as the source has it, and not shown when
\* the source has it no more, whatever failed, was repeated or requeued, and
\* however changes overtook the drain that read them.  Only an object that
\* was deleted and came back may be missing: rows of both changes claimed
\* together count as a delete (PRIORITY of indexQueueDrainer.js).
Mirrored ==
    \A k \in Keys : ~Pending(k) =>
      /\ Shown(k) => k \in present /\ eilutes[k].version = version[k]
      /\ k \in present \ Returning => Shown(k)

\* The tombstones of a shard, iterptosEilutes - gyvosEilutes, by which search
\* decides whether to filter at all, are never fewer than none, however the
\* plans of concurrent batches are out of date when they are published.
DeadNotNegative ==
    \A s \in Shards : iterptos[s] >= Cardinality({k \in Keys : eilutes[k].shard = s})

\* Search never goes back to an older version of an object, although batches
\* are read, ingested and published at different times.  A part
\* of SearchSpec.
NeverGoesBack ==
    [][\A k \in Keys : Shown(k) /\ Shown(k)' => eilutes'[k].version >= eilutes[k].version]_vars

\* The drains keep what search promises (SearchCopy): whatever is read early,
\* published late, rolled back, deleted in the queue's transaction or requeued,
\* search changes an object only when a row of the queue asks for it, only to
\* a newer version, hides it only when its source row is gone, and the last
\* row about it goes only when search agrees with the source.
Search == INSTANCE SearchCopy WITH
    shown <- [k \in Keys |-> eilutes[k].version],
    owed  <- {k \in Keys : Pending(k)}

SearchSpec == Search!Spec

\* PostgreSQL cannot see a cycle that goes through a drain, whose queue
\* transaction is idle while its publication waits (the comment over the
\* deletes of drainIndexQueue).  Among drains there is none: whoever another
\* one waits for can go on.
WaitedForGoesOn ==
    \A w \in Workers : \A v \in WaitsFor(w) : Free(v)
=============================================================================
