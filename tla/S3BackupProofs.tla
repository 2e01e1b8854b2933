--------------------------- MODULE S3BackupProofs ---------------------------
(* Proofs about S3Backup.  What a node's process, its workers and its      *)
(* marks have to do with each other is a predicate of three values,        *)
(* Consistent; the first half shows for each kind of step that it is kept. *)
EXTENDS S3Backup, FiniteSetTheorems, TLAPS

Processes ==
    [running : BOOLEAN, check : BOOLEAN, stopping : BOOLEAN, baigta : BOOLEAN,
     buferis : SUBSET Md5s, vykdomi : SUBSET Md5s, poMd5 : Md5s \union {NoMd5},
     sekmes : SUBSET Md5s, klaidos : SUBSET Md5s]
Records == [step : Steps, md5 : Md5s \union {NoMd5}, good : BOOLEAN]

Busy == {"fetching", "spilling", "spilled", "storing"}

Consistent(p, wk, kl) ==
    /\ ~p.running => p = Off /\ \A w \in Workers : wk[w].step \notin Busy
    /\ p.vykdomi = p.buferis \union p.sekmes \union p.klaidos
                     \union {wk[w].md5 : w \in {v \in Workers : wk[v].step \in Busy}}
    /\ p.buferis \intersect (p.sekmes \union p.klaidos) = {}
    /\ \A v, w \in Workers :
         wk[v].step \in Busy /\ wk[w].step \in Busy /\ v # w => wk[v].md5 # wk[w].md5
    /\ \A w \in Workers :
         wk[w].step \in Busy =>
           wk[w].md5 \notin p.buferis \union p.sekmes \union p.klaidos
    /\ \A w \in Workers :
         wk[w].step \in Busy \union {"removing"} => wk[w].md5 \in Md5s
    /\ \A m \in p.vykdomi : kl[m] < MaxRetries

AllConsistent == \A n \in Nodes : Consistent(process[n], worker[n], klaidos[n])

IInv == TypeOK /\ AllConsistent

-----------------------------------------------------------------------------
(* A nonempty finite set of numbers has a least and a greatest element.    *)

IsMinimal(X, T) == X \in T /\ \A Y \in T : Y \subseteq X => Y = X

\* A set of subsets of a finite set has a minimal member.
LEMMA Minimal ==
  ASSUME NEW S, NEW T, IsFiniteSet(S), T \subseteq SUBSET S, T # {}
  PROVE  \E X : IsMinimal(X, T)
<1>1. T \subseteq FiniteSubsetsOf(S)
  BY FS_Subset DEF FiniteSubsetsOf
<1>2. PICK X \in T : \A Y \in T : <<Y, X>> \notin StrictSubsetOrdering(S)
  BY <1>1, FS_StrictSubsetOrderingWellFounded, WFMin
<1>3. QED  BY <1>1, <1>2 DEF StrictSubsetOrdering, IsMinimal

\* The least element has the fewest before it.
LEMMA Least ==
  ASSUME NEW S \in SUBSET Nat, IsFiniteSet(S), S # {}
  PROVE  \E m \in S : \A k \in S : m <= k
<1> DEFINE T == {{j \in S : j < m} : m \in S}
<1>1. T \subseteq SUBSET S /\ T # {}  OBVIOUS
<1>2. \E X : IsMinimal(X, T)
  <2> HIDE DEF T
  <2> QED  BY <1>1, Minimal, Zenon
<1>3. PICK m \in S : IsMinimal({j \in S : j < m}, T)
  BY <1>2 DEF IsMinimal
<1>4. ASSUME NEW k \in S  PROVE ~(k < m)
  <2>1. k \in Nat /\ m \in Nat  OBVIOUS
  <2>2. SUFFICES ASSUME k < m PROVE FALSE  OBVIOUS
  <2>3. \A j \in S : j < k => j < m  BY <2>1, <2>2, S \subseteq Nat
  <2>4. ~(k < k)  BY <2>1
  <2>5. {j \in S : j < k} \in T  OBVIOUS
  <2>6. QED  BY <1>3, <2>2, <2>3, <2>4, <2>5 DEF IsMinimal
<1>5. QED  BY <1>4

\* The greatest has the fewest after it.
LEMMA Greatest ==
  ASSUME NEW S \in SUBSET Nat, IsFiniteSet(S), S # {}
  PROVE  \E m \in S : \A k \in S : k <= m
<1> DEFINE T == {{j \in S : j > m} : m \in S}
<1>1. T \subseteq SUBSET S /\ T # {}  OBVIOUS
<1>2. \E X : IsMinimal(X, T)
  <2> HIDE DEF T
  <2> QED  BY <1>1, Minimal, Zenon
<1>3. PICK m \in S : IsMinimal({j \in S : j > m}, T)
  BY <1>2 DEF IsMinimal
<1>4. ASSUME NEW k \in S  PROVE ~(k > m)
  <2>1. k \in Nat /\ m \in Nat  OBVIOUS
  <2>2. SUFFICES ASSUME k > m PROVE FALSE  OBVIOUS
  <2>3. \A j \in S : j > k => j > m  BY <2>1, <2>2, S \subseteq Nat
  <2>4. ~(k > k)  BY <2>1
  <2>5. {j \in S : j > k} \in T  OBVIOUS
  <2>6. QED  BY <1>3, <2>2, <2>3, <2>4, <2>5 DEF IsMinimal
<1>5. QED  BY <1>4

\* Smallest and Biggest return a member.
LEMMA ExtremesAreMembers ==
  ASSUME NEW S \in SUBSET Md5s, S # {}
  PROVE  Smallest(S) \in S /\ Biggest(S) \in S
<1>1. S \in SUBSET Nat /\ IsFiniteSet(S)
  BY FS_Subset, BackupAssumption
<1>2. \E m \in S : \A k \in S : m <= k  BY <1>1, Least
<1>3. \E m \in S : \A k \in S : k <= m  BY <1>1, Greatest
<1>4. QED  BY <1>2, <1>3 DEF Smallest, Biggest

\* A batch from the beginning of the table is empty only when nothing is
\* left to upload: the least md5 left would be in it.
LEMMA EmptyBatch ==
  ASSUME NEW n \in Nodes, TypeOK, Batch(n, NoMd5) = {}
  PROVE  Neikelti(n) = {}
<1>1. SUFFICES ASSUME Neikelti(n) # {} PROVE FALSE  OBVIOUS
<1> DEFINE S == Neikelti(n)
<1>2. S \subseteq Md5s  BY DEF Neikelti, TypeOK
<1>3. S \in SUBSET Nat /\ IsFiniteSet(S) /\ \A m \in S : m > 0
  <2>1. IsFiniteSet(S)  BY <1>2, FS_Subset, BackupAssumption, Zenon
  <2>2. S \in SUBSET Nat /\ \A m \in S : m > 0
    <3> HIDE DEF S
    <3> QED  BY <1>2, BackupAssumption
  <2>3. QED  BY <2>1, <2>2
<1>4. PICK m \in S : \A k \in S : m <= k
  <2> HIDE DEF S
  <2> QED  BY <1>1, <1>3, Least DEF S
<1>5. {k \in {j \in S : j > NoMd5} : k < m} = {}
  BY <1>3, <1>4
<1>6. Cardinality({}) < BatchSize
  BY FS_EmptySet, BackupAssumption
<1>7. m \in Batch(n, NoMd5)
  BY <1>3, <1>4, <1>5, <1>6 DEF Batch, NoMd5
<1>8. QED  BY <1>7

-----------------------------------------------------------------------------
(* The steps of one process.                                               *)

\* A worker takes the next md5 of the batch.
LEMMA Begins ==
  ASSUME NEW p \in Processes, NEW wk \in [Workers -> Records],
         NEW kl \in [Md5s -> 0 .. MaxRetries], NEW w \in Workers,
         Consistent(p, wk, kl), p.running, wk[w].step \notin Busy,
         NEW m \in p.buferis, NEW r \in Records, r.step \in Busy, r.md5 = m
  PROVE  /\ [p EXCEPT !.buferis = @ \ {m}] \in Processes
         /\ Consistent([p EXCEPT !.buferis = @ \ {m}], [wk EXCEPT ![w] = r], kl)
<1> DEFINE q  == [p EXCEPT !.buferis = @ \ {m}]
           nk == [wk EXCEPT ![w] = r]
<1>1. /\ q \in Processes /\ q.running
      /\ q.buferis = p.buferis \ {m} /\ q.vykdomi = p.vykdomi
      /\ q.sekmes = p.sekmes /\ q.klaidos = p.klaidos
  BY DEF Processes
<1>2. nk[w] = r /\ \A v \in Workers : v # w => nk[v] = wk[v]
  OBVIOUS
<1>3. m \in Md5s  BY DEF Processes
<1> HIDE DEF q, nk
<1>4. q.vykdomi = q.buferis \union q.sekmes \union q.klaidos
                    \union {nk[v].md5 : v \in {v \in Workers : nk[v].step \in Busy}}
  BY <1>1, <1>2 DEF Consistent
<1>5. Consistent(q, nk, kl)
  BY <1>1, <1>2, <1>3, <1>4 DEF Consistent
<1>6. QED  BY <1>1, <1>5 DEF q, nk

\* A worker without an md5 changes its step.
LEMMA Rests ==
  ASSUME NEW p \in Processes, NEW wk \in [Workers -> Records],
         NEW kl \in [Md5s -> 0 .. MaxRetries], NEW w \in Workers,
         Consistent(p, wk, kl), wk[w].step \notin Busy,
         NEW r \in Records, r.step \notin Busy \union {"removing"}
  PROVE  Consistent(p, [wk EXCEPT ![w] = r], kl)
<1> DEFINE nk == [wk EXCEPT ![w] = r]
<1>1. nk[w] = r /\ \A v \in Workers : v # w => nk[v] = wk[v]
  OBVIOUS
<1> HIDE DEF nk
<1>2. {nk[v].md5 : v \in {v \in Workers : nk[v].step \in Busy}}
        = {wk[v].md5 : v \in {v \in Workers : wk[v].step \in Busy}}
  BY <1>1
<1>3. Consistent(p, nk, kl)  BY <1>1, <1>2 DEF Consistent
<1>4. QED  BY <1>3 DEF nk

\* A worker goes on with its md5.
LEMMA Proceeds ==
  ASSUME NEW p \in Processes, NEW wk \in [Workers -> Records],
         NEW kl \in [Md5s -> 0 .. MaxRetries], NEW w \in Workers,
         Consistent(p, wk, kl), wk[w].step \in Busy,
         NEW r \in Records, r.step \in Busy, r.md5 = wk[w].md5
  PROVE  Consistent(p, [wk EXCEPT ![w] = r], kl)
<1> DEFINE nk == [wk EXCEPT ![w] = r]
<1>1. nk[w] = r /\ \A v \in Workers : v # w => nk[v] = wk[v]
  OBVIOUS
<1> HIDE DEF nk
<1>2. {nk[v].md5 : v \in {v \in Workers : nk[v].step \in Busy}}
        = {wk[v].md5 : v \in {v \in Workers : wk[v].step \in Busy}}
  BY <1>1
<1>3. Consistent(p, nk, kl)  BY <1>1, <1>2 DEF Consistent
<1>4. QED  BY <1>3 DEF nk

\* A worker has a result.
LEMMA HasResult ==
  ASSUME NEW p \in Processes, NEW wk \in [Workers -> Records],
         NEW kl \in [Md5s -> 0 .. MaxRetries], NEW w \in Workers,
         Consistent(p, wk, kl), wk[w].step \in Busy,
         NEW r \in Records, r.step \notin Busy, r.md5 = wk[w].md5,
         NEW q \in Processes,
         q.running = p.running, q.buferis = p.buferis, q.vykdomi = p.vykdomi,
         q.sekmes \union q.klaidos = p.sekmes \union p.klaidos \union {wk[w].md5}
  PROVE  Consistent(q, [wk EXCEPT ![w] = r], kl)
<1> DEFINE nk == [wk EXCEPT ![w] = r]
<1>1. nk[w] = r /\ \A v \in Workers : v # w => nk[v] = wk[v]
  OBVIOUS
<1> HIDE DEF nk
<1>2. q.running  BY DEF Consistent
<1>3. q.vykdomi = q.buferis \union q.sekmes \union q.klaidos
                    \union {nk[v].md5 : v \in {v \in Workers : nk[v].step \in Busy}}
  BY <1>1 DEF Consistent
<1>4. Consistent(q, nk, kl)  BY <1>1, <1>2, <1>3 DEF Consistent
<1>5. QED  BY <1>4 DEF nk

\* A flush moves the results from the process into its marks.
LEMMA Flushes ==
  ASSUME IInv, NEW n \in Nodes, process[n].running, Record(n)
  PROVE  /\ klaidos' \in [Nodes -> [Md5s -> 0 .. MaxRetries]]
         /\ \A k \in Nodes : k # n => klaidos'[k] = klaidos[k]
         /\ ikelti' \in [Nodes -> SUBSET Md5s]
         /\ Flushed(n) \in Processes /\ Flushed(n).running
         /\ Consistent(Flushed(n), worker[n], klaidos'[n])
<1> DEFINE p  == process[n]
           q  == Flushed(n)
           wk == worker[n]
<1>1. p \in Processes /\ wk \in [Workers -> Records] /\ Consistent(p, wk, klaidos[n])
  BY DEF IInv, AllConsistent, TypeOK, Processes, Records
<1>2. /\ q \in Processes /\ q.running
      /\ q.buferis = p.buferis /\ q.vykdomi = p.vykdomi \ (p.sekmes \union p.klaidos)
      /\ q.sekmes = {} /\ q.klaidos = {}
  BY <1>1 DEF Flushed, Results, Processes
<1>3. MaxRetries \in Nat /\ klaidos \in [Nodes -> [Md5s -> 0 .. MaxRetries]]
  BY BackupAssumption DEF IInv, TypeOK
<1>4. klaidos' = [klaidos EXCEPT ![n] = [m \in Md5s |->
         IF m \in p.klaidos THEN klaidos[n][m] + 1
         ELSE IF m \in p.sekmes THEN 0 ELSE klaidos[n][m]]]
  BY <1>3 DEF Record
<1>5. \A m \in p.klaidos : klaidos[n][m] < MaxRetries
  BY <1>1 DEF Consistent
<1>6. \A m \in Md5s : klaidos'[n][m] =
         IF m \in p.klaidos THEN klaidos[n][m] + 1
         ELSE IF m \in p.sekmes THEN 0 ELSE klaidos[n][m]
  BY <1>3, <1>4
<1>7. \A m \in Md5s : klaidos'[n][m] \in 0 .. MaxRetries
  BY <1>3, <1>5, <1>6
<1>8. klaidos' \in [Nodes -> [Md5s -> 0 .. MaxRetries]]
  <2>1. \A m \in Md5s : (IF m \in p.klaidos THEN klaidos[n][m] + 1
         ELSE IF m \in p.sekmes THEN 0 ELSE klaidos[n][m]) \in 0 .. MaxRetries
    BY <1>6, <1>7
  <2>2. QED  BY <1>3, <1>4, <2>1
<1>9. ikelti' \in [Nodes -> SUBSET Md5s]
  <2>1. p.sekmes \subseteq Md5s  BY <1>1 DEF Processes
  <2>2. QED  BY <2>1 DEF Record, IInv, TypeOK
<1>10. \A k \in Nodes : k # n => klaidos'[k] = klaidos[k]
  BY <1>3, <1>4
<1>11. Consistent(q, wk, klaidos'[n])
  <2> HIDE DEF p, q, wk
  <2>1. p.vykdomi \subseteq Md5s  BY <1>1 DEF Processes
  <2>2. \A m \in q.vykdomi : klaidos'[n][m] < MaxRetries
    BY <1>1, <1>2, <1>6, <2>1 DEF Consistent
  <2>3. q.vykdomi = q.buferis \union q.sekmes \union q.klaidos
                      \union {wk[v].md5 : v \in {v \in Workers : wk[v].step \in Busy}}
    BY <1>1, <1>2 DEF Consistent
  <2>4. QED  BY <1>1, <1>2, <2>2, <2>3 DEF Consistent
<1>12. QED  BY <1>2, <1>8, <1>9, <1>10, <1>11

\* A new batch: rows nobody in the process is at.
LEMMA Fills ==
  ASSUME IInv, NEW n \in Nodes, NEW p \in Processes, p.running, p.buferis = {},
         NEW wk \in [Workers -> Records],
         klaidos' \in [Nodes -> [Md5s -> 0 .. MaxRetries]],
         Consistent(p, wk, klaidos'[n]), NEW q, q = Papildyti(n, p)
  PROVE  /\ q \in Processes /\ q.running
         /\ Consistent(q, wk, klaidos'[n])
         /\ q.sekmes = p.sekmes
         /\ q.baigta /\ ~p.baigta => Neikelti(n) = {}
<1> DEFINE ahead == Batch(n, p.poMd5)
           rows  == IF ahead # {} THEN ahead ELSE Batch(n, NoMd5)
<1>1. rows \subseteq Neikelti(n)  BY DEF Batch
<1>2. Neikelti(n) \subseteq Md5s /\ \A m \in Neikelti(n) : klaidos'[n][m] < MaxRetries
  BY DEF Neikelti, IInv, TypeOK
<1>3. q = IF rows = {}
            THEN [p EXCEPT !.poMd5 = NoMd5, !.baigta = (p.vykdomi = {})]
            ELSE [p EXCEPT !.poMd5 = Biggest(rows), !.buferis = rows \ p.vykdomi,
                           !.vykdomi = p.vykdomi \union rows]
  BY DEF Papildyti, Processes
<1>4. rows = {} => Neikelti(n) = {}
  BY EmptyBatch DEF IInv
<1> HIDE DEF rows
<1>5. CASE rows = {}
  <2>1. /\ q \in Processes /\ q.running
        /\ q.buferis = p.buferis /\ q.vykdomi = p.vykdomi
        /\ q.sekmes = p.sekmes /\ q.klaidos = p.klaidos
    BY <1>3, <1>5 DEF Processes
  <2>2. Consistent(q, wk, klaidos'[n])  BY <2>1 DEF Consistent
  <2>3. QED  BY <1>4, <1>5, <2>1, <2>2
<1>6. CASE rows # {}
  <2>1. Biggest(rows) \in Md5s
    BY <1>1, <1>2, <1>6, ExtremesAreMembers
  <2>2. /\ q \in Processes /\ q.running /\ q.baigta = p.baigta
        /\ q.buferis = rows \ p.vykdomi /\ q.vykdomi = p.vykdomi \union rows
        /\ q.sekmes = p.sekmes /\ q.klaidos = p.klaidos
    <3>1. /\ rows \ p.vykdomi \in SUBSET Md5s /\ p.vykdomi \union rows \in SUBSET Md5s
          /\ Biggest(rows) \in Md5s \union {NoMd5}
      BY <1>1, <1>2, <2>1 DEF Processes
    <3>2. q = [p EXCEPT !.poMd5 = Biggest(rows), !.buferis = rows \ p.vykdomi,
                        !.vykdomi = p.vykdomi \union rows]
      BY <1>3, <1>6
    <3> DEFINE b == Biggest(rows)  f == rows \ p.vykdomi  v == p.vykdomi \union rows
    <3> HIDE DEF b, f, v
    <3>3. q = [p EXCEPT !.poMd5 = b, !.buferis = f, !.vykdomi = v]
      BY <3>2 DEF b, f, v
    <3>4. f \in SUBSET Md5s /\ v \in SUBSET Md5s /\ b \in Md5s \union {NoMd5}
      BY <3>1 DEF b, f, v
    <3>5. /\ q \in Processes /\ q.running = p.running /\ q.baigta = p.baigta
          /\ q.buferis = f /\ q.vykdomi = v
          /\ q.sekmes = p.sekmes /\ q.klaidos = p.klaidos
      BY <3>3, <3>4 DEF Processes
    <3>6. QED  BY <3>5 DEF f, v
  <2>3. \A m \in q.vykdomi : klaidos'[n][m] < MaxRetries
    BY <1>1, <1>2, <2>2 DEF Consistent
  <2>4. q.vykdomi = q.buferis \union q.sekmes \union q.klaidos
                      \union {wk[v].md5 : v \in {v \in Workers : wk[v].step \in Busy}}
    BY <2>2 DEF Consistent
  <2>5. Consistent(q, wk, klaidos'[n])
    BY <2>2, <2>3, <2>4 DEF Consistent
  <2>6. QED  BY <2>2, <2>5
<1>7. QED  BY <1>5, <1>6

\* The loop of a worker: it takes an md5, sleeps or returns.
LEMMA Continues ==
  ASSUME IInv, NEW n \in Nodes, NEW w \in Workers, NEW p \in Processes, p.running,
         worker[n][w].step \notin Busy,
         klaidos' \in [Nodes -> [Md5s -> 0 .. MaxRetries]],
         Consistent(p, worker[n], klaidos'[n]), Continue(n, w, p)
  PROVE  \E q \in Processes, r \in Records :
           /\ process' = [process EXCEPT ![n] = q]
           /\ worker' = [worker EXCEPT ![n][w] = r]
           /\ Consistent(q, [worker[n] EXCEPT ![w] = r], klaidos'[n])
           /\ q.sekmes = p.sekmes
           /\ r.good = TRUE /\ r.step \in {"idle", "returned", "fetching"}
           /\ q.baigta /\ ~p.baigta => Neikelti(n) = {}
<1> DEFINE wk == worker[n]
           kl == klaidos'[n]
           Rest(step) == [Idle EXCEPT !.step = step]
           Goal(q, r) ==
             /\ q \in Processes /\ r \in Records
             /\ process' = [process EXCEPT ![n] = q]
             /\ worker' = [worker EXCEPT ![n][w] = r]
             /\ Consistent(q, [wk EXCEPT ![w] = r], kl)
             /\ q.sekmes = p.sekmes
             /\ r.good = TRUE /\ r.step \in {"idle", "returned", "fetching"}
             /\ q.baigta /\ ~p.baigta => Neikelti(n) = {}
<1>1. SUFFICES \E q, r : Goal(q, r)  OBVIOUS
<1>2. wk \in [Workers -> Records] /\ kl \in [Md5s -> 0 .. MaxRetries]
  BY DEF IInv, TypeOK, Records
<1>3. \A step \in {"idle", "returned"} :
        /\ Rest(step) \in Records /\ Rest(step).good = TRUE /\ Rest(step).step = step
        /\ step \notin Busy \union {"removing"}
  BY DEF Idle, Records, Steps, Busy, NoMd5
<1>4. CASE p.stopping
  <2>1. process' = [process EXCEPT ![n] = p] /\ worker' = [worker EXCEPT ![n][w] = Rest("returned")]
    BY <1>4 DEF Continue, Becomes
  <2>2. Consistent(p, [wk EXCEPT ![w] = Rest("returned")], kl)
    <3> HIDE DEF Rest, wk, kl
    <3> QED  BY <1>2, <1>3, Rests DEF wk, kl
  <2>3. Goal(p, Rest("returned"))
    <3> HIDE DEF Rest
    <3> QED  BY <1>3, <2>1, <2>2
  <2>4. QED  BY <2>3
<1>5. CASE ~p.stopping
  <2> DEFINE q == IF p.buferis = {} /\ ~p.baigta THEN Papildyti(n, p) ELSE p
             m == Smallest(q.buferis)
  <2>1. /\ q \in Processes /\ q.running /\ Consistent(q, wk, kl) /\ q.sekmes = p.sekmes
        /\ q.baigta /\ ~p.baigta => Neikelti(n) = {}
    <3>1. CASE p.buferis = {} /\ ~p.baigta
      BY <1>2, <3>1, Fills
    <3>2. CASE ~(p.buferis = {} /\ ~p.baigta)
      BY <3>2
    <3>3. QED  BY <3>1, <3>2
  <2>2. NextItem(n, w, p)  BY <1>5 DEF Continue
  <2>3. CASE q.buferis = {}
    <3> DEFINE r == Rest(IF q.baigta THEN "returned" ELSE "idle")
    <3>1. process' = [process EXCEPT ![n] = q] /\ worker' = [worker EXCEPT ![n][w] = r]
      BY <2>2, <2>3 DEF NextItem, Becomes
    <3>2. r \in Records /\ r.good = TRUE /\ r.step \in {"idle", "returned"}
      <4> HIDE DEF Rest, q
      <4> QED  BY <1>3
    <3>3. r.step \notin Busy \union {"removing"}  BY <3>2 DEF Busy
    <3> HIDE DEF r, q, wk, kl
    <3>4. Consistent(q, [wk EXCEPT ![w] = r], kl)
      BY <1>2, <2>1, <3>2, <3>3, Rests DEF wk
    <3>5. Goal(q, r)  BY <2>1, <3>1, <3>2, <3>4 DEF wk, kl
    <3>6. QED  BY <3>5
  <2>4. CASE q.buferis # {}
    <3> DEFINE b == [q EXCEPT !.buferis = @ \ {m}]
               r == [Idle EXCEPT !.step = "fetching", !.md5 = m]
    <3>1. process' = [process EXCEPT ![n] = b] /\ worker' = [worker EXCEPT ![n][w] = r]
      BY <2>2, <2>4 DEF NextItem, Becomes
    <3>2. q.buferis \in SUBSET Md5s
      <4> HIDE DEF q
      <4> QED  BY <2>1 DEF Processes
    <3>3. m \in q.buferis /\ m \in Md5s
      <4> HIDE DEF q
      <4> QED  BY <2>4, <3>2, ExtremesAreMembers
    <3>4. r \in Records /\ r.good = TRUE /\ r.step = "fetching" /\ r.md5 = m
      <4> HIDE DEF m
      <4> QED  BY <3>3 DEF Idle, Records, Steps, NoMd5
    <3>5. r.step \in Busy  BY <3>4 DEF Busy
    <3> HIDE DEF r, q, m, wk, kl
    <3>6. b \in Processes /\ Consistent(b, [wk EXCEPT ![w] = r], kl)
      BY <1>2, <2>1, <3>3, <3>4, <3>5, Begins DEF wk
    <3>7. b.sekmes = q.sekmes /\ b.baigta = q.baigta
      BY <2>1 DEF Processes
    <3>8. Goal(b, r)
      <4> HIDE DEF b
      <4> QED  BY <2>1, <3>1, <3>4, <3>6, <3>7 DEF wk, kl
    <3>9. QED  BY <3>8
  <2>5. QED  BY <2>3, <2>4
<1>6. QED  BY <1>4, <1>5

-----------------------------------------------------------------------------
(* The inductive invariant.                                                *)

Data ==
    /\ eile \subseteq Md5s
    /\ ikelti \in [Nodes -> SUBSET Md5s]
    /\ klaidos \in [Nodes -> [Md5s -> 0 .. MaxRetries]]
    /\ object \in [Nodes -> [Md5s -> {"none", "good", "bad"}]]
    /\ temp \in [Md5s -> [by : Nodes \union {NoMd5}, whole : BOOLEAN]]
    /\ clears \in 0 .. MaxClears
    /\ shared \subseteq Md5s

\* The parts of TypeOK.
LEMMA Types ==
  TypeOK <=> /\ Data
             /\ process \in [Nodes -> Processes]
             /\ worker \in [Nodes -> [Workers -> Records]]
BY DEF TypeOK, Data, Processes, Records

\* A step of one node's process leaves those of the others alone.
LEMMA OneNodeMoves ==
  ASSUME IInv, NEW n \in Nodes, NEW q \in Processes, NEW wk \in [Workers -> Records],
         process' = [process EXCEPT ![n] = q], worker' = [worker EXCEPT ![n] = wk],
         \A k \in Nodes : k # n => klaidos'[k] = klaidos[k],
         Data', Consistent(q, wk, klaidos'[n])
  PROVE  IInv'
<1>1. process \in [Nodes -> Processes] /\ worker \in [Nodes -> [Workers -> Records]]
  BY Types DEF IInv
<1>2. process' \in [Nodes -> Processes] /\ worker' \in [Nodes -> [Workers -> Records]]
  BY <1>1
<1>3. TypeOK'
  BY <1>2 DEF TypeOK, Data, Processes, Records
<1>4. ASSUME NEW k \in Nodes  PROVE Consistent(process'[k], worker'[k], klaidos'[k])
  <2>1. CASE k = n
    BY <1>1, <2>1
  <2>2. CASE k # n
    <3>1. process'[k] = process[k] /\ worker'[k] = worker[k] /\ klaidos'[k] = klaidos[k]
      BY <1>1, <2>2
    <3>2. Consistent(process[k], worker[k], klaidos[k])
      BY DEF IInv, AllConsistent
    <3>3. QED  BY <3>1, <3>2
  <2>3. QED  BY <2>1, <2>2
<1>5. QED  BY <1>3, <1>4 DEF IInv, AllConsistent

\* The same for a step of one worker.
LEMMA OneWorkerMoves ==
  ASSUME IInv, NEW n \in Nodes, NEW w \in Workers, NEW q \in Processes, NEW r \in Records,
         process' = [process EXCEPT ![n] = q], worker' = [worker EXCEPT ![n][w] = r],
         \A k \in Nodes : k # n => klaidos'[k] = klaidos[k],
         Data', Consistent(q, [worker[n] EXCEPT ![w] = r], klaidos'[n])
  PROVE  IInv'
<1> DEFINE wk == [worker[n] EXCEPT ![w] = r]
<1>1. worker \in [Nodes -> [Workers -> Records]]
  BY Types DEF IInv
<1>2. wk \in [Workers -> Records] /\ worker' = [worker EXCEPT ![n] = wk]
  BY <1>1
<1> HIDE DEF wk
<1>3. Consistent(q, wk, klaidos'[n])  BY DEF wk
<1>4. QED  BY <1>2, <1>3, OneNodeMoves

\* Nothing of a process changes.
LEMMA OnlyDataMoves ==
  ASSUME IInv, UNCHANGED <<process, worker, klaidos>>, Data'
  PROVE  IInv'
<1>1. TypeOK'
  BY Types DEF TypeOK, IInv, Data, Processes, Records
<1>2. QED  BY <1>1 DEF IInv, AllConsistent, Consistent

\* What IInv says of one process and of one worker.
LEMMA Known ==
  ASSUME IInv, NEW n \in Nodes, NEW w \in Workers
  PROVE  /\ Data
         /\ process[n] \in Processes /\ worker[n] \in [Workers -> Records]
         /\ worker[n][w] \in Records
         /\ klaidos[n] \in [Md5s -> 0 .. MaxRetries]
         /\ Consistent(process[n], worker[n], klaidos[n])
BY Types DEF IInv, AllConsistent, Data

\* Before anything has run, nothing is in hand.
LEMMA Initially == Init => IInv
<1> SUFFICES ASSUME Init PROVE IInv  OBVIOUS
<1>1. TypeOK
  BY BackupAssumption DEF Init, TypeOK, Off, Idle, NoFile, NoMd5, Steps
<1>2. ASSUME NEW n \in Nodes  PROVE Consistent(process[n], worker[n], klaidos[n])
  <2>1. /\ process[n] = Off /\ \A w \in Workers : worker[n][w] = Idle
    BY DEF Init
  <2>2. Idle.step \notin Busy \union {"removing"}  BY DEF Idle, Busy
  <2>3. Off.buferis = {} /\ Off.vykdomi = {} /\ Off.sekmes = {} /\ Off.klaidos = {}
    BY DEF Off
  <2> QED  BY <2>1, <2>2, <2>3 DEF Consistent
<1>3. QED  BY <1>1, <1>2 DEF IInv, AllConsistent

-----------------------------------------------------------------------------
(* Every step keeps it.                                                    *)

LEMMA OthersKeep ==
  ASSUME IInv, NEW n \in Nodes, ValytiKlaidas(n) \/ Manage(n)
  PROVE  IInv'
<1>1. Data /\ process[n] \in Processes /\ worker[n] \in [Workers -> Records]
      /\ Consistent(process[n], worker[n], klaidos[n])
  BY Types DEF IInv, AllConsistent
<1>3. CASE ValytiKlaidas(n)
  <2>1. /\ klaidos' \in [Nodes -> [Md5s -> 0 .. MaxRetries]]
        /\ \A k \in Nodes : k # n => klaidos'[k] = klaidos[k]
        /\ \A k \in Md5s : klaidos'[n][k] < MaxRetries
    BY <1>1, <1>3, BackupAssumption DEF ValytiKlaidas, Data
  <2>2. Data'
    BY <1>1, <1>3, <2>1, BackupAssumption DEF ValytiKlaidas, Data
  <2>3. Consistent(process[n], worker[n], klaidos'[n])
    <3>1. process[n].vykdomi \subseteq Md5s  BY <1>1 DEF Processes
    <3>2. QED  BY <1>1, <2>1, <3>1 DEF Consistent
  <2>4. process' = [process EXCEPT ![n] = process[n]] /\ worker' = [worker EXCEPT ![n] = worker[n]]
    BY <1>3, Types DEF ValytiKlaidas, IInv
  <2>5. QED  BY <1>1, <2>1, <2>2, <2>3, <2>4, OneNodeMoves
<1>4. CASE Start(n, TRUE) \/ Start(n, FALSE)
  <2>1. PICK check \in BOOLEAN : Start(n, check)  BY <1>4
  <2> DEFINE q == [Off EXCEPT !.running = TRUE, !.check = check]
  <2>2. /\ q \in Processes /\ q.running
        /\ q.buferis = {} /\ q.vykdomi = {} /\ q.sekmes = {} /\ q.klaidos = {}
    BY DEF Off, Processes, NoMd5
  <2> HIDE DEF q
  <2>3. \A v \in Workers : worker[n][v].step \notin Busy
    BY <1>1, <2>1 DEF Start, Consistent
  <2>4. Consistent(q, worker[n], klaidos[n])
    BY <1>1, <2>2, <2>3 DEF Consistent
  <2>5. process' = [process EXCEPT ![n] = q] /\ worker' = [worker EXCEPT ![n] = worker[n]]
        /\ klaidos' = klaidos
    BY <2>1, Types DEF Start, IInv, tables, q
  <2>6. Data'
    BY <1>1, <2>1 DEF Start, Data, tables, NoFile
  <2>7. QED  BY <1>1, <2>2, <2>4, <2>5, <2>6, OneNodeMoves
<1>5. CASE RequestStop(n)
  <2> DEFINE q == [process[n] EXCEPT !.stopping = TRUE]
  <2>1. /\ q \in Processes /\ q.running
        /\ q.buferis = process[n].buferis /\ q.vykdomi = process[n].vykdomi
        /\ q.sekmes = process[n].sekmes /\ q.klaidos = process[n].klaidos
    BY <1>1, <1>5 DEF Processes, RequestStop
  <2>2. process' = [process EXCEPT ![n] = q] /\ worker' = [worker EXCEPT ![n] = worker[n]]
        /\ klaidos' = klaidos
    BY <1>5, Types DEF RequestStop, IInv, tables
  <2> HIDE DEF q
  <2>3. Consistent(q, worker[n], klaidos[n])
    BY <1>1, <2>1 DEF Consistent
  <2>4. Data'
    BY <1>1, <1>5 DEF RequestStop, Data, tables
  <2>5. QED  BY <1>1, <2>1, <2>2, <2>3, <2>4, OneNodeMoves
<1>6. CASE Crash(n)
  <2> DEFINE wk == [w \in Workers |-> Idle]
  <2>1. Off \in Processes /\ wk \in [Workers -> Records]
    BY DEF Off, Idle, Processes, Records, Steps, NoMd5
  <2>2. Consistent(Off, wk, klaidos[n])
    BY DEF Consistent, Off, Idle, Busy
  <2>3. object' \in [Nodes -> [Md5s -> {"none", "good", "bad"}]]
    BY <1>1, <1>6 DEF Crash, Landed, Data
  <2>4. Data'
    BY <1>1, <1>6, <2>3 DEF Crash, Data, tables
  <2>5. QED  BY <1>6, <2>1, <2>2, <2>4, OneNodeMoves DEF Crash, tables
<1>7. QED  BY <1>3, <1>4, <1>5, <1>6 DEF Manage

LEMMA FinishKeeps ==
  ASSUME IInv, NEW n \in Nodes, Finish(n)
  PROVE  IInv'
<1> DEFINE wk == [w \in Workers |-> Idle]
<1>1. Record(n) /\ process[n].running
  BY BackupAssumption DEF Finish, At
<1>2. /\ klaidos' \in [Nodes -> [Md5s -> 0 .. MaxRetries]]
      /\ \A k \in Nodes : k # n => klaidos'[k] = klaidos[k]
      /\ ikelti' \in [Nodes -> SUBSET Md5s]
  BY <1>1, Flushes
<1>3. Data'
  BY <1>2, Types DEF Finish, Data, IInv
<1>4. Off \in Processes /\ wk \in [Workers -> Records]
  BY DEF Off, Idle, Processes, Records, Steps, NoMd5
<1>5. Consistent(Off, wk, klaidos'[n])
  BY DEF Consistent, Off, Idle, Busy
<1>6. QED  BY <1>2, <1>3, <1>4, <1>5, OneNodeMoves DEF Finish

LEMMA LoopKeeps ==
  ASSUME IInv, NEW n \in Nodes, NEW w \in Workers, Loop(n, w)
  PROVE  IInv'
<1>1. process[n].running /\ worker[n][w].step \notin Busy
  BY DEF Loop, FlushAndTake, Take, At, Busy
<1>2. Data /\ process[n] \in Processes /\ Consistent(process[n], worker[n], klaidos[n])
  BY Known
<1>3. PICK p \in Processes :
        /\ p.running /\ Continue(n, w, p)
        /\ klaidos' \in [Nodes -> [Md5s -> 0 .. MaxRetries]]
        /\ \A k \in Nodes : k # n => klaidos'[k] = klaidos[k]
        /\ ikelti' \in [Nodes -> SUBSET Md5s]
        /\ Consistent(p, worker[n], klaidos'[n])
  <2>1. CASE FlushAndTake(n, w)
    BY <1>1, <2>1, Flushes DEF FlushAndTake
  <2>2. CASE Take(n, w)
    BY <1>1, <1>2, <2>2 DEF Take, Data
  <2>3. QED  BY <2>1, <2>2 DEF Loop
<1>4. Data'
  BY <1>2, <1>3 DEF Loop, FlushAndTake, Take, Data
<1>5. PICK q \in Processes, r \in Records :
        /\ process' = [process EXCEPT ![n] = q]
        /\ worker' = [worker EXCEPT ![n][w] = r]
        /\ Consistent(q, [worker[n] EXCEPT ![w] = r], klaidos'[n])
  BY <1>1, <1>3, Continues
<1>6. QED  BY <1>3, <1>4, <1>5, OneWorkerMoves

\* Between the batch and the result a worker keeps its md5 ...
LEMMA StaysBusy ==
  ASSUME IInv, NEW n \in Nodes, NEW w \in Workers, NEW r \in Records,
         worker[n][w].step \in Busy, r.step \in Busy, r.md5 = worker[n][w].md5,
         worker' = [worker EXCEPT ![n][w] = r], UNCHANGED <<process, klaidos>>, Data'
  PROVE  IInv'
<1>1. /\ process[n] \in Processes /\ worker[n] \in [Workers -> Records]
      /\ klaidos[n] \in [Md5s -> 0 .. MaxRetries]
      /\ Consistent(process[n], worker[n], klaidos[n])
  BY Known
<1>2. Consistent(process[n], [worker[n] EXCEPT ![w] = r], klaidos[n])
  BY <1>1, Proceeds
<1>3. process' = [process EXCEPT ![n] = process[n]]
  BY Types DEF IInv
<1>4. QED  BY <1>1, <1>2, <1>3, OneWorkerMoves

\* ... which the result takes over.
LEMMA GetsResult ==
  ASSUME IInv, NEW n \in Nodes, NEW w \in Workers, NEW r \in Records,
         worker[n][w].step \in Busy, r.step \notin Busy, r.md5 = worker[n][w].md5,
         worker' = [worker EXCEPT ![n][w] = r],
         \/ process' = [process EXCEPT ![n].sekmes = @ \union {worker[n][w].md5}]
         \/ process' = [process EXCEPT ![n].klaidos = @ \union {worker[n][w].md5}],
         klaidos' = klaidos, Data'
  PROVE  IInv'
<1> DEFINE m == worker[n][w].md5
<1>1. /\ process[n] \in Processes /\ worker[n] \in [Workers -> Records]
      /\ klaidos[n] \in [Md5s -> 0 .. MaxRetries]
      /\ Consistent(process[n], worker[n], klaidos[n])
  BY Known
<1>2. m \in Md5s  BY <1>1 DEF Consistent
<1>3. PICK q \in Processes :
        /\ process' = [process EXCEPT ![n] = q]
        /\ q.running = process[n].running /\ q.buferis = process[n].buferis
        /\ q.vykdomi = process[n].vykdomi
        /\ q.sekmes \union q.klaidos = process[n].sekmes \union process[n].klaidos \union {m}
  <2>1. CASE process' = [process EXCEPT ![n].sekmes = @ \union {m}]
    <3> DEFINE q == [process[n] EXCEPT !.sekmes = @ \union {m}]
    <3> HIDE DEF m
    <3>1. /\ q \in Processes /\ q.running = process[n].running
          /\ q.buferis = process[n].buferis /\ q.vykdomi = process[n].vykdomi
          /\ q.sekmes = process[n].sekmes \union {m} /\ q.klaidos = process[n].klaidos
      BY <1>1, <1>2 DEF Processes
    <3>2. process' = [process EXCEPT ![n] = q]
      BY <2>1
    <3> HIDE DEF q
    <3>3. QED  BY <3>1, <3>2
  <2>2. CASE process' = [process EXCEPT ![n].klaidos = @ \union {m}]
    <3> DEFINE q == [process[n] EXCEPT !.klaidos = @ \union {m}]
    <3> HIDE DEF m
    <3>1. /\ q \in Processes /\ q.running = process[n].running
          /\ q.buferis = process[n].buferis /\ q.vykdomi = process[n].vykdomi
          /\ q.sekmes = process[n].sekmes /\ q.klaidos = process[n].klaidos \union {m}
      BY <1>1, <1>2 DEF Processes
    <3>2. process' = [process EXCEPT ![n] = q]
      BY <2>2
    <3> HIDE DEF q
    <3>3. QED  BY <3>1, <3>2
  <2>3. QED  BY <2>1, <2>2
<1>4. Consistent(q, [worker[n] EXCEPT ![w] = r], klaidos[n])
  BY <1>1, <1>3, HasResult
<1>5. QED  BY <1>3, <1>4, OneWorkerMoves

LEMMA FetchKeeps ==
  ASSUME IInv, NEW n \in Nodes, NEW w \in Workers, Fetch(n, w)
  PROVE  IInv'
<1> DEFINE m == worker[n][w].md5
           S(step) == [worker[n][w] EXCEPT !.step = step]
<1>1. /\ Data /\ worker[n][w] \in Records
      /\ Consistent(process[n], worker[n], klaidos[n])
  BY Known
<1>2. \A step \in Steps : S(step) \in Records /\ S(step).md5 = m /\ S(step).step = step
  BY <1>1 DEF Records
<1>3. worker[n][w].step \in {"fetching", "spilling", "spilled"}
  BY DEF Fetch, Skip, Spill, MayFetch, FetchSmall, FetchBig, ReadTemp, FetchFails, At
<1>4. worker[n][w].step \in Busy  BY <1>3 DEF Busy
<1>5. m \in Md5s  BY <1>1, <1>4 DEF Consistent
<1>6. CASE Skip(n, w)
  <2>1. Data'  BY <1>1, <1>6 DEF Skip, Data, tables
  <2>2. worker' = [worker EXCEPT ![n][w] = S("finished")]
    BY <1>6 DEF Skip, Goes, Becomes
  <2>3. "finished" \in Steps /\ "finished" \notin Busy  BY DEF Steps, Busy
  <2> HIDE DEF S
  <2>4. klaidos' = klaidos /\ process' = [process EXCEPT ![n].sekmes = @ \union {m}]
    BY <1>6 DEF Skip, tables, Succeeds, Md5
  <2>5. PICK r \in Records : /\ r.step \notin Busy /\ r.md5 = worker[n][w].md5
                             /\ worker' = [worker EXCEPT ![n][w] = r]
    BY <1>2, <2>2, <2>3
  <2>6. QED  BY <1>4, <2>1, <2>4, <2>5, GetsResult
<1>7. CASE Spill(n, w)
  <2>1. Data'  BY <1>1, <1>5, <1>7 DEF Spill, Data, tables, Md5
  <2>2. worker' = [worker EXCEPT ![n][w] = S("spilling")]
    BY <1>7 DEF Spill, Goes, Becomes
  <2>3. "spilling" \in Steps /\ "spilling" \in Busy  BY DEF Steps, Busy
  <2> HIDE DEF S
  <2>4. QED  BY <1>2, <1>4, <1>7, <2>1, <2>2, <2>3, StaysBusy DEF Spill, tables
<1>8. CASE FetchSmall(n, w)
  <2>1. Data'  BY <1>1, <1>8 DEF FetchSmall, Data, tables
  <2>2. worker' = [worker EXCEPT ![n][w] = S("storing")]
    BY <1>8 DEF FetchSmall, Goes, Becomes
  <2>3. "storing" \in Steps /\ "storing" \in Busy  BY DEF Steps, Busy
  <2> HIDE DEF S
  <2>4. QED  BY <1>2, <1>4, <1>8, <2>1, <2>2, <2>3, StaysBusy DEF FetchSmall, tables
<1>9. CASE FetchBig(n, w)
  <2>1. temp' \in [Md5s -> [by : Nodes \union {NoMd5}, whole : BOOLEAN]]
    BY <1>1, <1>5, <1>9 DEF FetchBig, Data, Md5
  <2>2. Data'  BY <1>1, <1>9, <2>1 DEF FetchBig, Data, tables
  <2>3. worker' = [worker EXCEPT ![n][w] = S("spilled")]
    BY <1>9 DEF FetchBig, Goes, Becomes
  <2>4. "spilled" \in Steps /\ "spilled" \in Busy  BY DEF Steps, Busy
  <2> HIDE DEF S
  <2>5. QED  BY <1>2, <1>4, <1>9, <2>2, <2>3, <2>4, StaysBusy DEF FetchBig, tables
<1>10. CASE ReadTemp(n, w)
  <2> DEFINE r == [worker[n][w] EXCEPT !.step = "storing", !.good = temp[m].whole]
  <2>1. temp[m].whole \in BOOLEAN  BY <1>1, <1>5 DEF Data
  <2>2. r \in Records /\ r.md5 = m /\ r.step = "storing"
    BY <1>1, <2>1 DEF Records, Steps
  <2>3. Data'  BY <1>1, <1>10 DEF ReadTemp, Data, tables
  <2>4. worker' = [worker EXCEPT ![n][w] = r]
    BY <1>10 DEF ReadTemp, Becomes, Md5
  <2>5. "storing" \in Busy  BY DEF Busy
  <2> HIDE DEF r
  <2>6. QED  BY <1>4, <1>10, <2>2, <2>3, <2>4, <2>5, StaysBusy DEF ReadTemp, tables
<1>11. CASE FetchFails(n, w)
  <2>1. temp' \in [Md5s -> [by : Nodes \union {NoMd5}, whole : BOOLEAN]]
    BY <1>1, <1>5, <1>11 DEF FetchFails, Data, Md5, NoFile
  <2>2. Data'  BY <1>1, <1>11, <2>1 DEF FetchFails, Data, tables
  <2>3. worker' = [worker EXCEPT ![n][w] = S("finished")]
    BY <1>11 DEF FetchFails, Goes, Becomes
  <2>4. "finished" \in Steps /\ "finished" \notin Busy  BY DEF Steps, Busy
  <2> HIDE DEF S
  <2>5. klaidos' = klaidos /\ process' = [process EXCEPT ![n].klaidos = @ \union {m}]
    BY <1>11 DEF FetchFails, tables, Fails, Md5
  <2>6. PICK r \in Records : /\ r.step \notin Busy /\ r.md5 = worker[n][w].md5
                             /\ worker' = [worker EXCEPT ![n][w] = r]
    BY <1>2, <2>3, <2>4
  <2>7. QED  BY <1>4, <2>2, <2>5, <2>6, GetsResult
<1>12. QED  BY <1>6, <1>7, <1>8, <1>9, <1>10, <1>11 DEF Fetch

LEMMA UploadKeeps ==
  ASSUME IInv, NEW n \in Nodes, NEW w \in Workers, Upload(n, w)
  PROVE  IInv'
<1> DEFINE m == worker[n][w].md5
           S(step) == [worker[n][w] EXCEPT !.step = step]
<1>1. /\ Data /\ worker[n][w] \in Records
      /\ Consistent(process[n], worker[n], klaidos[n])
      /\ process[n] \in Processes /\ worker[n] \in [Workers -> Records]
      /\ klaidos[n] \in [Md5s -> 0 .. MaxRetries]
  BY Known
<1>2. \A step \in Steps : S(step) \in Records /\ S(step).md5 = m /\ S(step).step = step
  BY <1>1 DEF Records
<1>3. CASE Store(n, w) \/ StoreFails(n, w)
  <2>1. worker[n][w].step \in Busy
    BY <1>3 DEF Store, StoreFails, At, Busy
  <2>2. object' \in [Nodes -> [Md5s -> {"none", "good", "bad"}]]
    BY <1>1, <1>3 DEF Store, StoreFails, Landed, Data
  <2>3. Data'
    BY <1>1, <1>3, <2>2 DEF Store, StoreFails, Data, tables
  <2>4. PICK step \in {"removing", "finished"} : worker' = [worker EXCEPT ![n][w] = S(step)]
    BY <1>3 DEF Store, StoreFails, Leave, Goes, Becomes
  <2>5. step \in Steps /\ step \notin Busy  BY DEF Steps, Busy
  <2>6. klaidos' = klaidos
        /\ \/ process' = [process EXCEPT ![n].sekmes = @ \union {m}]
           \/ process' = [process EXCEPT ![n].klaidos = @ \union {m}]
    BY <1>3 DEF Store, StoreFails, tables, Succeeds, Fails, Md5
  <2> HIDE DEF S
  <2>7. PICK r \in Records : /\ r.step \notin Busy /\ r.md5 = worker[n][w].md5
                             /\ worker' = [worker EXCEPT ![n][w] = r]
    BY <1>2, <2>4, <2>5
  <2>8. QED  BY <2>1, <2>3, <2>6, <2>7, GetsResult
<1>4. CASE Removed(n, w)
  <2>1. worker[n][w].step = "removing" /\ worker[n][w].step \notin Busy
    BY <1>4 DEF Removed, At, Busy
  <2>2. temp' \in [Md5s -> [by : Nodes \union {NoMd5}, whole : BOOLEAN]]
    BY <1>1, <1>4 DEF Removed, Data, NoFile
  <2>3. Data'  BY <1>1, <1>4, <2>2 DEF Removed, Data, tables
  <2>4. worker' = [worker EXCEPT ![n][w] = S("finished")]
        /\ process' = [process EXCEPT ![n] = process[n]] /\ klaidos' = klaidos
    BY <1>4, Types DEF Removed, Goes, Becomes, tables, IInv
  <2>5. "finished" \in Steps /\ "finished" \notin Busy \union {"removing"}
    BY DEF Steps, Busy
  <2> HIDE DEF S
  <2>6. Consistent(process[n], [worker[n] EXCEPT ![w] = S("finished")], klaidos[n])
    BY <1>1, <1>2, <2>1, <2>5, Rests
  <2>7. QED  BY <1>1, <1>2, <2>3, <2>4, <2>5, <2>6, OneWorkerMoves
<1>5. QED  BY <1>3, <1>4 DEF Upload

\* IInv is inductive.
LEMMA Inductive == ASSUME IInv, [Next]_vars PROVE IInv'
<1>1. CASE UNCHANGED vars
  BY <1>1, OnlyDataMoves DEF vars, tables, IInv, TypeOK, Data
<1>2. CASE \E m \in Md5s : Enqueue(m)
  <2>1. PICK m \in Md5s : Enqueue(m)  BY <1>2
  <2>2. Data'  BY <2>1 DEF IInv, TypeOK, Data, Enqueue
  <2>3. QED  BY <2>1, <2>2, OnlyDataMoves DEF Enqueue
<1>3. CASE \E n \in Nodes : Manage(n) \/ ValytiKlaidas(n) \/ Finish(n)
  <2>1. PICK n \in Nodes : Manage(n) \/ ValytiKlaidas(n) \/ Finish(n)  BY <1>3
  <2>2. QED  BY <2>1, OthersKeep, FinishKeeps
<1>4. CASE \E n \in Nodes, w \in Workers : Work(n, w)
  <2>1. PICK n \in Nodes, w \in Workers : Work(n, w)  BY <1>4
  <2>2. QED  BY <2>1, LoopKeeps, FetchKeeps, UploadKeeps DEF Work
<1>5. QED  BY <1>1, <1>2, <1>3, <1>4 DEF Next

THEOREM Invariance == Spec => []IInv
BY Initially, Inductive, PTL DEF Spec

\* The types of the backup, for any files, nodes, workers and limits.
THEOREM TypeCorrect == Spec => []TypeOK
BY Invariance, PTL DEF IInv

\* In every process vykdomi is exactly what is in hand, and nothing is in
\* hand twice (paimtiKita, papildyti and flush), however the cursor wraps.
THEOREM NobodyTakesTwice == Spec => []OneHolder
<1>1. IInv => OneHolder
  <2> SUFFICES ASSUME IInv, NEW n \in Nodes
               PROVE  /\ process[n].vykdomi = InHand(n)
                      /\ \A v, w \in Active(n) : v # w => Md5(n, v) # Md5(n, w)
                      /\ \A w \in Active(n) :
                           Md5(n, w) \notin process[n].buferis \union Results(n)
    BY DEF OneHolder
  <2>1. Consistent(process[n], worker[n], klaidos[n])  BY DEF IInv, AllConsistent
  <2>2. QED  BY <2>1 DEF Consistent, InHand, Active, Results, Md5, Busy
<1>2. QED  BY Invariance, <1>1, PTL

-----------------------------------------------------------------------------
(* When a process takes itself for done.                                   *)

\* Only papildyti sets baigta, and only when nothing is left to upload.
LEMMA DoneWhenEmpty ==
  ASSUME IInv, Next, NEW n \in Nodes, ~process[n].baigta, process'[n].baigta
  PROVE  Neikelti(n) = {} /\ eile' = eile
<1>1. process \in [Nodes -> Processes]
  BY Types DEF IInv
<1>2. CASE \E m \in Md5s : Enqueue(m)
  BY <1>2 DEF Enqueue
<1>3. CASE \E k \in Nodes : Manage(k) \/ ValytiKlaidas(k) \/ Finish(k)
  <2>1. PICK k \in Nodes : Manage(k) \/ ValytiKlaidas(k) \/ Finish(k)  BY <1>3
  <2>2. PICK q : /\ process' = [process EXCEPT ![k] = q] \/ process' = process
                 /\ q.baigta => process[k].baigta
    <3>1. CASE ValytiKlaidas(k)
      BY <3>1 DEF ValytiKlaidas
    <3>2. CASE Crash(k) \/ Finish(k)
      <4>1. process' = [process EXCEPT ![k] = Off] /\ ~Off.baigta
        BY <3>2 DEF Crash, Finish, Off
      <4>2. QED  BY <4>1
    <3>3. CASE RequestStop(k)
      <4> DEFINE q == [process[k] EXCEPT !.stopping = TRUE]
      <4>1. process' = [process EXCEPT ![k] = q] /\ q.baigta = process[k].baigta
        BY <1>1, <3>3 DEF RequestStop, Processes
      <4>2. QED  BY <4>1
    <3>4. CASE Start(k, TRUE) \/ Start(k, FALSE)
      <4>1. PICK check \in BOOLEAN : Start(k, check)  BY <3>4
      <4> DEFINE q == [Off EXCEPT !.running = TRUE, !.check = check]
      <4>2. process' = [process EXCEPT ![k] = q] /\ ~q.baigta
        BY <4>1 DEF Start, Off
      <4>3. QED  BY <4>2
    <3>5. QED  BY <2>1, <3>1, <3>2, <3>3, <3>4 DEF Manage
  <2>3. QED  BY <1>1, <2>2
<1>4. CASE \E k \in Nodes, w \in Workers : Work(k, w)
  <2>1. PICK k \in Nodes, w \in Workers : Work(k, w)  BY <1>4
  <2>2. CASE Loop(k, w)
    <3>1. process[k].running /\ worker[k][w].step \notin Busy
      BY <2>2 DEF Loop, FlushAndTake, Take, At, Busy
    <3>2. process[k] \in Processes /\ Data
          /\ Consistent(process[k], worker[k], klaidos[k])
      BY Known
    <3>3. PICK p \in Processes :
            /\ p.running /\ p.baigta = process[k].baigta /\ Continue(k, w, p)
            /\ klaidos' \in [Nodes -> [Md5s -> 0 .. MaxRetries]]
            /\ Consistent(p, worker[k], klaidos'[k])
      <4>1. CASE FlushAndTake(k, w)
        <5>1. Flushed(k).baigta = process[k].baigta  BY <3>2 DEF Flushed, Processes
        <5>2. QED  BY <3>1, <4>1, <5>1, Flushes DEF FlushAndTake
      <4>2. CASE Take(k, w)
        BY <3>1, <3>2, <4>2 DEF Take, Data
      <4>3. QED  BY <2>2, <4>1, <4>2 DEF Loop
    <3>4. PICK q \in Processes :
            /\ process' = [process EXCEPT ![k] = q]
            /\ q.baigta /\ ~p.baigta => Neikelti(k) = {}
      BY <3>1, <3>3, Continues
    <3>5. k = n  BY <1>1, <3>4
    <3>6. Neikelti(n) = {}  BY <1>1, <3>3, <3>4, <3>5
    <3>7. eile' = eile  BY <2>2 DEF Loop, FlushAndTake, Take
    <3>8. QED  BY <3>6, <3>7
  <2>3. CASE Fetch(k, w) \/ Upload(k, w)
    <3>1. \/ process' = process
          \/ process' = Succeeds(k, Md5(k, w)) \/ process' = Fails(k, Md5(k, w))
      BY <2>3 DEF Fetch, Upload, Skip, Spill, FetchSmall, FetchBig, ReadTemp, FetchFails,
                  Store, StoreFails, Removed
    <3>2. process'[n].baigta = process[n].baigta
      BY <1>1, <3>1 DEF Succeeds, Fails, Processes
    <3>3. QED  BY <3>2
  <2>4. QED  BY <2>1, <2>2, <2>3 DEF Work
<1>5. QED  BY <1>2, <1>3, <1>4 DEF Next

\* A process that takes itself for done has nothing left of the queue
\* (papildyti), for any batch size and any number of workers.
THEOREM DoneIsDone == Spec => DoneMeansDone
<1>1. ASSUME IInv, IInv', Next, NEW n \in Nodes,
             ~process[n].baigta, process'[n].baigta, NEW m \in eile
      PROVE  m \in ikelti'[n] \/ klaidos'[n][m] = MaxRetries
  <2>1. Neikelti(n) = {}  BY <1>1, DoneWhenEmpty
  <2>2. m \in ikelti'[n] \/ ~(klaidos'[n][m] < MaxRetries)
    BY <2>1 DEF Neikelti
  <2>3. klaidos'[n][m] \in 0 .. MaxRetries /\ MaxRetries \in Nat
    BY <1>1, BackupAssumption DEF IInv, TypeOK
  <2>4. QED  BY <2>2, <2>3
<1>2. ASSUME IInv, IInv', [Next]_vars
      PROVE  [\A n \in Nodes : ~process[n].baigta /\ process'[n].baigta =>
                \A m \in eile : m \in ikelti'[n] \/ klaidos'[n][m] = MaxRetries]_vars
  BY <1>1, <1>2
<1>3. QED  BY Invariance, <1>2, PTL DEF Spec, DoneMeansDone

-----------------------------------------------------------------------------
(* What is recorded is stored, unless two nodes' processes had it in their *)
(* common file: the file of any other md5 has one process that writes it.  *)

\* Outside shared no object is bad and no body is wrong; what is marked or
\* has its result is there; a file that is open was opened by the process
\* that is at it, and once spilled it is whole.
NoBad    == \A n \in Nodes, m \in Md5s : object[n][m] = "bad" => m \in shared
Marks    == \A n \in Nodes : \A m \in ikelti[n] : object[n][m] # "none"
Sent     == \A n \in Nodes : \A m \in process[n].sekmes : object[n][m] # "none"
Bodies   == \A n \in Nodes, w \in Workers :
              worker[n][w].good = TRUE \/ worker[n][w].md5 \in shared
Unopened == \A m \in Md5s : temp[m].by = NoMd5 => temp[m].whole = FALSE
Own(n, step, m) ==
    step \in {"spilling", "spilled"} /\ temp[m].by # NoMd5 /\ m \notin shared =>
      temp[m].by = n /\ (step = "spilled" => temp[m].whole = TRUE)
Opened   == \A n \in Nodes, w \in Workers : Own(n, worker[n][w].step, worker[n][w].md5)

Good == NoBad /\ Marks /\ Sent /\ Bodies /\ Unopened /\ Opened

\* No object goes, and only a shared file makes one bad.
Better ==
    \A n \in Nodes, m \in Md5s :
      /\ object[n][m] # "none" => object'[n][m] # "none"
      /\ object'[n][m] = "bad" => object[n][m] = "bad" \/ m \in shared

\* What a worker stores is there, cut short or not, and right if its body is.
LEMMA Landing ==
  ASSUME IInv, Bodies, NEW n \in Nodes, NEW cut \in SUBSET Workers, Landed(n, cut)
  PROVE  /\ Better
         /\ \A w \in cut : Md5(n, w) \in Md5s => object'[n][Md5(n, w)] # "none"
<1>1. object \in [Nodes -> [Md5s -> {"none", "good", "bad"}]]
  BY DEF IInv, TypeOK
<1>2. \A w \in cut : worker[n][w].good = TRUE \/ Md5(n, w) \in shared
  BY DEF Bodies, Md5
<1>3. \A m \in Md5s : object'[n][m] =
        IF \E w \in cut : Md5(n, w) = m
          THEN IF \E w \in cut : Md5(n, w) = m /\ worker[n][w].good THEN "good" ELSE "bad"
          ELSE object[n][m]
  BY <1>1 DEF Landed
<1>4. \A k \in Nodes : k # n => object'[k] = object[k]
  BY <1>1 DEF Landed
<1>5. ASSUME NEW m \in Md5s, \E w \in cut : Md5(n, w) = m
      PROVE  object'[n][m] # "none" /\ (object'[n][m] = "bad" => m \in shared)
  <2>1. CASE \E w \in cut : Md5(n, w) = m /\ worker[n][w].good
    BY <1>3, <1>5, <2>1
  <2>2. CASE ~ \E w \in cut : Md5(n, w) = m /\ worker[n][w].good
    BY <1>2, <1>3, <1>5, <2>2
  <2>3. QED  BY <2>1, <2>2
<1>6. \A m \in Md5s : ~(\E w \in cut : Md5(n, w) = m) => object'[n][m] = object[n][m]
  BY <1>3
<1>7. QED  BY <1>4, <1>5, <1>6 DEF Better

\* Objects that get better keep what rests on them.
LEMMA BetterKeeps ==
  ASSUME IInv, Good, Better, shared' = shared
  PROVE  /\ NoBad'
         /\ ikelti' = ikelti => Marks'
         /\ process' = process => Sent'
<1>1. /\ \A n \in Nodes : ikelti[n] \subseteq Md5s /\ process[n].sekmes \subseteq Md5s
  BY DEF IInv, TypeOK
<1>2. QED  BY <1>1 DEF Good, NoBad, Marks, Sent, Better

\* A worker that is not left with a file, opened or spilled.
LEMMA WorkerKeeps ==
  ASSUME IInv, Good, NEW n \in Nodes, NEW w \in Workers, NEW r,
         r.good = TRUE \/ r.md5 \in shared, r.step \notin {"spilling", "spilled"},
         worker' = [worker EXCEPT ![n][w] = r], temp' = temp, shared' = shared
  PROVE  Bodies' /\ Unopened' /\ Opened'
<1>1. worker \in [Nodes -> [Workers -> Records]]
  BY Types DEF IInv
<1>2. \A k \in Nodes, v \in Workers :
        worker'[k][v] = IF k = n /\ v = w THEN r ELSE worker[k][v]
  BY <1>1
<1>3. Bodies' /\ Unopened'  BY <1>2 DEF Good, Bodies, Unopened
<1>4. ASSUME NEW k \in Nodes, NEW v \in Workers
      PROVE  Own(k, worker[k][v].step, worker[k][v].md5)'
  <2>1. CASE k = n /\ v = w
    BY <1>2, <2>1 DEF Own
  <2>2. CASE ~(k = n /\ v = w)
    BY <1>2, <2>2 DEF Own, Good, Opened
  <2>3. QED  BY <2>1, <2>2
<1>5. Opened'  BY <1>4 DEF Opened
<1>6. QED  BY <1>3, <1>5

\* Files that go, and workers that leave theirs, keep what is said of files.
LEMMA FilesGo ==
  ASSUME IInv, Good, shared' = shared,
         \A m \in Md5s : temp'[m] = temp[m] \/ (temp'[m].by = NoMd5 /\ temp'[m].whole = FALSE),
         \A k \in Nodes, v \in Workers :
           \/ worker'[k][v] = worker[k][v]
           \/ /\ worker'[k][v].good = TRUE \/ worker'[k][v].md5 \in shared
              /\ worker'[k][v].step \notin {"spilling", "spilled"}
  PROVE  Bodies' /\ Unopened' /\ Opened'
<1>1. \A k \in Nodes, v \in Workers :
        worker[k][v].step \in {"spilling", "spilled"} => worker[k][v].md5 \in Md5s
  BY Known DEF Consistent, Busy
<1>2. Bodies'  BY DEF Good, Bodies
<1>3. Unopened'  BY DEF Good, Unopened
<1>4. ASSUME NEW k \in Nodes, NEW v \in Workers
      PROVE  Own(k, worker[k][v].step, worker[k][v].md5)'
  <2>1. CASE worker'[k][v].step \notin {"spilling", "spilled"}
    BY <2>1 DEF Own
  <2>2. CASE worker'[k][v] = worker[k][v] /\ worker[k][v].step \in {"spilling", "spilled"}
    <3> DEFINE m == worker[k][v].md5
    <3>1. m \in Md5s /\ Own(k, worker[k][v].step, m)
      BY <1>1, <2>2 DEF Good, Opened
    <3>2. temp'[m] = temp[m] \/ temp'[m].by = NoMd5
      BY <3>1
    <3>3. Own(k, worker[k][v].step, m)'
      <4>1. CASE temp'[m] = temp[m]  BY <2>2, <3>1, <4>1 DEF Own
      <4>2. CASE temp'[m].by = NoMd5  BY <2>2, <4>2 DEF Own
      <4>3. QED  BY <3>2, <4>1, <4>2
    <3>4. QED  BY <3>3
  <2>3. QED  BY <2>1, <2>2
<1>5. QED  BY <1>2, <1>3, <1>4 DEF Opened

LEMMA ManageGood ==
  ASSUME IInv, Good, NEW n \in Nodes, Manage(n) \/ ValytiKlaidas(n) \/ Finish(n)
  PROVE  Good'
<1>1. /\ process \in [Nodes -> Processes] /\ worker \in [Nodes -> [Workers -> Records]]
      /\ ikelti \in [Nodes -> SUBSET Md5s] /\ temp \in [Md5s -> [by : Nodes \union {NoMd5}, whole : BOOLEAN]]
  BY Types DEF IInv, Data
<1>2. CASE ValytiKlaidas(n)
  BY <1>2 DEF ValytiKlaidas, Good, NoBad, Marks, Sent, Bodies, Unopened, Opened, Own
<1>3. CASE RequestStop(n)
  <2>1. \A k \in Nodes : process'[k].sekmes = process[k].sekmes
    BY <1>1, <1>3 DEF RequestStop, Processes
  <2>2. QED
    BY <1>3, <2>1 DEF RequestStop, tables, Good, NoBad, Marks, Sent, Bodies, Unopened, Opened, Own
<1>4. CASE Start(n, TRUE) \/ Start(n, FALSE)
  <2>1. \A k \in Nodes : process'[k].sekmes \subseteq process[k].sekmes
    <3>1. PICK check \in BOOLEAN : Start(n, check)  BY <1>4
    <3> DEFINE q == [Off EXCEPT !.running = TRUE, !.check = check]
    <3>2. process' = [process EXCEPT ![n] = q] /\ q.sekmes = {}
      BY <3>1 DEF Start, Off
    <3> HIDE DEF q
    <3>3. QED  BY <1>1, <3>2
  <2>2. \A m \in Md5s : temp'[m].by = NoMd5 /\ temp'[m].whole = FALSE
    BY <1>4 DEF Start, NoFile
  <2>3. UNCHANGED <<object, ikelti, worker, shared>>
    BY <1>4 DEF Start, tables
  <2>4. NoBad' /\ Marks' /\ Sent'
    BY <2>1, <2>3 DEF Good, NoBad, Marks, Sent
  <2>5. Bodies' /\ Unopened' /\ Opened'  BY <2>2, <2>3, FilesGo
  <2>6. QED  BY <2>4, <2>5 DEF Good
<1>5. CASE Crash(n)
  <2>1. PICK cut \in SUBSET Storing(n) : Landed(n, cut)  BY <1>5 DEF Crash
  <2>2. Better  BY <2>1, Landing DEF Storing, Good
  <2>3. NoBad' /\ Marks'  BY <1>5, <2>2, BetterKeeps DEF Crash, tables
  <2>4. \A k \in Nodes : process'[k].sekmes \subseteq process[k].sekmes
    BY <1>1, <1>5 DEF Crash, Off, Processes
  <2>5. \A k \in Nodes : process[k].sekmes \subseteq Md5s  BY <1>1 DEF Processes
  <2>6. Sent'  BY <2>2, <2>4, <2>5 DEF Good, Sent, Better
  <2>7. \A k \in Nodes, w \in Workers :
          worker'[k][w] = IF k = n THEN Idle ELSE worker[k][w]
    BY <1>1, <1>5 DEF Crash
  <2>8. Bodies' /\ Unopened' /\ Opened'
    <3>1. temp' = temp /\ shared' = shared  BY <1>5 DEF Crash
    <3>2. Idle.good = TRUE /\ Idle.step \notin {"spilling", "spilled"}  BY DEF Idle
    <3>3. QED  BY <2>7, <3>1, <3>2, FilesGo
  <2>9. QED  BY <2>3, <2>6, <2>8 DEF Good
<1>6. CASE Finish(n)
  <2>1. \A k \in Nodes : ikelti'[k] \subseteq ikelti[k] \union process[k].sekmes
    BY <1>1, <1>6 DEF Finish, Record
  <2>2. \A k \in Nodes : process'[k].sekmes \subseteq process[k].sekmes
    BY <1>1, <1>6 DEF Finish, Off, Processes
  <2>3. NoBad' /\ Marks' /\ Sent'
    BY <1>6, <2>1, <2>2 DEF Finish, Good, NoBad, Marks, Sent
  <2>4. \A k \in Nodes, w \in Workers :
          worker'[k][w] = IF k = n THEN Idle ELSE worker[k][w]
    BY <1>1, <1>6 DEF Finish
  <2>5. Bodies' /\ Unopened' /\ Opened'
    <3>1. temp' = temp /\ shared' = shared  BY <1>6 DEF Finish
    <3>2. Idle.good = TRUE /\ Idle.step \notin {"spilling", "spilled"}  BY DEF Idle
    <3>3. QED  BY <2>4, <3>1, <3>2, FilesGo
  <2>6. QED  BY <2>3, <2>5 DEF Good
<1>7. QED  BY <1>2, <1>3, <1>4, <1>5, <1>6 DEF Manage

LEMMA LoopGood ==
  ASSUME IInv, Good, NEW n \in Nodes, NEW w \in Workers, Loop(n, w)
  PROVE  Good'
<1>1. process[n].running /\ worker[n][w].step \notin Busy
  BY DEF Loop, FlushAndTake, Take, At, Busy
<1>2. /\ Data /\ process[n] \in Processes
      /\ Consistent(process[n], worker[n], klaidos[n])
      /\ process \in [Nodes -> Processes]
  BY Known, Types DEF IInv
<1>3. PICK p \in Processes :
        /\ p.running /\ Continue(n, w, p) /\ p.sekmes \subseteq process[n].sekmes
        /\ klaidos' \in [Nodes -> [Md5s -> 0 .. MaxRetries]]
        /\ Consistent(p, worker[n], klaidos'[n])
  <2>1. CASE FlushAndTake(n, w)
    <3>1. Flushed(n).sekmes = {}  BY <1>2 DEF Flushed, Processes
    <3>2. QED  BY <1>1, <2>1, <3>1, Flushes DEF FlushAndTake
  <2>2. CASE Take(n, w)
    BY <1>1, <1>2, <2>2 DEF Take, Data
  <2>3. QED  BY <2>1, <2>2 DEF Loop
<1>4. PICK q \in Processes, r \in Records :
        /\ process' = [process EXCEPT ![n] = q]
        /\ worker' = [worker EXCEPT ![n][w] = r]
        /\ Consistent(q, [worker[n] EXCEPT ![w] = r], klaidos'[n])
        /\ q.sekmes = p.sekmes
        /\ r.good = TRUE /\ r.step \in {"idle", "returned", "fetching"}
        /\ q.baigta /\ ~p.baigta => Neikelti(n) = {}
  BY <1>1, <1>3, Continues
<1>5. UNCHANGED <<object, temp, shared>>  BY DEF Loop, FlushAndTake, Take
<1>6. \A k \in Nodes : ikelti'[k] \subseteq ikelti[k] \union process[k].sekmes
  BY <1>2 DEF Loop, FlushAndTake, Take, Record, Data
<1>7. \A k \in Nodes : process'[k].sekmes \subseteq process[k].sekmes
  BY <1>2, <1>3, <1>4
<1>8. NoBad' /\ Marks' /\ Sent'
  BY <1>5, <1>6, <1>7 DEF Good, NoBad, Marks, Sent
<1>9. Bodies' /\ Unopened' /\ Opened'
  BY <1>4, <1>5, WorkerKeeps
<1>10. QED  BY <1>8, <1>9 DEF Good

LEMMA FetchGood ==
  ASSUME IInv, Good, NEW n \in Nodes, NEW w \in Workers, Fetch(n, w)
  PROVE  Good'
<1> DEFINE m == worker[n][w].md5
           S(step) == [worker[n][w] EXCEPT !.step = step]
<1>1. /\ Data /\ worker[n][w] \in Records
      /\ Consistent(process[n], worker[n], klaidos[n])
      /\ process \in [Nodes -> Processes]
      /\ worker \in [Nodes -> [Workers -> Records]]
  BY Known, Types DEF IInv
<1>2. \A step \in Steps :
        /\ S(step).md5 = m /\ S(step).step = step
        /\ S(step).good = TRUE \/ m \in shared
  BY <1>1 DEF Records, Good, Bodies
<1>3. worker[n][w].step \in {"fetching", "spilling", "spilled"}
  BY DEF Fetch, Skip, Spill, MayFetch, FetchSmall, FetchBig, ReadTemp, FetchFails, At
<1>4. m \in Md5s  BY <1>1, <1>3 DEF Consistent, Busy
<1>5. \A v \in Workers :
        worker[n][v].step \in {"spilling", "spilled"} /\ v # w => worker[n][v].md5 # m
  BY <1>1, <1>3 DEF Consistent, Busy
<1>6. \A k \in Nodes, v \in Workers :
        worker[k][v].step \in {"spilling", "spilled"} => worker[k][v].md5 \in Md5s
  BY Known DEF Consistent, Busy
<1>7. object' = object /\ ikelti' = ikelti /\ shared \subseteq shared'
  BY DEF Fetch, Skip, Spill, FetchSmall, FetchBig, ReadTemp, FetchFails, tables
<1>8. NoBad' /\ Marks'  BY <1>7 DEF Good, NoBad, Marks
<1>9. CASE Skip(n, w)
  <2>1. object[n][m] # "none"
    BY <1>9 DEF Skip, Md5
  <2>2. \A k \in Nodes : process'[k].sekmes \subseteq
          IF k = n THEN process[k].sekmes \union {m} ELSE process[k].sekmes
    BY <1>1, <1>9 DEF Skip, Succeeds, Md5, Processes
  <2>3. Sent'  BY <1>7, <2>1, <2>2 DEF Good, Sent
  <2>4. worker' = [worker EXCEPT ![n][w] = S("finished")]
    BY <1>9 DEF Skip, Goes, Becomes
  <2>5. /\ S("finished").good = TRUE \/ S("finished").md5 \in shared
        /\ S("finished").step \notin {"spilling", "spilled"}
    BY <1>2 DEF Steps
  <2> HIDE DEF S
  <2>6. Bodies' /\ Unopened' /\ Opened'
    BY <1>9, <2>4, <2>5, WorkerKeeps DEF Skip
  <2>7. QED  BY <1>8, <2>3, <2>6 DEF Good
<1>10. CASE FetchSmall(n, w)
  <2>1. Sent'  BY <1>7, <1>10 DEF FetchSmall, Good, Sent
  <2>2. worker' = [worker EXCEPT ![n][w] = S("storing")]
    BY <1>10 DEF FetchSmall, Goes, Becomes
  <2>3. /\ S("storing").good = TRUE \/ S("storing").md5 \in shared
        /\ S("storing").step \notin {"spilling", "spilled"}
    BY <1>2 DEF Steps
  <2> HIDE DEF S
  <2>4. Bodies' /\ Unopened' /\ Opened'
    BY <1>10, <2>2, <2>3, WorkerKeeps DEF FetchSmall
  <2>5. QED  BY <1>8, <2>1, <2>4 DEF Good
<1>11. CASE ReadTemp(n, w)
  <2>1. Sent'  BY <1>7, <1>11 DEF ReadTemp, Good, Sent
  <2>2. temp[m].whole = TRUE \/ m \in shared
    <3>1. temp[m] # NoFile /\ worker[n][w].step = "spilled"
      BY <1>11 DEF ReadTemp, At, Md5
    <3>2. temp[m] \in [by : Nodes \union {NoMd5}, whole : BOOLEAN]
      BY <1>1, <1>4 DEF Data
    <3>3. temp[m].by = NoMd5 => temp[m] = NoFile
      BY <1>4, <3>2 DEF Good, Unopened, NoFile
    <3>4. Own(n, "spilled", m)  BY <3>1 DEF Good, Opened
    <3>5. QED  BY <3>1, <3>3, <3>4 DEF Own
  <2> DEFINE r == [worker[n][w] EXCEPT !.step = "storing", !.good = temp[m].whole]
  <2>3. worker' = [worker EXCEPT ![n][w] = r]
    BY <1>11 DEF ReadTemp, Becomes, Md5
  <2>4. (r.good = TRUE \/ r.md5 \in shared) /\ r.step \notin {"spilling", "spilled"}
    BY <1>1, <2>2 DEF Records
  <2> HIDE DEF r
  <2>5. Bodies' /\ Unopened' /\ Opened'
    BY <1>11, <2>3, <2>4, WorkerKeeps DEF ReadTemp
  <2>6. QED  BY <1>8, <2>1, <2>5 DEF Good
<1>12. CASE Spill(n, w)
  <2>1. Sent'  BY <1>7, <1>12 DEF Spill, Good, Sent
  <2>2. \A k \in Nodes, v \in Workers :
          worker'[k][v] = IF k = n /\ v = w THEN S("spilling") ELSE worker[k][v]
    BY <1>1, <1>12 DEF Spill, Goes, Becomes
  <2>3. /\ S("spilling").good = TRUE \/ S("spilling").md5 \in shared
        /\ S("spilling").step = "spilling" /\ S("spilling").md5 = m
    BY <1>2 DEF Steps
  <2>4. temp'[m].by = n /\ \A k \in Md5s : k # m => temp'[k] = temp[k]
    BY <1>1, <1>4, <1>12 DEF Spill, Md5, Data
  <2> HIDE DEF S
  <2>5. Bodies'  BY <1>7, <2>2, <2>3 DEF Good, Bodies
  <2>6. Unopened'
    BY <2>4, BackupAssumption DEF Good, Unopened, NoMd5
  <2>7. Opened'
    <3>1. ASSUME NEW k \in Nodes, NEW v \in Workers
          PROVE  Own(k, worker[k][v].step, worker[k][v].md5)'
      <4>1. CASE worker'[k][v].step \notin {"spilling", "spilled"}
        BY <4>1 DEF Own
      <4>2. CASE k = n /\ v = w
        BY <2>2, <2>3, <2>4, <4>2 DEF Own
      <4>3. CASE ~(k = n /\ v = w) /\ worker'[k][v].step \in {"spilling", "spilled"}
        <5> DEFINE j == worker[k][v].md5
        <5>1. worker'[k][v] = worker[k][v] /\ j \in Md5s
          BY <1>6, <2>2, <4>3
        <5>2. CASE j # m
          <6>1. temp'[j] = temp[j]  BY <2>4, <5>1, <5>2
          <6>2. Own(k, worker[k][v].step, j)  BY DEF Good, Opened
          <6>3. QED  BY <1>7, <5>1, <6>1, <6>2 DEF Own
        <5>3. CASE j = m
          <6>1. k # n  BY <1>5, <4>3, <5>1, <5>3
          <6>2. HasFile(n, m)  BY <4>3, <5>1, <5>3, <6>1 DEF HasFile, Md5
          <6>3. m \in shared'  BY <1>12, <6>2 DEF Spill, Md5
          <6>4. QED  BY <5>1, <5>3, <6>3 DEF Own
        <5>4. QED  BY <5>2, <5>3
      <4>4. QED  BY <4>1, <4>2, <4>3
    <3>2. QED  BY <3>1 DEF Opened
  <2>8. QED  BY <1>8, <2>1, <2>5, <2>6, <2>7 DEF Good
<1>13. CASE FetchBig(n, w)
  <2>1. Sent' /\ shared' = shared
    BY <1>7, <1>13 DEF FetchBig, Good, Sent
  <2>2. \A k \in Nodes, v \in Workers :
          worker'[k][v] = IF k = n /\ v = w THEN S("spilled") ELSE worker[k][v]
    BY <1>1, <1>13 DEF FetchBig, Goes, Becomes
  <2>3. /\ S("spilled").good = TRUE \/ S("spilled").md5 \in shared
        /\ S("spilled").step = "spilled" /\ S("spilled").md5 = m
    BY <1>2 DEF Steps
  <2>4. /\ temp'[m].by = temp[m].by
        /\ temp'[m].whole = (temp[m].whole \/ temp[m].by = n)
        /\ \A k \in Md5s : k # m => temp'[k] = temp[k]
    BY <1>1, <1>4, <1>13 DEF FetchBig, Md5, Data
  <2>5. temp[m].by \in Nodes \union {NoMd5} /\ temp[m].whole \in BOOLEAN
    BY <1>1, <1>4 DEF Data
  <2>6. temp[m].by # NoMd5 /\ m \notin shared => temp[m].by = n
    <3>1. worker[n][w].step = "spilling"  BY <1>13 DEF FetchBig, At
    <3>2. Own(n, "spilling", m)  BY <3>1 DEF Good, Opened
    <3>3. QED  BY <3>2 DEF Own
  <2>7. temp'[m].by = NoMd5 => temp'[m].whole = FALSE
    BY <1>4, <2>4, BackupAssumption DEF Good, Unopened, NoMd5
  <2> HIDE DEF S
  <2>8. Bodies'  BY <2>1, <2>2, <2>3 DEF Good, Bodies
  <2>9. Unopened'
    <3> HIDE DEF m
    <3> QED  BY <2>4, <2>7 DEF Good, Unopened
  <2>10. Opened'
    <3>1. ASSUME NEW k \in Nodes, NEW v \in Workers
          PROVE  Own(k, worker[k][v].step, worker[k][v].md5)'
      <4>1. CASE worker'[k][v].step \notin {"spilling", "spilled"}
        BY <4>1 DEF Own
      <4>2. CASE k = n /\ v = w
        <5>1. worker'[k][v].md5 = m  BY <2>2, <2>3, <4>2
        <5>2. temp'[m].by # NoMd5 /\ m \notin shared'
                => temp'[m].by = n /\ temp'[m].whole = TRUE
          <6> HIDE DEF m
          <6> QED  BY <2>1, <2>4, <2>5, <2>6
        <5>3. worker'[k][v].step = "spilled"  BY <2>2, <2>3, <4>2
        <5>4. QED  BY <4>2, <5>1, <5>2, <5>3 DEF Own
      <4>3. CASE ~(k = n /\ v = w) /\ worker'[k][v].step \in {"spilling", "spilled"}
        <5> DEFINE j == worker[k][v].md5
        <5>1. worker'[k][v] = worker[k][v] /\ j \in Md5s
          BY <1>6, <2>2, <4>3
        <5>2. Own(k, worker[k][v].step, j)  BY DEF Good, Opened
        <5>3. temp'[j].by = temp[j].by
              /\ (temp[j].whole = TRUE => temp'[j].whole = TRUE)
          <6>1. CASE j = m  BY <2>4, <6>1
          <6>2. CASE j # m
            <7>1. temp'[j] = temp[j]  BY <2>4, <5>1, <6>2
            <7>2. QED  BY <7>1
          <6>3. QED  BY <6>1, <6>2
        <5>4. QED  BY <2>1, <5>1, <5>2, <5>3 DEF Own
      <4>4. QED  BY <4>1, <4>2, <4>3
    <3>2. QED  BY <3>1 DEF Opened
  <2>11. QED  BY <1>8, <2>1, <2>8, <2>9, <2>10 DEF Good
<1>14. CASE FetchFails(n, w)
  <2>1. \A k \in Nodes : process'[k].sekmes = process[k].sekmes
    BY <1>1, <1>14 DEF FetchFails, Fails, Processes
  <2>2. Sent'  BY <1>7, <2>1 DEF Good, Sent
  <2>3. \A k \in Nodes, v \in Workers :
          worker'[k][v] = IF k = n /\ v = w THEN S("finished") ELSE worker[k][v]
    BY <1>1, <1>14 DEF FetchFails, Goes, Becomes
  <2>4. /\ S("finished").good = TRUE \/ S("finished").md5 \in shared
        /\ S("finished").step \notin {"spilling", "spilled"}
    BY <1>2 DEF Steps
  <2>5. \A k \in Md5s : temp'[k] = temp[k] \/ (temp'[k].by = NoMd5 /\ temp'[k].whole = FALSE)
    BY <1>1, <1>4, <1>14 DEF FetchFails, Md5, Data, NoFile
  <2>6. shared' = shared  BY <1>14 DEF FetchFails
  <2> HIDE DEF S
  <2>7. Bodies' /\ Unopened' /\ Opened'  BY <2>3, <2>4, <2>5, <2>6, FilesGo
  <2>8. QED  BY <1>8, <2>2, <2>7 DEF Good
<1>15. QED  BY <1>9, <1>10, <1>11, <1>12, <1>13, <1>14 DEF Fetch

LEMMA UploadGood ==
  ASSUME IInv, Good, NEW n \in Nodes, NEW w \in Workers, Upload(n, w)
  PROVE  Good'
<1> DEFINE m == worker[n][w].md5
           S(step) == [worker[n][w] EXCEPT !.step = step]
<1>1. /\ worker[n][w] \in Records /\ Data
      /\ Consistent(process[n], worker[n], klaidos[n])
      /\ process \in [Nodes -> Processes]
      /\ worker \in [Nodes -> [Workers -> Records]]
  BY Known, Types DEF IInv
<1>2. \A step \in {"removing", "finished"} :
        /\ S(step).good = TRUE \/ S(step).md5 \in shared
        /\ S(step).step \notin {"spilling", "spilled"}
  BY <1>1 DEF Records, Good, Bodies
<1>3. CASE Store(n, w) \/ StoreFails(n, w)
  <2>1. m \in Md5s
    BY <1>1, <1>3 DEF Store, StoreFails, At, Busy, Consistent
  <2>2. Better /\ (Store(n, w) => object'[n][m] # "none")
    <3>1. CASE Landed(n, {w})
      BY <2>1, <3>1, Landing DEF Good, Md5
    <3>2. CASE UNCHANGED object /\ ~Store(n, w)
      BY <3>2 DEF Better
    <3>3. QED  BY <1>3, <3>1, <3>2 DEF Store, StoreFails
  <2>3. NoBad' /\ Marks' /\ shared' = shared
    BY <1>3, <2>2, BetterKeeps DEF Store, StoreFails, tables
  <2>4. Sent'
    <3>1. \A k \in Nodes : process[k].sekmes \subseteq Md5s
      BY <1>1 DEF Processes
    <3>2. CASE Store(n, w)
      <4>1. \A k \in Nodes : process'[k].sekmes \subseteq
              IF k = n THEN process[k].sekmes \union {m} ELSE process[k].sekmes
        BY <1>1, <3>2 DEF Store, Succeeds, Md5, Processes
      <4>2. QED  BY <2>2, <3>1, <3>2, <4>1 DEF Good, Sent, Better
    <3>3. CASE StoreFails(n, w)
      <4>1. \A k \in Nodes : process'[k].sekmes = process[k].sekmes
        BY <1>1, <3>3 DEF StoreFails, Fails, Md5, Processes
      <4>2. QED  BY <2>2, <3>1, <4>1 DEF Good, Sent, Better
    <3>4. QED  BY <1>3, <3>2, <3>3
  <2>5. PICK step \in {"removing", "finished"} : worker' = [worker EXCEPT ![n][w] = S(step)]
    BY <1>3 DEF Store, StoreFails, Leave, Goes, Becomes
  <2>6. temp' = temp  BY <1>3 DEF Store, StoreFails
  <2>7. Bodies' /\ Unopened' /\ Opened'
    <3> HIDE DEF S
    <3> QED  BY <1>2, <2>3, <2>5, <2>6, WorkerKeeps
  <2>8. QED  BY <2>3, <2>4, <2>7 DEF Good
<1>4. CASE Removed(n, w)
  <2>1. NoBad' /\ Marks' /\ Sent'
    BY <1>4 DEF Removed, tables, Good, NoBad, Marks, Sent
  <2>2. \A k \in Nodes, v \in Workers :
          worker'[k][v] = IF k = n /\ v = w THEN S("finished") ELSE worker[k][v]
    BY <1>1, <1>4 DEF Removed, Goes, Becomes
  <2>3. /\ S("finished").good = TRUE \/ S("finished").md5 \in shared
        /\ S("finished").step \notin {"spilling", "spilled"}
    BY <1>2
  <2>4. \A k \in Md5s : temp'[k] = temp[k] \/ (temp'[k].by = NoMd5 /\ temp'[k].whole = FALSE)
    BY <1>1, <1>4 DEF Removed, Data, NoFile
  <2>5. shared' = shared  BY <1>4 DEF Removed
  <2> HIDE DEF S
  <2>6. Bodies' /\ Unopened' /\ Opened'  BY <2>2, <2>3, <2>4, <2>5, FilesGo
  <2>7. QED  BY <2>1, <2>6 DEF Good
<1>5. QED  BY <1>3, <1>4 DEF Upload

\* What ikelti records of a node is in its bucket, and with the right content
\* unless the processes of two nodes had it in their common file, however the
\* processes were killed, for any number of nodes, workers and files.
THEOREM RecordsAreTrue == Spec => []RecordedUnlessShared
<1>1. Init => Good
  BY DEF Init, Good, NoBad, Marks, Sent, Bodies, Unopened, Opened, Own, Off, Idle, NoFile
<1>2. ASSUME IInv, Good, [Next]_vars  PROVE Good'
  <2>1. CASE UNCHANGED vars
    BY <1>2, <2>1 DEF vars, tables, Good, NoBad, Marks, Sent, Bodies, Unopened, Opened, Own
  <2>2. CASE \E m \in Md5s : Enqueue(m)
    BY <1>2, <2>2 DEF Enqueue, Good, NoBad, Marks, Sent, Bodies, Unopened, Opened, Own
  <2>3. CASE \E n \in Nodes : Manage(n) \/ ValytiKlaidas(n) \/ Finish(n)
    BY <1>2, <2>3, ManageGood
  <2>4. CASE \E n \in Nodes, w \in Workers : Work(n, w)
    <3>1. PICK n \in Nodes, w \in Workers : Work(n, w)  BY <2>4
    <3>2. QED  BY <1>2, <3>1, LoopGood, FetchGood, UploadGood DEF Work
  <2>5. QED  BY <1>2, <2>1, <2>2, <2>3, <2>4 DEF Next
<1>3. IInv /\ Good => RecordedUnlessShared
  BY DEF IInv, TypeOK, Good, NoBad, Marks, RecordedUnlessShared
<1>4. QED  BY Invariance, <1>1, <1>2, <1>3, PTL DEF Spec

-----------------------------------------------------------------------------
(* What a process takes up.                                                *)

\* What the loop adds to vykdomi has yet to be uploaded, and after a signal
\* it adds nothing.
LEMMA Takes ==
  ASSUME NEW n \in Nodes, NEW w \in Workers, NEW p \in Processes, Continue(n, w, p)
  PROVE  \E q, r :
           /\ process' = [process EXCEPT ![n] = q]
           /\ worker' = [worker EXCEPT ![n][w] = r]
           /\ q.vykdomi \subseteq p.vykdomi \union Neikelti(n)
           /\ p.stopping => q = p /\ r.step = "returned"
<1> DEFINE Goal(q, r) ==
             /\ process' = [process EXCEPT ![n] = q]
             /\ worker' = [worker EXCEPT ![n][w] = r]
             /\ q.vykdomi \subseteq p.vykdomi \union Neikelti(n)
             /\ p.stopping => q = p /\ r.step = "returned"
<1>1. SUFFICES \E q, r : Goal(q, r)  OBVIOUS
<1>2. CASE p.stopping
  <2> DEFINE r == [Idle EXCEPT !.step = "returned"]
  <2>1. r.step = "returned"  BY DEF Idle
  <2>2. process' = [process EXCEPT ![n] = p] /\ worker' = [worker EXCEPT ![n][w] = r]
    BY <1>2 DEF Continue, Becomes
  <2>3. Goal(p, r)  BY <2>1, <2>2
  <2>4. QED  BY <2>3
<1>3. CASE ~p.stopping
  <2> DEFINE q == IF p.buferis = {} /\ ~p.baigta THEN Papildyti(n, p) ELSE p
             m == Smallest(q.buferis)
  <2>1. NextItem(n, w, p)  BY <1>3 DEF Continue
  <2>2. q.vykdomi \subseteq p.vykdomi \union Neikelti(n)
    BY DEF Papildyti, Batch, Processes
  <2>3. [q EXCEPT !.buferis = @ \ {m}].vykdomi = q.vykdomi
    BY DEF Papildyti, Processes
  <2>4. PICK r :
          /\ worker' = [worker EXCEPT ![n][w] = r]
          /\ \/ process' = [process EXCEPT ![n] = q]
             \/ process' = [process EXCEPT ![n] = [q EXCEPT !.buferis = @ \ {m}]]
    BY <2>1 DEF NextItem, Becomes
  <2>5. Goal(q, r) \/ Goal([q EXCEPT !.buferis = @ \ {m}], r)
    <3> HIDE DEF q, m
    <3> QED  BY <1>3, <2>2, <2>3, <2>4
  <2>6. QED  BY <2>5
<1>4. QED  BY <1>2, <1>3

\* The other steps of a worker add nothing to vykdomi, nor does one begin a
\* file that was not at one.
LEMMA WorkTakesNothing ==
  ASSUME IInv, NEW n \in Nodes, NEW w \in Workers, Fetch(n, w) \/ Upload(n, w)
  PROVE  /\ UNCHANGED <<eile, ikelti, klaidos>>
         /\ \A k \in Nodes : process'[k].vykdomi = process[k].vykdomi
         /\ \A k \in Nodes : Active(k)' \subseteq Active(k)
<1>1. process \in [Nodes -> Processes] /\ worker \in [Nodes -> [Workers -> Records]]
  BY Types DEF IInv
<1>2. UNCHANGED <<eile, ikelti, klaidos>>
  BY DEF Fetch, Upload, Skip, Spill, FetchSmall, FetchBig, ReadTemp, FetchFails,
         Store, StoreFails, Removed, tables
<1>3. \/ process' = process
      \/ process' = [process EXCEPT ![n].sekmes = @ \union {Md5(n, w)}]
      \/ process' = [process EXCEPT ![n].klaidos = @ \union {Md5(n, w)}]
  BY DEF Fetch, Upload, Skip, Spill, FetchSmall, FetchBig, ReadTemp, FetchFails,
         Store, StoreFails, Removed, Succeeds, Fails
<1>4. \A k \in Nodes : process'[k].vykdomi = process[k].vykdomi
  BY <1>1, <1>3 DEF Processes
<1>5. PICK r : /\ worker' = [worker EXCEPT ![n][w] = r]
               /\ \/ worker[n][w].step \in Busy
                  \/ r.step = "finished"
  <2>1. \A step : [worker[n][w] EXCEPT !.step = step].step = step
    BY <1>1 DEF Records
  <2>2. CASE Removed(n, w)
    BY <2>1, <2>2 DEF Removed, Goes, Becomes
  <2>3. CASE Fetch(n, w) \/ Store(n, w) \/ StoreFails(n, w)
    BY <2>3 DEF Fetch, Skip, Spill, MayFetch, FetchSmall, FetchBig, ReadTemp, FetchFails,
                Store, StoreFails, Leave, Goes, Becomes, At, Busy
  <2>4. QED  BY <2>2, <2>3 DEF Upload
<1>6. \A k \in Nodes : Active(k)' \subseteq Active(k)
  BY <1>1, <1>5 DEF Active, Busy
<1>7. QED  BY <1>2, <1>4, <1>6

\* No process is at a file that is in ikelti: whatever is added to the queue,
\* however often the cursor wraps and whenever results are flushed, what S3
\* has confirmed and the table records is never fetched and uploaded again.
UploadedOnce == \A n \in Nodes : InHand(n) \intersect ikelti[n] = {}

Once == \A n \in Nodes : process[n].vykdomi \intersect ikelti[n] = {}

\* Nor does a step begin a file after a signal: neither does a worker take
\* one, nor does the process take a batch.
BeginsNothing ==
  \A n \in Nodes : process[n].stopping =>
    /\ InHand(n)' \subseteq InHand(n)
    /\ Active(n)' \subseteq Active(n)

\* What a process is at is its vykdomi.
LEMMA InHandIs ==
  ASSUME IInv, NEW n \in Nodes
  PROVE  InHand(n) = process[n].vykdomi
BY DEF IInv, AllConsistent, Consistent, InHand, Active, Results, Md5, Busy

LEMMA HandStep ==
  ASSUME IInv, [Next]_vars
  PROVE  (Once => Once') /\ BeginsNothing
<1> DEFINE Takings(k) == process[k].stopping =>
              process'[k].vykdomi \subseteq process[k].vykdomi /\ Active(k)' \subseteq Active(k)
<1>1. process \in [Nodes -> Processes] /\ worker \in [Nodes -> [Workers -> Records]]
      /\ ikelti \in [Nodes -> SUBSET Md5s]
  BY Types DEF IInv, Data
<1>2. IInv'  BY Inductive
<1>3. SUFFICES (Once => Once') /\ \A k \in Nodes : Takings(k)
  <2>1. \A k \in Nodes : InHand(k) = process[k].vykdomi
    BY InHandIs
  <2>2. \A k \in Nodes : InHand(k)' = process'[k].vykdomi
    BY <1>2 DEF IInv, AllConsistent, Consistent, InHand, Active, Results, Md5, Busy
  <2>3. QED  BY <2>1, <2>2 DEF BeginsNothing
<1>4. CASE /\ ikelti' = ikelti
           /\ \A k \in Nodes : process'[k].vykdomi \subseteq process[k].vykdomi
           /\ \A k \in Nodes : Active(k)' \subseteq Active(k)
  BY <1>4 DEF Once
<1>5. ASSUME NEW n \in Nodes, NEW w \in Workers, Loop(n, w)
      PROVE  (Once => Once') /\ \A k \in Nodes : Takings(k)
  <2>1. process[n].running  BY <1>5 DEF Loop, FlushAndTake, Take, At
  <2>2. PICK p \in Processes :
          /\ Continue(n, w, p)
          /\ p.vykdomi \subseteq process[n].vykdomi
          /\ p.stopping = process[n].stopping
          /\ \A k \in Nodes : k # n => ikelti'[k] = ikelti[k]
          /\ Once => p.vykdomi \intersect ikelti'[n] = {}
    <3>1. CASE FlushAndTake(n, w)
      <4>1. Flushed(n) \in Processes  BY <2>1, <3>1, Flushes DEF FlushAndTake
      <4>2. /\ Flushed(n).vykdomi = process[n].vykdomi \ Results(n)
            /\ Flushed(n).stopping = process[n].stopping
        BY <1>1 DEF Flushed, Processes
      <4>3. ikelti' = [ikelti EXCEPT ![n] = @ \union process[n].sekmes]
        BY <3>1 DEF FlushAndTake, Record
      <4>4. Once => Flushed(n).vykdomi \intersect ikelti'[n] = {}
        BY <1>1, <4>2, <4>3 DEF Once, Results
      <4>5. QED  BY <1>1, <3>1, <4>1, <4>2, <4>3, <4>4 DEF FlushAndTake
    <3>2. CASE Take(n, w)
      BY <1>1, <3>2 DEF Take, Once
    <3>3. QED  BY <1>5, <3>1, <3>2 DEF Loop
  <2>3. PICK q, r :
          /\ process' = [process EXCEPT ![n] = q]
          /\ worker' = [worker EXCEPT ![n][w] = r]
          /\ q.vykdomi \subseteq p.vykdomi \union Neikelti(n)
          /\ p.stopping => q = p /\ r.step = "returned"
    BY <2>2, Takes
  <2>4. process'[n] = q /\ \A k \in Nodes : k # n => process'[k] = process[k]
    BY <1>1, <2>3
  <2>5. Neikelti(n) \intersect ikelti'[n] = {}  BY DEF Neikelti
  <2>6. Once => Once'
    BY <2>2, <2>3, <2>4, <2>5 DEF Once
  <2>7. process[n].stopping => Active(n)' \subseteq Active(n)
    BY <1>1, <2>2, <2>3 DEF Active
  <2>8. \A k \in Nodes : k # n => worker'[k] = worker[k]
    BY <1>1, <2>3
  <2>9. \A k \in Nodes : k # n => Active(k)' \subseteq Active(k)
    BY <2>8 DEF Active
  <2>10. \A k \in Nodes : Takings(k)
    BY <2>2, <2>3, <2>4, <2>7, <2>9
  <2>11. QED  BY <2>6, <2>10
<1>6. CASE UNCHANGED vars
  BY <1>4, <1>6 DEF vars, tables, Active
<1>7. CASE \E m \in Md5s : Enqueue(m)
  BY <1>4, <1>7 DEF Enqueue, Active
<1>8. ASSUME NEW n \in Nodes, Manage(n) \/ ValytiKlaidas(n)
      PROVE  (Once => Once') /\ \A k \in Nodes : Takings(k)
  <2>1. ikelti' = ikelti
    BY <1>8 DEF Manage, ValytiKlaidas, Start, RequestStop, Crash, tables
  <2>2. \A k \in Nodes : process'[k].vykdomi \subseteq process[k].vykdomi
    <3>1. \A c \in BOOLEAN : [Off EXCEPT !.running = TRUE, !.check = c].vykdomi = {}
      BY DEF Off
    <3>2. CASE \E c \in BOOLEAN : Start(n, c)
      <4>1. PICK c \in BOOLEAN : Start(n, c)  BY <3>2
      <4> DEFINE q == [Off EXCEPT !.running = TRUE, !.check = c]
      <4>2. q.vykdomi = {} /\ process' = [process EXCEPT ![n] = q]
        BY <3>1, <4>1 DEF Start
      <4> HIDE DEF q
      <4>3. QED  BY <1>1, <4>2
    <3>3. CASE Crash(n)
      <4>1. Off.vykdomi = {}  BY DEF Off
      <4>2. process' = [process EXCEPT ![n] = Off]  BY <3>3 DEF Crash
      <4>3. QED  BY <1>1, <4>1, <4>2
    <3>4. CASE RequestStop(n)
      <4> DEFINE q == [process[n] EXCEPT !.stopping = TRUE]
      <4>1. q.vykdomi = process[n].vykdomi /\ process' = [process EXCEPT ![n] = q]
        BY <1>1, <3>4 DEF RequestStop, Processes
      <4> HIDE DEF q
      <4>2. QED  BY <1>1, <4>1
    <3>5. CASE ValytiKlaidas(n)
      BY <3>5 DEF ValytiKlaidas
    <3>6. QED  BY <1>8, <3>2, <3>3, <3>4, <3>5 DEF Manage
  <2>3. \A k \in Nodes : Active(k)' \subseteq Active(k)
    <3>1. CASE Crash(n)
      BY <1>1, <3>1 DEF Crash, Active, Idle
    <3>2. CASE ~Crash(n)
      BY <1>8, <3>2 DEF Manage, ValytiKlaidas, Start, RequestStop, tables, Active
    <3>3. QED  BY <3>1, <3>2
  <2>4. QED  BY <1>4, <2>1, <2>2, <2>3
<1>9. ASSUME NEW n \in Nodes, Finish(n)
      PROVE  (Once => Once') /\ \A k \in Nodes : Takings(k)
  <2>1. Off.vykdomi = {}  BY DEF Off
  <2>2. process'[n].vykdomi = {} /\ \A k \in Nodes : k # n => process'[k] = process[k]
    BY <1>1, <1>9, <2>1 DEF Finish
  <2>3. \A k \in Nodes : k # n => ikelti'[k] = ikelti[k]
    BY <1>1, <1>9 DEF Finish, Record
  <2>4. \A k \in Nodes : Active(k)' \subseteq Active(k)
    BY <1>1, <1>9 DEF Finish, Active, Idle
  <2>5. QED  BY <2>2, <2>3, <2>4 DEF Once
<1>10. ASSUME NEW n \in Nodes, NEW w \in Workers, Fetch(n, w) \/ Upload(n, w)
       PROVE  (Once => Once') /\ \A k \in Nodes : Takings(k)
  BY <1>4, <1>10, WorkTakesNothing
<1>11. QED
  BY <1>5, <1>6, <1>7, <1>8, <1>9, <1>10 DEF Next, Work

\* For any number of workers and any batch, flush and restart: no process
\* fetches what ikelti already records for its node.
THEOREM NoUploadTwice == Spec => []UploadedOnce
<1>1. Init => Once
  BY DEF Init, Once, Off
<1>2. IInv /\ Once /\ [Next]_vars => Once'
  BY HandStep
<1>3. IInv /\ Once => UploadedOnce
  BY InHandIs DEF Once, UploadedOnce
<1>4. QED  BY Invariance, <1>1, <1>2, <1>3, PTL DEF Spec

\* After a signal a process of any size only finishes what it has begun
\* (README of s3backup, Ctrl+C).
THEOREM SignalIsHeeded == Spec => [][BeginsNothing]_vars
<1>1. IInv /\ [Next]_vars => [BeginsNothing]_vars
  BY HandStep
<1>2. QED  BY Invariance, <1>1, PTL DEF Spec
=============================================================================
