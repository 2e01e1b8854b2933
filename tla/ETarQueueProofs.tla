--------------------------- MODULE ETarQueueProofs ---------------------------
(***************************************************************************)
(* Proofs about the e-TAR scrape queue, for every set of jobs, workers and *)
(* tokens: its types, that a row has one holder, that nobody scrapes       *)
(* another's job while all are on time, and that it implements JobLease.   *)
(***************************************************************************)
EXTENDS ETarQueue, TLAPS

\* A token belongs to one claim: of one worker, for one row of the queue.
TokenInv ==
  /\ \A w \in Workers : IF Busy(w) THEN worker[w].job \in Jobs /\ worker[w].token \in Tokens
                                   ELSE worker[w] = [Idle EXCEPT !.step = worker[w].step]
  /\ \A v, w \in Workers : Busy(v) /\ Busy(w) /\ worker[v].token = worker[w].token => v = w
  /\ \A j, k \in Jobs : token[j] # NoToken /\ token[j] = token[k] => j = k
  /\ \A w \in Workers, j \in Jobs : Busy(w) /\ token[j] = worker[w].token => worker[w].job = j

\* A row that is claimed may still fail once more.
ClaimInv == \A j \in Jobs : token[j] # NoToken => failures[j] < MaxFailures

IInv == TypeOK /\ TokenInv /\ ClaimInv

-----------------------------------------------------------------------------
\* Nobody has claimed anything in the beginning.
LEMMA InitIInv == Init => IInv
<1> SUFFICES ASSUME Init  PROVE IInv
  OBVIOUS
<1>1. TypeOK
  <2>1. Idle \in [step : Steps, job : Jobs \union {NoJob},
                  token : Tokens \union {NoToken}]
    BY DEF Idle, Steps
  <2>2. worker \in [Workers -> [step : Steps, job : Jobs \union {NoJob},
                                token : Tokens \union {NoToken}]]
    BY <2>1 DEF Init
  <2>3. overran \in BOOLEAN
    BY DEF Init
  <2>4. /\ progress \in [Jobs -> {"absent", "pending", "done"}]
        /\ token \in [Jobs -> Tokens \union {NoToken}]
        /\ failures \in [Jobs -> 0 .. MaxFailures]
        /\ \A j \in Jobs \ queued : token[j] = NoToken /\ failures[j] = 0
    BY QueueAssumption DEF Init
  <2>5. queued \subseteq Jobs /\ backoff \subseteq queued /\ expired \subseteq queued
    BY DEF Init
  <2>6. QED  BY <2>2, <2>3, <2>4, <2>5 DEF TypeOK
<1>2. TokenInv
  BY DEF Init, TokenInv, Busy, Idle
<1>3. ClaimInv
  BY DEF Init, ClaimInv
<1>4. QED
  BY <1>1, <1>2, <1>3 DEF IInv

\* A claim gives a worker and a row a token that neither of the others has.
LEMMA ClaimKeeps ==
  ASSUME IInv, NEW w \in Workers, NEW j \in Jobs, Claim(w, j)
  PROVE  IInv'
<1>1. PICK t \in FreshTokens :
        /\ token' = [token EXCEPT ![j] = t]
        /\ expired' = expired \ {j}
        /\ worker' = [worker EXCEPT ![w] = [step |-> "working", job |-> j, token |-> t]]
  BY DEF Claim
<1>2. /\ t \in Tokens /\ t # NoToken
      /\ \A k \in Jobs : token[k] # t
      /\ \A v \in Workers : worker[v].token # t
  BY QueueAssumption DEF FreshTokens
<1>3. /\ j \in queued /\ failures[j] < MaxFailures
      /\ ~Busy(w)
      /\ UNCHANGED <<progress, queued, failures, backoff, overran>>
  BY DEF Claim, Claimable, At, Busy
<1>4. TypeOK'
  BY <1>1, <1>2, <1>3 DEF IInv, TypeOK, Steps
<1>5. TokenInv'
  <2>1. \A v \in Workers : IF v = w
                             THEN Busy(v)' /\ worker'[v].job = j /\ worker'[v].token = t
                             ELSE (Busy(v)' <=> Busy(v)) /\ worker'[v] = worker[v]
    BY <1>1 DEF IInv, TypeOK, Busy
  <2>2. \A k \in Jobs : token'[k] = IF k = j THEN t ELSE token[k]
    BY <1>1 DEF IInv, TypeOK
  <2>3. QED  BY <2>1, <2>2, <1>2 DEF IInv, TokenInv
<1>6. ClaimInv'
  BY <1>1, <1>3 DEF IInv, TypeOK, ClaimInv
<1>7. QED
  BY <1>4, <1>5, <1>6 DEF IInv

\* A step keeps a worker's claim or drops it.
KeepsOrDrops(w) ==
  \/ worker'[w] = Idle
  \/ \E s \in Steps : /\ worker'[w] = [worker[w] EXCEPT !.step = s]
                      /\ Busy(w) <=> s \in {"working", "saved", "erred"}

\* A step that leaves the tokens of the rows alone, or clears them, and in which
\* a worker keeps its claim or drops it, keeps every token where it belongs.
LEMMA TokensKept ==
  ASSUME IInv,
         \A w \in Workers : KeepsOrDrops(w),
         \A j \in Jobs : token'[j] \in {token[j], NoToken}
  PROVE  TokenInv'
<1>1. ASSUME NEW v \in Workers
      PROVE  \/ (Busy(v)' <=> Busy(v)) /\ worker'[v].job = worker[v].job
                /\ worker'[v].token = worker[v].token
             \/ ~Busy(v)' /\ worker'[v] = Idle
  <2>1. CASE worker'[v] = Idle
    BY <2>1 DEF Busy, Idle
  <2>2. CASE worker'[v] # Idle
    <3>1. PICK s \in Steps : /\ worker'[v] = [worker[v] EXCEPT !.step = s]
                             /\ Busy(v) <=> s \in {"working", "saved", "erred"}
      BY <2>2 DEF KeepsOrDrops
    <3>2. QED  BY <3>1 DEF IInv, TypeOK, Busy
  <2>3. QED  BY <2>1, <2>2
<1>2. ASSUME NEW v \in Workers, ~Busy(v)'
      PROVE  worker'[v] = [Idle EXCEPT !.step = worker'[v].step]
  <2>1. CASE worker'[v] = Idle
    BY <2>1 DEF Idle
  <2>2. CASE worker'[v] # Idle
    <3>0. PICK s \in Steps : /\ worker'[v] = [worker[v] EXCEPT !.step = s]
                             /\ Busy(v) <=> s \in {"working", "saved", "erred"}
      BY <2>2 DEF KeepsOrDrops
    <3>1. worker'[v].step = s /\ ~Busy(v)
      BY <1>2, <3>0 DEF IInv, TypeOK, Busy
    <3>2. worker[v] = [Idle EXCEPT !.step = worker[v].step]
      BY <3>1 DEF IInv, TokenInv
    <3>3. QED  BY <3>0, <3>1, <3>2 DEF Idle
  <2>3. QED  BY <2>1, <2>2
<1>3. \A v \in Workers : Busy(v) => worker[v].token # NoToken
  BY QueueAssumption DEF IInv, TokenInv
<1>4. \A v \in Workers : Busy(v)' => /\ Busy(v) /\ worker'[v].job = worker[v].job
                                     /\ worker'[v].token = worker[v].token
  BY <1>1
<1>5. \A v \in Workers :
        Busy(v)' => worker'[v].job \in Jobs /\ worker'[v].token \in Tokens
  BY <1>4 DEF IInv, TokenInv
<1>6. \A u, v \in Workers :
        Busy(u)' /\ Busy(v)' /\ worker'[u].token = worker'[v].token => u = v
  BY <1>4 DEF IInv, TokenInv
<1>7. \A j, k \in Jobs : token'[j] # NoToken /\ token'[j] = token'[k] => j = k
  BY DEF IInv, TokenInv
<1>8. \A v \in Workers, j \in Jobs :
        Busy(v)' /\ token'[j] = worker'[v].token => worker'[v].job = j
  BY <1>3, <1>4 DEF IInv, TokenInv
<1>9. QED
  BY <1>2, <1>5, <1>6, <1>7, <1>8 DEF TokenInv

\* A job can be done or fail only in the hands of the worker its row names.
LEMMA EndKeeps ==
  ASSUME IInv, NEW w \in Workers, Complete(w) \/ Fail(w)
  PROVE  IInv'
<1>1. worker[w].job \in Jobs /\ worker[w].token \in Tokens
  BY DEF Complete, Fail, At, Busy, IInv, TokenInv
<1>2. worker' = [worker EXCEPT ![w] = Idle] /\ UNCHANGED <<progress, overran>>
  BY DEF Complete, Fail, Rest
<1>3. worker' \in [Workers -> [step : Steps, job : Jobs \union {NoJob},
                               token : Tokens \union {NoToken}]]
  BY <1>2 DEF IInv, TypeOK, Idle, Steps
<1>7. \A v \in Workers : KeepsOrDrops(v)
  BY <1>2 DEF KeepsOrDrops, IInv, TypeOK, Busy
<1>4. CASE ~Holds(w, worker[w].job)
  <2>1. UNCHANGED rows
    BY <1>4 DEF Complete, Fail
  <2>2. TypeOK' /\ ClaimInv'
    BY <2>1, <1>2, <1>3 DEF rows, IInv, TypeOK, ClaimInv
  <2>3. TokenInv'
    BY <2>1, <1>7, TokensKept DEF rows
  <2>4. QED  BY <2>2, <2>3 DEF IInv
<1>5. CASE Holds(w, worker[w].job)
  <2> DEFINE j == worker[w].job
  <2>1. /\ j \in queued /\ token[j] # NoToken
        /\ failures[j] \in Nat /\ failures[j] < MaxFailures
    BY <1>1, <1>5, QueueAssumption DEF Holds, IInv, TypeOK, ClaimInv
  <2>2. /\ token' = [token EXCEPT ![j] = NoToken]
        /\ expired' = expired \ {j}
        /\ \/ /\ queued' = queued \ {j}
              /\ failures' = [failures EXCEPT ![j] = 0]
              /\ backoff' = backoff \ {j}
           \/ /\ failures' = [failures EXCEPT ![j] = @ + 1]
              /\ backoff' = backoff \union {j}
              /\ queued' = queued
    BY <1>5 DEF Complete, Fail
  <2>3. TypeOK'
    BY <2>1, <2>2, <1>1, <1>2, <1>3, QueueAssumption DEF IInv, TypeOK
  <2>4. ClaimInv'
    BY <2>1, <2>2, <1>1 DEF IInv, TypeOK, ClaimInv
  <2>5. \A k \in Jobs : token'[k] \in {token[k], NoToken}
    BY <2>2 DEF IInv, TypeOK
  <2>6. TokenInv'
    BY <2>5, <1>7, TokensKept
  <2>7. QED  BY <2>3, <2>4, <2>6 DEF IInv
<1>6. QED
  BY <1>4, <1>5

\* No other step of a worker, nor its end, touches a row's claim.
LEMMA WorkersKeep ==
  ASSUME IInv,
         \/ \E w \in Workers :
              \/ ClaimNothing(w) \/ Reconcile(w) \/ ReconciledRecently(w)
              \/ Save(w) \/ FindGone(w) \/ Throw(w)
         \/ \E gone \in SUBSET Workers : Crash(gone)
  PROVE  IInv'
<1>1. /\ UNCHANGED <<token, failures, backoff, expired, overran>>
      /\ queued' \in SUBSET Jobs /\ queued \subseteq queued'
      /\ progress' \in [Jobs -> {"absent", "pending", "done"}]
  BY DEF ClaimNothing, Reconcile, ReconciledRecently, Save, FindGone, Throw, Crash,
         rows, IInv, TypeOK
<1>2. \A v \in Workers : KeepsOrDrops(v)
  BY DEF ClaimNothing, Reconcile, ReconciledRecently, Save, FindGone, Throw, Crash,
         KeepsOrDrops, Goto, At, Busy, Steps, IInv, TypeOK
<1>3. worker' \in [Workers -> [step : Steps, job : Jobs \union {NoJob},
                               token : Tokens \union {NoToken}]]
  BY DEF ClaimNothing, Reconcile, ReconciledRecently, Save, FindGone, Throw, Crash,
         Goto, IInv, TypeOK, Idle, Steps
<1>4. TypeOK' /\ ClaimInv'
  BY <1>1, <1>3 DEF IInv, TypeOK, ClaimInv
<1>5. TokenInv'
  BY <1>1, <1>2, TokensKept
<1>6. QED
  BY <1>4, <1>5 DEF IInv

\* Time and the progress tables leave every claim alone.
LEMMA JobKeeps ==
  ASSUME IInv,
         \/ \E j \in Jobs : JobStep(j)
         \/ \E list \in SUBSET Editions : Relist(list)
  PROVE  IInv'
<1>1. /\ UNCHANGED <<queued, token, failures, worker>>
      /\ progress' \in [Jobs -> {"absent", "pending", "done"}]
      /\ backoff' \subseteq queued /\ expired' \subseteq queued
      /\ overran' \in BOOLEAN
  BY DEF JobStep, Discover, Relist, Relisted, CommandLineScrape, ResetScrapeMarks, LeaseEnds,
         BackoffEnds, rows, IInv, TypeOK
<1>2. QED
  BY <1>1 DEF IInv, TypeOK, TokenInv, ClaimInv, Busy

\* The inductive invariant holds in every state.
THEOREM Invariance == Spec => []IInv
<1>1. Init => IInv
  BY InitIInv
<1>2. IInv /\ [Next]_vars => IInv'
  <2> SUFFICES ASSUME IInv, [Next]_vars  PROVE IInv'
    OBVIOUS
  <2>1. ASSUME NEW w \in Workers, WorkerStep(w)  PROVE IInv'
    BY <2>1, ClaimKeeps, EndKeeps, WorkersKeep DEF WorkerStep
  <2>2. CASE \/ \E gone \in SUBSET Workers : Crash(gone)
             \/ \E j \in Jobs : JobStep(j)
             \/ \E list \in SUBSET Editions : Relist(list)
    BY <2>2, WorkersKeep, JobKeeps
  <2>3. CASE UNCHANGED vars
    BY <2>3 DEF vars, rows, IInv, TypeOK, TokenInv, ClaimInv, Busy
  <2>4. QED  BY <2>1, <2>2, <2>3 DEF Next
<1>3. QED
  BY <1>1, <1>2, PTL DEF Spec

\* The tables and the workers keep their types, and no job fails more often
\* than maxFailures: even when several workers are late with it at once.
THEOREM TypeCorrect == Spec => []TypeOK
<1>1. IInv => TypeOK
  BY DEF IInv
<1>2. QED
  BY <1>1, Invariance, PTL

\* A row's token is one worker's.
LEMMA HolderUnique == IInv => OneHolder
BY DEF IInv, TokenInv, OneHolder, Holds

\* However many workers have overrun their lease, a row answers to one claim.
THEOREM SingleHolder == Spec => []OneHolder
BY HolderUnique, Invariance, PTL

-----------------------------------------------------------------------------
(* While everybody is on time.                                             *)

\* Until a worker has outlasted its lease, every busy one holds its row, and
\* the lease is running.
OnTimeInv ==
  overran \/ \A w \in Workers :
               Busy(w) => /\ Holds(w, worker[w].job)
                          /\ worker[w].job \notin expired

\* A claim takes a row that nobody busy holds, for its lease has not ended.
LEMMA ClaimOnTime ==
  ASSUME IInv, OnTimeInv, NEW w \in Workers, NEW j \in Jobs, Claim(w, j)
  PROVE  OnTimeInv'
<1>1. PICK t \in FreshTokens :
        /\ token' = [token EXCEPT ![j] = t]
        /\ expired' = expired \ {j}
        /\ worker' = [worker EXCEPT ![w] = [step |-> "working", job |-> j, token |-> t]]
  BY DEF Claim
<1>2. /\ j \in queued
      /\ token[j] = NoToken \/ j \in expired
      /\ UNCHANGED <<queued, overran>>
  BY DEF Claim, Claimable
<1>3. CASE overran
  BY <1>2, <1>3 DEF OnTimeInv
<1>4. CASE ~overran
  <2>1. ASSUME NEW v \in Workers, v # w, Busy(v)'
        PROVE  Holds(v, worker[v].job)' /\ worker'[v].job \notin expired'
    <3>1. worker'[v] = worker[v] /\ Busy(v)
      BY <1>1, <2>1 DEF IInv, TypeOK, Busy
    <3>2. Holds(v, worker[v].job) /\ worker[v].job \notin expired
      BY <1>4, <3>1 DEF OnTimeInv
    <3>3. worker[v].job \in Jobs /\ token[worker[v].job] # NoToken
      <4>1. worker[v].job \in Jobs /\ worker[v].token \in Tokens
        BY <3>1 DEF IInv, TokenInv
      <4>2. token[worker[v].job] = worker[v].token
        BY <3>2 DEF Holds
      <4>3. QED  BY <4>1, <4>2, QueueAssumption
    <3>4. worker[v].job # j
      BY <1>2, <3>2, <3>3
    <3>5. token'[worker[v].job] = token[worker[v].job]
      BY <1>1, <3>3, <3>4 DEF IInv, TypeOK
    <3>6. Busy(v)' /\ worker'[v].job \in queued' /\ worker'[v].job \notin expired'
      BY <1>1, <1>2, <2>1, <3>1, <3>2 DEF Holds
    <3>7. QED
      BY <3>1, <3>2, <3>5, <3>6 DEF Holds
  <2>2. Holds(w, worker[w].job)' /\ worker'[w].job \notin expired'
    <3>1. worker'[w] = [step |-> "working", job |-> j, token |-> t] /\ token'[j] = t
      BY <1>1 DEF IInv, TypeOK
    <3>2. QED  BY <1>1, <1>2, <3>1 DEF Holds, Busy
  <2>3. QED  BY <2>1, <2>2 DEF OnTimeInv
<1>5. QED
  BY <1>3, <1>4

\* The end of a job touches no row but its own.
LEMMA EndOnTime ==
  ASSUME IInv, OnTimeInv, NEW w \in Workers, Complete(w) \/ Fail(w)
  PROVE  OnTimeInv'
<1>1. worker' = [worker EXCEPT ![w] = Idle] /\ overran' = overran
  BY DEF Complete, Fail, Rest
<1>2. CASE overran
  BY <1>1, <1>2 DEF OnTimeInv
<1>3. ASSUME ~overran, NEW v \in Workers, Busy(v)'
      PROVE  Holds(v, worker[v].job)' /\ worker'[v].job \notin expired'
  <2> DEFINE j == worker[w].job
             k == worker[v].job
  <2>1. worker'[v] = worker[v] /\ Busy(v) /\ v # w
    BY <1>1, <1>3 DEF IInv, TypeOK, Busy, Idle
  <2>2. Busy(w)
    BY DEF Complete, Fail, At, Busy
  <2>3. Holds(v, k) /\ k \notin expired /\ Holds(w, j) /\ k \in Jobs /\ j \in Jobs
    BY <1>3, <2>1, <2>2 DEF OnTimeInv, IInv, TokenInv
  <2>4. k # j
    BY <2>1, <2>3, HolderUnique DEF OneHolder
  <2>5. /\ token' = [token EXCEPT ![j] = NoToken]
        /\ expired' = expired \ {j}
        /\ queued' = queued \/ queued' = queued \ {j}
    BY <2>3 DEF Complete, Fail
  <2>6. token'[k] = token[k] /\ k \in queued' /\ k \notin expired'
    BY <2>3, <2>4, <2>5 DEF IInv, TypeOK, Holds
  <2>7. QED
    BY <1>3, <2>1, <2>3, <2>6 DEF Holds
<1>4. QED
  BY <1>2, <1>3 DEF OnTimeInv

\* No other step takes a row from a busy worker; the end of a lease that is
\* held is an overrun.
LEMMA OthersOnTime ==
  ASSUME IInv, OnTimeInv,
         \/ \E w \in Workers :
              \/ ClaimNothing(w) \/ Reconcile(w) \/ ReconciledRecently(w)
              \/ Save(w) \/ FindGone(w) \/ Throw(w)
         \/ \E gone \in SUBSET Workers : Crash(gone)
         \/ \E j \in Jobs : JobStep(j)
         \/ \E list \in SUBSET Editions : Relist(list)
         \/ UNCHANGED vars
  PROVE  OnTimeInv'
<1>1. CASE \E j \in Jobs : LeaseEnds(j)
  <2>1. PICK j \in Jobs : LeaseEnds(j)
    BY <1>1
  <2>2. /\ UNCHANGED <<queued, token, worker>>
        /\ expired' = expired \union {j}
        /\ overran' <=> overran \/ \E w \in Workers : Holds(w, j)
    BY <2>1 DEF LeaseEnds, IInv, TypeOK
  <2>3. \A w \in Workers, k \in Jobs :
          (Busy(w)' <=> Busy(w)) /\ (Holds(w, k)' <=> Holds(w, k))
    BY <2>2 DEF Holds, Busy
  <2>4. ASSUME ~overran', NEW w \in Workers, Busy(w)'
        PROVE  Holds(w, worker[w].job)' /\ worker'[w].job \notin expired'
    <3>1. Busy(w) /\ ~overran /\ \A v \in Workers : ~Holds(v, j)
      BY <2>2, <2>3, <2>4
    <3>2. Holds(w, worker[w].job) /\ worker[w].job \notin expired
      BY <3>1 DEF OnTimeInv
    <3>3. worker[w].job # j
      BY <3>1, <3>2
    <3>4. QED  BY <2>2, <2>4, <3>2, <3>3 DEF Holds
  <2>5. QED  BY <2>4 DEF OnTimeInv
<1>2. CASE ~\E j \in Jobs : LeaseEnds(j)
  <2>1. /\ UNCHANGED <<token, overran>>
        /\ expired' = expired /\ queued \subseteq queued'
    BY <1>2 DEF ClaimNothing, Reconcile, ReconciledRecently, Save, FindGone, Throw,
                Crash, JobStep, Discover, CommandLineScrape, ResetScrapeMarks,
                BackoffEnds, Relist, rows, vars
  <2>2. \A w \in Workers :
          Busy(w)' => /\ Busy(w) /\ worker'[w].job = worker[w].job
                      /\ worker'[w].token = worker[w].token
    BY <1>2 DEF ClaimNothing, Reconcile, ReconciledRecently, Save, FindGone, Throw,
                Crash, JobStep, Discover, CommandLineScrape, ResetScrapeMarks,
                BackoffEnds, Relist, rows, vars, Goto, At, Busy, Idle, IInv, TypeOK
  <2>3. ASSUME ~overran, NEW w \in Workers, Busy(w)'
        PROVE  Holds(w, worker[w].job)' /\ worker'[w].job \notin expired'
    <3>1. Holds(w, worker[w].job) /\ worker[w].job \notin expired
      BY <2>2, <2>3 DEF OnTimeInv
    <3>2. QED  BY <2>1, <2>2, <2>3, <3>1 DEF Holds
  <2>4. CASE overran
    BY <2>1, <2>4 DEF OnTimeInv
  <2>5. QED  BY <2>3, <2>4 DEF OnTimeInv
<1>3. QED
  BY <1>1, <1>2

\* Until a worker has outlasted its lease, no job is scraped by two of them,
\* whatever dies or fails and however often the tables are relisted and reset.
THEOREM ScrapedAlone == Spec => []OneScraper
<1>1. Init => OnTimeInv
  BY DEF Init, OnTimeInv, Busy, Idle
<1>2. IInv /\ OnTimeInv /\ [Next]_vars => OnTimeInv'
  <2> SUFFICES ASSUME IInv, OnTimeInv, [Next]_vars  PROVE OnTimeInv'
    OBVIOUS
  <2>1. ASSUME NEW w \in Workers, WorkerStep(w)  PROVE OnTimeInv'
    BY <2>1, ClaimOnTime, EndOnTime, OthersOnTime DEF WorkerStep
  <2>2. QED  BY <2>1, OthersOnTime DEF Next
<1>3. IInv /\ OnTimeInv => OneScraper
  <2> SUFFICES ASSUME IInv, OnTimeInv, ~overran,
                      NEW v \in Workers, NEW w \in Workers, Busy(v), Busy(w),
                      worker[v].job = worker[w].job
               PROVE  v = w
    BY DEF OneScraper
  <2>1. Holds(v, worker[v].job) /\ Holds(w, worker[v].job) /\ worker[v].job \in Jobs
    BY DEF OnTimeInv, IInv, TokenInv
  <2>2. QED  BY <2>1, HolderUnique DEF OneHolder
<1>4. QED
  BY <1>1, <1>2, <1>3, Invariance, PTL DEF Spec

-----------------------------------------------------------------------------
(* The refinement.  holder is a function of who holds each row now.        *)

\* Holder is the worker that holds the row, before a step ...
LEMMA HolderIs ==
  ASSUME IInv, NEW j \in Jobs
  PROVE  /\ \A w \in Workers : Holds(w, j) => Holder(j) = w
         /\ (\A w \in Workers : ~Holds(w, j)) => Holder(j) = Nobody
<1>1. ASSUME NEW w \in Workers, Holds(w, j)  PROVE Holder(j) = w
  <2>1. \A v \in Workers : Holds(v, j) => v = w
    BY <1>1, HolderUnique DEF OneHolder
  <2>2. Holder(j) \in Workers /\ Holds(Holder(j), j)
    BY <1>1 DEF Holder
  <2>3. QED  BY <2>1, <2>2
<1>2. (\A w \in Workers : ~Holds(w, j)) => Holder(j) = Nobody
  BY DEF Holder
<1>3. QED
  BY <1>1, <1>2

\* ... and after it.
LEMMA NextHolderIs ==
  ASSUME IInv', NEW j \in Jobs
  PROVE  /\ \A w \in Workers : Holds(w, j)' => Holder(j)' = w
         /\ (\A w \in Workers : ~Holds(w, j)') => Holder(j)' = Nobody
<1>1. \A v, w \in Workers : Holds(v, j)' /\ Holds(w, j)' => v = w
  BY DEF IInv, TokenInv, Holds
<1>2. ASSUME NEW w \in Workers, Holds(w, j)'  PROVE Holder(j)' = w
  <2>1. Holder(j)' = CHOOSE v \in Workers : Holds(v, j)'
    BY <1>2 DEF Holder
  <2>2. \A v \in Workers : Holds(v, j)' => v = w
    BY <1>1, <1>2
  <2>3. QED  BY <2>1, <2>2, <1>2
<1>3. (\A w \in Workers : ~Holds(w, j)') => Holder(j)' = Nobody
  BY DEF Holder
<1>4. QED
  BY <1>2, <1>3

\* A row whose claim and claimants stay as they are keeps its holder.
LEMMA HolderStays ==
  ASSUME IInv, IInv', NEW j \in Jobs,
         \A w \in Workers : Holds(w, j)' <=> Holds(w, j)
  PROVE  Holder(j)' = Holder(j)
<1>1. CASE \E w \in Workers : Holds(w, j)
  BY <1>1, HolderIs, NextHolderIs
<1>2. CASE \A w \in Workers : ~Holds(w, j)
  BY <1>2, HolderIs, NextHolderIs
<1>3. QED
  BY <1>1, <1>2

\* A worker that has claimed no row holds none in the abstract.
LEMMA OnlyHolders ==
  ASSUME IInv, NEW w \in Workers, NEW j \in Jobs, Holder(j) = w
  PROVE  Holds(w, j)
<1>1. CASE \E v \in Workers : Holds(v, j)
  BY <1>1, HolderIs
<1>2. CASE \A v \in Workers : ~Holds(v, j)
  BY <1>2, HolderIs, QueueAssumption
<1>3. QED
  BY <1>1, <1>2

\* A claim is a Take.
LEMMA ClaimTakes ==
  ASSUME IInv, IInv', NEW w \in Workers, NEW j \in Jobs, Claim(w, j)
  PROVE  Lease!Take(w, j)
<1>1. PICK t \in FreshTokens :
        /\ token' = [token EXCEPT ![j] = t]
        /\ expired' = expired \ {j}
        /\ worker' = [worker EXCEPT ![w] = [step |-> "working", job |-> j, token |-> t]]
  BY DEF Claim
<1>2. /\ j \in queued /\ failures[j] < MaxFailures
      /\ token[j] = NoToken \/ j \in expired
      /\ ~Busy(w)
      /\ UNCHANGED <<queued, failures>>
  BY DEF Claim, Claimable, At, Busy
<1>3. \A k \in Jobs : Holder(k) # w
  BY <1>2, OnlyHolders DEF Holds
<1>4. Holder(j) = Nobody \/ j \in expired
  <2>1. CASE token[j] = NoToken
    <3>1. \A v \in Workers : ~Holds(v, j)
      BY <2>1, QueueAssumption DEF Holds, IInv, TokenInv
    <3>2. QED  BY <3>1, HolderIs
  <2>2. QED  BY <2>1, <1>2
<1>5. Holder(j)' = w
  <2>1. Holds(w, j)'
    BY <1>1, <1>2 DEF Holds, Busy, IInv, TypeOK
  <2>2. QED  BY <2>1, NextHolderIs
<1>6. ASSUME NEW k \in Jobs, k # j  PROVE Holder(k)' = Holder(k)
  <2>1. ASSUME NEW v \in Workers  PROVE Holds(v, k)' <=> Holds(v, k)
    BY <1>1, <1>2, <1>6 DEF Holds, Busy, IInv, TypeOK
  <2>2. QED  BY <2>1, HolderStays
<1>7. [k \in Jobs |-> Holder(k)]' = [[k \in Jobs |-> Holder(k)] EXCEPT ![j] = w]
  BY <1>5, <1>6
<1>8. QED
  BY <1>1, <1>2, <1>3, <1>4, <1>7 DEF Lease!Take

\* The end of a job is its holder's Finish or Fail, and nothing if the worker
\* is not the holder any more.
LEMMA EndEnds ==
  ASSUME IInv, IInv', NEW w \in Workers, Complete(w) \/ Fail(w)
  PROVE  \/ UNCHANGED Lease!vars
         \/ \E j \in Jobs : Lease!Finish(w, j) \/ Lease!Fail(w, j)
<1>0. PICK j \in Jobs : j = worker[w].job
  BY DEF Complete, Fail, At, Busy, IInv, TokenInv
<1>1. worker' = [worker EXCEPT ![w] = Idle]
  BY DEF Complete, Fail, Rest
<1>2. \A v \in Workers : v # w => worker'[v] = worker[v] /\ (Busy(v)' <=> Busy(v))
  BY <1>1 DEF Busy, IInv, TypeOK
<1>3. ~Busy(w)'
  BY <1>1 DEF Busy, Idle, IInv, TypeOK
<1>4. \A k \in Jobs : k # j => ~Holds(w, k) /\ ~Holds(w, k)'
  BY <1>0, <1>3 DEF Holds
<1>5. CASE ~Holds(w, j)
  <2>1. UNCHANGED rows
    BY <1>0, <1>5 DEF Complete, Fail
  <2>2. \A k \in Jobs : Holder(k)' = Holder(k)
    <3>1. ASSUME NEW k \in Jobs, NEW v \in Workers  PROVE Holds(v, k)' <=> Holds(v, k)
      BY <2>1, <1>2, <1>3, <1>4, <1>5 DEF rows, Holds
    <3>2. QED  BY <3>1, HolderStays
  <2>3. QED  BY <2>1, <2>2 DEF rows, Lease!vars
<1>6. CASE Holds(w, j)
  <2>1. /\ token' = [token EXCEPT ![j] = NoToken]
        /\ expired' = expired \ {j}
        /\ \/ /\ queued' = queued \ {j}
              /\ failures' = [failures EXCEPT ![j] = 0]
           \/ /\ failures' = [failures EXCEPT ![j] = @ + 1]
              /\ queued' = queued
    BY <1>0, <1>6 DEF Complete, Fail
  <2>2. Holder(j) = w
    BY <1>1, <1>6, HolderIs
  <2>3. Holder(j)' = Nobody
    <3>1. token'[j] = NoToken
      BY <2>1, <1>1 DEF IInv, TypeOK
    <3>2. ASSUME NEW v \in Workers  PROVE ~Holds(v, j)'
      BY <3>1, <1>2, <1>3, QueueAssumption DEF Holds, IInv, TokenInv
    <3>3. QED  BY <3>2, NextHolderIs
  <2>4. ASSUME NEW k \in Jobs, k # j  PROVE Holder(k)' = Holder(k)
    <3>1. ASSUME NEW v \in Workers  PROVE Holds(v, k)' <=> Holds(v, k)
      BY <2>1, <2>4, <1>1, <1>2, <1>4 DEF Holds, IInv, TypeOK
    <3>2. QED  BY <3>1, <2>4, HolderStays
  <2>5. [k \in Jobs |-> Holder(k)]' = [[k \in Jobs |-> Holder(k)] EXCEPT ![j] = Nobody]
    BY <2>3, <2>4
  <2>6. Lease!Finish(w, j) \/ Lease!Fail(w, j)
    BY <2>1, <2>2, <2>5, <1>1 DEF Lease!Finish, Lease!Fail
  <2>7. QED  BY <2>6, <1>1
<1>7. QED
  BY <1>5, <1>6

\* Workers that die abandon what they held.
LEMMA CrashAbandons ==
  ASSUME IInv, IInv', NEW gone \in SUBSET Workers, Crash(gone)
  PROVE  Lease!Abandon(gone)
<1>1. UNCHANGED rows
  BY DEF Crash
<1>2. \A v \in Workers : IF v \in gone THEN ~Busy(v)'
                                      ELSE worker'[v] = worker[v] /\ (Busy(v)' <=> Busy(v))
  BY DEF Crash, Busy, Idle
<1>3. ASSUME NEW k \in Jobs
      PROVE  Holder(k)' = IF Holder(k) \in gone THEN Nobody ELSE Holder(k)
  <2>1. \A v \in Workers : Holds(v, k)' <=> Holds(v, k) /\ v \notin gone
    BY <1>1, <1>2 DEF rows, Holds
  <2>2. CASE Holder(k) \in gone
    <3>1. \A v \in Workers : Holds(v, k) => v \in gone
      BY <2>2, HolderIs
    <3>2. QED  BY <2>1, <2>2, <3>1, NextHolderIs
  <2>3. CASE Holder(k) \notin gone
    <3>1. \A v \in Workers : Holds(v, k) => v \notin gone
      BY <2>3, HolderIs
    <3>2. \A v \in Workers : Holds(v, k)' <=> Holds(v, k)
      BY <2>1, <3>1
    <3>3. QED  BY <2>3, <3>2, HolderStays
  <2>4. QED  BY <2>2, <2>3
<1>4. QED
  BY <1>1, <1>3 DEF rows, Lease!Abandon

\* A worker's other steps leave the abstract state alone, except that
\* reconciliation lets jobs enter.
LEMMA WorkSilent ==
  ASSUME IInv, IInv', NEW w \in Workers,
         \/ ClaimNothing(w) \/ Reconcile(w) \/ ReconciledRecently(w)
         \/ Save(w) \/ FindGone(w) \/ Throw(w)
  PROVE  \/ UNCHANGED Lease!vars
         \/ \E new \in SUBSET Jobs : Lease!Enter(new)
<1>1. /\ UNCHANGED <<token, failures, expired>>
      /\ \/ UNCHANGED queued
         \/ queued' = queued \union {j \in Jobs : progress[j] = "pending"}
  BY DEF ClaimNothing, Reconcile, ReconciledRecently, Save, FindGone, Throw, rows
<1>2. \A v \in Workers : /\ Busy(v)' <=> Busy(v)
                         /\ worker'[v].job = worker[v].job
                         /\ worker'[v].token = worker[v].token
  BY DEF ClaimNothing, Reconcile, ReconciledRecently, Save, FindGone, Throw,
         Goto, At, Busy, IInv, TypeOK
<1>3. ASSUME NEW k \in Jobs  PROVE Holder(k)' = Holder(k)
  <2>1. ASSUME NEW v \in Workers  PROVE Holds(v, k)' <=> Holds(v, k)
    <3>1. Busy(v) => worker[v].token # NoToken
      BY QueueAssumption DEF IInv, TokenInv
    <3>2. token[k] # NoToken => k \in queued
      BY DEF IInv, TypeOK
    <3>3. QED  BY <3>1, <3>2, <1>1, <1>2 DEF Holds
  <2>2. QED  BY <2>1, HolderStays
<1>4. [k \in Jobs |-> Holder(k)]' = [k \in Jobs |-> Holder(k)]
  BY <1>3
<1>5. CASE UNCHANGED queued
  BY <1>1, <1>4, <1>5 DEF Lease!vars
<1>6. CASE queued' = queued \union {j \in Jobs : progress[j] = "pending"}
  <2> DEFINE new == {j \in Jobs \ queued : progress[j] = "pending"}
  <2>1. new \in SUBSET Jobs /\ new \subseteq Jobs \ queued /\ queued' = queued \union new
    BY <1>6
  <2>2. Lease!Enter(new)
    BY <2>1, <1>1, <1>4 DEF Lease!Enter
  <2>3. QED  BY <2>1, <2>2
<1>7. QED
  BY <1>1, <1>5, <1>6

\* Of the steps of time and the progress tables only the end of a lease shows.
LEMMA JobOverdue ==
  ASSUME IInv, IInv',
         \/ \E j \in Jobs : JobStep(j)
         \/ \E list \in SUBSET Editions : Relist(list)
  PROVE  UNCHANGED Lease!vars \/ \E j \in Jobs : Lease!Overdue(j)
<1>1. /\ UNCHANGED <<queued, token, failures, worker>>
      /\ \/ UNCHANGED expired
         \/ \E j \in Jobs : j \in queued /\ expired' = expired \union {j}
  BY DEF JobStep, Discover, Relist, CommandLineScrape, ResetScrapeMarks, LeaseEnds,
         BackoffEnds, rows, IInv, TypeOK
<1>2. ASSUME NEW k \in Jobs  PROVE Holder(k)' = Holder(k)
  <2>1. ASSUME NEW v \in Workers  PROVE Holds(v, k)' <=> Holds(v, k)
    BY <1>1 DEF Holds, Busy
  <2>2. QED  BY <2>1, HolderStays
<1>3. [k \in Jobs |-> Holder(k)]' = [k \in Jobs |-> Holder(k)]
  BY <1>2
<1>4. QED
  BY <1>1, <1>3 DEF Lease!vars, Lease!Overdue

\* The queue with its random tokens implements the lease: a worker that was
\* late and lost its job to another changes nothing in the queue.
THEOREM Refinement == Spec => LeaseSpec
<1>1. Init => Lease!Init
  <2> SUFFICES ASSUME Init  PROVE Lease!Init
    OBVIOUS
  <2>1. ASSUME NEW j \in Jobs  PROVE Holder(j) = Nobody
    BY DEF Init, Holder, Holds, Busy, Idle
  <2>2. QED  BY <2>1 DEF Init, Lease!Init
<1>2. IInv /\ IInv' /\ [Next]_vars => [Lease!Next]_Lease!vars
  <2> SUFFICES ASSUME IInv, IInv', [Next]_vars  PROVE [Lease!Next]_Lease!vars
    OBVIOUS
  <2>1. ASSUME NEW w \in Workers, NEW j \in Jobs, Claim(w, j)  PROVE Lease!Next
    BY <2>1, ClaimTakes DEF Lease!Next
  <2>2. ASSUME NEW w \in Workers, Complete(w) \/ Fail(w)
        PROVE  [Lease!Next]_Lease!vars
    BY <2>2, EndEnds DEF Lease!Next
  <2>3. ASSUME NEW gone \in SUBSET Workers, Crash(gone)  PROVE Lease!Next
    BY <2>3, CrashAbandons DEF Lease!Next
  <2>4. ASSUME NEW w \in Workers,
               \/ ClaimNothing(w) \/ Reconcile(w) \/ ReconciledRecently(w)
               \/ Save(w) \/ FindGone(w) \/ Throw(w)
        PROVE  [Lease!Next]_Lease!vars
    BY <2>4, WorkSilent DEF Lease!Next
  <2>5. CASE \/ \E j \in Jobs : JobStep(j)
             \/ \E list \in SUBSET Editions : Relist(list)
    BY <2>5, JobOverdue DEF Lease!Next
  <2>6. CASE UNCHANGED vars
    <3>1. UNCHANGED rows /\ UNCHANGED worker
      BY <2>6 DEF vars
    <3>2. ASSUME NEW k \in Jobs  PROVE Holder(k)' = Holder(k)
      <4>1. ASSUME NEW v \in Workers  PROVE Holds(v, k)' <=> Holds(v, k)
        BY <3>1 DEF rows, Holds, Busy
      <4>2. QED  BY <4>1, HolderStays
    <3>3. QED  BY <3>1, <3>2 DEF rows, Lease!vars
  <2>7. QED
    BY <2>1, <2>2, <2>3, <2>4, <2>5, <2>6 DEF Next, WorkerStep
<1>3. QED
  BY <1>1, <1>2, Invariance, PTL DEF Spec, LeaseSpec, Lease!Spec
=============================================================================
