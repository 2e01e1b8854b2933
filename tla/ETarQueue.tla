----------------------------- MODULE ETarQueue -----------------------------
(***************************************************************************)
(* The e-TAR scrape queue, "eTar"."scrapeQueue", one kind of it: jobs come *)
(* from the progress tables, workers of the task runner claim one under a  *)
(* lease with a random token, scrape it while no transaction is open, mark *)
(* the progress in the transaction that saves the content and then delete  *)
(* the row, or count a failure.  The command line scrapes the same acts    *)
(* past the queue and can reset their progress.                            *)
(* modules/eSeimas/eSeimasTaskQueue.js is this code with one more column.  *)
(*                                                                         *)
(* Abstracted: the order by requestedAt (any row that may be claimed can   *)
(* be the next) and the limit of 1000 rows per reconciliation.             *)
(***************************************************************************)
EXTENDS Naturals

CONSTANTS
    Jobs,         \* the acts, or editions, of this kind
    Editions,     \* those of them that are historical editions
    Workers,      \* task runner workers, of any number of processes
    Tokens,       \* claim tokens
    NoToken,
    NoJob,
    Nobody,
    MaxFailures   \* maxFailures, 5

ASSUME QueueAssumption ==
    /\ Editions \subseteq Jobs
    /\ NoToken \notin Tokens
    /\ NoJob \notin Jobs
    /\ Nobody \notin Workers
    /\ MaxFailures \in Nat \ {0}

VARIABLES
    progress,  \* the job's progress row: absent, pending (NULL) or done
    queued,    \* the jobs with a row in the queue
    token,     \* claimToken
    failures,  \* failureCount of the queue's row
    backoff,   \* the jobs whose retryAfter is in the future
    expired,   \* the jobs whose leaseUntil has passed
    worker,    \* each worker's step, job and token
    overran    \* history: a live worker has outlasted its lease

rows == <<queued, token, failures, backoff, expired>>
vars == <<progress, rows, worker, overran>>

Steps == {"idle", "empty", "working", "saved", "erred"}
Idle  == [step |-> "idle", job |-> NoJob, token |-> NoToken]

At(w, step)   == worker[w].step = step
Goto(w, step) == worker' = [worker EXCEPT ![w].step = step]
Busy(w)       == worker[w].step \in {"working", "saved", "erred"}

\* WHERE "queueId" = ... AND "claimToken" = ...
Holds(w, j) ==
    /\ Busy(w) /\ worker[w].job = j
    /\ j \in queued /\ token[j] = worker[w].token

Init ==
    /\ progress = [j \in Jobs |-> "absent"]
    /\ queued = {}
    /\ token = [j \in Jobs |-> NoToken]
    /\ failures = [j \in Jobs |-> 0]
    /\ backoff = {}
    /\ expired = {}
    /\ worker = [w \in Workers |-> Idle]
    /\ overran = FALSE

-----------------------------------------------------------------------------
(* The progress tables and what changes them past the queue.               *)

\* A day's search, or a reference from another act.
Discover(j) ==
    /\ j \notin Editions /\ progress[j] = "absent"
    /\ progress' = [progress EXCEPT ![j] = "pending"]
    /\ UNCHANGED <<rows, worker, overran>>

\* saveEditionList: the editions of the new list, with the marks of those
\* that were there before.
Relisted(list) ==
    [j \in Jobs |-> CASE j \notin Editions      -> progress[j]
                      [] j \in Editions \ list -> "absent"
                      [] OTHER -> IF progress[j] = "absent" THEN "pending"
                                                            ELSE progress[j]]

Relist(list) ==
    /\ progress' = Relisted(list)
    /\ UNCHANGED <<rows, worker, overran>>

\* eTarScrape.js from the command line, which looks at the progress only.
CommandLineScrape(j) ==
    /\ progress[j] = "pending"
    /\ progress' = [progress EXCEPT ![j] = "done"]
    /\ UNCHANGED <<rows, worker, overran>>

\* resetScrapeMarks: the mark and the counters of the progress row.
ResetScrapeMarks(j) ==
    /\ progress[j] = "done"
    /\ progress' = [progress EXCEPT ![j] = "pending"]
    /\ UNCHANGED <<rows, worker, overran>>

-----------------------------------------------------------------------------
(* runClaimed.                                                             *)

\* Mutation: an expired lease does not count.
ClaimableUnleased ==
    {j \in queued : /\ failures[j] < MaxFailures
                    /\ j \notin backoff
                    /\ token[j] = NoToken}

\* Mutation: a lease keeps nobody away.
ClaimableLeased == {j \in queued : failures[j] < MaxFailures /\ j \notin backoff}

Claimable ==
    {j \in queued : /\ failures[j] < MaxFailures
                    /\ j \notin backoff
                    /\ token[j] = NoToken \/ j \in expired}

\* randomUUID: a token nobody has.
FreshTokens ==
    {t \in Tokens : /\ \A j \in Jobs : token[j] # t
                    /\ \A w \in Workers : worker[w].token # t}

\* Mutation: COALESCE("claimToken", $3).
ClaimKeepingToken(w, j) ==
    /\ At(w, "idle") /\ j \in Claimable
    /\ \E t \in FreshTokens :
         LET kept == IF token[j] = NoToken THEN t ELSE token[j]
         IN  /\ token' = [token EXCEPT ![j] = kept]
             /\ expired' = expired \ {j}
             /\ worker' = [worker EXCEPT ![w] =
                             [step |-> "working", job |-> j, token |-> kept]]
    /\ UNCHANGED <<progress, queued, failures, backoff, overran>>

\* claimNextETarJob
Claim(w, j) ==
    /\ At(w, "idle") /\ j \in Claimable
    /\ \E t \in FreshTokens :
         /\ token' = [token EXCEPT ![j] = t]
         /\ expired' = expired \ {j}
         /\ worker' = [worker EXCEPT ![w] =
                         [step |-> "working", job |-> j, token |-> t]]
    /\ UNCHANGED <<progress, queued, failures, backoff, overran>>

\* There is nothing to claim ...
ClaimNothing(w) ==
    /\ At(w, "idle") /\ Claimable = {}
    /\ Goto(w, "empty")
    /\ UNCHANGED <<progress, rows, overran>>

\* ... so enqueuePendingETarJobs brings the queue up to date, unless that was
\* done within the last minute.
Reconcile(w) ==
    /\ At(w, "empty")
    /\ queued' = queued \union {j \in Jobs : progress[j] = "pending"}
    /\ Goto(w, "idle")
    /\ UNCHANGED <<progress, token, failures, backoff, expired, overran>>

ReconciledRecently(w) ==
    /\ At(w, "empty")
    /\ Goto(w, "idle")
    /\ UNCHANGED <<progress, rows, overran>>

\* The content and the mark are saved in one transaction; the mark of an
\* edition that has vanished meanwhile finds no row.
Save(w) ==
    /\ At(w, "working")
    /\ progress' = [progress EXCEPT ![worker[w].job] =
                      IF @ = "absent" THEN @ ELSE "done"]
    /\ Goto(w, "saved")
    /\ UNCHANGED <<rows, overran>>

\* The edition's token is stale and the new list has it no more.
FindGone(w) ==
    /\ At(w, "working")
    /\ progress[worker[w].job] = "absent"
    /\ Goto(w, "saved")
    /\ UNCHANGED <<progress, rows, overran>>

\* The work, or the DELETE after it, throws.
Throw(w) ==
    /\ At(w, "working") \/ At(w, "saved")
    /\ Goto(w, "erred")
    /\ UNCHANGED <<progress, rows, overran>>

Rest(w) == worker' = [worker EXCEPT ![w] = Idle]

\* Mutation: the row is deleted by its id alone.
CompleteAnyway(w) ==
    /\ At(w, "saved")
    /\ LET j == worker[w].job
       IN  /\ queued' = queued \ {j}
           /\ token' = [token EXCEPT ![j] = NoToken]
           /\ failures' = [failures EXCEPT ![j] = 0]
           /\ backoff' = backoff \ {j}
           /\ expired' = expired \ {j}
    /\ Rest(w)
    /\ UNCHANGED <<progress, overran>>

\* completeETarJob
Complete(w) ==
    /\ At(w, "saved")
    /\ LET j == worker[w].job
       IN  IF Holds(w, j)
             THEN /\ queued' = queued \ {j}
                  /\ token' = [token EXCEPT ![j] = NoToken]
                  /\ failures' = [failures EXCEPT ![j] = 0]
                  /\ backoff' = backoff \ {j}
                  /\ expired' = expired \ {j}
             ELSE UNCHANGED rows
    /\ Rest(w)
    /\ UNCHANGED <<progress, overran>>

\* failETarJob
Fail(w) ==
    /\ At(w, "erred")
    /\ LET j == worker[w].job
       IN  IF Holds(w, j)
             THEN /\ token' = [token EXCEPT ![j] = NoToken]
                  /\ failures' = [failures EXCEPT ![j] = @ + 1]
                  /\ backoff' = backoff \union {j}
                  /\ expired' = expired \ {j}
                  /\ UNCHANGED queued
             ELSE UNCHANGED rows
    /\ Rest(w)
    /\ UNCHANGED <<progress, overran>>

\* A process dies with all its workers, or failETarJob throws: what they had
\* claimed stays leased.
Crash(gone) ==
    /\ \A w \in gone : Busy(w)
    /\ worker' = [w \in Workers |-> IF w \in gone THEN Idle ELSE worker[w]]
    /\ UNCHANGED <<progress, rows, overran>>

-----------------------------------------------------------------------------
(* Time.                                                                   *)

\* Two hours pass after a claim.
LeaseEnds(j) ==
    /\ token[j] # NoToken /\ j \notin expired
    /\ expired' = expired \union {j}
    /\ overran' = (overran \/ \E w \in Workers : Holds(w, j))
    /\ UNCHANGED <<progress, queued, token, failures, backoff, worker>>

\* Half an hour per failure passes.
BackoffEnds(j) ==
    /\ j \in backoff
    /\ backoff' = backoff \ {j}
    /\ UNCHANGED <<progress, queued, token, failures, expired, worker, overran>>

-----------------------------------------------------------------------------
WorkerStep(w) ==
    \/ \E j \in Jobs : Claim(w, j)
    \/ ClaimNothing(w) \/ Reconcile(w) \/ ReconciledRecently(w)
    \/ Save(w) \/ FindGone(w) \/ Throw(w) \/ Complete(w) \/ Fail(w)

JobStep(j) ==
    \/ Discover(j) \/ CommandLineScrape(j) \/ ResetScrapeMarks(j)
    \/ LeaseEnds(j) \/ BackoffEnds(j)

Next ==
    \/ \E gone \in SUBSET Workers : Crash(gone)
    \/ \E j \in Jobs : JobStep(j)
    \/ \E w \in Workers : WorkerStep(w)
    \/ \E list \in SUBSET Editions : Relist(list)

Spec == Init /\ [][Next]_vars

\* The task runner keeps its workers going and time passes.  Workers ask for
\* jobs far more often than leases end, and a minute passes between
\* reconciliations now and then.  The oldest row is claimed first, so each
\* one is in time.  A job does not kill its worker every time, neither at
\* work nor before the failure is written down.
FairSpec ==
    /\ Spec
    /\ \A w \in Workers :
         /\ WF_vars(WorkerStep(w))
         /\ SF_vars(ClaimNothing(w)) /\ SF_vars(Reconcile(w))
    /\ \A j \in Jobs :
         /\ WF_vars(LeaseEnds(j)) /\ WF_vars(BackoffEnds(j))
         /\ SF_vars(\E w \in Workers : Claim(w, j))
         /\ SF_vars(\E w \in Workers :
                      worker[w].job = j /\ (Save(w) \/ FindGone(w) \/ Throw(w)))
         /\ SF_vars(\E w \in Workers : worker[w].job = j /\ Fail(w))

-----------------------------------------------------------------------------
(* Properties.                                                             *)

\* Every row and every worker is in a state of the code; a job fails at most
\* MaxFailures times (claimNextETarJob), and a row that is not there has left
\* nothing behind for the next one.
TypeOK ==
    /\ progress \in [Jobs -> {"absent", "pending", "done"}]
    /\ queued \subseteq Jobs
    /\ token \in [Jobs -> Tokens \union {NoToken}]
    /\ failures \in [Jobs -> 0 .. MaxFailures]
    /\ backoff \subseteq queued /\ expired \subseteq queued
    /\ worker \in [Workers -> [step : Steps, job : Jobs \union {NoJob},
                               token : Tokens \union {NoToken}]]
    /\ overran \in BOOLEAN
    /\ \A j \in Jobs \ queued : token[j] = NoToken /\ failures[j] = 0

\* However many workers are late with a job, the row listens to one of them
\* at most (claimNextETarJob gives every claim a token of its own).
OneHolder ==
    \A j \in Jobs : \A v, w \in Workers : Holds(v, j) /\ Holds(w, j) => v = w

\* As long as live workers end within their two hours, nobody else scrapes
\* their jobs, whatever dies, fails or is listed again.
OneScraper ==
    overran \/ \A v, w \in Workers :
      Busy(v) /\ Busy(w) /\ worker[v].job = worker[w].job => v = w

\* A pending job is scraped, vanishes or has failed as often as it may, in
\* spite of crashed workers, failed statements and resets, unless a worker
\* outlasts its lease: its failure then is not counted.
PendingEnds ==
    \A j \in Jobs :
      progress[j] = "pending"
        ~> progress[j] # "pending" \/ failures[j] = MaxFailures \/ overran

\* The workers' tokens implement the lease: a worker that is late changes
\* nothing in the queue.
Holder(j) ==
    IF \E w \in Workers : Holds(w, j)
      THEN CHOOSE w \in Workers : Holds(w, j)
      ELSE Nobody

Lease == INSTANCE JobLease WITH
           holder <- [j \in Jobs |-> Holder(j)],
           overdue <- expired

LeaseSpec == Lease!Spec
=============================================================================
