------------------------------ MODULE JobLease ------------------------------
(***************************************************************************)
(* What the comment over claimNextETarJob promises ("claimToken apsaugo    *)
(* nuo seno workerio, grįžusio jau pasibaigus jo lease'ui"), without       *)
(* tokens, clocks or SQL: a job in the queue has at most one holder, only  *)
(* its holder takes it out of the queue or adds to its failures, and a     *)
(* worker whose lease was taken over has no say in it any more.  ETarQueue *)
(* implements this specification with a random token per claim.            *)
(***************************************************************************)
EXTENDS Naturals

CONSTANTS
    Jobs,
    Workers,
    Nobody,
    MaxFailures

VARIABLES
    queued,   \* the jobs in the queue
    failures, \* how often each of them has failed
    holder,   \* who holds each of them
    overdue   \* the jobs whose holder has outlasted its lease

vars == <<queued, failures, holder, overdue>>

Init ==
    /\ queued = {}
    /\ failures = [j \in Jobs |-> 0]
    /\ holder = [j \in Jobs |-> Nobody]
    /\ overdue = {}

\* New jobs come in, without failures and without a holder.
Enter(new) ==
    /\ new \subseteq Jobs \ queued
    /\ queued' = queued \union new
    /\ UNCHANGED <<failures, holder, overdue>>

\* A worker that holds nothing takes a job nobody holds, or whose holder is
\* overdue, as long as it has not failed too often.
Take(w, j) ==
    /\ j \in queued
    /\ \A k \in Jobs : holder[k] # w
    /\ holder[j] = Nobody \/ j \in overdue
    /\ failures[j] < MaxFailures
    /\ holder' = [holder EXCEPT ![j] = w]
    /\ overdue' = overdue \ {j}
    /\ UNCHANGED <<queued, failures>>

\* The holder's time is up; nothing else changes.
Overdue(j) ==
    /\ j \in queued
    /\ overdue' = overdue \union {j}
    /\ UNCHANGED <<queued, failures, holder>>

\* Workers go away without a word.
Abandon(gone) ==
    /\ holder' = [j \in Jobs |-> IF holder[j] \in gone THEN Nobody ELSE holder[j]]
    /\ UNCHANGED <<queued, failures, overdue>>

\* The holder reports the job done: it leaves the queue.
Finish(w, j) ==
    /\ holder[j] = w
    /\ queued' = queued \ {j}
    /\ failures' = [failures EXCEPT ![j] = 0]
    /\ holder' = [holder EXCEPT ![j] = Nobody]
    /\ overdue' = overdue \ {j}

\* The holder reports a failure.
Fail(w, j) ==
    /\ holder[j] = w
    /\ failures' = [failures EXCEPT ![j] = @ + 1]
    /\ holder' = [holder EXCEPT ![j] = Nobody]
    /\ overdue' = overdue \ {j}
    /\ UNCHANGED queued

Next ==
    \/ \E new \in SUBSET Jobs : Enter(new)
    \/ \E j \in Jobs : Overdue(j)
    \/ \E gone \in SUBSET Workers : Abandon(gone)
    \/ \E w \in Workers, j \in Jobs : Take(w, j) \/ Finish(w, j) \/ Fail(w, j)

Spec == Init /\ [][Next]_vars
=============================================================================
