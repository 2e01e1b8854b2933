----------------------------- MODULE SearchCopy -----------------------------
(***************************************************************************)
(* What search promises of the objects of a table (the head comment of     *)
(* indexQueueDrainer.js: "duomenys neprarandami"), without queues, batches,*)
(* shards, locks or failures: it is a copy that follows the source table.  *)
(* A change of an object leaves something to do for it; only such an object*)
(* is ever shown anew or hidden, it is shown in a newer version and hidden *)
(* only when the source has it no more; and the work is over only when     *)
(* search agrees with the source.  IndexDrain implements this specification*)
(* with drains that share no key.                                          *)
(***************************************************************************)
EXTENDS Naturals

CONSTANTS
    Keys,      \* the objects of the table
    Returning  \* those that may be deleted and inserted again

VARIABLES
    version,   \* what the source row holds, or held
    present,   \* the keys whose source row exists
    shown,     \* the version search shows of each key, 0 if it shows none
    owed       \* the keys with something left to do

vars == <<version, present, shown, owed>>

Init ==
    /\ version = [k \in Keys |-> 0]
    /\ present = {}
    /\ shown = [k \in Keys |-> 0]
    /\ owed = {}

\* Search and source agree, but for the object that returned unnoticed.
Agrees(k) ==
    IF k \in present THEN shown[k] = version[k] \/ (k \in Returning /\ shown[k] = 0)
                     ELSE shown[k] = 0

\* The source row is inserted or changed ...
Write(k) ==
    /\ k \in present \/ version[k] = 0 \/ k \in Returning
    /\ version'[k] > version[k]
    /\ version' = [version EXCEPT ![k] = version'[k]]
    /\ present' = present \union {k}
    /\ owed' = owed \union {k}
    /\ UNCHANGED shown

\* ... or deleted.
Remove(k) ==
    /\ k \in present
    /\ present' = present \ {k}
    /\ owed' = owed \union {k}
    /\ UNCHANGED <<version, shown>>

\* Some of the objects that are owed it are shown in a newer version.
Serve ==
    /\ \A k \in Keys : shown'[k] # shown[k] =>
         k \in owed /\ shown[k] < shown'[k] /\ shown'[k] <= version[k]
    /\ UNCHANGED <<version, present, owed>>

\* Some that the source has no more are hidden, and what is done with is as
\* the source has it.
Settle ==
    /\ owed' \subseteq owed
    /\ \A k \in Keys : shown'[k] # shown[k] =>
         k \in owed /\ shown'[k] = 0 /\ k \notin present \ Returning
    /\ \A k \in owed \ owed' : Agrees(k)'
    /\ UNCHANGED <<version, present>>

\* What is shown may be gone through again.
Again ==
    /\ owed \subseteq owed'
    /\ \A k \in owed' \ owed : shown[k] # 0
    /\ UNCHANGED <<version, present, shown>>

Next ==
    \/ \E k \in Keys : Write(k) \/ Remove(k)
    \/ Serve \/ Settle \/ Again

Spec == Init /\ [][Next]_vars
=============================================================================
