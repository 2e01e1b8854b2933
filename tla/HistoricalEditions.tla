------------------------- MODULE HistoricalEditions -------------------------
(***************************************************************************)
(* The historical editions of one act: ETarQueue with the work itself in   *)
(* steps.  e-TAR reissues the tokens of an act's editions now and then; a  *)
(* worker that meets a stale token reloads the act's edition list, once    *)
(* per act and process, and then sees whether its edition is still there.  *)
(* The workers share one process, as the task runner's do, and with it the *)
(* set sąrašaiAtnaujinti.  The stage that scrapes edition lists is a worker *)
(* too, whose list can grow old between its request and its transaction;   *)
(* a worker's own reload is taken to be saved before the next reissue.     *)
(***************************************************************************)
EXTENDS ETarQueue

CONSTANTS
    MaxGeneration,  \* bound: how often e-TAR reissues the tokens
    ErrorsHappen,   \* can requests and statements fail?
    MayRestart      \* can the process restart?

\* A job is an edition and the generation of its token.
Generation(j) == j[2]

ASSUME HistoricalAssumption ==
    /\ Editions = Jobs
    /\ MaxGeneration \in Nat
    /\ \A j \in Jobs : Generation(j) \in 0 .. MaxGeneration
    /\ {ErrorsHappen, MayRestart} \subseteq BOOLEAN

VARIABLES
    source,     \* the generation e-TAR knows
    listDue,    \* the act's edition list waits to be scraped
    refreshed,  \* sąrašaiAtnaujinti has the act
    listing,    \* the list stage's answer, not saved yet: its generation
    inner,      \* how far a working worker has come
    outdated,   \* history of the process, from the mark on: a reload failed,
                \* or an old list was saved,
    reissued    \* or the tokens were reissued

lists == <<listDue, listing, outdated, reissued>>
hvars == <<vars, source, lists, refreshed, inner>>

Current     == {j \in Jobs : Generation(j) = source}
JobOf(w)    == worker[w].job
InnerSteps  == {"none", "fetched", "refreshing", "checking"}
In(w, step) == At(w, "working") /\ inner[w] = step
GoIn(w, step) == inner' = [inner EXCEPT ![w] = step]

HInit ==
    /\ Init
    /\ source = 0
    /\ listDue = TRUE
    /\ refreshed = FALSE
    /\ inner = [w \in Workers |-> "none"]
    /\ listing = {}
    /\ outdated = FALSE
    /\ reissued = FALSE

-----------------------------------------------------------------------------
(* The queue's own steps, as they are in ETarQueue.                        *)

QueueStep(w) ==
    /\ \/ \E j \in Jobs : Claim(w, j)
       \/ ClaimNothing(w) \/ Reconcile(w) \/ ReconciledRecently(w)
       \/ Complete(w) \/ Fail(w)
       \/ ErrorsHappen /\ At(w, "saved") /\ Throw(w)
       \/ ErrorsHappen /\ At(w, "erred") /\ Crash({w})
    /\ UNCHANGED <<source, lists, refreshed, inner>>

TimeOrOperator ==
    /\ \E j \in Jobs : \/ LeaseEnds(j) \/ BackoffEnds(j) \/ ResetScrapeMarks(j)
                       \/ j \in Current /\ CommandLineScrape(j)
    /\ UNCHANGED <<source, lists, refreshed, inner>>

-----------------------------------------------------------------------------
(* e-TAR, and the other stage that loads edition lists.                    *)

Reissue ==
    /\ source < MaxGeneration
    /\ source' = source + 1
    /\ reissued' = refreshed
    /\ UNCHANGED <<vars, listDue, listing, outdated, refreshed, inner>>

\* scrapeEditionList as a job of its own, done once and after a reset: ask
\* e-TAR for the list,
RequestList ==
    /\ listDue /\ listing = {}
    /\ listing' = {source}
    /\ UNCHANGED <<vars, source, listDue, refreshed, inner, outdated, reissued>>

\* and save it, whatever has been saved meanwhile.
ListEditions ==
    /\ \E generation \in listing :
         /\ Relist({j \in Jobs : Generation(j) = generation})
         /\ outdated' = (outdated \/ (refreshed /\ generation # source))
    /\ listing' = {}
    /\ listDue' = FALSE
    /\ UNCHANGED <<source, refreshed, inner, reissued>>

ResetEditions ==
    /\ ~listDue
    /\ listDue' = TRUE
    /\ UNCHANGED <<vars, source, refreshed, inner, listing, outdated, reissued>>

-----------------------------------------------------------------------------
(* scrapeHistoricalEdition.                                                *)

\* e-TAR has the edition ...
Fetch(w) ==
    /\ In(w, "none") /\ JobOf(w) \in Current
    /\ GoIn(w, "fetched")
    /\ UNCHANGED <<vars, source, lists, refreshed>>

SaveEdition(w) ==
    /\ In(w, "fetched")
    /\ Save(w)
    /\ GoIn(w, "none")
    /\ UNCHANGED <<source, lists, refreshed>>

\* Mutation: the worker that marks the act does not reload its list.
FetchStaleUnloaded(w) ==
    /\ In(w, "none") /\ JobOf(w) \notin Current
    /\ refreshed' = TRUE
    /\ GoIn(w, "checking")
    /\ UNCHANGED <<vars, source, lists>>

\* ... or says that the token is stale.  The first worker to hear it marks
\* the act and goes on to reload its list; every other one takes the list to
\* be reloaded.
FetchStale(w) ==
    /\ In(w, "none") /\ JobOf(w) \notin Current
    /\ refreshed' = TRUE
    /\ GoIn(w, IF refreshed THEN "checking" ELSE "refreshing")
    /\ UNCHANGED <<vars, source, lists>>

\* scrapeEditionList, from within
Refresh(w) ==
    /\ In(w, "refreshing")
    /\ Relist(Current)
    /\ listDue' = FALSE
    /\ GoIn(w, "checking")
    /\ UNCHANGED <<source, refreshed, listing, outdated, reissued>>

RefreshFails(w) ==
    /\ ErrorsHappen
    /\ In(w, "refreshing")
    /\ Throw(w)
    /\ GoIn(w, "none")
    /\ outdated' = TRUE
    /\ UNCHANGED <<source, refreshed, listDue, listing, reissued>>

\* Mutation: nobody asks whether the edition is still listed.
CheckNothing(w) ==
    /\ In(w, "checking")
    /\ Goto(w, "saved")
    /\ GoIn(w, "none")
    /\ UNCHANGED <<progress, rows, overran, source, lists, refreshed>>

\* editionExists: the job has lost its object, or the error is a real one.
Check(w) ==
    /\ In(w, "checking")
    /\ IF progress[JobOf(w)] = "absent" THEN FindGone(w) ELSE Throw(w)
    /\ GoIn(w, "none")
    /\ UNCHANGED <<source, lists, refreshed>>

FetchFails(w) ==
    /\ ErrorsHappen
    /\ In(w, "none") \/ In(w, "fetched")
    /\ Throw(w)
    /\ GoIn(w, "none")
    /\ UNCHANGED <<source, lists, refreshed>>

\* The process dies with its workers and its set.
Restart ==
    /\ MayRestart
    /\ Crash({w \in Workers : Busy(w)})
    /\ refreshed' = FALSE
    /\ inner' = [w \in Workers |-> "none"]
    /\ listing' = {}
    /\ outdated' = FALSE
    /\ reissued' = FALSE
    /\ UNCHANGED <<source, listDue>>

-----------------------------------------------------------------------------
Work(w) ==
    \/ Fetch(w) \/ SaveEdition(w) \/ FetchStale(w) \/ Refresh(w)
    \/ RefreshFails(w) \/ Check(w) \/ FetchFails(w)

HNext ==
    \/ \E w \in Workers : QueueStep(w) \/ Work(w)
    \/ TimeOrOperator \/ Reissue \/ RequestList \/ ListEditions
    \/ ResetEditions \/ Restart

HSpec == HInit /\ [][HNext]_hvars

-----------------------------------------------------------------------------
(* Properties.                                                             *)

\* Every variable is in a state of the code; only a worker at work has an
\* inner step.
HTypeOK ==
    /\ TypeOK
    /\ source \in 0 .. MaxGeneration
    /\ {listDue, refreshed, outdated, reissued} \subseteq BOOLEAN
    /\ listing \subseteq 0 .. MaxGeneration
    /\ inner \in [Workers -> InnerSteps]
    /\ \A w \in Workers : inner[w] # "none" => At(w, "working")

\* The work in steps is what ETarQueue takes it for: whoever reloads the list
\* when, a job ends without content only if its edition is off the list.
QueueSpec == Spec

\* Whoever met a stale token and comes to look finds its edition off the
\* list, though another worker reloaded it; unless that one is still at it.
StaleAreGone ==
    \A w \in Workers :
      inner[w] = "checking" /\ (\A v \in Workers : inner[v] # "refreshing")
        => progress[JobOf(w)] = "absent"

\* "Sąrašą persikraunam vieną kartą aktui: kiti to paties akto darbai jau ras
\* šviežias eilutes" (eTarScrape.js:107-110): one reload in the life of a
\* process serves all its workers, when no reload failed and no older list
\* was saved after it.
StaleIsOffTheList == outdated \/ StaleAreGone

\* What the code keeps of that, in every process, however often the tokens
\* were reissued before: from the mark to the next reissue one reload serves
\* all workers, whenever they met the stale token and whoever reloads.
OneReloadServesAll == outdated \/ reissued \/ StaleAreGone
=============================================================================
