----------------------------- MODULE MCLifecycle -----------------------------
(***************************************************************************)
(* The two programs that replace the running injector and restart Codex    *)
(* from outside, side by side: the supervised run and the update of  *)
(* the application.  They share no state here, so a behaviour exercises    *)
(* one of them and leaves the other at rest.                               *)
(***************************************************************************)
EXTENDS Lifecycle

CONSTANTS
  MaxReleases, MaxRuns, MaxChecks, MaxClicks, MaxStarts, MaxFaults,
  MaxTogether   \* bound: clicks, faults, checks and injectors of the update together

VARIABLES
  part,
  system, latest, app, injector, owner, manager, open, runs, registry, turn,
  ids, clicks, checks, faults, lost, broken

U == INSTANCE AppUpdate WITH platform <- system, lock <- owner

ASSUME Constants == LifecycleConstants /\ U!UpdateConstants

updated == <<system, latest, app, injector, owner, manager, open, runs, registry, turn,
             ids, clicks, checks, faults, lost, broken>>
all == <<part, vars, updated>>

MCInit ==
  /\ Init /\ U!Init
  /\ \/ part = "lifecycle" /\ system = "darwin"
     \/ part = "update" /\ platform = "mac"
LifecycleNext == part = "lifecycle" /\ Next /\ UNCHANGED <<part, updated>>
LifecycleSteps == part = "lifecycle" /\ (Supervisor \/ Resume \/ ComesUp) /\ UNCHANGED <<part, updated>>
\* Bound: the last click comes with the first injector, before any turn and without a fault.
UpdateNext ==
  /\ part = "update" /\ U!Next /\ UNCHANGED <<part, vars>>
  /\ clicks' = MaxClicks => faults' = 0 /\ ids' = 1 /\ turn' = "none"
  /\ clicks' + faults' + checks' + ids' <= MaxTogether
MCNext == LifecycleNext \/ UpdateNext
MCSpec == MCInit /\ [][MCNext]_all /\ WF_all(LifecycleSteps)

\* Every supervised run ends if it is resumed; see Lifecycle.
SupervisedRunEnds == part = "lifecycle" => RunEnds

\* A click offers a release at least as new as the newest one when it was made; see AppUpdate.
LatestIsOffered == U!LatestIsOffered

\* An update is safe: one at a time is under way, the application is replaced by one worker alone and
\* is not left absent, and no turn that was seen is cut off unless it was forced; see AppUpdate.
UpdatesAreSafe == [](U!TypeOK /\ U!OneExecutes /\ U!StaysInstalled) /\ U!SeenTurnIsSaved
=============================================================================
