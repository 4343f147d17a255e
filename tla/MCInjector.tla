------------------------------ MODULE MCInjector ------------------------------
(***************************************************************************)
(* Four parts of the injector's process that share no state: the daily     *)
(* wake-up, one of its requests, the safe restart and the rule that one    *)
(* process runs.  A behaviour exercises one of them and leaves the others  *)
(* at rest.                                                                *)
(***************************************************************************)
EXTENDS SafeRestart, Integers, Sequences, TLC

CONSTANTS
  Ids, Times, NoSlot, DayLength, MaxDelay, MaxClock, MaxBack, MaxUser, MaxWriteFaults, MaxCrashes,
  MaxMishaps,  \* bound: set-backs of the clock, settings, failing writes and crashes together
  Processes, None, MaxDeaths, MaxWritten, MaxFailures

VARIABLES
  part,
  now, wakeup, active, process, last, found, queue, step, unsaved, tried, back, user, failures, crashes,
  kind, at, port, asked, answer, request, owner, reloads, page, loaded, leaving, listening, pending,
  requested, owed, vacated, stale, deaths,
  stage, call, completion, failure, cancelled, refreshed, renewals, child, killed, lines, unanswered, turn,
  directory, outcome, written, mishaps

\* A page reload needs two dev versions of one program, a reuse two formal ones.
Launch(mode, version) == [mode |-> mode, version |-> version, purpose |-> "launch",
                          identity |-> IF mode = "dev" THEN "files" ELSE "none"]
Kinds == <<Launch("dev", 1), Launch("dev", 2), Launch("formal", 1),
           [Launch("formal", 2) EXCEPT !.purpose = "install-update"]>>

W == INSTANCE AccountWakeup WITH MaxFaults <- MaxWriteFaults, faults <- failures
S == INSTANCE SingleInstance WITH
       Kinds <- {Kinds[k] : k \in DOMAIN Kinds}, MaxFaults <- MaxDeaths, pc <- at, faults <- deaths
C == INSTANCE WakeupClient WITH
       pc <- stage, aborted <- cancelled, asked <- unanswered, failures <- mishaps

ASSUME Constants == W!WakeupConstants /\ RestartConstants /\ C!ClientConstants

wakeupVars == <<now, wakeup, active, process, last, found, queue, step, unsaved, tried, back, user,
                failures, crashes>>
instanceVars == <<kind, at, port, asked, answer, request, owner, reloads, page, loaded, leaving,
                  listening, pending, requested, owed, vacated, stale, deaths>>
clientVars == <<stage, call, completion, failure, cancelled, refreshed, renewals, child, killed, lines,
                unanswered, turn, directory, outcome, written, mishaps>>
all == <<part, wakeupVars, vars, instanceVars, clientVars>>

\* Processes are interchangeable: how many there are of each kind is enough.
First == CHOOSE f \in [Processes -> 1 .. Cardinality(Processes)] : \A p, q \in Processes : p # q => f[p] # f[q]
Rank(p) == CHOOSE k \in DOMAIN Kinds : kind[p] = Kinds[k]

MCInit ==
  /\ part \in {"wakeup", "request", "restart", "instances"}
  /\ W!Init /\ C!Init /\ Init /\ S!Init
  /\ \A p, q \in Processes : First[p] < First[q] => Rank(p) <= Rank(q)
  /\ part # "instances" => \A p \in Processes : Rank(p) = 1

OfWakeup(A) == part = "wakeup" /\ A /\ UNCHANGED <<part, vars, instanceVars, clientVars>>
OfRequest(A) == part = "request" /\ A /\ UNCHANGED <<part, wakeupVars, vars, instanceVars>>
OfRestart(A) == part = "restart" /\ A /\ UNCHANGED <<part, wakeupVars, instanceVars, clientVars>>
OfInstances(A) == part = "instances" /\ A /\ UNCHANGED <<part, wakeupVars, vars, clientVars>>

MCNext == OfWakeup(W!Next /\ back' + user' + failures' + crashes' <= MaxMishaps) \/ OfRequest(C!Next) \/ OfRestart(Next) \/ OfInstances(S!Next)

\* The steps each part is fair to
WakeupGoesOn == W!Run \/ \E job \in found : W!Claim(job)
InstancesGoOn ==
  \E p \in Processes : S!Requester(p) \/ S!Launching(p) \/ S!Leaving(p) \/ \E q \in Processes : S!Read(q, p)
TurnsGoOn == \E t \in Turns : turns[t] # "new" /\ TurnGoesOn(t)

\* The fairness of the parts.  The steps of one part are few in any behaviour, but for a
\* wait that comes round, so that fairness to any of them is fairness to each.
MCSpec ==
  /\ MCInit /\ [][MCNext]_all
  /\ WF_all(OfWakeup(WakeupGoesOn) \/ OfRequest(C!Request) \/ OfRestart(Pending) \/ OfInstances(InstancesGoOn))
  /\ WF_all(OfRestart(TurnsGoOn) \/ OfRequest(C!Meets)) /\ WF_all(OfRequest(C!Dies))

\* A daily wake-up runs once: no time of a day is tried twice, though the clock goes back or a write
\* fails, and a run that is shown ends, across restarts, as does a request; see AccountWakeup and
\* WakeupClient.
WakeupsRunOnce ==
  /\ []W!TypeOK /\ W!OncePerSlot
  /\ part = "wakeup" => W!ShownRunEnds
  /\ part = "request" => <>(stage = "done")

\* A wake-up request leaves no process and no directory behind, renews the credentials once at most,
\* and asks for nothing more when it has failed; see WakeupClient.
AskedSafely == [](C!TypeOK /\ C!NothingRemains /\ C!RenewedOnce) /\ C!FailureIsFinal

\* A launch that meets a running injector gets what it was told: a page is reloaded to a newer version
\* only, a launch to be reused is served, and a granted takeover has a successor; see SingleInstance.
LaunchesAreServed ==
  /\ []S!TypeOK /\ S!ReloadsGoForward
  /\ part = "instances" => S!ReusesAreServed /\ S!TakeoverHasSuccessor
=============================================================================
