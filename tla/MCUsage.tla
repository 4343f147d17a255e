------------------------------- MODULE MCUsage --------------------------------
(***************************************************************************)
(* The two ends of the token-usage service, which share only the protocol:  *)
(* the client in the injector and the manager in the short-lived service.   *)
(* A behaviour exercises one of them and leaves the other at rest.          *)
(*                                                                          *)
(* The manager reads the rollouts of a task A, with a turn of the official  *)
(* provider and one that goes through the router as a fallback, and of its  *)
(* sub-agent B, which only its summary reports.                             *)
(***************************************************************************)
EXTENDS Integers, Sequences, FiniteSets, TLC

CONSTANTS
  None, A, B, x1, x2, x3, r1, r2, r3,
  MaxGrowths, MaxEvents,
  MaxTurns, MaxFaults, MaxViews

VARIABLES
  part,
  source, growths, price, read, service, children, viewThread, switches, view, cached, known,
  snapshot, fullDue, appliedPrice, initialized, init, loop, pending, scheduled, parked, closing,
  faults,
  size, logged, mem, found, waiting, inView, views, pc, todo, dirty, saving, newer, disk, failures

Threads == {A, B}

\* Codex's records, two bytes each: "count" repeats the response's usage as a running total.
Record(type, turn, response, total) ==
  [type |-> type, turn |-> turn, response |-> response, total |-> total]
Rollouts ==
  A :> << Record("context", x1, None, 0), Record("usage", x1, r1, 0), Record("count", x1, r1, 1),
          Record("complete", x1, None, 0),
          Record("context", x2, None, 0), Record("usage", x2, r2, 0), Record("count", x2, r2, 2),
          Record("complete", x2, None, 0) >>
  @@ B :> << Record("context", x3, None, 0), Record("count", x3, r3, 1),
             Record("complete", x3, None, 0) >>

\* The relay knows no response (not keyed), the router does.
Event(type, turn, response, keyed, total, fallback, model) ==
  [type |-> type, turn |-> turn, response |-> response, keyed |-> keyed, total |-> total,
   fallback |-> fallback, model |-> model]
Events ==
  << Event("started", x1, None, FALSE, 0, FALSE, FALSE), Event("usage", x1, r1, FALSE, 1, FALSE, FALSE),
     Event("completed", x1, None, FALSE, 0, FALSE, FALSE),
     Event("started", x2, None, FALSE, 0, TRUE, TRUE), Event("usage", x2, r2, TRUE, 1, FALSE, TRUE),
     Event("usage", x2, r2, FALSE, 1, FALSE, TRUE) >>

\* A read may end within the summary of r1, and before the second turn, which starts B.
C == INSTANCE TokenUsageService WITH Turns <- {x1}, Shows <- (A :> {x1} @@ B :> {})
M == INSTANCE TokenUsage WITH
       Turns <- {x1, x2, x3}, Responses <- {r1, r2, r3},
       Root <- (A :> A @@ B :> A), ThreadOf <- (x1 :> A @@ x2 :> A @@ x3 :> B),
       RolloutScript <- Rollouts, EventScript <- Events,
       Cuts <- (A :> {5, 16} @@ B :> {6}), EventCuts <- {1, 6},
       After <- {<<A, 1, 1>>, <<A, 5, 4>>, <<B, 1, 4>>}, Views <- {A},
       known <- found, view <- inView, faults <- failures

ASSUME Constants == C!ServiceConstants /\ M!UsageConstants

clientVars ==
  <<source, growths, price, read, service, children, viewThread, switches, view, cached, known,
    snapshot, fullDue, appliedPrice, initialized, init, loop, pending, scheduled, parked, closing,
    faults>>
managerVars ==
  <<size, logged, mem, found, waiting, inView, views, pc, todo, dirty, saving, newer, disk, failures>>
vars == <<part, clientVars, managerVars>>

Init ==
  /\ part \in {"client", "manager"}
  /\ C!Init /\ M!Init
  /\ source[x1] = 0 /\ viewThread = A

ClientNext == part = "client" /\ C!Next /\ UNCHANGED <<part, managerVars>>
ManagerNext == part = "manager" /\ M!Next /\ UNCHANGED <<part, clientVars>>
Next == ClientNext \/ ManagerNext

\* The fairness of the parts; see there.
OfClient(A_) == part = "client" /\ A_ /\ UNCHANGED <<part, managerVars>>
Spec ==
  /\ Init /\ [][Next]_vars
  /\ WF_vars(OfClient(C!ClientStep)) /\ WF_vars(OfClient(C!ServiceReads))
  /\ WF_vars(OfClient(C!ServiceExits)) /\ WF_vars(OfClient(C!Poll))
  /\ WF_vars(OfClient(C!DiscoveryDue)) /\ SF_vars(OfClient(C!ServiceIdles))
  /\ []<>(part = "client" \/ M!Resting) /\ []<>(part = "client" \/ ~M!Resting \/ ~M!Wanted)

\* No late view replaces the current one, and the page comes to show what the files hold; see
\* TokenUsageService.
ViewFollows == []C!TypeOK /\ C!NoLateView /\ (part = "client" => C!ViewConverges)

\* Every response the files report is counted in the end, and none twice, by whichever of Codex,
\* relay and router reports it and however often it is read again; see TokenUsage.
UsageIsCounted == []M!CountedOnce /\ (part = "manager" => M!AllCounted)

\* A manager at rest has saved what it knows; see TokenUsage.
DiskIsCurrent == M!DiskIsCurrent
=============================================================================
