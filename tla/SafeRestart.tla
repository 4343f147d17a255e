------------------------------ MODULE SafeRestart ------------------------------
(***************************************************************************)
(* The safe restart of Codex: the coordinator of                           *)
(* src/injector/safe-restart.mjs waits at the gate of                  *)
(* src/lifecycle-shutdown-gate.mjs until no turn is active and every   *)
(* turn it has seen is in the history database, twice in a row, and then   *)
(* restarts.  Meanwhile turns come and go, the user may force the restart  *)
(* and the injector may stop.                                              *)
(***************************************************************************)
EXTENDS Naturals, FiniteSets

CONSTANTS
  Turns,        \* turns that may run in the tasks of Codex
  Observations, \* stableObservations
  LateActions,  \* a page action already under way may still reach force() after close()
  MaxRequests,  \* bound: restarts requested
  MaxFaults     \* bound: failing inspections, closings and launches

RestartConstants ==
  /\ Observations \in Nat \ {0}
  /\ LateActions \in BOOLEAN
  /\ MaxRequests \in Nat /\ MaxFaults \in Nat

VARIABLES
  turns,     \* external: where each turn of Codex is
  pc,        \* where the pending request is; "idle" is pending = null
  aborted,   \* signal.aborted of its controller
  forced,    \* forceRequested
  phase,     \* operation?.phase
  failing,   \* the request's promise is going to reject
  inspector, \* the inspector: "none", "open" or "closed"
  tracked,   \* turns to look up in the history: those seen active since the gate was entered
  capture,   \* active turns of the running inspection
  signature, \* stableSignature, which is null as long as stable is 0
  stable,    \* stableCount
  seen,      \* ghost: turns an inspection of this request found active
  closed,    \* the injector's stop() has called close()
  requests, faults  \* counters of the bounds

gate   == <<tracked, capture, signature, stable, seen>>
bounds == <<requests, faults>>
vars   == <<turns, pc, aborted, forced, phase, failing, inspector, gate, closed, bounds>>

Init ==
  /\ turns = [t \in Turns |-> "new"]
  /\ pc = "idle" /\ aborted = FALSE /\ forced = FALSE
  /\ phase = "none" /\ failing = FALSE /\ inspector = "none"
  /\ tracked = {} /\ capture = {} /\ signature = {} /\ stable = 0 /\ seen = {}
  /\ closed = FALSE /\ requests = 0 /\ faults = 0

Fault == faults < MaxFaults /\ faults' = faults + 1

-----------------------------------------------------------------------------
\* Codex: a turn starts, ends, and reaches the history database some time later.
TurnGoesOn(t) ==
  /\ turns' = [turns EXCEPT ![t] = CASE @ = "new" -> "active" [] @ = "active" -> "ended"
                                     [] @ \in {"ended", "saved"} -> "saved"]
  /\ turns' # turns
  /\ UNCHANGED <<pc, aborted, forced, phase, failing, inspector, gate, closed, bounds>>

\* request, and the start of its promise: a second request joins the first.
Request ==
  /\ pc = "idle" /\ ~closed /\ requests < MaxRequests
  /\ requests' = requests + 1
  /\ aborted' = FALSE /\ forced' = FALSE /\ failing' = FALSE
  /\ pc' = "begin" /\ inspector' = "none"
  /\ tracked' = {} /\ capture' = {} /\ signature' = {} /\ stable' = 0 /\ seen' = {}
  /\ UNCHANGED <<turns, phase, closed, faults>>

\* The inner catch: an error of the wait is dropped if a force made it stop.
Caught == failing' = ~(forced /\ aborted) /\ pc' = "closing"

\* publish, then createInspector; an existing signal is not looked at again.
Begin ==
  /\ pc = "begin"
  /\ phase' = "waiting"
  /\ IF aborted THEN Caught ELSE pc' = "create" /\ UNCHANGED failing
  /\ UNCHANGED <<turns, aborted, forced, inspector, gate, closed, bounds>>

Created ==
  /\ pc = "create"
  /\ \/ /\ inspector' = "open"
        /\ IF aborted THEN Caught ELSE pc' = "capture" /\ UNCHANGED failing
        /\ UNCHANGED faults
     \/ Fault /\ Caught /\ UNCHANGED inspector
  /\ UNCHANGED <<turns, aborted, forced, phase, gate, closed, requests>>

\* Broken on purpose: only the turns of this inspection are looked up in the history.
CaptureOnly ==
  /\ pc = "capture"
  /\ capture' = {t \in Turns : turns[t] = "active"}
  /\ tracked' = capture'
  /\ seen' = seen \cup capture' /\ pc' = "inspect"
  /\ UNCHANGED <<turns, aborted, forced, phase, failing, inspector, signature, stable, closed, bounds>>
\* inspectCodexShutdownReadiness reads which turns are active ...
Capture ==
  /\ pc = "capture"
  /\ capture' = {t \in Turns : turns[t] = "active"}
  /\ tracked' = tracked \cup capture'
  /\ seen' = seen \cup capture' /\ pc' = "inspect"
  /\ UNCHANGED <<turns, aborted, forced, phase, failing, inspector, signature, stable, closed, bounds>>

\* ... and then whether the ones seen are all in the history.  Two ready results
\* in a row about the same turns end the wait.
Inspected ==
  LET ready == capture = {} /\ \A t \in tracked : turns[t] = "saved"
      count == IF ~ready THEN 0 ELSE IF stable > 0 /\ signature = tracked THEN stable + 1 ELSE 1
  IN
  /\ pc = "inspect"
  /\ \/ /\ aborted /\ Caught
        /\ UNCHANGED <<phase, signature, stable, faults>>
     \/ /\ Fault /\ Caught
        /\ UNCHANGED <<phase, signature, stable>>
     \/ /\ ~aborted
        /\ phase' = "waiting"
        /\ signature' = IF ready THEN tracked ELSE {}
        /\ stable' = count
        /\ pc' = IF count >= Observations THEN "closing" ELSE "sleep"
        /\ UNCHANGED <<failing, faults>>
  /\ UNCHANGED <<turns, aborted, forced, inspector, tracked, capture, seen, closed, requests>>

\* The pause between two inspections; an abort ends it at once.
Wake ==
  /\ pc = "sleep"
  /\ IF aborted THEN Caught ELSE pc' = "capture" /\ UNCHANGED failing
  /\ UNCHANGED <<turns, aborted, forced, phase, inspector, gate, closed, bounds>>

\* finally: the inspector is closed, and the outcome decides what follows.
Closed ==
  /\ pc = "closing"
  /\ \E closeFails \in BOOLEAN :
       /\ IF closeFails THEN inspector = "open" /\ Fault ELSE UNCHANGED faults
       /\ inspector' = IF inspector = "open" THEN "closed" ELSE inspector
       /\ failing' = (failing \/ (~forced /\ (closeFails \/ aborted)))
  /\ phase' = IF failing' THEN phase ELSE "restarting"
  /\ pc' = IF failing' THEN "reject" ELSE "restart"
  /\ UNCHANGED <<turns, aborted, forced, gate, closed, requests>>

\* restart() answers: Codex is stopped and launched again, or was not.
Restarted ==
  /\ pc = "restart"
  /\ \/ phase' = "none" /\ pc' = "finish" /\ UNCHANGED <<failing, faults>>
     \/ Fault /\ failing' = TRUE /\ pc' = "reject" /\ UNCHANGED phase
  /\ UNCHANGED <<turns, aborted, forced, inspector, gate, closed, requests>>

\* Broken on purpose: every failure is shown.
RejectAloud ==
  /\ pc = "reject"
  /\ phase' = "failed"
  /\ pc' = "finish"
  /\ UNCHANGED <<turns, aborted, forced, failing, inspector, gate, closed, bounds>>
\* The outer catch: a failure is shown unless the injector is stopping.
Reject ==
  /\ pc = "reject"
  /\ phase' = IF ~aborted \/ forced THEN "failed" ELSE phase
  /\ pc' = "finish"
  /\ UNCHANGED <<turns, aborted, forced, failing, inspector, gate, closed, bounds>>

Finish ==
  /\ pc = "finish"
  /\ pc' = "idle" /\ forced' = FALSE
  /\ UNCHANGED <<turns, aborted, phase, failing, inspector, gate, closed, bounds>>

\* force: only a waiting request can be forced.
ForceRestart ==
  /\ pc # "idle" /\ phase = "waiting"
  /\ ~closed \/ LateActions
  /\ forced' = TRUE /\ aborted' = TRUE /\ phase' = "restarting"
  /\ UNCHANGED <<turns, pc, failing, inspector, gate, closed, bounds>>

\* close, from the injector's stop.
Close ==
  /\ ~closed /\ closed' = TRUE
  /\ forced' = FALSE
  /\ aborted' = (aborted \/ pc # "idle")
  /\ UNCHANGED <<turns, pc, phase, failing, inspector, gate, bounds>>

Pending == \/ Begin \/ Created \/ Capture \/ Inspected \/ Wake \/ Closed \/ Restarted
           \/ Reject \/ Finish

Next == Request \/ Pending \/ ForceRestart \/ Close \/ \E t \in Turns : TurnGoesOn(t)

Spec == Init /\ [][Next]_vars

\* Awaited calls settle, and a turn that has started ends and is saved.
FairSpec ==
  /\ Spec /\ WF_vars(Pending)
  /\ \A t \in Turns : WF_vars(turns[t] # "new" /\ TurnGoesOn(t))

-----------------------------------------------------------------------------
\* Every variable has its type.
TypeOK ==
  /\ turns \in [Turns -> {"new", "active", "ended", "saved"}]
  /\ pc \in {"idle", "begin", "create", "capture", "inspect", "sleep", "closing", "restart",
             "reject", "finish"}
  /\ aborted \in BOOLEAN /\ forced \in BOOLEAN /\ failing \in BOOLEAN /\ closed \in BOOLEAN
  /\ phase \in {"none", "waiting", "restarting", "failed"}
  /\ inspector \in {"none", "open", "closed"}
  /\ {tracked, seen} \subseteq SUBSET Turns /\ capture \subseteq tracked
  /\ signature \subseteq Turns /\ stable \in 0 .. Observations

\* Codex is restarted without the user's force only when every turn the gate has
\* seen running is in the history database: the last reply of a turn that was
\* waited for is not lost, whatever turns come in between.
NoTrackedTurnLost ==
  [][Closed /\ pc' = "restart" /\ ~forced => \A t \in seen : turns[t] = "saved"]_vars
RestartsKeepTurns == []TypeOK /\ NoTrackedTurnLost

\* A failure is published only for a restart the user still waits for; stopping
\* the injector cancels silently.
NoFailureAfterClose == [][closed => ~(phase # "failed" /\ phase' = "failed")]_vars

\* Every request ends, by a restart, a failure or a cancellation.
RequestsSettle == (pc # "idle") ~> (pc = "idle")
RequestsEnd == NoFailureAfterClose /\ RequestsSettle
=============================================================================
