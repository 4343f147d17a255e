----------------------------- MODULE InjectorLoop -----------------------------
(***************************************************************************)
(* runInjector (src/injector.mjs): the loop that keeps the page connected  *)
(* and takes the user's clicks from it, the batch of actions it starts,    *)
(* the restarts of Codex that the batch, the safe restart and the loop     *)
(* make side by side, the refresh of the quotas and the stop.              *)
(*                                                                         *)
(* An action is what runs between two awaits.  What the page shows is      *)
(* WidgetSession, the wait of a safe restart SafeRestart, the catalogue    *)
(* ModelCatalog, what a launch prepares CodexRuntime.                      *)
(***************************************************************************)
EXTENDS Naturals

CONSTANTS
  MaxClicks,  \* bound: clicks
  MaxEvents   \* bound: failing awaits, signals, and what happens to Codex, the login and the catalogue

LoopConstants == MaxClicks \in Nat /\ MaxEvents \in Nat

VARIABLES
  codex,      \* external: "up" with its page, or "down"
  clicks,     \* each click: its kind and what became of it
  cdp,        \* the connection: "none", "opening", "open", or "dead" when Codex has gone
  loop,       \* where the loop is
  running,    \* what isCodexRunning() answered
  seen,       \* hasSeenCodexProcess
  late,       \* the startup deadline has passed
  recovery,   \* launchRecoveryRequested
  restarting, \* restartingCodex
  restart,    \* where the restart of each owner is
  batch,      \* activeAction, with the kind of its current action
  detections, \* activeModelDetections
  safe,       \* the safe restart: "none", "waiting", "forced" or "restarting"
  busy,       \* modelCatalogCoordinator.busy
  quota,      \* quotaRefreshPromise and quotaRefreshRequested
  timer,      \* quotaRefreshTimer is armed
  owed,       \* ghost: a refresh was asked for and none has begun since
  stopped,
  exit,       \* stopAndExit
  events      \* counter of the bound

rounds   == <<loop, running, seen, late, recovery>>
restarts == <<restarting, restart>>
work     == <<batch, detections, safe>>
quotas   == <<quota, timer, owed>>
ending   == <<stopped, exit>>
vars == <<codex, clicks, cdp, rounds, restarts, work, busy, quotas, ending, events>>

Clicks == 1 .. MaxClicks
\* "other" stands for the actions that restart nothing.
Kinds == {"switch", "context", "models", "safe", "force", "detect", "other"}
Owners == {"batch", "safe", "loop"}

Init ==
  /\ codex \in {"up", "down"}
  /\ clicks \in [Clicks -> [kind : Kinds, at : {"new"}]]
  /\ cdp = "none" /\ loop = "top" /\ running = FALSE /\ seen = FALSE /\ late = FALSE /\ recovery = FALSE
  /\ restarting = FALSE /\ restart = [o \in Owners |-> "none"]
  /\ batch = [pc |-> "none", kind |-> "other"] /\ detections = {} /\ safe = "none" /\ busy = FALSE
  /\ quota = [pc |-> "work", again |-> FALSE] /\ timer = FALSE /\ owed = FALSE
  /\ stopped = FALSE /\ exit = "none" /\ events = 0

Alive == exit # "gone"
Event == events < MaxEvents /\ events' = events + 1
\* The clicks that are at one place go to another.
Moved(from, to) == [c \in Clicks |-> IF clicks[c].at = from THEN [clicks[c] EXCEPT !.at = to] ELSE clicks[c]]

-----------------------------------------------------------------------------
(* The refresh of the quotas *)

\* runQuotaRefresh({ repeatIfRunning: true }): a refresh that is under way is followed by another.
Demand ==
  IF quota.pc # "none"
  THEN quota' = [quota EXCEPT !.again = TRUE] /\ owed' = TRUE
  ELSE quota' = [pc |-> "work", again |-> FALSE] /\ owed' = FALSE
\* A refresh ends or fails.  Between the last look at the request and the finally of the promise
\* another callback may run.
QuotaWorked ==
  /\ Alive /\ quota.pc = "work"
  /\ IF quota.again /\ ~stopped
     THEN quota' = [quota EXCEPT !.again = FALSE] /\ owed' = FALSE
     ELSE quota' = [quota EXCEPT !.pc = "over"] /\ UNCHANGED owed
  /\ UNCHANGED <<codex, clicks, cdp, rounds, restarts, work, busy, timer, ending, events>>
\* The finally, and scheduleQuotaRefresh: nothing is armed after the stop.
QuotaOver ==
  /\ Alive /\ quota.pc = "over"
  /\ quota' = [quota EXCEPT !.pc = "none"] /\ timer' = ~stopped
  /\ UNCHANGED <<codex, clicks, cdp, rounds, restarts, work, busy, owed, ending, events>>
TimerFires ==
  /\ Alive /\ timer
  /\ timer' = FALSE /\ Demand
  /\ UNCHANGED <<codex, clicks, cdp, rounds, restarts, work, busy, ending, events>>

-----------------------------------------------------------------------------
(* Around the injector *)

\* The watch of the official credentials, until it is closed: the catalogue is refreshed, too.
LoginChanged ==
  /\ Alive /\ ~stopped /\ Event
  /\ Demand /\ busy' = TRUE
  /\ UNCHANGED <<codex, clicks, cdp, rounds, restarts, work, timer, ending>>
\* The catalogue is refreshed, at its time or for a launch, and the refresh ends.
CatalogBegins ==
  /\ Alive /\ ~stopped /\ ~busy /\ Event /\ busy' = TRUE
  /\ UNCHANGED <<codex, clicks, cdp, rounds, restarts, work, quotas, ending>>
CatalogEnds ==
  /\ Alive /\ busy /\ busy' = FALSE
  /\ UNCHANGED <<codex, clicks, cdp, rounds, restarts, work, quotas, ending, events>>
\* Codex and its page are gone, with the clicks that were not taken.
Gone ==
  /\ codex' = "down" /\ clicks' = Moved("page", "lost")
  /\ cdp' = IF cdp = "none" THEN "none" ELSE "dead"
CodexExits ==
  /\ Alive /\ codex = "up" /\ Event /\ Gone
  /\ UNCHANGED <<rounds, restarts, work, busy, quotas, ending>>
CodexStarts ==
  /\ Alive /\ codex = "down" /\ Event /\ codex' = "up"
  /\ UNCHANGED <<clicks, cdp, rounds, restarts, work, busy, quotas, ending>>
\* The user clicks on the page.
Click(c) ==
  /\ Alive /\ codex = "up" /\ clicks[c].at = "new" /\ \A d \in 1 .. c - 1 : clicks[d].at # "new"
  /\ clicks' = [clicks EXCEPT ![c].at = "page"]
  /\ UNCHANGED <<codex, cdp, rounds, restarts, work, busy, quotas, ending, events>>
\* The program was launched again and asks this one to look after Codex.
RecoveryAsked ==
  /\ Alive /\ ~stopped /\ Event /\ recovery' = TRUE
  /\ UNCHANGED <<codex, clicks, cdp, loop, running, seen, late, restarts, work, busy, quotas, ending>>
DeadlinePasses ==
  /\ Alive /\ ~late /\ late' = TRUE
  /\ UNCHANGED <<codex, clicks, cdp, loop, running, seen, recovery, restarts, work, busy, quotas, ending, events>>

-----------------------------------------------------------------------------
(* The restarts of Codex *)

\* A restart begins: the flag is one for all owners.
Begins(o) == restarting' = TRUE /\ restart' = [restart EXCEPT ![o] = "prepare"]
\* Where the loop goes on once it has looked whether to recover
Checked(connection, flag) == IF connection # "open" /\ ~flag THEN "running" ELSE "sync"
\* The finally of a restart, whatever its outcome, and what has awaited it
Over(o, connection) ==
  /\ restarting' = FALSE /\ restart' = [restart EXCEPT ![o] = "none"]
  /\ batch' = IF o = "batch" THEN [batch EXCEPT !.pc = "run"] ELSE batch
  /\ safe' = IF o = "safe" THEN "none" ELSE safe
  /\ loop' = IF o = "loop" THEN Checked(connection, FALSE) ELSE loop
GoesTo(o, pc) == restart' = [restart EXCEPT ![o] = pc] /\ UNCHANGED <<restarting, batch, safe, loop>>
RestartRest == UNCHANGED <<running, seen, late, recovery, detections, busy, quota, owed, ending>>

\* prepareLaunch answers: a manual refresh of the catalogue restarts if the relay must load it and the
\* injector goes on, a recovery if Codex needs it.
Prepared(o) ==
  LET models == o = "batch" /\ batch.kind = "models"
  IN
  /\ Alive /\ restart[o] = "prepare"
  /\ \/ ~models /\ GoesTo(o, "kill") /\ UNCHANGED events
     \/ models /\ ~stopped /\ GoesTo(o, "ask") /\ UNCHANGED events
     \/ models /\ Over(o, cdp) /\ UNCHANGED events
     \/ o = "loop" /\ Over(o, cdp) /\ UNCHANGED events
     \/ Event /\ Over(o, cdp)
  /\ UNCHANGED <<codex, clicks, cdp, timer>> /\ RestartRest
\* isCodexRunning
Asked(o) ==
  /\ Alive /\ restart[o] = "ask"
  /\ IF codex = "up" THEN GoesTo(o, "kill") ELSE Over(o, cdp)
  /\ UNCHANGED <<codex, clicks, cdp, timer, events>> /\ RestartRest
\* restartCodex stops Codex ...
Killed(o) ==
  /\ Alive /\ restart[o] = "kill"
  /\ \/ Gone /\ GoesTo(o, "start") /\ UNCHANGED events
     \/ Event /\ Over(o, cdp) /\ UNCHANGED <<codex, clicks, cdp>>
  /\ UNCHANGED timer /\ RestartRest
\* ... and starts it, perhaps with the runtime it falls back to.
Started(o) ==
  /\ Alive /\ restart[o] = "start"
  /\ \/ codex' = "up" /\ GoesTo(o, "reset") /\ UNCHANGED events
     \/ Event /\ Over(o, cdp) /\ UNCHANGED codex
  /\ UNCHANGED <<clicks, cdp, timer>> /\ RestartRest
\* resetAfterCodexRestart; after a switch the quotas are refreshed at once.
Reset(o) ==
  /\ Alive /\ restart[o] = "reset"
  /\ cdp' = "none"
  /\ timer' = IF o = "batch" /\ batch.kind = "switch" THEN ~stopped ELSE timer
  /\ IF o = "safe" THEN GoesTo(o, "sync") ELSE Over(o, "none")
  /\ UNCHANGED <<codex, clicks, events>> /\ RestartRest
\* A safe restart looks at the health of the tools before it is over.
Synced(o) ==
  /\ Alive /\ restart[o] = "sync" /\ Over(o, cdp)
  /\ UNCHANGED <<codex, clicks, cdp, timer, events>> /\ RestartRest
Restart(o) == Prepared(o) \/ Asked(o) \/ Killed(o) \/ Started(o) \/ Reset(o) \/ Synced(o)

\* The turns have ended, or the user does not wait for them; or the wait fails.
SafeBegins ==
  /\ Alive /\ safe \in {"waiting", "forced"}
  /\ safe' = "restarting" /\ Begins("safe")
  /\ UNCHANGED <<codex, clicks, cdp, rounds, batch, detections, busy, quotas, ending, events>>
SafeFails ==
  /\ Alive /\ safe = "waiting" /\ Event
  /\ safe' = "none"
  /\ UNCHANGED <<codex, clicks, cdp, rounds, restarts, batch, detections, busy, quotas, ending>>

-----------------------------------------------------------------------------
(* The batch of actions *)

Taken == {c \in Clicks : clicks[c].at = "taken"}
BatchRest == UNCHANGED <<codex, cdp, rounds, busy, quotas, ending>>

\* A batch waits until the catalogue is idle, and fails when the coordinator is closed.
BatchIdle ==
  /\ Alive /\ batch.pc = "idle" /\ ~busy
  /\ batch' = [batch EXCEPT !.pc = IF stopped THEN "none" ELSE "run"]
  /\ clicks' = IF stopped THEN Moved("taken", "lost") ELSE clicks
  /\ UNCHANGED <<restarts, detections, safe, events>> /\ BatchRest

Awaits(kind, pc) == batch' = [pc |-> pc, kind |-> kind]
\* Mutant of Begun: the batch waits for a safe restart.
BegunInTurn(c, kind) ==
  \/ /\ kind \in {"switch", "context", "other"} /\ Awaits(kind, "change")
     /\ UNCHANGED <<restarts, detections, safe>>
  \/ kind = "models" /\ Awaits(kind, "restart") /\ Begins("batch") /\ UNCHANGED <<detections, safe>>
  \/ /\ kind = "safe" /\ safe' = "waiting" /\ Awaits(kind, "restart") /\ UNCHANGED <<restarts, detections>>
  \/ /\ kind = "force" /\ safe' = IF safe = "waiting" THEN "forced" ELSE safe
     /\ UNCHANGED <<restarts, batch, detections>>
  \/ kind = "detect" /\ detections' = detections \cup {c} /\ UNCHANGED <<restarts, batch, safe>>
\* startAction: a safe restart and the detection of a model are not awaited, and the request of a
\* second safe restart joins the first.
Begun(c, kind) ==
  \/ /\ kind \in {"switch", "context", "other"} /\ Awaits(kind, "change")
     /\ UNCHANGED <<restarts, detections, safe>>
  \/ kind = "models" /\ Awaits(kind, "restart") /\ Begins("batch") /\ UNCHANGED <<detections, safe>>
  \/ /\ kind = "safe" /\ safe' = IF safe = "none" THEN "waiting" ELSE safe
     /\ UNCHANGED <<restarts, batch, detections>>
  \/ /\ kind = "force" /\ safe' = IF safe = "waiting" THEN "forced" ELSE safe
     /\ UNCHANGED <<restarts, batch, detections>>
  \/ kind = "detect" /\ detections' = detections \cup {c} /\ UNCHANGED <<restarts, batch, safe>>
\* The next action of the batch, in the order of the clicks
Act(c) ==
  /\ Alive /\ batch.pc = "run" /\ c \in Taken /\ \A d \in Taken : c <= d
  /\ clicks' = [clicks EXCEPT ![c].at = "begun"]
  /\ Begun(c, clicks[c].kind)
  /\ UNCHANGED events /\ BatchRest
\* The account is switched or the setting written, which may fail, and Codex restarted for it.
Changed ==
  /\ Alive /\ batch.pc = "change"
  /\ \/ /\ batch.kind # "other" /\ batch' = [batch EXCEPT !.pc = "restart"] /\ Begins("batch")
        /\ UNCHANGED events
     \/ /\ batch.kind = "other" /\ batch' = [batch EXCEPT !.pc = "run"] /\ UNCHANGED <<restarts, events>>
     \/ Event /\ batch' = [batch EXCEPT !.pc = "run"] /\ UNCHANGED restarts
  /\ UNCHANGED <<clicks, detections, safe>> /\ BatchRest
BatchOver ==
  /\ Alive /\ batch.pc = "run" /\ Taken = {}
  /\ batch' = [pc |-> "none", kind |-> "other"]
  /\ UNCHANGED <<clicks, restarts, detections, safe, events>> /\ BatchRest
Detected(c) ==
  /\ Alive /\ c \in detections /\ detections' = detections \ {c}
  /\ UNCHANGED <<clicks, restarts, batch, safe, events>> /\ BatchRest

-----------------------------------------------------------------------------
(* The stop *)

\* stop, which also closes the safe restart's wait
StopNow ==
  /\ stopped' = TRUE /\ timer' = FALSE /\ cdp' = "none"
  /\ safe' = IF safe \in {"waiting", "forced"} THEN "none" ELSE safe
StopRest == UNCHANGED <<codex, clicks, running, seen, late, recovery, restarts, batch, detections, busy, quota, owed>>
\* SIGINT, SIGTERM
Signalled ==
  /\ exit = "none" /\ Event /\ exit' = "sync"
  /\ UNCHANGED <<cdp, loop, safe, timer, stopped>> /\ StopRest
\* stopAndExit: the login is saved, all is stopped, the usage is written, and the process ends.
ExitSynced ==
  /\ exit = "sync" /\ exit' = "flush" /\ StopNow
  /\ UNCHANGED <<loop, events>> /\ StopRest
ExitFlushed ==
  /\ exit = "flush" /\ exit' = "exit"
  /\ IF loop = "quit" THEN loop' = "ended" /\ StopNow ELSE UNCHANGED <<cdp, loop, safe, timer, stopped>>
  /\ UNCHANGED events /\ StopRest
Exits ==
  /\ exit = "exit" /\ exit' = "gone"
  /\ UNCHANGED <<cdp, loop, safe, timer, stopped, events>> /\ StopRest

-----------------------------------------------------------------------------
(* The loop *)

At(pc) == Alive /\ loop = pc
Quiet == batch.pc = "none" /\ ~restarting /\ ~busy
LoopRest == UNCHANGED <<codex, late, detections, busy, quota, owed>>

\* Mutant of Ended: what came up since the stop is left.
EndedAtOnce ==
  /\ At("top") /\ stopped /\ loop' = "ended"
  /\ UNCHANGED <<clicks, cdp, running, seen, recovery, restarts, batch, safe, timer, ending, events>> /\ LoopRest
\* The loop ends once it is stopped, and stops what came up since.
Ended ==
  /\ At("top") /\ stopped /\ loop' = "ended" /\ StopNow
  /\ UNCHANGED <<clicks, running, seen, recovery, restarts, batch, exit, events>> /\ LoopRest
Recovers == recovery /\ Quiet /\ detections = {}
Recover ==
  /\ At("top") /\ ~stopped /\ Recovers
  /\ recovery' = FALSE /\ Begins("loop") /\ loop' = "recover"
  /\ UNCHANGED <<clicks, cdp, running, seen, batch, safe, timer, ending, events>> /\ LoopRest
Check ==
  /\ At("top") /\ ~stopped /\ ~Recovers
  /\ loop' = Checked(cdp, restarting)
  /\ UNCHANGED <<clicks, cdp, running, seen, recovery, restarts, batch, safe, timer, ending, events>> /\ LoopRest
\* isCodexRunning
Looked ==
  /\ At("running") /\ running' = (codex = "up") /\ loop' = "looked"
  /\ UNCHANGED <<clicks, cdp, seen, recovery, restarts, batch, safe, timer, ending, events>> /\ LoopRest
\* Codex has exited or did not come up in time: the injector follows it, unless it is stopping already.
Followed ==
  /\ At("looked")
  /\ seen' = (seen \/ running) /\ running' = FALSE
  /\ IF running \/ ~(seen \/ late) THEN loop' = "sync" /\ UNCHANGED <<cdp, safe, timer, ending>>
     ELSE IF exit = "none" THEN loop' = "quit" /\ exit' = "sync" /\ UNCHANGED <<cdp, safe, timer, stopped>>
     ELSE loop' = "ended" /\ StopNow /\ UNCHANGED exit
  /\ UNCHANGED <<clicks, recovery, restarts, batch, events>> /\ LoopRest

\* The catch of a round
Thrown == loop' = "delay" /\ cdp' = "none"
RoundRest == UNCHANGED <<running, seen, recovery, restarts, safe, timer, ending>> /\ LoopRest
\* syncHostHealth has answered: connectAndInject looks for the page, if it must.
Found ==
  /\ At("sync") /\ loop' = IF cdp = "open" THEN "update" ELSE "find"
  /\ UNCHANGED <<clicks, cdp, batch, events>> /\ RoundRest
\* findCodexTarget
Connect ==
  /\ At("find")
  /\ \/ codex = "up" /\ cdp' = "opening" /\ loop' = "connect" /\ UNCHANGED events
     \/ codex = "down" /\ Thrown /\ UNCHANGED events
     \/ Event /\ Thrown
  /\ UNCHANGED <<clicks, batch>> /\ RoundRest
\* CdpClient.connect: a client that was closed, or whose page has gone, fails.
Connected ==
  /\ At("connect")
  /\ \/ cdp = "opening" /\ cdp' = "open" /\ loop' = "update" /\ UNCHANGED events
     \/ cdp # "opening" /\ Thrown /\ UNCHANGED events
     \/ Event /\ Thrown
  /\ UNCHANGED <<clicks, batch>> /\ RoundRest
\* requestWidgetUpdate; clicks are taken while nothing else is under way.
Updated ==
  /\ At("update")
  /\ \/ cdp = "open" /\ loop' = (IF Quiet THEN "drain" ELSE "delay") /\ UNCHANGED <<cdp, events>>
     \/ cdp # "open" /\ Thrown /\ UNCHANGED events
     \/ Event /\ Thrown
  /\ UNCHANGED <<clicks, batch>> /\ RoundRest
\* The page hands its clicks over; they are lost with its answer.
Drained ==
  /\ At("drain")
  /\ \/ /\ cdp = "open" /\ loop' = "delay" /\ clicks' = Moved("page", "taken")
        /\ batch' = IF \E c \in Clicks : clicks[c].at = "page" THEN [batch EXCEPT !.pc = "idle"] ELSE batch
        /\ UNCHANGED <<cdp, events>>
     \/ cdp # "open" /\ Thrown /\ UNCHANGED <<clicks, batch, events>>
     \/ cdp = "open" /\ Event /\ Thrown /\ clicks' = Moved("page", "lost") /\ UNCHANGED batch
  /\ RoundRest
Delayed ==
  /\ At("delay") /\ loop' = "top"
  /\ UNCHANGED <<clicks, cdp, batch, events>> /\ RoundRest

Loop == Ended \/ Recover \/ Check \/ Looked \/ Followed \/ Found \/ Connect \/ Connected \/ Updated \/ Drained
        \/ Delayed
Batch == BatchIdle \/ (\E c \in Clicks : Act(c)) \/ Changed \/ BatchOver
Quota == QuotaWorked \/ QuotaOver \/ TimerFires
Exit == ExitSynced \/ ExitFlushed \/ Exits
Next ==
  \/ Loop \/ Batch \/ Quota \/ Exit \/ Signalled \/ SafeBegins \/ SafeFails
  \/ \E o \in Owners : Restart(o)
  \/ \E c \in Clicks : Click(c) \/ Detected(c)
  \/ LoginChanged \/ CatalogBegins \/ CatalogEnds \/ CodexExits \/ CodexStarts \/ RecoveryAsked \/ DeadlinePasses

\* What is awaited answers or times out, and the loop goes round; nothing makes the turns a safe restart
\* waits for end, or a detection.
LoopGoesOn == Loop \/ Restart("loop")
BatchGoesOn == Batch \/ Restart("batch")
SafeGoesOn == (safe = "forced" /\ SafeBegins) \/ Restart("safe")
OthersGoOn == CatalogEnds \/ DeadlinePasses \/ Exit
Spec ==
  /\ Init /\ [][Next]_vars
  /\ WF_vars(LoopGoesOn) /\ WF_vars(BatchGoesOn) /\ WF_vars(SafeGoesOn) /\ WF_vars(Quota) /\ WF_vars(OthersGoOn)

-----------------------------------------------------------------------------
TypeOK ==
  /\ codex \in {"up", "down"} /\ cdp \in {"none", "opening", "open", "dead"}
  /\ clicks \in [Clicks -> [kind : Kinds, at : {"new", "page", "taken", "begun", "lost"}]]
  /\ loop \in {"top", "recover", "running", "looked", "sync", "find", "connect", "update", "drain", "delay",
               "quit", "ended"}
  /\ running \in BOOLEAN /\ seen \in BOOLEAN /\ late \in BOOLEAN /\ recovery \in BOOLEAN
  /\ restarting \in BOOLEAN /\ restart \in [Owners -> {"none", "prepare", "ask", "kill", "start", "reset", "sync"}]
  /\ batch \in [pc : {"none", "idle", "run", "change", "restart"}, kind : Kinds]
  /\ detections \subseteq Clicks /\ safe \in {"none", "waiting", "forced", "restarting"} /\ busy \in BOOLEAN
  /\ quota \in [pc : {"none", "work", "over"}, again : BOOLEAN] /\ timer \in BOOLEAN /\ owed \in BOOLEAN
  /\ stopped \in BOOLEAN /\ exit \in {"none", "sync", "flush", "exit", "gone"} /\ events \in 0 .. MaxEvents

\* A loop that has ended leaves no connection, though it was connecting when it was stopped, and no
\* timer outlives the stop, though refreshes and restarts that arm it go on.
NothingIsLeft ==
  /\ loop = "ended" => stopped /\ cdp = "none"
  /\ stopped => ~timer
\* The quotas are refreshed again and again until the stop: a refresh is under way or the next one armed,
\* and one that is asked for meanwhile is not forgotten.
QuotaGoesOn ==
  /\ quota.pc = "none" /\ ~stopped => timer
  /\ owed => quota.again

\* A click is taken and its action begun, whatever the actions before it wait for, unless the page or
\* the injector is gone first: a safe restart that waits can be forced.  (A click is made once, so that
\* this says the same as one leads-to for each.)
Waits(c) == clicks[c].at \in {"page", "taken"}
ClicksAreServed == (\E c \in Clicks : Waits(c)) ~> (\A c \in Clicks : ~Waits(c)) \/ stopped
\* The injector follows Codex when it has gone for good.
ExitIsFollowed == <>[](codex = "down") => <>stopped
===============================================================================
