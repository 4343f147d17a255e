------------------------------- MODULE AppUpdate -------------------------------
(* The update of the injector itself (src/app-update): its manager looks for a release and     *)
(* opens a window; the window belongs to a worker of its own, which downloads, waits for the *)
(* tasks, takes over from the injector, installs and launches the new version.  Clicks,      *)
(* closing windows, slow starts and deaths may leave more than one worker.                   *)
EXTENDS Naturals

CONSTANTS MaxReleases,   \* bound: releases published on top of version 1
          MaxRuns,       \* bound: workers
          MaxChecks,     \* bound: checks of the timer
          MaxClicks,     \* bound: clicks on the entry
          MaxStarts,     \* bound: the user starts the injector again only as this many-th one
          MaxFaults      \* bound: failing steps, deaths and late answers

UpdateConstants == {MaxReleases, MaxRuns, MaxChecks, MaxClicks, MaxStarts, MaxFaults} \subseteq Nat

Runs == 1..MaxRuns
Nothing == 0
Injector == MaxRuns + 1     \* the owner of the single-instance lock that is no worker

VARIABLES
  platform,         \* darwin or win32
  latest,           \* the newest release
  app,              \* the version installed, Nothing: no complete application
  injector,         \* the running injector: id (0: none), mode (dev, formal), version, ready
  lock,             \* the owner of the lock: Nothing, a worker or Injector
  manager,          \* etag, asset, and what the check under way has fetched
  open,             \* the click being handled: pc, the newest release when it was made, the worker
  runs, registry,   \* the workers, and the one update-window.json names
  turn,             \* a turn of Codex: none, active, ended, saved
  ids, clicks, checks, faults,
  lost,             \* a worker is or comes up that nobody finds: its start timed out or was
                    \* forgotten, or its registration was removed
  broken            \* an installation was cut off

vars == <<platform, latest, app, injector, lock, manager, open, runs, registry, turn,
          ids, clicks, checks, faults, lost, broken>>
world == <<platform, latest, turn>>
counters == <<ids, clicks, checks, faults, lost, broken>>
host == <<app, injector, lock>>

Terminal == {"success", "failed", "cancelled"}
Executing(w) == w.life # "gone" /\ w.pc \notin Terminal \cup {"confirm"}

(* Bound: the injectors the user starts are formal ones on macOS and dev ones on Windows. *)
FirstMode == IF platform = "darwin" THEN "formal" ELSE "dev"

NoRun == [pc |-> "confirm", life |-> "none", window |-> "none", asset |-> Nothing, owner |-> 0,
          cancelled |-> FALSE, forced |-> FALSE, seen |-> FALSE, stable |-> FALSE]
Left == [NoRun EXCEPT !.life = "gone"]
NoInjector == [id |-> 0, mode |-> "none", version |-> 0, ready |-> FALSE]
NewManager == [etag |-> Nothing, asset |-> Nothing, checking |-> Nothing]
NotOpen == [pc |-> "none", wanted |-> Nothing, target |-> Nothing]

Init ==
  /\ platform \in {"darwin", "win32"}
  /\ latest = 1 /\ app = 1 /\ turn = "none"
  /\ injector = [id |-> 1, mode |-> FirstMode, version |-> 1, ready |-> TRUE]
  /\ lock = Injector
  /\ manager = NewManager /\ open = NotOpen
  /\ runs = [r \in Runs |-> NoRun] /\ registry = Nothing
  /\ ids = 1 /\ clicks = 0 /\ checks = 0 /\ faults = 0 /\ lost = FALSE /\ broken = FALSE

-----------------------------------------------------------------------------
(* The manager in the injector.  releaseUpdate(): only a formal injector compares versions.  *)
Offered(release) == IF injector.mode = "dev" \/ release > injector.version THEN release ELSE Nothing

Checking == [manager EXCEPT !.checking = latest]

CheckByTimer ==
  /\ injector.id # 0 /\ manager.checking = Nothing /\ checks < MaxChecks
  /\ checks' = checks + 1 /\ manager' = Checking
  /\ UNCHANGED <<world, host, open, runs, registry, ids, clicks, faults, lost, broken>>

(* Mutant: a click joins the check that is under way. *)
ClickJoins ==
  /\ manager' = IF manager.checking = Nothing THEN Checking ELSE manager
  /\ open' = [NotOpen EXCEPT !.pc = "check", !.wanted = latest]

Clicked ==
  /\ manager' = IF manager.checking = Nothing THEN Checking ELSE manager
  /\ open' = [NotOpen EXCEPT !.pc = IF manager.checking = Nothing THEN "check" ELSE "older",
                             !.wanted = latest]

(* open(): a click waits for the check under way, and then makes its own. *)
Click ==
  /\ injector.id # 0 /\ injector.ready /\ open.pc = "none" /\ clicks < MaxClicks
  /\ clicks' = clicks + 1 /\ Clicked
  /\ UNCHANGED <<world, host, runs, registry, ids, checks, faults, lost, broken>>

(* check(): an unchanged etag keeps the candidate. *)
Checked ==
  IF manager.etag = manager.checking THEN [manager EXCEPT !.checking = Nothing]
  ELSE [etag |-> manager.checking, asset |-> Offered(manager.checking), checking |-> Nothing]

CheckAnswered ==
  /\ manager.checking # Nothing
  /\ IF open.pc = "older"
     THEN open' = [open EXCEPT !.pc = "check"] /\ manager' = [Checked EXCEPT !.checking = latest]
     ELSE /\ manager' = Checked
          /\ open' = IF open.pc # "check" THEN open
                     ELSE IF manager'.asset = Nothing THEN NotOpen ELSE [open EXCEPT !.pc = "look"]
  /\ UNCHANGED <<world, host, runs, registry, counters>>

CheckFails ==
  /\ manager.checking # Nothing /\ faults < MaxFaults /\ faults' = faults + 1
  /\ IF open.pc = "older"
     THEN open' = [open EXCEPT !.pc = "check"] /\ manager' = Checking
     ELSE /\ manager' = [manager EXCEPT !.checking = Nothing]
          /\ open' = IF open.pc = "check" THEN NotOpen ELSE open
  /\ UNCHANGED <<world, host, runs, registry, ids, clicks, checks, lost, broken>>

-----------------------------------------------------------------------------
(* launchUpdateWindow().  activeUpdate() asks the worker that is registered.                 *)
Reachable(r) == r # Nothing /\ runs[r].life \in {"up", "closing", "leaving"}

Fits(w) == w.asset = manager.asset /\ w.owner = injector.id
(* Mutant: what is under way is offered anew like what has ended. *)
ReusableToConfirm(w) == w.pc = "confirm" /\ Fits(w)

(* canReuseUpdateWindow(): what is under way is always shown again. *)
Reusable(w) == w.pc \notin Terminal /\ (w.pc = "confirm" => Fits(w))

Look ==
  /\ open.pc = "look"
  /\ open' = IF lock # Injector THEN NotOpen
             ELSE IF ~Reachable(registry) THEN [open EXCEPT !.pc = "spawn"]
             ELSE [open EXCEPT !.target = registry,
                               !.pc = IF Reusable(runs[registry]) THEN "show"
                                      ELSE IF runs[registry].pc = "confirm" THEN "close" ELSE "spawn"]
  /\ UNCHANGED <<world, host, manager, runs, registry, counters>>

(* A worker that does not answer in 1.5 seconds is taken for none. *)
LookTimesOut ==
  /\ open.pc = "look" /\ Reachable(registry) /\ faults < MaxFaults
  /\ faults' = faults + 1 /\ lost' = TRUE
  /\ open' = [open EXCEPT !.pc = "spawn"]
  /\ UNCHANGED <<world, host, manager, runs, registry, ids, clicks, checks, broken>>

Showing(w) == IF w.window = "ready" THEN w ELSE [w EXCEPT !.window = "opening"]

Show ==
  /\ open.pc = "show"
  /\ IF runs[open.target].life = "up"
     THEN /\ runs' = [runs EXCEPT ![open.target] = Showing(@)]
          /\ open' = [open EXCEPT !.pc = "wait"]
     ELSE open' = NotOpen /\ UNCHANGED runs
  /\ UNCHANGED <<world, host, manager, registry, counters>>

(* POST /close: only a worker that confirms or has ended closes. *)
Closable(w) == w.life = "up" /\ w.pc \in Terminal \cup {"confirm"}

Close ==
  /\ open.pc = "close"
  /\ IF Closable(runs[open.target])
     THEN /\ runs' = [runs EXCEPT ![open.target].life = "closing"]
          /\ open' = [open EXCEPT !.pc = "gone"]
     ELSE open' = NotOpen /\ UNCHANGED runs
  /\ UNCHANGED <<world, host, manager, registry, counters>>

Gone ==
  /\ open.pc = "gone"
  /\ \/ ~(registry = open.target /\ Reachable(registry)) /\ open' = [open EXCEPT !.pc = "spawn"]
     \/ open' = NotOpen
  /\ UNCHANGED <<world, host, manager, runs, registry, counters>>

Spawn ==
  /\ open.pc = "spawn"
  /\ \E r \in Runs :
       /\ runs[r].life = "none" /\ \A q \in 1..(r - 1) : runs[q].life # "none"
       /\ runs' = [runs EXCEPT ![r] = [NoRun EXCEPT !.life = "new", !.asset = manager.asset,
                                                    !.owner = injector.id]]
       /\ open' = [open EXCEPT !.pc = "wait", !.target = r]
  /\ UNCHANGED <<world, host, manager, registry, counters>>

(* waitForUpdateWindow(): the worker is registered and its page has answered; its viewer     *)
(* failed; or it ended.                                                                       *)
Waited ==
  /\ open.pc = "wait"
  /\ \/ registry = open.target /\ Reachable(registry) /\ runs[registry].window \in {"ready", "failed"}
     \/ runs[open.target].life = "gone"
  /\ open' = NotOpen
  /\ UNCHANGED <<world, host, manager, runs, registry, counters>>

WaitTimesOut ==
  /\ open.pc = "wait" /\ faults < MaxFaults
  /\ faults' = faults + 1 /\ lost' = TRUE /\ open' = NotOpen
  /\ UNCHANGED <<world, host, manager, runs, registry, ids, clicks, checks, broken>>

-----------------------------------------------------------------------------
(* The worker's process: it registers, its viewer opens the page, and closing it removes its *)
(* own registration; the one of a worker that registers between its look and the removal     *)
(* goes with it.                                                                              *)
Register(r) ==
  /\ runs[r].life = "new"
  /\ registry' = r
  /\ runs' = [runs EXCEPT ![r].life = "up", ![r].window = "opening"]
  /\ UNCHANGED <<world, host, manager, open, counters>>

PageReady(r) ==
  /\ runs[r].life = "up" /\ runs[r].window = "opening"
  /\ runs' = [runs EXCEPT ![r].window = "ready"]
  /\ UNCHANGED <<world, host, manager, open, registry, counters>>

ViewerExits(r) ==
  /\ runs[r].life = "up" /\ runs[r].window \in {"opening", "ready"} /\ faults < MaxFaults
  /\ faults' = faults + 1
  /\ runs' = [runs EXCEPT ![r].window = "failed"]
  /\ UNCHANGED <<world, host, manager, open, registry, ids, clicks, checks, lost, broken>>

Shutdown(r) ==
  /\ runs[r].life = "closing"
  /\ runs' = [runs EXCEPT ![r] = IF registry = r THEN [@ EXCEPT !.life = "leaving", !.window = "none"] ELSE Left]
  /\ UNCHANGED <<world, host, manager, open, registry, counters>>

Unregister(r) ==
  /\ runs[r].life = "leaving"
  /\ registry' = Nothing /\ runs' = [runs EXCEPT ![r] = Left]
  /\ lost' = (lost \/ registry # r)
  /\ UNCHANGED <<world, host, manager, open, ids, clicks, checks, faults, broken>>

(* The buttons of the page.  Once the window is asked to close, nothing else is accepted.    *)
Seen(r) == runs[r].life = "up" /\ runs[r].window = "ready"

Confirm(r) ==
  /\ Seen(r) /\ runs[r].pc = "confirm"
  /\ runs' = [runs EXCEPT ![r].pc = "probe"]
  /\ UNCHANGED <<world, host, manager, open, registry, counters>>

ForceRestart(r) ==
  /\ Seen(r) /\ runs[r].pc = "wait" /\ ~runs[r].cancelled /\ ~runs[r].forced
  /\ runs' = [runs EXCEPT ![r].forced = TRUE]
  /\ UNCHANGED <<world, host, manager, open, registry, counters>>

CloseWindow(r) ==
  /\ Seen(r) /\ Closable(runs[r])
  /\ runs' = [runs EXCEPT ![r].life = "closing"]
  /\ UNCHANGED <<world, host, manager, open, registry, counters>>

-----------------------------------------------------------------------------
(* createUpdateRun().run().  An end of any kind gives the lock back.                         *)
Ended(r, pc) ==
  /\ runs' = [runs EXCEPT ![r] = [NoRun EXCEPT !.pc = pc, !.life = runs[r].life, !.window = runs[r].window,
                                   !.asset = runs[r].asset]]
  /\ lock' = IF lock = r THEN Nothing ELSE lock

(* Mutant: the signal ends a replacement of the macOS application too. *)
(* The signal ends what is under way; only the takeover and the replacement of the macOS     *)
(* application are completed first.  A setup that is killed may have replaced some files.    *)
Completed == {"ask", "listen", "rename"}

Terminate(r) ==
  /\ Seen(r) /\ ~runs[r].cancelled /\ runs[r].pc \notin Terminal
  /\ IF runs[r].pc \in Completed
     THEN runs' = [runs EXCEPT ![r].cancelled = TRUE] /\ UNCHANGED <<app, lock, broken>>
     ELSE /\ Ended(r, "cancelled")
          /\ broken' = (broken \/ runs[r].pc = "setup")
          /\ app' = IF runs[r].pc = "setup" THEN Nothing ELSE app
  /\ UNCHANGED <<world, injector, manager, open, registry, ids, clicks, checks, faults, lost>>

Cancelled(r) ==
  /\ Executing(runs[r]) /\ runs[r].cancelled /\ runs[r].pc \in {"stop", "verify"}
  /\ Ended(r, "cancelled")
  /\ UNCHANGED <<world, app, injector, manager, open, registry, counters>>

Go(r, pc) == runs' = [runs EXCEPT ![r].pc = pc]
At(r, pc) == runs[r].pc = pc /\ runs[r].life \notin {"none", "gone"}
Proceeds(r, pc) == At(r, pc) /\ ~runs[r].cancelled

(* inspectCodexShutdownReadiness() with the turns seen so far. *)
Tracked(r) == runs[r].seen \/ turn = "active"

(* Mutant: a turn that has ended is not looked up in the history. *)
Ready(r) == turn # "active" /\ (Tracked(r) => turn = "saved")

FirstProbe(r) ==
  /\ Proceeds(r, "probe")
  /\ runs' = [runs EXCEPT ![r].seen = Tracked(r), ![r].pc = "download"]
  /\ UNCHANGED <<world, host, manager, open, registry, counters>>

Download(r) ==
  /\ Proceeds(r, "download") /\ Go(r, "prepare")
  /\ UNCHANGED <<world, host, manager, open, registry, counters>>

(* Version, signature and architecture of what was downloaded. *)
Prepare(r) ==
  /\ Proceeds(r, "prepare") /\ Go(r, "wait")
  /\ UNCHANGED <<world, host, manager, open, registry, counters>>

(* Two probes in a row that find everything saved, or the force of the user. *)
Probe(r) ==
  /\ Proceeds(r, "wait")
  /\ LET through == runs[r].forced \/ (Ready(r) /\ runs[r].stable) IN
     runs' = [runs EXCEPT ![r].seen = Tracked(r), ![r].stable = Ready(r) /\ ~through,
                          ![r].pc = IF through THEN "check" ELSE @]
  /\ UNCHANGED <<world, host, manager, open, registry, counters>>

Deadline(r) ==
  /\ Proceeds(r, "wait") /\ ~runs[r].forced /\ ~Ready(r) /\ Ended(r, "failed")
  /\ UNCHANGED <<world, app, injector, manager, open, registry, counters>>

OwnerUnchanged(r) == lock = Injector /\ injector.id = runs[r].owner

CheckOwner(r) ==
  /\ Proceeds(r, "check")
  /\ IF OwnerUnchanged(r) THEN Go(r, "ask") /\ UNCHANGED lock ELSE Ended(r, "failed")
  /\ UNCHANGED <<world, app, injector, manager, open, registry, counters>>

(* acquireSingleInstance(): an injector makes room and exits; another worker answers         *)
(* "replace" too, but only leaves when it is done.                                            *)
Exits ==
  /\ injector' = NoInjector /\ manager' = NewManager /\ open' = NotOpen
  /\ lost' = (lost \/ (open.pc = "wait" /\ runs[open.target].life = "new"))

Ask(r) ==
  /\ At(r, "ask")
  /\ IF lock = Nothing
     THEN lock' = r /\ Go(r, "stop") /\ UNCHANGED <<injector, manager, open, lost>>
     ELSE /\ Go(r, "listen")
          /\ IF lock = Injector THEN Exits /\ lock' = Nothing
             ELSE UNCHANGED <<lock, injector, manager, open, lost>>
  /\ UNCHANGED <<world, app, registry, ids, clicks, checks, faults, broken>>

Listen(r) ==
  /\ At(r, "listen")
  /\ IF lock = Nothing THEN lock' = r /\ Go(r, "stop") ELSE Ended(r, "failed")
  /\ UNCHANGED <<world, app, injector, manager, open, registry, counters>>

(* stopCodex() takes an active turn with it.  On Windows the lock is given back: the setup    *)
(* calls --prepare-update, which needs it.                                                    *)
Stopped == turn' = IF turn = "active" THEN "ended" ELSE turn

Stop(r) ==
  /\ Proceeds(r, "stop") /\ Stopped
  /\ runs' = [runs EXCEPT ![r].pc = IF platform = "win32" THEN "prepareSetup" ELSE "remove",
                          ![r].seen = FALSE, ![r].stable = FALSE, ![r].forced = FALSE]
  /\ lock' = IF platform = "win32" THEN Nothing ELSE lock
  /\ UNCHANGED <<platform, latest, app, injector, manager, open, registry, counters>>

PrepareSetup(r) ==
  /\ Proceeds(r, "prepareSetup")
  /\ IF lock \in Runs THEN Ended(r, "failed") /\ UNCHANGED <<world, injector, manager, open, lost>>
     ELSE /\ Go(r, "setup") /\ lock' = Nothing /\ Stopped
          /\ IF lock = Injector THEN Exits ELSE UNCHANGED <<injector, manager, open, lost>>
          /\ UNCHANGED <<platform, latest>>
  /\ UNCHANGED <<app, registry, ids, clicks, checks, faults, broken>>

Setup(r) ==
  /\ Proceeds(r, "setup") /\ app' = runs[r].asset /\ Go(r, "verify")
  /\ UNCHANGED <<world, injector, lock, manager, open, registry, counters>>

Remove(r) ==
  /\ Proceeds(r, "remove") /\ app' = Nothing /\ Go(r, "rename")
  /\ UNCHANGED <<world, injector, lock, manager, open, registry, counters>>

Rename(r) ==
  /\ At(r, "rename") /\ app' = runs[r].asset /\ Go(r, "verify")
  /\ UNCHANGED <<world, injector, lock, manager, open, registry, counters>>

Release(r) ==
  /\ Proceeds(r, "verify")
  /\ lock' = IF lock = r THEN Nothing ELSE lock
  /\ Go(r, "launch")
  /\ UNCHANGED <<world, app, injector, manager, open, registry, counters>>

Started(mode, version) ==
  /\ injector' = [id |-> ids + 1, mode |-> mode, version |-> version, ready |-> FALSE]
  /\ ids' = ids + 1 /\ lock' = Injector

(* launchUpdatedApp(): the new application comes up unless the lock is taken. *)
Launch(r) ==
  /\ Proceeds(r, "launch") /\ Go(r, "ready")
  /\ IF lock = Nothing /\ app # Nothing THEN Started("formal", app) ELSE UNCHANGED <<injector, lock, ids>>
  /\ UNCHANGED <<world, app, manager, open, registry, clicks, checks, faults, lost, broken>>

(* updatedAppReady(), polled for 90 seconds. *)
Confirmed(r) ==
  /\ Proceeds(r, "ready") /\ lock = Injector /\ injector.id # runs[r].owner
  /\ injector.mode = "formal" /\ injector.ready
  /\ Ended(r, IF injector.version = runs[r].asset THEN "success" ELSE "failed")
  /\ UNCHANGED <<world, app, injector, manager, open, registry, counters>>

Unconfirmed(r) ==
  /\ Proceeds(r, "ready") /\ Ended(r, "failed")
  /\ UNCHANGED <<world, app, injector, manager, open, registry, counters>>

Fallible == {"probe", "download", "prepare", "wait", "ask", "stop", "setup", "remove", "rename",
             "verify", "launch"}

(* An exit code of the setup means that nothing was replaced. *)
StepFails(r) ==
  /\ runs[r].pc \in Fallible /\ Proceeds(r, runs[r].pc) /\ faults < MaxFaults
  /\ faults' = faults + 1
  /\ IF runs[r].pc = "wait" /\ runs[r].forced THEN Go(r, "check") /\ UNCHANGED lock ELSE Ended(r, "failed")
  /\ broken' = (broken \/ runs[r].pc = "rename")
  /\ UNCHANGED <<world, app, injector, manager, open, registry, ids, clicks, checks, lost>>

WorkerDies(r) ==
  /\ runs[r].life \in {"new", "up"} /\ faults < MaxFaults
  /\ faults' = faults + 1
  /\ runs' = [runs EXCEPT ![r] = Left]
  /\ lock' = IF lock = r THEN Nothing ELSE lock
  /\ broken' = (broken \/ runs[r].pc \in {"setup", "rename"})
  /\ UNCHANGED <<world, app, injector, manager, open, registry, ids, clicks, checks, lost>>

-----------------------------------------------------------------------------
(* The world: releases, a turn of Codex, which begins when a worker probes (nobody else      *)
(* looks at it), and the injector, which the user starts again.                               *)
Publish ==
  /\ latest <= MaxReleases /\ latest' = latest + 1
  /\ UNCHANGED <<platform, turn, host, manager, open, runs, registry, counters>>

Turn ==
  /\ turn' = CASE turn = "none" -> "active" [] turn = "active" -> "ended" [] OTHER -> "saved"
  /\ turn # "saved" /\ (turn = "none" => lock = Injector /\ \E r \in Runs : runs[r].pc \in {"probe", "wait"})
  /\ UNCHANGED <<platform, latest, host, manager, open, runs, registry, counters>>

InjectorReady ==
  /\ injector.id # 0 /\ ~injector.ready
  /\ injector' = [injector EXCEPT !.ready = TRUE]
  /\ UNCHANGED <<world, app, lock, manager, open, runs, registry, counters>>

InjectorDies ==
  /\ injector.id # 0 /\ faults < MaxFaults /\ faults' = faults + 1
  /\ Exits /\ lock' = Nothing
  /\ UNCHANGED <<world, app, runs, registry, ids, clicks, checks, broken>>

StartAgain ==
  /\ injector.id = 0 /\ lock = Nothing /\ ids < MaxStarts
  /\ IF FirstMode = "dev" THEN Started("dev", 1) ELSE app # Nothing /\ Started("formal", app)
  /\ UNCHANGED <<world, app, manager, open, runs, registry, clicks, checks, faults, lost, broken>>

Managing == CheckAnswered \/ Look \/ Show \/ Close \/ Gone \/ Spawn \/ Waited
Step(r) ==
  \/ FirstProbe(r) \/ Download(r) \/ Prepare(r) \/ Probe(r) \/ Deadline(r) \/ CheckOwner(r)
  \/ Ask(r) \/ Listen(r) \/ Stop(r) \/ PrepareSetup(r) \/ Setup(r)
  \/ Remove(r) \/ Rename(r) \/ Release(r) \/ Launch(r) \/ Confirmed(r) \/ Unconfirmed(r)
  \/ Cancelled(r)
Process(r) == Register(r) \/ PageReady(r) \/ Shutdown(r) \/ Unregister(r)
User(r) == Confirm(r) \/ Terminate(r) \/ ForceRestart(r) \/ CloseWindow(r)
Fault == \/ CheckFails \/ LookTimesOut \/ WaitTimesOut \/ InjectorDies
         \/ \E r \in Runs : ViewerExits(r) \/ StepFails(r) \/ WorkerDies(r)
World == Publish \/ Turn \/ InjectorReady \/ StartAgain \/ CheckByTimer \/ Click

Steps == \E r \in Runs : Step(r)
Next == Managing \/ Steps \/ (\E r \in Runs : Process(r) \/ User(r)) \/ Fault \/ World

Spec == Init /\ [][Next]_vars

-----------------------------------------------------------------------------
Stages == {"confirm", "probe", "download", "prepare", "wait", "check", "ask", "listen", "stop", "prepareSetup",
           "setup", "remove", "rename", "verify", "launch", "ready"} \cup Terminal
Worker ==
  [pc : Stages,
   life : {"none", "new", "up", "closing", "leaving", "gone"}, window : {"none", "opening", "ready", "failed"},
   asset : Nat, owner : Nat, cancelled : BOOLEAN, forced : BOOLEAN, seen : BOOLEAN, stable : BOOLEAN]

(* Every variable has its type.                                                               *)
TypeOK ==
  /\ platform \in {"darwin", "win32"} /\ latest \in Nat /\ app \in Nat
  /\ injector \in [id : Nat, mode : {"none", "dev", "formal"}, version : Nat, ready : BOOLEAN]
  /\ lock \in Runs \cup {Nothing, Injector}
  /\ manager \in [etag : Nat, asset : Nat, checking : Nat]
  /\ open \in [pc : {"none", "check", "older", "look", "show", "close", "gone", "spawn", "wait"},
               wanted : Nat, target : Runs \cup {Nothing}]
  /\ runs \in [Runs -> Worker] /\ registry \in Runs \cup {Nothing}
  /\ turn \in {"none", "active", "ended", "saved"}
  /\ {ids, clicks, checks, faults} \subseteq Nat /\ lost \in BOOLEAN /\ broken \in BOOLEAN

(* The window a click opens to be confirmed is for a release at least as new as the newest   *)
(* one when the click was made, whatever checks were under way and windows open.              *)
LatestIsOffered ==
  open.pc = "wait" =>
    LET w == runs[open.target] IN
    w.pc = "confirm" /\ w.life # "gone" => w.asset >= open.wanted

(* As long as no start was given up or forgotten, one update at a time is under way: a       *)
(* window asked to close does not start, and what is under way is shown again.                *)
OneExecutes == ~lost => \A q, r \in Runs : Executing(runs[q]) /\ Executing(runs[r]) => q = r

Replacing(r) == Executing(runs[r]) /\ runs[r].pc \in {"remove", "rename", "verify"}

(* On macOS two workers never replace the application at the same time, even if one was      *)
(* lost; and unless a step failed or was killed in the middle of it, nothing leaves the       *)
(* application absent.                                                                        *)
StaysInstalled ==
  /\ platform = "darwin" => \A q, r \in Runs : Replacing(q) /\ Replacing(r) => q = r
  /\ app = Nothing => broken \/ \E r \in Runs : At(r, "rename")

(* A stop that was not forced cuts off no turn the worker has seen. *)
SeenTurnIsSaved ==
  [][\A r \in Runs : Stop(r) /\ ~runs[r].forced /\ runs[r].seen => turn \in {"none", "saved"}]_vars
=============================================================================
