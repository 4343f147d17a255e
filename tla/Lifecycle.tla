------------------------------ MODULE Lifecycle ------------------------------
(***************************************************************************)
(* The supervised lifecycle run (src/src/lifecycle-runner.mjs and the step *)
(* implementations of scripts/lifecycle-macos.mjs and                      *)
(* scripts/lifecycle-windows/): a supervisor outside Codex installs the    *)
(* new package, restarts Codex several times, changes the runtime and the  *)
(* account, and puts everything back.  It may die at any moment; a resumed *)
(* supervisor reconciles the step that was running with what it finds.     *)
(*                                                                         *)
(* A step is a sequence of effects (Script); a crash may fall between any  *)
(* two.  `report' and `control' are the two files the run keeps (written   *)
(* atomically, src/src/lifecycle-files.mjs:11-35), `world' is the host     *)
(* they speak about, `sup' the memory of the supervisor.                   *)
(***************************************************************************)
EXTENDS Integers, Sequences, FiniteSets

CONSTANTS
    Platforms,      \* the platforms explored, among "mac" and "windows"
    MaxCrashes,     \* how often the supervisor dies
    MaxEdits,       \* how often somebody else edits config.toml
    MaxSwitches,    \* how often the user changes the account
    None            \* no process, no baseline, no file

Runtimes == {"windows", "wsl"}

\* config.toml: its runtime, whether a line of it states the runtime (it is
\* changed in place, or added), and how many foreign edits it holds.
Files == [runtime : Runtimes, stated : BOOLEAN, edits : Nat]

LifecycleConstants ==
    /\ Platforms \subseteq {"mac", "windows"}
    /\ {MaxCrashes, MaxEdits, MaxSwitches} \subseteq Nat
    /\ None \notin Files \cup {"old", "new", "broken"}

VARIABLES
    platform,   \* the platform of the run
    report,     \* report.json: [status, step, running]
    control,    \* control.json: baselines and progress marks of the steps
    sup,        \* the supervisor: [pc, at, cfg]
    lock,       \* report.json.lock: "none", "torn" (created, not written), "held"
    world,      \* the host: installed package, processes, account, config.toml
    left        \* what remains of each bound

vars == <<platform, report, control, sup, lock, world, left>>

-----------------------------------------------------------------------------
(* The steps of a run and what each one does, in order.                    *)

RuntimeSteps(r) ==
    <<[op |-> "switch", rt |-> r], [op |-> "launch", rt |-> r], [op |-> "repeat", rt |-> r],
      [op |-> "reconnect", rt |-> r], [op |-> "reopen", rt |-> r]>>

Plain(op) == <<[op |-> op, rt |-> "original"]>>

MacSteps ==
    Plain("verify") \o Plain("idle") \o Plain("install") \o Plain("launch") \o Plain("repeat")
    \o Plain("reconnect") \o Plain("reopen") \o Plain("account") \o Plain("restore") \o Plain("final")

WindowsSteps ==
    Plain("verify") \o Plain("idle") \o Plain("history") \o Plain("install")
    \o RuntimeSteps("windows") \o RuntimeSteps("wsl")
    \o Plain("runtime") \o Plain("account") \o Plain("restore") \o Plain("final")

Steps == IF platform = "mac" THEN MacSteps ELSE WindowsSteps
Step == Steps[report.step]

\* The runtime a step expects Codex to run in; macOS has one runtime only.
Expected(s) == IF s.rt = "original" THEN control.cfg.original ELSE s.rt
(* The effects of each step: of the macOS run first, then where the        *)
(* Windows run differs.                                                    *)
InstallMac == <<"stopInjector", "stopDesktop", "copy", "removeOld", "rename", "noteInstalled">>
LaunchMac == <<"launch", "ownedNew">>
RepeatScript == <<"ready", "noteBase", "launch", "stable">>
ReconnectScript == <<"ready", "noteBase", "killRelay", "relaySoon", "relayNew">>
ReopenMac == <<"ready", "noteBase", "stopDesktop", "stopped", "launch", "ready", "codexNew">>

AccountScript ==
    <<"stopInjector", "useTarget", "noteTarget", "stopDesktop", "launch", "ready", "noteRestarted", "smoke",
      "noteSmoke">>

\* The account is written while no injector runs that could write it too
\* (scripts/lifecycle-macos.mjs:244-245).
RestoreScript == <<"stopInjector", "useOriginal", "stopDesktop", "launch", "ready", "noteOriginal">>

FinalMac == <<"ready", "checkFinal", "removeStaging">>

InstallWindows == <<"stopInjector", "stopDesktop", "setupBegins", "setupEnds", "noteInstalled">>
HistoryWindows == <<"idle", "noteHistory">>
SwitchWindows == <<"noteBase", "setConfig", "noteConfig", "stopInjector", "stopDesktop">>
LaunchWindows == <<"launch", "ownedNew", "settled">>

ReopenWindows ==
    <<"ready", "noteBase", "stopDesktop", "stopped", "injectorGone", "launch", "ready", "codexNew">>

RuntimeWindows == <<"stopInjector", "stopDesktop", "restoreConfig", "launch", "ready", "noteConfig">>

Script(op) ==
    LET on(mac, windows) == IF platform = "mac" THEN mac ELSE windows IN
    CASE op = "verify"    -> <<"verify">>
      [] op = "idle"      -> <<"idle">>
      [] op = "history"   -> HistoryWindows
      [] op = "install"   -> on(InstallMac, InstallWindows)
      [] op = "switch"    -> SwitchWindows
      [] op = "launch"    -> on(LaunchMac, LaunchWindows)
      [] op = "repeat"    -> RepeatScript
      [] op = "reconnect" -> ReconnectScript
      [] op = "reopen"    -> on(ReopenMac, ReopenWindows)
      [] op = "runtime"   -> RuntimeWindows
      [] op = "account"   -> AccountScript
      [] op = "restore"   -> RestoreScript
      [] op = "final"     -> on(FinalMac, <<"ready", "checkFinal">>)

\* Mutant of ReplaySafe: the account round trip may be replayed.
ReplaySafeAccount(op) == op # "repeat"

\* Only these two steps may not be run again without knowing how far they came.
ReplaySafe(op) == op \notin {"repeat", "account"}

-----------------------------------------------------------------------------
(* What the run does to config.toml, and what it remembers of it.          *)

EditCount(c) == IF c = None THEN 0 ELSE c.edits
Generated(c, r) == [runtime |-> r, stated |-> TRUE, edits |-> EditCount(c)]
ParsedRuntime(c) == IF c = None THEN "windows" ELSE c.runtime

\* captureWindowsRuntimeConfiguration
Captured(c) ==
    [first |-> c, original |-> ParsedRuntime(c), started |-> FALSE, active |-> None,
     applied |-> None, restored |-> None, preserved |-> FALSE]

Memories ==
    [first : {None} \cup Files, original : Runtimes, started : BOOLEAN, active : Runtimes \cup {None},
     applied : {None} \cup Files, restored : {None} \cup Files, preserved : BOOLEAN]

\* The contents the run itself may have left there.
Known(cfg) == {cfg.first, cfg.applied} \cup {Generated(cfg.first, r) : r \in Runtimes}

Foreign(cfg, c) == c # None /\ c \notin Known(cfg)

\* A foreign edit is kept when it left the runtime as the run had set it.
ForeignButSame(cfg, c) == Foreign(cfg, c) /\ cfg.started /\ c.runtime = cfg.active

\* setWindowsRuntimeConfiguration: the new memory and the new file, or a refusal.
SettableTo(cfg, c, r) ==
    LET missing == c = None /\ cfg.first = None /\ ~cfg.started
        known   == c # None /\ c \in Known(cfg) \cup {cfg.restored}
        kept    == ForeignButSame(cfg, c) \/ (c # None /\ c = cfg.applied /\ cfg.preserved)
    IN  /\ missing \/ known \/ ForeignButSame(cfg, c)
        /\ kept \/ Generated(c, r) = Generated(cfg.first, r)

SetTo(cfg, c, r) ==
    [cfg EXCEPT !.started = TRUE, !.active = r, !.applied = Generated(c, r), !.restored = None,
                !.preserved = @ \/ ForeignButSame(cfg, c)]

\* restoreWindowsRuntimeConfiguration: three ways back, or a refusal.
KeepsForeign(cfg, c) ==
    c # None /\ c # cfg.restored /\ (Foreign(cfg, c) \/ (c = cfg.applied /\ cfg.preserved))

Restorable(cfg, c) ==
    /\ KeepsForeign(cfg, c) => cfg.started /\ c.runtime = cfg.active
    /\ c = None => cfg.first = None
\* Mutant of Restored: the backup is always put back.
RestoredBackup(cfg, c) == IF c # None /\ c = cfg.restored THEN c ELSE cfg.first

Restored(cfg, c) ==
    IF c # None /\ c = cfg.restored THEN c
    ELSE IF KeepsForeign(cfg, c) THEN Generated(c, cfg.original)
    ELSE cfg.first

RestoredMemory(cfg, c) ==
    [cfg EXCEPT !.active = cfg.original, !.applied = Restored(cfg, c), !.restored = Restored(cfg, c),
                !.preserved = IF c # None /\ c = cfg.restored THEN @ ELSE KeepsForeign(cfg, c)]

\* windowsRuntimeConfigurationMatches
Matches(cfg, c) == IF c = None THEN cfg.first = None ELSE c.runtime = cfg.original

-----------------------------------------------------------------------------
(* The host as the supervisor inspects it.                                 *)

Ready(w) ==
    /\ w.injector # None
    /\ w.codex # None /\ w.codex.by = "new"
    /\ w.relay
    /\ platform = "mac" => w.injector = "new"

ReadyIn(w, r) == Ready(w) /\ (platform = "windows" => w.codex.runtime = r)

\* installedCandidateEvidence, injectorOwnedByInstalledApp
Installed(w) == w.app = "new"
Owned(w) == w.injector # None /\ w.injector = w.app
\* What the last step demands of the host.
FinalState(w, cfg) ==
    /\ Installed(w)
    /\ w.auth = "original"
    /\ platform = "windows" => Matches(cfg, w.config)

\* A baseline keeps the processes' identities: what is remembered here is
\* which of them still are the same.
Parts == {"injector", "codex", "relay"}
Baseline(w) ==
    Parts \ ((IF w.injector = None THEN {"injector"} ELSE {}) \cup (IF w.codex = None THEN {"codex"} ELSE {}))
Since(b, changed) == IF b = None THEN None ELSE b \ changed
Same(b, p) == b # None /\ p \in b

-----------------------------------------------------------------------------
\* createLifecycleReport
Prepared == [status |-> "prepared", step |-> 1, running |-> FALSE]

\* A run that was confirmed: its report and its control record are written, and the
\* supervisor is scheduled.
Init ==
    \E p \in Platforms, c \in {None} \cup [runtime : Runtimes, stated : BOOLEAN, edits : {0}] :
        /\ p = "mac" => c = None
        /\ c # None => (c.runtime = "wsl" => c.stated)
        /\ platform = p
        /\ report = Prepared
        /\ control = [base |-> None, history |-> FALSE, written |-> FALSE, restarted |-> FALSE,
                      smoked |-> FALSE, cfg |-> Captured(c)]
        /\ sup = [pc |-> "down", at |-> 0, cfg |-> Captured(c)]
        /\ lock = "none"
        /\ world = [app |-> "old", staging |-> FALSE, auth |-> "original", injector |-> "old",
                    codex |-> [by |-> "old", runtime |-> ParsedRuntime(c), auth |-> "original"],
                    relay |-> TRUE, pending |-> FALSE, config |-> c, smokes |-> 0]
        /\ left = [crashes |-> MaxCrashes, edits |-> MaxEdits, switches |-> MaxSwitches]

Terminal == report.status \in {"passed", "failed"}

-----------------------------------------------------------------------------
(* The supervisor outside its steps.                                       *)

\* The first start and every --resume: refused for a report that has ended
\* and while the recorded owner lives.  A launch still on its way has come
\* up by the time a new supervisor runs.
Resume ==
    /\ sup.pc = "down" /\ ~Terminal /\ ~world.pending
    /\ sup' = [pc |-> "lock", at |-> 0, cfg |-> control.cfg]
    /\ UNCHANGED <<platform, report, control, lock, world, left>>
\* Mutant of TakeLock: the lock of a dead owner is respected.
TakeLockOnce ==
    /\ sup.pc = "lock"
    /\ \/ lock = "none" /\ lock' = "torn" /\ sup' = [sup EXCEPT !.pc = "own"]
       \/ lock # "none" /\ sup' = [sup EXCEPT !.pc = "down"] /\ UNCHANGED lock
    /\ UNCHANGED <<platform, report, control, world, left>>

\* acquireLifecycleLock creates the file and then writes it; the lock of a
\* dead owner is removed, a file without an owner cannot be parsed and ends
\* the attempt.
TakeLock ==
    /\ sup.pc = "lock"
    /\ \/ lock = "none" /\ lock' = "torn" /\ sup' = [sup EXCEPT !.pc = "own"]
       \/ lock = "held" /\ lock' = "none" /\ UNCHANGED sup
       \/ lock = "torn" /\ sup' = [sup EXCEPT !.pc = "down"] /\ UNCHANGED lock
    /\ UNCHANGED <<platform, report, control, world, left>>

OwnLock ==
    /\ sup.pc = "own"
    /\ lock' = "held"
    /\ sup' = [sup EXCEPT !.pc = "begin"]
    /\ UNCHANGED <<platform, report, control, world, left>>

BeginRun ==
    /\ sup.pc = "begin"
    /\ report' = [report EXCEPT !.status = "running"]
    /\ sup' = [sup EXCEPT !.pc = "loop"]
    /\ UNCHANGED <<platform, control, lock, world, left>>

StartStep ==
    /\ report' = [report EXCEPT !.running = TRUE]
    /\ sup' = [sup EXCEPT !.pc = "run", !.at = 1]
    /\ UNCHANGED <<platform, control, lock, world, left>>

\* The baselines are kept per step; only the runtime switch hands its own to
\* the launch that follows.
Passing ==
    /\ report' = [report EXCEPT !.running = FALSE, !.step = @ + 1]
    /\ sup' = [sup EXCEPT !.pc = "loop", !.at = 0]
    /\ control' = IF Step.op = "switch" THEN control ELSE [control EXCEPT !.base = None]
    /\ UNCHANGED <<platform, lock, world, left>>

\* The error path: the running step and the run have failed, for good.
Failing ==
    /\ report' = [report EXCEPT !.status = "failed"]
    /\ sup' = [sup EXCEPT !.pc = "release"]
    /\ UNCHANGED <<platform, control, lock, world, left>>

\* What a step's reconcile takes for done, given that the host is ready in
\* the runtime the step expects.
Untouched(b) == b = Parts
RelayWasReplaced(b) == b # None /\ ~Same(b, "relay")
CodexWasReplaced(b) == b # None /\ ~Same(b, "codex")
RoundTripMade == world.auth = "target" /\ control.restarted /\ control.smoked
AccountIsBack == world.auth = "original"

\* What the step's reconcile makes of a step that was running when the
\* supervisor died: done, to be run again, or nobody knows.
Reconciled ==
    LET op == Step.op
        b  == control.base
        ok == ReadyIn(world, Expected(Step))
        done ==
          CASE op = "verify"    -> TRUE
            [] op = "idle"      -> platform = "mac"
            [] op = "history"   -> control.history
            [] op = "install"   -> Installed(world)
            [] op = "switch"    -> FALSE
            [] op = "launch"    -> ok /\ Owned(world)
            [] op = "repeat"    -> ok /\ Untouched(b)
            [] op = "reconnect" -> ok /\ RelayWasReplaced(b)
            [] op = "reopen"    -> ok /\ CodexWasReplaced(b)
            [] op = "runtime"   -> ok /\ Matches(control.cfg, world.config)
            [] op = "account"   -> ok /\ RoundTripMade
            [] op = "restore"   -> ok /\ AccountIsBack
            [] op = "final"     -> ok /\ FinalState(world, control.cfg)
        again ==
          CASE op = "repeat"    -> b = None
            [] op = "account"   -> world.auth # "target" /\ ~control.written
            [] OTHER            -> ReplaySafe(op)
    IN  IF done THEN "done" ELSE IF ReplaySafe(op) \/ again THEN "again" ELSE "unknown"

Loop ==
    /\ sup.pc = "loop"
    /\ report.step <= Len(Steps)
    /\ \/ ~report.running /\ StartStep
       \/ report.running /\ Reconciled = "done" /\ Passing
       \/ report.running /\ Reconciled = "again" /\ StartStep
       \/ report.running /\ Reconciled = "unknown" /\ Failing

PassRun ==
    /\ sup.pc = "loop"
    /\ report.step > Len(Steps)
    /\ report' = [report EXCEPT !.status = "passed"]
    /\ sup' = [sup EXCEPT !.pc = "release"]
    /\ UNCHANGED <<platform, control, lock, world, left>>

Release ==
    /\ sup.pc = "release"
    /\ lock' = "none"
    /\ sup' = [sup EXCEPT !.pc = "down"]
    /\ UNCHANGED <<platform, report, control, world, left>>

-----------------------------------------------------------------------------
(* The effects of a step.                                                  *)

Effect == Script(Step.op)[sup.at]
Proceed == sup' = [sup EXCEPT !.at = @ + 1]

\* updateControl: the marks, the runtime configuration in memory with them.
Note(marks) == control' = [marks EXCEPT !.cfg = sup.cfg]

\* waitForTargetHost with the owner and the processes of before.
OwnedNew == Owned(world) /\ ~Same(control.base, "codex") /\ ~Same(control.base, "injector")
Settled == Owned(world) /\ ~world.pending
Stable == ~world.pending /\ Untouched(control.base)

\* A condition the supervisor waits for or checks; it throws when it does not
\* hold (in time): Throws.
Awaited(e) ==
    LET ok == ReadyIn(world, Expected(Step)) IN
    CASE e = "ready"        -> ok
      [] e = "ownedNew"     -> ok /\ OwnedNew
      [] e = "settled"      -> ok /\ Settled
      [] e = "stable"       -> ok /\ Stable
      [] e = "relayNew"     -> ok /\ ~Same(control.base, "relay")
      [] e = "stopped"      -> world.codex = None
      [] e = "injectorGone" -> ~Same(control.base, "injector")
      [] e = "codexNew"     -> ~Same(control.base, "codex")
      [] e = "checkFinal"   -> FinalState(world, sup.cfg)
      [] e \in {"verify", "idle"} -> TRUE
      [] OTHER              -> FALSE

Await ==
    /\ Awaited(Effect)
    /\ Proceed
    /\ UNCHANGED <<report, control, lock, world>>

\* The package, the processes and the account.  Every stop of the injector
\* comes after a wait for idle turns (src/src/lifecycle-turn-gate.mjs:152-176),
\* long enough for a launch on its way to have come up.
Changed(e) ==
    CASE e = "stopInjector"  -> [world EXCEPT !.injector = None]
      [] e = "stopDesktop"   -> [world EXCEPT !.codex = None, !.relay = FALSE]
      [] e = "copy"          -> [world EXCEPT !.staging = TRUE]
      [] e = "removeOld"     -> [world EXCEPT !.app = None]
      [] e = "rename"        -> [world EXCEPT !.app = "new", !.staging = FALSE]
      [] e = "setupBegins"   -> [world EXCEPT !.app = "broken"]
      [] e = "setupEnds"     -> [world EXCEPT !.app = "new"]
      [] e = "launch"        -> [world EXCEPT !.pending = TRUE]
      [] e = "killRelay"     -> [world EXCEPT !.relay = FALSE]
      [] e = "useTarget"     -> [world EXCEPT !.auth = "target"]
      [] e = "useOriginal"   -> [world EXCEPT !.auth = "original"]
      [] e = "smoke"         -> [world EXCEPT !.smokes = @ + 1]
      [] e = "removeStaging" -> [world EXCEPT !.staging = FALSE]

Replaced(e) ==
    CASE e = "stopInjector" -> {"injector"}
      [] e = "stopDesktop"  -> {"codex", "relay"}
      [] e = "killRelay"    -> {"relay"}
      [] OTHER              -> {}

Change ==
    /\ Effect \in {"stopInjector", "stopDesktop", "copy", "removeOld", "rename", "setupBegins", "setupEnds",
                   "launch", "killRelay", "useTarget", "useOriginal", "smoke", "removeStaging"}
    /\ Effect = "launch" => world.app \notin {None, "broken"}
    /\ Effect = "stopInjector" => ~world.pending
    /\ world' = Changed(Effect)
    /\ control' = [control EXCEPT !.base = Since(@, Replaced(Effect))]
    /\ Proceed
    /\ UNCHANGED <<report, lock>>

\* The first wait for a new relay gives up early and goes through the entry.
RelaySoon ==
    /\ Effect = "relaySoon"
    /\ \/ Awaited("relayNew") /\ UNCHANGED world
       \/ ~Awaited("relayNew") /\ world' = [world EXCEPT !.pending = TRUE]
    /\ Proceed
    /\ UNCHANGED <<report, control, lock>>

Noted ==
    \/ Effect = "noteInstalled" /\ Note(control)
    \/ Effect = "noteHistory" /\ Note([control EXCEPT !.history = TRUE])
    \/ Effect = "noteBase" /\ Note([control EXCEPT !.base = Baseline(world)])
    \/ Effect = "noteConfig" /\ Note(control)
    \/ Effect = "noteTarget" /\ Note([control EXCEPT !.written = TRUE])
    \/ Effect = "noteRestarted" /\ Note([control EXCEPT !.restarted = TRUE])
    \/ Effect = "noteSmoke" /\ Note([control EXCEPT !.smoked = TRUE])
    \/ Effect = "noteOriginal" /\ Note([control EXCEPT !.written = FALSE])

Mark ==
    /\ Noted
    /\ Proceed
    /\ UNCHANGED <<report, lock, world>>

Configure ==
    /\ \/ /\ Effect = "setConfig"
          /\ SettableTo(sup.cfg, world.config, Step.rt)
          /\ world' = [world EXCEPT !.config = Generated(@, Step.rt)]
          /\ sup' = [sup EXCEPT !.at = @ + 1, !.cfg = SetTo(@, world.config, Step.rt)]
       \/ /\ Effect = "restoreConfig"
          /\ Restorable(sup.cfg, world.config)
          /\ world' = [world EXCEPT !.config = Restored(sup.cfg, @)]
          /\ sup' = [sup EXCEPT !.at = @ + 1, !.cfg = RestoredMemory(@, world.config)]
    /\ UNCHANGED <<report, control, lock>>

Running == sup.pc = "run" /\ sup.at <= Len(Script(Step.op))

RunEffect ==
    /\ Running
    /\ Await \/ Change \/ RelaySoon \/ Mark \/ Configure
    /\ UNCHANGED <<platform, left>>

\* Everything the steps call may throw, and every wait ends: before a
\* resume refuses a changed host, a model request fails, a process stays.
Throws == Running /\ Failing

FinishStep ==
    /\ sup.pc = "run"
    /\ sup.at > Len(Script(Step.op))
    /\ Passing

-----------------------------------------------------------------------------
(* What happens around the supervisor.                                     *)

\* The launched entry: it starts the installed program, takes over from an
\* injector of another package, and starts Codex unless one runs under this
\* package already.  An injector of this package is asked to look after Codex
\* itself, which it may be too late for if it is about to end.
ComesUp ==
    /\ world.pending
    /\ world.app \notin {None, "broken"}
    /\ \E restarts \in BOOLEAN :
        /\ LET reuses == world.injector = world.app
               begins == world.codex # None => (~reuses /\ world.codex.by # world.app)
           IN  /\ restarts => begins
               /\ ~reuses => restarts = begins
               /\ control' = [control EXCEPT !.base = Since(@, (IF reuses THEN {} ELSE {"injector"})
                                                         \cup (IF restarts THEN {"codex", "relay"} ELSE {}))]
        /\ world' = [world EXCEPT
               !.pending = FALSE,
               !.injector = world.app,
               !.codex = IF restarts
                         THEN [by |-> world.app, runtime |-> ParsedRuntime(world.config), auth |-> world.auth]
                         ELSE @,
               !.relay = @ \/ restarts]
    /\ UNCHANGED <<platform, report, sup, lock, left>>

\* Codex starts its relay again.
RelayBack ==
    /\ world.codex # None /\ ~world.relay
    /\ world' = [world EXCEPT !.relay = TRUE]
    /\ UNCHANGED <<platform, report, control, sup, lock, left>>

\* An injector whose Codex has ended ends.
InjectorQuits ==
    /\ world.injector # None /\ world.codex = None
    /\ world' = [world EXCEPT !.injector = None]
    /\ control' = [control EXCEPT !.base = Since(@, {"injector"})]
    /\ UNCHANGED <<platform, report, sup, lock, left>>

\* The supervisor dies, with or without the whole machine.
Crash ==
    /\ sup.pc # "down" /\ left.crashes > 0
    /\ left' = [left EXCEPT !.crashes = @ - 1]
    /\ sup' = [pc |-> "down", at |-> 0, cfg |-> control.cfg]
    /\ \/ UNCHANGED <<world, control>>
       \/ /\ world' = [world EXCEPT !.injector = None, !.codex = None, !.relay = FALSE, !.pending = FALSE]
          /\ control' = [control EXCEPT !.base = Since(@, {"injector", "codex", "relay"})]
    /\ UNCHANGED <<platform, report, lock>>

\* Somebody else edits config.toml, with or without its runtime line: the
\* runtime only while the last step can still notice.
ExternalEdit ==
    /\ platform = "windows" /\ left.edits > 0 /\ ~Terminal
    /\ left' = [left EXCEPT !.edits = @ - 1]
    /\ \E r \in Runtimes :
        /\ \/ r = ParsedRuntime(world.config)
           \/ report.step < Len(Steps)
           \/ report.step = Len(Steps) /\ sup.pc = "down"
        /\ world' = [world EXCEPT !.config =
               [runtime |-> r, stated |-> r = "wsl" \/ (@ # None /\ @.stated), edits |-> EditCount(@) + 1]]
    /\ UNCHANGED <<platform, report, control, sup, lock>>

\* The user changes the account while no supervisor runs and the last step
\* has not passed.
UserSwitches ==
    /\ sup.pc = "down" /\ left.switches > 0
    /\ ~Terminal /\ report.step <= Len(Steps)
    /\ left' = [left EXCEPT !.switches = @ - 1]
    /\ world' = [world EXCEPT !.auth = IF @ = "target" THEN "original" ELSE "target"]
    /\ UNCHANGED <<platform, report, control, sup, lock>>

Ended == Terminal /\ sup.pc = "down" /\ UNCHANGED vars

Supervisor ==
    TakeLock \/ OwnLock \/ BeginRun \/ Loop \/ PassRun \/ Release \/ RunEffect \/ Throws \/ FinishStep

Next ==
    Resume \/ Supervisor \/ ComesUp \/ RelayBack \/ InjectorQuits \/ Crash \/ ExternalEdit \/ UserSwitches
    \/ Ended

Fairness == WF_vars(Supervisor) /\ WF_vars(Resume) /\ WF_vars(ComesUp)

Spec == Init /\ [][Next]_vars /\ Fairness

-----------------------------------------------------------------------------
(* Properties.                                                             *)

Statuses == {"prepared", "running", "passed", "failed"}
Auths == {"original", "target"}
Reports == [status : Statuses, step : Nat, running : BOOLEAN]
Controls ==
    [base : {None} \cup SUBSET Parts, history : BOOLEAN, written : BOOLEAN, restarted : BOOLEAN,
     smoked : BOOLEAN, cfg : Memories]
Supervisors == [pc : {"down", "lock", "own", "begin", "loop", "run", "release"}, at : Nat, cfg : Memories]
Hosts ==
    [app : {None, "old", "new", "broken"}, staging : BOOLEAN, auth : Auths, injector : {None, "old", "new"},
     codex : {None} \cup [by : {"old", "new"}, runtime : Runtimes, auth : Auths],
     relay : BOOLEAN, pending : BOOLEAN, config : {None} \cup Files, smokes : Nat]

\* Every variable has its type.
TypeOK ==
    /\ platform \in Platforms
    /\ report \in Reports /\ report.step \in 1 .. Len(Steps) + 1
    /\ control \in Controls /\ sup \in Supervisors /\ world \in Hosts
    /\ lock \in {"none", "torn", "held"}
    /\ left \in [crashes : 0 .. MaxCrashes, edits : 0 .. MaxEdits, switches : 0 .. MaxSwitches]

\* The one request that costs tokens is sent at most once, however often the
\* supervisor dies and is resumed, and whatever the user does to the account
\* in between.  The step is not replay-safe, and its reconcile refuses to
\* guess (scripts/lifecycle-macos.mjs:423-481).
SmokeOnce == world.smokes <= 1

\* A run that reports success has left the host as it promises: the new
\* package, the account of before, the runtime of before - the very file of
\* before, if nobody else edited it - and the round trip really was made.
PassedIsRestored ==
    report.status = "passed" =>
        /\ world.app = "new" /\ ~world.staging
        /\ world.auth = "original"
        /\ ParsedRuntime(world.config) = control.cfg.original
        /\ left.edits = MaxEdits => world.config = control.cfg.first
        /\ world.smokes = 1

\* Somebody else's edit of config.toml is never overwritten, neither by a
\* switch of the runtime nor by its restoration
\* (scripts/lifecycle-windows/runtime-configuration.mjs:38-136).
EditsStand == [][EditCount(world'.config) >= EditCount(world.config)]_vars

\* A run leaves no trace: one that reports success has put account, configuration
\* and injector back, and on the way there no foreign edit is overwritten.
LeavesNoTrace == [](TypeOK /\ PassedIsRestored) /\ EditsStand

\* However often the supervisor dies, the run ends - passed or failed - if it
\* is resumed; except when it died between creating and writing its lock,
\* which no later supervisor can take.
RunEnds == <>(Terminal \/ (lock = "torn" /\ sup.pc = "down"))

=============================================================================
