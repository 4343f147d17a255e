---------------------------- MODULE LifecycleProofs ----------------------------
(***************************************************************************)
(* What the supervised run promises, proved for any number of crashes,     *)
(* foreign edits and changes of the account: the paid request is sent at   *)
(* most once, a run that passes has put everything back, and no foreign    *)
(* edit of config.toml is overwritten.                                     *)
(* And what the update of the application promises, for any number of      *)
(* releases, clicks, workers and faults: a click offers the newest release *)
(* and one update at a time is under way, with all it touches left whole.  *)
(***************************************************************************)
EXTENDS MCLifecycle, Integers, TLAPS

-----------------------------------------------------------------------------
(* The inductive invariant.                                                *)

\* Where the steps stand that the properties speak of.
InstallAt == IF platform = "mac" THEN 3 ELSE 4
ToWslAt == 10
RuntimeAt == 15
AccountAt == IF platform = "mac" THEN 8 ELSE 16
FinalAt == IF platform = "mac" THEN 10 ELSE 18

\* A step that was not begun, and one that runs and has come past an effect.
Before(n) == report.step < n \/ (report.step = n /\ ~report.running)
Runs(n) == sup.pc = "run" /\ report.step = n
Past(n, effect) == Runs(n) /\ sup.at > effect

\* A supervisor in a step works on its script, and one whose run has ended is leaving.
Working ==
    /\ sup.pc = "run" => /\ report.running /\ report.step <= Len(Steps)
                         /\ sup.at \in 1 .. Len(Script(Step.op)) + 1
    /\ Terminal => sup.pc \in {"release", "down"}
    /\ report.status = "passed" => report.step > Len(Steps)

\* The request of the account step: it was not sent before the target account was noted, and a
\* note of it is never written before it was sent.
SentOnce ==
    /\ Before(AccountAt) => world.smokes = 0
    /\ report.step = AccountAt => world.smokes = 0 \/ (world.smokes = 1 /\ control.written)
    /\ report.step > AccountAt => world.smokes = 1
    /\ control.smoked => world.smokes = 1
    /\ Runs(AccountAt) => (IF sup.at > 8 THEN world.smokes = 1 ELSE world.smokes = 0)
    /\ Past(AccountAt, 3) => control.written

\* The package: the old one until the installation begins, the new one from its last effect on.
Replaces == IF platform = "mac" THEN 5 ELSE 4
PackageInstalled ==
    /\ world.app = "new" \/ platform = "windows" => ~world.staging
    /\ Before(InstallAt) => world.app = "old" /\ ~world.staging
    /\ report.step > InstallAt => world.app = "new"
    /\ Runs(InstallAt) /\ sup.at <= Replaces /\ platform = "mac" => world.app # "new"
    /\ Past(InstallAt, Replaces) => world.app = "new"

\* What the supervisor and its record know of config.toml.
Remembers(m) ==
    /\ m.first = control.cfg.first /\ m.original = ParsedRuntime(m.first)
    /\ EditCount(m.first) = 0
    /\ m.first # None /\ m.first.runtime = "wsl" => m.first.stated
    /\ platform = "mac" => m.first = None
    /\ ~m.preserved => EditCount(m.applied) = 0 /\ EditCount(m.restored) = 0
OwnOnly(m) == ~m.preserved /\ m.restored \in {None, m.first}

FileKnown ==
    /\ Remembers(sup.cfg) /\ Remembers(control.cfg)
    /\ platform = "mac" => world.config = None

\* As long as nobody else has edited config.toml it is one of the run's own, and the file of
\* before once the runtime is restored.
FileUntouched ==
    left.edits = MaxEdits =>
        LET first == control.cfg.first IN
        /\ OwnOnly(sup.cfg) /\ OwnOnly(control.cfg)
        /\ world.config \in {first} \cup {Generated(first, r) : r \in Runtimes}
        /\ platform = "windows" =>
            /\ report.step \in ToWslAt + 1 .. RuntimeAt \/ Past(ToWslAt, 2)
                 => world.config \in {first, Generated(first, "wsl")}
            /\ report.step > RuntimeAt \/ Past(RuntimeAt, 3) => world.config = first

\* The host after the check of the last step.
HostIsBack ==
    report.step > FinalAt \/ Past(FinalAt, 2) =>
        /\ world.auth = "original"
        /\ platform = "windows" => Matches(control.cfg, world.config)

IInv == TypeOK /\ Working /\ SentOnce /\ PackageInstalled /\ FileKnown /\ FileUntouched /\ HostIsBack

-----------------------------------------------------------------------------
(* The steps and their scripts.                                            *)

Ops == {"verify", "idle", "history", "install", "switch", "launch", "repeat", "reconnect", "reopen", "runtime",
        "account", "restore", "final"}

\* Where each step stands on macOS.
LEMMA MacTable ==
  /\ Len(MacSteps) = 10
  /\ \A i \in 1 .. 10 :
       /\ MacSteps[i].op \in Ops \ {"history", "switch", "runtime"}
       /\ MacSteps[i].op = "install" <=> i = 3
       /\ MacSteps[i].op = "account" <=> i = 8
       /\ MacSteps[i].op = "restore" <=> i = 9
       /\ MacSteps[i].op = "final" <=> i = 10
<1>1. Len(MacSteps) = 10
  BY DEF MacSteps, Plain
<1>2. ASSUME NEW i \in 1 .. 10
      PROVE  MacSteps[i].op = <<"verify", "idle", "install", "launch", "repeat", "reconnect", "reopen",
                                "account", "restore", "final">>[i]
  BY DEF MacSteps, Plain
<1>. QED
  BY <1>1, <1>2 DEF Ops

\* Where each step stands on Windows.
LEMMA WindowsTable ==
  /\ Len(WindowsSteps) = 18
  /\ \A i \in 1 .. 18 :
       /\ WindowsSteps[i].op \in Ops
       /\ WindowsSteps[i].op = "install" <=> i = 4
       /\ WindowsSteps[i].op = "switch" <=> i \in {5, 10}
       /\ WindowsSteps[i].op = "runtime" <=> i = 15
       /\ WindowsSteps[i].op = "account" <=> i = 16
       /\ WindowsSteps[i].op = "restore" <=> i = 17
       /\ WindowsSteps[i].op = "final" <=> i = 18
       /\ WindowsSteps[i].op = "switch" => WindowsSteps[i].rt \in Runtimes
  /\ WindowsSteps[10].rt = "wsl"
<1>. DEFINE W == <<"verify", "idle", "history", "install", "switch", "launch", "repeat", "reconnect", "reopen",
                   "switch", "launch", "repeat", "reconnect", "reopen", "runtime", "account", "restore", "final">>
<1>1. Len(WindowsSteps) = 18
  BY DEF WindowsSteps, Plain, RuntimeSteps
<1>2. ASSUME NEW i \in 1 .. 18
      PROVE  WindowsSteps[i].op = W[i]
  BY DEF WindowsSteps, Plain, RuntimeSteps
<1>3. WindowsSteps[10].rt = "wsl" /\ WindowsSteps[5].rt = "windows"
  BY DEF WindowsSteps, Plain, RuntimeSteps
<1>. QED
  BY <1>1, <1>2, <1>3 DEF Ops, Runtimes

\* Where each step stands in the run.
LEMMA StepTable ==
  ASSUME platform \in {"mac", "windows"}
  PROVE  /\ Len(Steps) = FinalAt
         /\ \A i \in 1 .. FinalAt :
              /\ Steps[i].op \in Ops
              /\ Steps[i].op = "install" <=> i = InstallAt
              /\ Steps[i].op = "account" <=> i = AccountAt
              /\ Steps[i].op = "final" <=> i = FinalAt
              /\ Steps[i].op = "restore" => i > AccountAt
              /\ Steps[i].op = "switch" => platform = "windows" /\ i \in {5, ToWslAt} /\ Steps[i].rt \in Runtimes
              /\ Steps[i].op = "runtime" => platform = "windows" /\ i = RuntimeAt
         /\ platform = "windows" => /\ Steps[ToWslAt].op = "switch" /\ Steps[ToWslAt].rt = "wsl"
                                    /\ Steps[RuntimeAt].op = "runtime"
<1>1. CASE platform = "mac"
  BY <1>1, MacTable DEF Steps, FinalAt, InstallAt, AccountAt
<1>2. CASE platform = "windows"
  BY <1>2, WindowsTable DEF Steps, FinalAt, InstallAt, AccountAt, ToWslAt, RuntimeAt
<1>. QED
  BY <1>1, <1>2

\* The places that the effects the invariant speaks of have in the scripts.
PlacedAt(op, i, e) ==
  /\ e = "smoke"         => op = "account" /\ i = 8
  /\ e = "noteTarget"    => op = "account" /\ i = 3
  /\ e = "noteSmoke"     => op = "account" /\ i = 9
  /\ e = "noteOriginal"  => op = "restore"
  /\ e \in {"useTarget", "useOriginal"} => op \in {"account", "restore"}
  /\ e = "copy"          => platform = "mac" /\ op = "install" /\ i = 3
  /\ e = "removeOld"     => platform = "mac" /\ op = "install" /\ i = 4
  /\ e = "rename"        => platform = "mac" /\ op = "install" /\ i = 5
  /\ e = "setupBegins"   => platform = "windows" /\ op = "install" /\ i = 3
  /\ e = "setupEnds"     => platform = "windows" /\ op = "install" /\ i = 4
  /\ e = "setConfig"     => op = "switch" /\ i = 2
  /\ e = "restoreConfig" => op = "runtime" /\ i = 3
  /\ e = "removeStaging" => op = "final"

\* The places where effects must stand for a step to mean what it says.
NeededAt(op, i, e) ==
  /\ op = "account" /\ i = 3 => e = "noteTarget"
  /\ op = "account" /\ i = 8 => e = "smoke"
  /\ op = "install" /\ i = Replaces => e = IF platform = "mac" THEN "rename" ELSE "setupEnds"
  /\ op = "switch" /\ i = 2  => e = "setConfig"
  /\ op = "runtime" /\ i = 3 => e = "restoreConfig"
  /\ op = "final" /\ i = 2   => e = "checkFinal"

\* Each script has its effects where the invariant says.
LEMMA ScriptTable ==
  ASSUME platform \in {"mac", "windows"}, NEW op \in Ops
  PROVE  /\ Len(Script(op)) \in Nat
         /\ \A i \in 1 .. Len(Script(op)) : PlacedAt(op, i, Script(op)[i]) /\ NeededAt(op, i, Script(op)[i])
<1>1. CASE op \in {"verify", "idle", "history", "repeat", "reconnect"}
  BY <1>1 DEF Script, HistoryWindows, RepeatScript, ReconnectScript, PlacedAt, NeededAt
<1>2. CASE op = "install"
  BY <1>2 DEF Script, InstallMac, InstallWindows, PlacedAt, NeededAt, Replaces
<1>3. CASE op \in {"switch", "runtime"}
  BY <1>3 DEF Script, SwitchWindows, RuntimeWindows, PlacedAt, NeededAt
<1>4. CASE op \in {"launch", "reopen"}
  BY <1>4 DEF Script, LaunchMac, LaunchWindows, ReopenMac, ReopenWindows, PlacedAt, NeededAt
<1>5. CASE op \in {"account", "restore"}
  BY <1>5 DEF Script, AccountScript, RestoreScript, PlacedAt, NeededAt
<1>6. CASE op = "final"
  BY <1>6 DEF Script, FinalMac, PlacedAt, NeededAt
<1>. QED
  BY <1>1, <1>2, <1>3, <1>4, <1>5, <1>6 DEF Ops

\* How long the scripts are whose end matters.
LEMMA ScriptLengths ==
  ASSUME platform \in {"mac", "windows"}
  PROVE  /\ Len(Script("account")) = 9
         /\ Len(Script("install")) >= Replaces
         /\ Len(Script("final")) >= 2
         /\ Len(Script("switch")) = 5
         /\ Len(Script("runtime")) = 6
BY DEF Script, AccountScript, InstallMac, InstallWindows, FinalMac, SwitchWindows, RuntimeWindows, Replaces

-----------------------------------------------------------------------------
(* The contents of config.toml.                                            *)

\* The content the run generates is a file with the foreign edits of the one before.
LEMMA GeneratedIsFile ==
  ASSUME LifecycleConstants, NEW c \in {None} \cup Files, NEW r \in Runtimes
  PROVE  /\ EditCount(c) \in Nat
         /\ Generated(c, r) \in Files /\ Generated(c, r) # None /\ Generated(c, r).runtime = r
         /\ EditCount(Generated(c, r)) = EditCount(c)
<1>1. EditCount(c) \in Nat
  BY DEF EditCount, Files
<1>2. Generated(c, r) \in Files /\ Generated(c, r).runtime = r /\ Generated(c, r).edits = EditCount(c)
  BY <1>1 DEF Generated, Files
<1>3. Generated(c, r) # None
  BY <1>2 DEF LifecycleConstants
<1>. QED
  BY <1>1, <1>2, <1>3 DEF EditCount

-----------------------------------------------------------------------------
(* The supervisor outside its steps.                                       *)

\* The platform and what depends on it alone.
LEMMA PlatformKept ==
  ASSUME platform' = platform
  PROVE  /\ Steps' = Steps /\ FinalAt' = FinalAt /\ AccountAt' = AccountAt /\ InstallAt' = InstallAt
         /\ Replaces' = Replaces
         /\ \A op : Script(op)' = Script(op)
BY DEF Steps, FinalAt, AccountAt, InstallAt, Replaces, Script, InstallMac, LaunchMac, ReopenMac, FinalMac

\* What is known of the platform and the steps.
LEMMA Basics ==
  ASSUME LifecycleConstants, TypeOK
  PROVE  /\ platform \in {"mac", "windows"}
         /\ Len(Steps) = FinalAt
         /\ report.step \in 1 .. FinalAt + 1
         /\ InstallAt < AccountAt /\ AccountAt < FinalAt /\ ToWslAt < RuntimeAt /\ FinalAt \in {10, 18}
         /\ platform = "windows" => RuntimeAt < AccountAt
<1>1. platform \in {"mac", "windows"}
  BY DEF LifecycleConstants, TypeOK
<1>2. Len(Steps) = FinalAt /\ report.step \in 1 .. FinalAt + 1
  BY <1>1, StepTable DEF TypeOK
<1>. QED
  BY <1>1, <1>2 DEF InstallAt, AccountAt, FinalAt, ToWslAt, RuntimeAt


\* The parts of the state the invariant speaks of, besides its types and what the
\* supervisor is doing.
KeepsWorld ==
  /\ platform' = platform /\ left'.edits = left.edits
  /\ world'.app = world.app /\ world'.staging = world.staging /\ world'.auth = world.auth
  /\ world'.config = world.config /\ world'.smokes = world.smokes
KeepsMarks == control'.written = control.written /\ control'.smoked = control.smoked /\ control'.cfg = control.cfg
KeepsStep == report'.step = report.step /\ report'.running = report.running

\* A step that changes none of these and goes on with no script keeps the invariant.
LEMMA QuietKeeps ==
  ASSUME LifecycleConstants, IInv, TypeOK', Working', KeepsWorld, KeepsMarks, KeepsStep,
         sup'.cfg \in {sup.cfg, control.cfg},
         sup'.pc # "run" \/ (sup'.pc = sup.pc /\ sup'.at = sup.at)
  PROVE  IInv'
<1>. USE DEF KeepsWorld, KeepsMarks, KeepsStep
<1>1. \A n, k : (Past(n, k)' => Past(n, k)) /\ (Before(n)' <=> Before(n)) /\ (Runs(n)' => Runs(n) /\ sup'.at = sup.at)
  BY DEF Past, Runs, Before
<1>2. SentOnce'
  BY <1>1, PlatformKept DEF IInv, SentOnce
<1>3. PackageInstalled'
  BY <1>1, PlatformKept DEF IInv, PackageInstalled
<1>4. HostIsBack'
  BY <1>1, PlatformKept DEF IInv, HostIsBack, Matches
<1>5. FileKnown'
  BY DEF IInv, FileKnown, Remembers, ParsedRuntime, EditCount
<1>6. FileUntouched'
  BY <1>1 DEF IInv, FileUntouched, OwnOnly, Generated, EditCount, ToWslAt, RuntimeAt
<1>. QED
  BY <1>2, <1>3, <1>4, <1>5, <1>6 DEF IInv

\* A start or a resumption of the supervisor, and its death, alone or with the machine.
LEMMA ResumeKeeps == ASSUME LifecycleConstants, IInv, Resume PROVE IInv'
<1>. DEFINE s == [pc |-> "lock", at |-> 0, cfg |-> control.cfg]
<1>1. /\ platform' = platform /\ report' = report /\ control' = control /\ lock' = lock /\ world' = world
      /\ left' = left /\ sup' = s /\ sup.pc = "down" /\ ~Terminal
  BY DEF Resume
<1>2. s \in Supervisors /\ s.pc = "lock" /\ s.cfg = control.cfg
  BY DEF IInv, TypeOK, Supervisors, Controls
<1>. HIDE DEF s
<1>3. TypeOK'
  BY <1>1, <1>2, PlatformKept DEF IInv, TypeOK
<1>4. Working'
  BY <1>1, <1>2 DEF IInv, Working, Terminal
<1>. QED
  BY <1>1, <1>2, <1>3, <1>4, QuietKeeps DEF KeepsWorld, KeepsMarks, KeepsStep

\* The lock is taken and owned, the run begins, the lock is given back.
LEMMA LockKeeps == ASSUME LifecycleConstants, IInv, TakeLock \/ OwnLock \/ Release PROVE IInv'
<1>1. PICK pc \in {"lock", "own", "begin", "down"} : sup' = [sup EXCEPT !.pc = pc]
  <2>1. sup \in Supervisors
    BY DEF IInv, TypeOK
  <2>2. sup = [sup EXCEPT !.pc = sup.pc]
    BY <2>1 DEF Supervisors
  <2>. QED
    BY <2>2 DEF TakeLock, OwnLock, Release
<1>2. sup' \in Supervisors /\ sup'.pc = pc /\ sup'.cfg = sup.cfg
  BY <1>1 DEF IInv, TypeOK, Supervisors
<1>3. /\ platform' = platform /\ report' = report /\ control' = control /\ world' = world /\ left' = left
      /\ lock' \in {"none", "torn", "held"}
  BY DEF TakeLock, OwnLock, Release, IInv, TypeOK
<1>6. Terminal => pc = "down"
  <2>1. Release => sup'.pc = "down"
    BY DEF Release, IInv, TypeOK, Supervisors
  <2>. QED
    BY <1>2, <2>1 DEF TakeLock, OwnLock, IInv, Working
<1>4. TypeOK'
  BY <1>2, <1>3, PlatformKept DEF IInv, TypeOK
<1>5. Working'
  BY <1>2, <1>3, <1>6, PlatformKept DEF IInv, Working, Terminal
<1>. QED
  BY <1>2, <1>3, <1>4, <1>5, QuietKeeps DEF KeepsWorld, KeepsMarks, KeepsStep

\* The run begins, passes or fails.
LEMMA StatusKeeps == ASSUME LifecycleConstants, IInv, BeginRun \/ PassRun \/ Failing PROVE IInv'
<1>1. PICK st \in {"running", "passed", "failed"}, pc \in {"loop", "release"} :
        /\ report' = [report EXCEPT !.status = st] /\ sup' = [sup EXCEPT !.pc = pc]
        /\ st # "running" => pc = "release"
        /\ st = "passed" => report.step > Len(Steps)
  BY DEF BeginRun, PassRun, Failing
<1>2. sup' \in Supervisors /\ sup'.pc = pc /\ sup'.cfg = sup.cfg
  BY <1>1 DEF IInv, TypeOK, Supervisors
<1>3. report' \in Reports /\ report'.status = st /\ report'.step = report.step /\ report'.running = report.running
  BY <1>1 DEF IInv, TypeOK, Reports, Statuses
<1>4. platform' = platform /\ control' = control /\ world' = world /\ left' = left /\ lock' = lock
  BY DEF BeginRun, PassRun, Failing
<1>5. TypeOK'
  BY <1>2, <1>3, <1>4, PlatformKept DEF IInv, TypeOK
<1>6. Working'
  BY <1>1, <1>2, <1>3, <1>4, PlatformKept DEF IInv, Working, Terminal
<1>. QED
  BY <1>2, <1>3, <1>4, <1>5, <1>6, QuietKeeps DEF KeepsWorld, KeepsMarks, KeepsStep

-----------------------------------------------------------------------------
(* What happens around the supervisor.                                     *)

\* What a baseline has lost stays lost, and no mark goes with it.
LEMMA BaseShrinks ==
  ASSUME NEW c \in Controls, NEW gone
  PROVE  LET d == [c EXCEPT !.base = Since(@, gone)] IN
         d \in Controls /\ d.written = c.written /\ d.smoked = c.smoked /\ d.cfg = c.cfg
<1>1. Since(c.base, gone) \in {None} \cup SUBSET Parts
  BY DEF Controls, Since
<1>. QED
  BY <1>1 DEF Controls

\* The supervisor dies, alone or with the machine.
LEMMA CrashKeeps == ASSUME LifecycleConstants, IInv, Crash PROVE IInv'
<1>. DEFINE s == [pc |-> "down", at |-> 0, cfg |-> control.cfg]
<1>1. sup' = s /\ platform' = platform /\ report' = report /\ lock' = lock
  BY DEF Crash
<1>2. s \in Supervisors /\ s.pc = "down" /\ s.cfg = control.cfg
  BY DEF IInv, TypeOK, Supervisors, Controls
<1>. HIDE DEF s
<1>3. /\ left' \in [crashes : 0 .. MaxCrashes, edits : 0 .. MaxEdits, switches : 0 .. MaxSwitches]
      /\ left'.edits = left.edits
  BY DEF Crash, IInv, TypeOK, LifecycleConstants
<1>4. /\ world' \in Hosts /\ world'.app = world.app /\ world'.staging = world.staging
      /\ world'.auth = world.auth /\ world'.config = world.config /\ world'.smokes = world.smokes
  BY DEF Crash, IInv, TypeOK, Hosts
<1>5. control' \in Controls /\ KeepsMarks
  BY DEF Crash, IInv, TypeOK, Controls, KeepsMarks, Since
<1>6. TypeOK'
  BY <1>1, <1>2, <1>3, <1>4, <1>5, PlatformKept DEF IInv, TypeOK
<1>7. Working'
  BY <1>1, <1>2, PlatformKept DEF IInv, Working, Terminal
<1>. QED
  BY <1>1, <1>2, <1>3, <1>4, <1>5, <1>6, <1>7, QuietKeeps DEF KeepsWorld, KeepsStep

\* The processes of the host come and go.
LEMMA ProcessesKeep == ASSUME LifecycleConstants, IInv, ComesUp \/ RelayBack \/ InjectorQuits PROVE IInv'
<1>1. platform' = platform /\ report' = report /\ lock' = lock /\ sup' = sup /\ left' = left
  BY DEF ComesUp, RelayBack, InjectorQuits
<1>2. /\ world' \in Hosts /\ world'.app = world.app /\ world'.staging = world.staging
      /\ world'.auth = world.auth /\ world'.config = world.config /\ world'.smokes = world.smokes
  <2>1. CASE RelayBack \/ InjectorQuits
    <3>1. world \in Hosts
      BY DEF IInv, TypeOK
    <3>2. CASE RelayBack
      BY <3>1, <3>2 DEF RelayBack, Hosts
    <3>3. CASE InjectorQuits
      BY <3>1, <3>3 DEF InjectorQuits, Hosts
    <3>. QED
      BY <2>1, <3>2, <3>3
  <2>2. CASE ComesUp
    <3>. DEFINE codexes == {None} \cup [by : {"old", "new"}, runtime : Runtimes, auth : Auths]
                new == [by |-> world.app, runtime |-> ParsedRuntime(world.config), auth |-> world.auth]
    <3>1. world \in Hosts /\ world.app \in {"old", "new"}
      BY <2>2 DEF ComesUp, IInv, TypeOK, Hosts
    <3>2. new \in codexes
      BY <3>1 DEF Hosts, ParsedRuntime, Files, Runtimes
    <3>3. PICK restarts \in BOOLEAN :
            world' = [world EXCEPT !.pending = FALSE, !.injector = world.app,
                                   !.codex = IF restarts THEN new ELSE @, !.relay = @ \/ restarts]
      BY <2>2 DEF ComesUp
    <3>. HIDE DEF new
    <3>4. PICK c \in codexes, r \in BOOLEAN :
            world' = [world EXCEPT !.pending = FALSE, !.injector = world.app, !.codex = c, !.relay = r]
      <4>1. CASE restarts
        BY <3>1, <3>2, <3>3, <4>1 DEF Hosts
      <4>2. CASE ~restarts
        BY <3>1, <3>3, <4>2 DEF Hosts
      <4>. QED
        BY <4>1, <4>2
    <3>. QED
      BY <3>1, <3>4 DEF Hosts
  <2>. QED
    BY <2>1, <2>2
<1>3. control' \in Controls /\ KeepsMarks
  <2>1. RelayBack => control' = control
    BY DEF RelayBack
  <2>2. InjectorQuits => \E gone : control' = [control EXCEPT !.base = Since(@, gone)]
    BY DEF InjectorQuits
  <2>3. ComesUp => \E gone : control' = [control EXCEPT !.base = Since(@, gone)]
    BY DEF ComesUp
  <2>. QED
    BY <2>1, <2>2, <2>3, BaseShrinks DEF IInv, TypeOK, KeepsMarks
<1>4. TypeOK'
  BY <1>1, <1>2, <1>3, PlatformKept DEF IInv, TypeOK
<1>5. Working'
  BY <1>1, PlatformKept DEF IInv, Working, Terminal, Step
<1>. QED
  BY <1>1, <1>2, <1>3, <1>4, <1>5, QuietKeeps DEF KeepsWorld, KeepsStep

\* The user changes the account, but not while a step runs nor after the last one.
LEMMA UserKeeps == ASSUME LifecycleConstants, IInv, UserSwitches PROVE IInv'
<1>1. /\ platform' = platform /\ report' = report /\ lock' = lock /\ sup' = sup /\ control' = control
      /\ sup.pc = "down" /\ report.step <= Len(Steps)
  BY DEF UserSwitches
<1>2. /\ left' \in [crashes : 0 .. MaxCrashes, edits : 0 .. MaxEdits, switches : 0 .. MaxSwitches]
      /\ left'.edits = left.edits
  BY DEF UserSwitches, IInv, TypeOK, LifecycleConstants
<1>3. /\ world' \in Hosts /\ world'.app = world.app /\ world'.staging = world.staging
      /\ world'.config = world.config /\ world'.smokes = world.smokes
  BY DEF UserSwitches, IInv, TypeOK, Hosts, Auths
<1>4. TypeOK' /\ Working'
  BY <1>1, <1>2, <1>3, PlatformKept DEF IInv, TypeOK, Working, Terminal
<1>5. SentOnce' /\ PackageInstalled'
  BY <1>1, <1>3, PlatformKept DEF IInv, SentOnce, PackageInstalled, Past, Runs, Before
<1>6. HostIsBack'
  BY <1>1, PlatformKept, Basics DEF IInv, HostIsBack, Past, Runs
<1>7. FileKnown' /\ FileUntouched'
  BY <1>1, <1>2, <1>3 DEF IInv, FileKnown, FileUntouched, Remembers, OwnOnly, Past, Runs, ParsedRuntime,
     EditCount, Generated
<1>. QED
  BY <1>4, <1>5, <1>6, <1>7 DEF IInv

\* Somebody else edits config.toml, its runtime only while the last step can still notice.
LEMMA EditKeeps == ASSUME LifecycleConstants, IInv, ExternalEdit PROVE IInv'
<1>1. PICK r \in Runtimes :
        /\ r = ParsedRuntime(world.config) \/ report.step < Len(Steps) \/ (report.step = Len(Steps) /\ sup.pc = "down")
        /\ world' = [world EXCEPT !.config =
               [runtime |-> r, stated |-> r = "wsl" \/ (@ # None /\ @.stated), edits |-> EditCount(@) + 1]]
  BY DEF ExternalEdit
<1>. DEFINE st == r = "wsl" \/ (world.config # None /\ world.config.stated)
            file == [runtime |-> r, stated |-> st, edits |-> EditCount(world.config) + 1]
<1>2. /\ platform' = platform /\ report' = report /\ lock' = lock /\ sup' = sup /\ control' = control
      /\ platform = "windows" /\ left.edits > 0
  BY DEF ExternalEdit
<1>3. world \in Hosts /\ EditCount(world.config) \in Nat
  BY DEF IInv, TypeOK, Hosts, EditCount, Files
<1>4. st \in BOOLEAN
  OBVIOUS
<1>. HIDE DEF st
<1>5. file \in Files /\ file.runtime = r
  BY <1>3, <1>4 DEF Files
<1>6. world' = [world EXCEPT !.config = file]
  BY <1>1 DEF st
<1>. HIDE DEF file
<1>7. /\ world' \in Hosts /\ world'.app = world.app /\ world'.staging = world.staging
      /\ world'.auth = world.auth /\ world'.config = file /\ world'.smokes = world.smokes
  BY <1>3, <1>5, <1>6 DEF Hosts
<1>8. /\ left' \in [crashes : 0 .. MaxCrashes, edits : 0 .. MaxEdits, switches : 0 .. MaxSwitches]
      /\ left'.edits < MaxEdits
  BY DEF ExternalEdit, IInv, TypeOK, LifecycleConstants
<1>9. TypeOK' /\ Working'
  <2>1. TypeOK'
    BY <1>2, <1>7, <1>8, PlatformKept DEF IInv, TypeOK
  <2>2. Working'
    BY <1>2, PlatformKept DEF IInv, Working, Terminal, Step
  <2>. QED
    BY <2>1, <2>2
<1>10. SentOnce' /\ PackageInstalled'
  BY <1>2, <1>7, PlatformKept DEF IInv, SentOnce, PackageInstalled, Past, Runs, Before
<1>11. HostIsBack'
  <2>1. ASSUME report.step > FinalAt \/ Past(FinalAt, 2)
        PROVE  Matches(control.cfg, file)
    <3>1. r = ParsedRuntime(world.config)
      BY <1>1, <2>1, Basics DEF IInv, Past, Runs
    <3>2. Matches(control.cfg, world.config)
      BY <1>2, <2>1 DEF IInv, HostIsBack
    <3>3. file # None
      BY <1>5 DEF LifecycleConstants
    <3>. QED
      BY <3>1, <3>2, <3>3, <1>5 DEF Matches, ParsedRuntime, IInv, FileKnown, Remembers
  <2>. QED
    BY <1>2, <1>7, <2>1, PlatformKept DEF IInv, HostIsBack, Past, Runs
<1>12. FileKnown'
  BY <1>2 DEF IInv, FileKnown, Remembers, ParsedRuntime, EditCount
<1>13. FileUntouched'
  BY <1>8 DEF FileUntouched
<1>. QED
  BY <1>9, <1>10, <1>11, <1>12, <1>13 DEF IInv

-----------------------------------------------------------------------------
(* The steps begin and pass.                                               *)

\* What a step's reconcile has found when it takes the step for done, or lets it run again.
LEMMA ReconcileTable ==
  ASSUME Step.op \in Ops
  PROVE  /\ Reconciled = "done" =>
              /\ Step.op # "switch"
              /\ Step.op = "install" => Installed(world)
              /\ Step.op = "account" => control.smoked
              /\ Step.op = "runtime" => Matches(control.cfg, world.config)
              /\ Step.op = "final" => FinalState(world, control.cfg)
         /\ Reconciled = "again" =>
              /\ Step.op = "install" => ~Installed(world)
              /\ Step.op = "account" => ~control.written
<1>1. ASSUME Reconciled = "done", Step.op = "switch" PROVE FALSE
  BY <1>1 DEF Reconciled
<1>2. ASSUME Reconciled = "done", Step.op = "install" PROVE Installed(world)
  BY <1>2 DEF Reconciled
<1>3. ASSUME Reconciled = "done", Step.op = "account" PROVE control.smoked
  BY <1>3 DEF Reconciled, RoundTripMade
<1>4. ASSUME Reconciled = "done", Step.op = "runtime" PROVE Matches(control.cfg, world.config)
  BY <1>4 DEF Reconciled
<1>5. ASSUME Reconciled = "done", Step.op = "final" PROVE FinalState(world, control.cfg)
  BY <1>5 DEF Reconciled
<1>6. ASSUME Reconciled = "again", Step.op = "install" PROVE ~Installed(world)
  BY <1>6 DEF Reconciled
<1>7. ASSUME Reconciled = "again", Step.op = "account" PROVE ~control.written
  BY <1>7 DEF Reconciled, ReplaySafe
<1>. QED
  BY <1>1, <1>2, <1>3, <1>4, <1>5, <1>6, <1>7

\* A step begins: for the first time, or anew when its reconcile knows that it may.
LEMMA StartKeeps ==
  ASSUME LifecycleConstants, IInv, sup.pc = "loop", report.step <= Len(Steps), StartStep,
         ~report.running \/ Reconciled = "again"
  PROVE  IInv'
<1>1. /\ platform' = platform /\ control' = control /\ lock' = lock /\ world' = world /\ left' = left
      /\ platform \in {"mac", "windows"}
  BY Basics DEF StartStep, IInv
<1>2. sup' \in Supervisors /\ sup'.pc = "run" /\ sup'.at = 1 /\ sup'.cfg = sup.cfg
  BY DEF StartStep, IInv, TypeOK, Supervisors
<1>3. report' \in Reports /\ report'.status = report.status /\ report'.step = report.step /\ report'.running
  BY DEF StartStep, IInv, TypeOK, Reports
<1>4. report.step \in 1 .. FinalAt /\ Len(Steps) = FinalAt /\ Step.op \in Ops
  BY <1>1, StepTable, Basics DEF IInv, Step
<1>5. TypeOK'
  BY <1>1, <1>2, <1>3, PlatformKept DEF IInv, TypeOK
<1>6. Working'
  <2>1. Step' = Step
    BY <1>1, <1>3, PlatformKept DEF Step
  <2>2. 1 \in 1 .. Len(Script(Step.op)) + 1
    BY <1>1, <1>4, ScriptTable
  <2>. QED
    BY <1>1, <1>2, <1>3, <2>1, <2>2, PlatformKept DEF IInv, Working, Terminal
<1>7. SentOnce'
  <2>1. report.step = AccountAt => world.smokes = 0
    <3>1. CASE ~report.running
      BY <3>1 DEF IInv, SentOnce, Before
    <3>2. CASE Reconciled = "again"
      BY <1>1, <1>4, <3>2, StepTable, ReconcileTable DEF IInv, SentOnce, Step
    <3>. QED
      BY <3>1, <3>2
  <2>. QED
    BY <1>1, <1>2, <1>3, <2>1, PlatformKept DEF IInv, SentOnce, Before, Runs, Past
<1>8. PackageInstalled'
  <2>1. report.step = InstallAt => world.app # "new"
    <3>1. CASE ~report.running
      BY <3>1 DEF IInv, PackageInstalled, Before
    <3>2. CASE Reconciled = "again"
      BY <1>1, <1>4, <3>2, StepTable, ReconcileTable DEF IInv, Installed, Step
    <3>. QED
      BY <3>1, <3>2
  <2>2. Replaces \in Nat /\ Replaces > 1
    BY DEF Replaces
  <2>. QED
    BY <1>1, <1>2, <1>3, <2>1, <2>2, PlatformKept DEF IInv, PackageInstalled, Before, Runs, Past
<1>9. HostIsBack'
  BY <1>1, <1>2, <1>3, PlatformKept DEF IInv, HostIsBack, Past, Runs, Matches
<1>10. FileKnown' /\ FileUntouched'
  BY <1>1, <1>2, <1>3 DEF IInv, FileKnown, FileUntouched, Remembers, OwnOnly, Past, Runs, ParsedRuntime,
     EditCount, Generated
<1>. QED
  BY <1>5, <1>6, <1>7, <1>8, <1>9, <1>10 DEF IInv

\* A step passes: its script is at its end, or its reconcile has found it done.
LEMMA PassingKeeps ==
  ASSUME LifecycleConstants, IInv, Passing, report.step <= Len(Steps),
         \/ sup.pc = "run" /\ sup.at > Len(Script(Step.op))
         \/ sup.pc = "loop" /\ report.running /\ Reconciled = "done"
  PROVE  IInv'
<1>1. platform' = platform /\ lock' = lock /\ world' = world /\ left' = left /\ platform \in {"mac", "windows"}
  BY Basics DEF Passing, IInv
<1>2. sup' \in Supervisors /\ sup'.pc = "loop" /\ sup'.cfg = sup.cfg
  BY DEF Passing, IInv, TypeOK, Supervisors
<1>3. /\ report' \in Reports /\ report'.status = report.status /\ report'.step = report.step + 1
      /\ ~report'.running
  <2>1. report \in Reports /\ report' = [report EXCEPT !.running = FALSE, !.step = report.step + 1]
    BY DEF Passing, IInv, TypeOK
  <2>2. report.step + 1 \in Nat
    BY <2>1 DEF Reports
  <2>. QED
    BY <2>1, <2>2 DEF Reports
<1>4. control' \in Controls /\ KeepsMarks
  BY DEF Passing, IInv, TypeOK, Controls, KeepsMarks
<1>5. report.step \in 1 .. FinalAt /\ Len(Steps) = FinalAt /\ Step.op \in Ops /\ Step = Steps[report.step]
  BY <1>1, StepTable, Basics DEF IInv, Step
<1>13. sup.at \in Nat
  BY DEF IInv, TypeOK, Supervisors
<1>6. TypeOK'
  BY <1>1, <1>2, <1>3, <1>4, <1>5, PlatformKept DEF IInv, TypeOK
<1>7. Working'
  BY <1>1, <1>2, <1>3, <1>5, PlatformKept DEF IInv, Working, Terminal
<1>14. /\ \A n \in Int : (Before(n)' => Before(n)) /\ (report'.step > n => report.step > n \/ report.step = n)
       /\ \A n : ~Runs(n)' /\ \A k : ~Past(n, k)'
  BY <1>2, <1>3, <1>5 DEF Before, Runs, Past
<1>15. AccountAt \in Int /\ InstallAt \in Int /\ FinalAt \in Int
  BY DEF AccountAt, InstallAt, FinalAt
<1>8. SentOnce'
  <2>1. report.step = AccountAt => world.smokes = 1
    <3>1. CASE sup.pc = "run" /\ sup.at > Len(Script(Step.op))
      <4>1. report.step = AccountAt => Step.op = "account"
        BY <1>1, <1>5, StepTable
      <4>2. report.step = AccountAt => sup.at > 8 /\ Runs(AccountAt)
        <5>1. Len(Script("account")) = 9
          BY <1>1, ScriptLengths
        <5>2. report.step = AccountAt => sup.at > 9
          BY <3>1, <4>1, <5>1
        <5>. QED
          BY <1>13, <3>1, <5>2 DEF Runs
      <4>. QED
        BY <1>13, <4>2 DEF IInv, SentOnce
    <3>2. CASE Reconciled = "done"
      BY <1>1, <1>5, <3>2, StepTable, ReconcileTable DEF IInv, SentOnce
    <3>. QED
      BY <3>1, <3>2
  <2>. QED
    <3>1. report'.step = AccountAt => report.step < AccountAt
      BY <1>3, <1>5, <1>15
    <3>2. report.step < AccountAt => world.smokes = 0
      BY DEF IInv, SentOnce, Before
    <3>. QED
      BY <1>1, <1>4, <1>14, <1>15, <2>1, <3>1, <3>2, PlatformKept DEF IInv, SentOnce, KeepsMarks
<1>9. PackageInstalled'
  <2>1. report.step = InstallAt => world.app = "new"
    <3>1. CASE sup.pc = "run" /\ sup.at > Len(Script(Step.op))
      BY <1>1, <1>5, <3>1, StepTable, ScriptLengths DEF IInv, TypeOK, Supervisors, PackageInstalled, Past, Runs, Replaces
    <3>2. CASE Reconciled = "done"
      BY <1>1, <1>5, <3>2, StepTable, ReconcileTable DEF Installed
    <3>. QED
      BY <3>1, <3>2
  <2>. QED
    BY <1>1, <1>14, <1>15, <2>1, PlatformKept DEF IInv, PackageInstalled
<1>10. HostIsBack'
  <2>1. ASSUME report.step = FinalAt
        PROVE  world.auth = "original" /\ (platform = "windows" => Matches(control.cfg, world.config))
    <3>1. CASE sup.pc = "run" /\ sup.at > Len(Script(Step.op))
      BY <1>1, <1>5, <2>1, <3>1, StepTable, ScriptLengths DEF IInv, TypeOK, Supervisors, HostIsBack, Past, Runs
    <3>2. CASE Reconciled = "done"
      BY <1>1, <1>5, <2>1, <3>2, StepTable, ReconcileTable DEF FinalState
    <3>. QED
      BY <3>1, <3>2
  <2>. QED
    BY <1>1, <1>2, <1>3, <1>4, <1>5, <2>1, PlatformKept, Basics DEF IInv, HostIsBack, Past, Runs, Matches, KeepsMarks
<1>11. FileKnown'
  BY <1>1, <1>2, <1>4 DEF IInv, FileKnown, Remembers, ParsedRuntime, EditCount, KeepsMarks
<1>12. FileUntouched'
  <2>. SUFFICES ASSUME left.edits = MaxEdits PROVE FileUntouched'
    BY <1>1 DEF FileUntouched
  <2>. DEFINE first == control.cfg.first
  <2>1. ASSUME platform = "windows", report.step = ToWslAt
        PROVE  world.config \in {first, Generated(first, "wsl")}
    <3>1. Step.op = "switch"
      BY <1>5, <2>1, StepTable
    <3>2. sup.pc = "run" /\ sup.at > Len(Script(Step.op))
      BY <1>5, <3>1, ReconcileTable
    <3>3. Past(ToWslAt, 2)
      <4>1. Len(Script("switch")) = 5
        BY <1>1, ScriptLengths
      <4>2. sup.at > 5
        BY <3>1, <3>2, <4>1
      <4>. QED
        BY <1>13, <2>1, <3>2, <4>2 DEF Past, Runs
    <3>. QED
      BY <2>1, <3>3 DEF IInv, FileUntouched
  <2>2. ASSUME platform = "windows", report.step = RuntimeAt
        PROVE  world.config = first
    <3>1. Step.op = "runtime"
      BY <1>5, <2>2, StepTable
    <3>2. CASE sup.pc = "run" /\ sup.at > Len(Script(Step.op))
      <4>1. Past(RuntimeAt, 3)
        <5>1. Len(Script("runtime")) = 6
          BY <1>1, ScriptLengths
        <5>2. sup.at > 6
          BY <3>1, <3>2, <5>1
        <5>. QED
          BY <1>13, <2>2, <3>2, <5>2 DEF Past, Runs
      <4>. QED
        BY <2>2, <4>1 DEF IInv, FileUntouched
    <3>3. CASE Reconciled = "done"
      <4>1. Matches(control.cfg, world.config)
        BY <1>5, <3>1, <3>3, ReconcileTable
      <4>2. world.config \in {first, Generated(first, "wsl")}
        BY <2>2 DEF IInv, FileUntouched, ToWslAt, RuntimeAt
      <4>3. Remembers(control.cfg) /\ first \in {None} \cup Files
        BY DEF IInv, FileKnown, TypeOK, Controls, Memories
      <4>4. CASE first = None
        BY <4>1, <4>2, <4>3, <4>4 DEF Matches, Remembers, ParsedRuntime, Generated
      <4>5. CASE first # None
        <5>1. /\ first \in Files /\ first.edits = 0 /\ (first.runtime = "wsl" => first.stated)
              /\ control.cfg.original = first.runtime
          BY <4>3, <4>5 DEF Remembers, ParsedRuntime, EditCount
        <5>2. Generated(first, "wsl") = [runtime |-> "wsl", stated |-> TRUE, edits |-> 0]
          BY <4>5, <5>1 DEF Generated, EditCount
        <5>3. Generated(first, "wsl") # None
          BY <4>3, GeneratedIsFile DEF Runtimes
        <5>4. CASE world.config = Generated(first, "wsl")
          <6>1. first.runtime = "wsl"
            BY <4>1, <5>1, <5>2, <5>3, <5>4 DEF Matches
          <6>2. first.stated = TRUE
            BY <5>1, <6>1 DEF Files
          <6>3. first = [runtime |-> first.runtime, stated |-> first.stated, edits |-> first.edits]
            BY <5>1 DEF Files
          <6>. QED
            BY <5>1, <5>2, <5>4, <6>1, <6>2, <6>3
        <5>. QED
          BY <4>2, <5>4
      <4>. QED
        BY <4>4, <4>5
    <3>. QED
      BY <3>2, <3>3
  <2>3. OwnOnly(sup.cfg)' /\ OwnOnly(control.cfg)'
    BY <1>2, <1>4 DEF IInv, FileUntouched, OwnOnly, KeepsMarks
  <2>4. world.config \in {first} \cup {Generated(first, r) : r \in Runtimes}
    BY DEF IInv, FileUntouched
  <2>5. /\ platform = "windows" /\ report.step + 1 \in ToWslAt + 1 .. RuntimeAt
             => world.config \in {first, Generated(first, "wsl")}
        /\ platform = "windows" /\ report.step + 1 > RuntimeAt => world.config = first
    BY <1>5, <2>1, <2>2 DEF IInv, FileUntouched, ToWslAt, RuntimeAt
  <2>. QED
    BY <1>1, <1>2, <1>3, <1>4, <2>3, <2>4, <2>5
       DEF FileUntouched, Past, Runs, KeepsMarks, Generated, EditCount, ToWslAt, RuntimeAt
<1>. QED
  BY <1>6, <1>7, <1>8, <1>9, <1>10, <1>11, <1>12 DEF IInv

-----------------------------------------------------------------------------
(* The effects of a step.                                                  *)

\* Where the supervisor is when it comes to an effect.
LEMMA EffectPlace ==
  ASSUME LifecycleConstants, IInv, Running
  PROVE  /\ sup.pc = "run" /\ report.running /\ report.step \in 1 .. FinalAt
         /\ Step = Steps[report.step] /\ Step.op \in Ops
         /\ sup.at \in 1 .. Len(Script(Step.op))
         /\ PlacedAt(Step.op, sup.at, Effect) /\ NeededAt(Step.op, sup.at, Effect)
         /\ platform \in {"mac", "windows"}
<1>1. /\ platform \in {"mac", "windows"} /\ report.step \in 1 .. FinalAt /\ Step = Steps[report.step]
      /\ sup.pc = "run" /\ report.running
  BY Basics DEF IInv, Working, Running, Step
<1>2. Step.op \in Ops
  BY <1>1, StepTable
<1>3. /\ Len(Script(Step.op)) \in Nat
      /\ \A i \in 1 .. Len(Script(Step.op)) :
           PlacedAt(Step.op, i, Script(Step.op)[i]) /\ NeededAt(Step.op, i, Script(Step.op)[i])
  BY <1>1, <1>2, ScriptTable
<1>4. sup.at \in 1 .. Len(Script(Step.op))
  BY <1>1, <1>3 DEF IInv, Working, Running
<1>. QED
  BY <1>1, <1>2, <1>3, <1>4 DEF Effect

\* What an effect does to the parts of the state that the invariant speaks of.
EffectDone ==
  /\ platform' = platform /\ report' = report /\ lock' = lock /\ left' = left
  /\ sup' \in Supervisors /\ sup'.pc = sup.pc /\ sup'.at = sup.at + 1
  /\ control' \in Controls /\ world' \in Hosts
  /\ world'.smokes = IF Effect = "smoke" THEN world.smokes + 1 ELSE world.smokes
  /\ control'.written = IF Effect = "noteTarget" THEN TRUE
                        ELSE IF Effect = "noteOriginal" THEN FALSE ELSE control.written
  /\ control'.smoked = IF Effect = "noteSmoke" THEN TRUE ELSE control.smoked
  /\ world'.app = IF Effect = "removeOld" THEN None
                  ELSE IF Effect \in {"rename", "setupEnds"} THEN "new"
                  ELSE IF Effect = "setupBegins" THEN "broken" ELSE world.app
  /\ world'.staging = IF Effect = "copy" THEN TRUE
                      ELSE IF Effect \in {"rename", "removeStaging"} THEN FALSE ELSE world.staging
  /\ Effect \notin {"useTarget", "useOriginal"} => world'.auth = world.auth
  /\ Effect = "checkFinal" => FinalState(world, sup.cfg)

\* An effect that leaves config.toml alone may write what the supervisor remembers of it.
FileLeft ==
  /\ Effect \notin {"setConfig", "restoreConfig"}
  /\ world'.config = world.config /\ sup'.cfg = sup.cfg /\ control'.cfg \in {control.cfg, sup.cfg}

\* The two effects that write config.toml.
FileSet ==
  /\ Effect = "setConfig" /\ control'.cfg = control.cfg
  /\ SettableTo(sup.cfg, world.config, Step.rt)
  /\ world'.config = Generated(world.config, Step.rt) /\ sup'.cfg = SetTo(sup.cfg, world.config, Step.rt)
FileRestored ==
  /\ Effect = "restoreConfig" /\ control'.cfg = control.cfg
  /\ Restorable(sup.cfg, world.config)
  /\ world'.config = Restored(sup.cfg, world.config) /\ sup'.cfg = RestoredMemory(sup.cfg, world.config)

\* The supervisor goes on to the next effect.
LEMMA ProceedDoes ==
  ASSUME sup \in Supervisors, Proceed
  PROVE  sup' \in Supervisors /\ sup'.pc = sup.pc /\ sup'.at = sup.at + 1 /\ sup'.cfg = sup.cfg
BY DEF Proceed, Supervisors

\* Only these effects are conditions.
LEMMA AwaitedOnly ==
  ASSUME NEW e, Awaited(e)
  PROVE  e \in {"ready", "ownedNew", "settled", "stable", "relayNew", "stopped", "injectorGone", "codexNew",
                "checkFinal", "verify", "idle"}
BY DEF Awaited

\* A condition that holds, and the first wait for a relay.
LEMMA AwaitDoes ==
  ASSUME IInv, RunEffect, Await \/ RelaySoon
  PROVE  EffectDone /\ FileLeft
<1>1. sup \in Supervisors /\ control \in Controls /\ world \in Hosts
  BY DEF IInv, TypeOK
<1>2. sup' \in Supervisors /\ sup'.pc = sup.pc /\ sup'.at = sup.at + 1 /\ sup'.cfg = sup.cfg
  BY <1>1, ProceedDoes DEF Await, RelaySoon
<1>3. platform' = platform /\ report' = report /\ lock' = lock /\ left' = left /\ control' = control
  BY DEF Await, RelaySoon, RunEffect
<1>4. CASE Await
  <2>1. Awaited(Effect) /\ world' = world
    BY <1>4 DEF Await
  <2>2. Effect = "checkFinal" => FinalState(world, sup.cfg)
    BY <2>1 DEF Awaited
  <2>. QED
    BY <1>1, <1>2, <1>3, <2>1, <2>2, AwaitedOnly DEF EffectDone, FileLeft
<1>5. CASE RelaySoon
  <2>1. Effect = "relaySoon" /\ (world' = world \/ world' = [world EXCEPT !.pending = TRUE])
    BY <1>5 DEF RelaySoon
  <2>2. /\ world' \in Hosts /\ world'.app = world.app /\ world'.staging = world.staging
        /\ world'.auth = world.auth /\ world'.config = world.config /\ world'.smokes = world.smokes
    BY <1>1, <2>1 DEF Hosts
  <2>. QED
    BY <1>1, <1>2, <1>3, <2>1, <2>2 DEF EffectDone, FileLeft
<1>. QED
  BY <1>4, <1>5

\* A mark is written into the control record.
LEMMA MarkDoes ==
  ASSUME IInv, RunEffect, Mark
  PROVE  EffectDone /\ FileLeft
<1>1. sup \in Supervisors /\ control \in Controls /\ world \in Hosts
  BY DEF IInv, TypeOK
<1>2. sup' \in Supervisors /\ sup'.pc = sup.pc /\ sup'.at = sup.at + 1 /\ sup'.cfg = sup.cfg
  BY <1>1, ProceedDoes DEF Mark
<1>3. platform' = platform /\ report' = report /\ lock' = lock /\ left' = left /\ world' = world
  BY DEF Mark, RunEffect
<1>4. sup.cfg \in Memories
  BY <1>1 DEF Supervisors
<1>5. Baseline(world) \in SUBSET Parts
  BY DEF Baseline
<1>6. ASSUME NEW c \in Controls, Note(c)
      PROVE  control' \in Controls /\ control'.cfg = sup.cfg /\ control'.written = c.written
             /\ control'.smoked = c.smoked
  BY <1>4, <1>6 DEF Note, Controls
<1>7. /\ Effect \in {"noteInstalled", "noteHistory", "noteBase", "noteConfig", "noteTarget", "noteRestarted",
                     "noteSmoke", "noteOriginal"}
      /\ control' \in Controls /\ control'.cfg = sup.cfg
      /\ control'.written = IF Effect = "noteTarget" THEN TRUE
                            ELSE IF Effect = "noteOriginal" THEN FALSE ELSE control.written
      /\ control'.smoked = IF Effect = "noteSmoke" THEN TRUE ELSE control.smoked
  <2>1. Noted
    BY DEF Mark
  <2>2. CASE Effect \in {"noteInstalled", "noteConfig"} /\ Note(control)
    BY <1>1, <1>6, <2>2
  <2>3. CASE Effect = "noteHistory" /\ Note([control EXCEPT !.history = TRUE])
    <3>. DEFINE c == [control EXCEPT !.history = TRUE]
    <3>1. c \in Controls /\ c.written = control.written /\ c.smoked = control.smoked
      BY <1>1 DEF Controls
    <3>. HIDE DEF c
    <3>. QED
      BY <1>6, <2>3, <3>1 DEF c
  <2>4. CASE Effect = "noteBase" /\ Note([control EXCEPT !.base = Baseline(world)])
    <3>. DEFINE c == [control EXCEPT !.base = Baseline(world)]
    <3>1. c \in Controls /\ c.written = control.written /\ c.smoked = control.smoked
      BY <1>1, <1>5 DEF Controls
    <3>. HIDE DEF c
    <3>. QED
      BY <1>6, <2>4, <3>1 DEF c
  <2>5. CASE Effect = "noteTarget" /\ Note([control EXCEPT !.written = TRUE])
    <3>. DEFINE c == [control EXCEPT !.written = TRUE]
    <3>1. c \in Controls /\ c.written = TRUE /\ c.smoked = control.smoked
      BY <1>1 DEF Controls
    <3>. HIDE DEF c
    <3>. QED
      BY <1>6, <2>5, <3>1 DEF c
  <2>6. CASE Effect = "noteRestarted" /\ Note([control EXCEPT !.restarted = TRUE])
    <3>. DEFINE c == [control EXCEPT !.restarted = TRUE]
    <3>1. c \in Controls /\ c.written = control.written /\ c.smoked = control.smoked
      BY <1>1 DEF Controls
    <3>. HIDE DEF c
    <3>. QED
      BY <1>6, <2>6, <3>1 DEF c
  <2>7. CASE Effect = "noteSmoke" /\ Note([control EXCEPT !.smoked = TRUE])
    <3>. DEFINE c == [control EXCEPT !.smoked = TRUE]
    <3>1. c \in Controls /\ c.written = control.written /\ c.smoked = TRUE
      BY <1>1 DEF Controls
    <3>. HIDE DEF c
    <3>. QED
      BY <1>6, <2>7, <3>1 DEF c
  <2>8. CASE Effect = "noteOriginal" /\ Note([control EXCEPT !.written = FALSE])
    <3>. DEFINE c == [control EXCEPT !.written = FALSE]
    <3>1. c \in Controls /\ c.written = FALSE /\ c.smoked = control.smoked
      BY <1>1 DEF Controls
    <3>. HIDE DEF c
    <3>. QED
      BY <1>6, <2>8, <3>1 DEF c
  <2>. QED
    BY <2>1, <2>2, <2>3, <2>4, <2>5, <2>6, <2>7, <2>8 DEF Noted
<1>. QED
  BY <1>1, <1>2, <1>3, <1>7 DEF EffectDone, FileLeft

\* What happens to the package, the processes and the account.
LEMMA ChangeDoes ==
  ASSUME IInv, RunEffect, Change
  PROVE  EffectDone /\ FileLeft
<1>. DEFINE e == Effect
<1>1. sup \in Supervisors /\ control \in Controls /\ world \in Hosts
  BY DEF IInv, TypeOK
<1>2. sup' \in Supervisors /\ sup'.pc = sup.pc /\ sup'.at = sup.at + 1 /\ sup'.cfg = sup.cfg
  BY <1>1, ProceedDoes DEF Change
<1>3. /\ platform' = platform /\ report' = report /\ lock' = lock /\ left' = left
      /\ world' = Changed(e) /\ control' = [control EXCEPT !.base = Since(@, Replaced(e))]
      /\ e \in {"stopInjector", "stopDesktop", "copy", "removeOld", "rename", "setupBegins", "setupEnds",
                "launch", "killRelay", "useTarget", "useOriginal", "smoke", "removeStaging"}
  BY DEF Change, RunEffect
<1>4. control' \in Controls /\ control'.written = control.written /\ control'.smoked = control.smoked
      /\ control'.cfg = control.cfg
  <2>1. control.base \in {None} \cup SUBSET Parts
    BY <1>1 DEF Controls
  <2>2. Since(control.base, Replaced(e)) \in {None} \cup SUBSET Parts
    BY <2>1 DEF Since
  <2>. QED
    BY <1>1, <1>3, <2>2 DEF Controls
<1>. HIDE DEF e
<1>5. CASE e \in {"stopInjector", "stopDesktop", "killRelay", "launch"}
  <2>1. /\ world' \in Hosts /\ world'.app = world.app /\ world'.staging = world.staging
        /\ world'.auth = world.auth /\ world'.config = world.config /\ world'.smokes = world.smokes
    BY <1>1, <1>3, <1>5 DEF Changed, Hosts
  <2>. QED
    BY <1>1, <1>2, <1>3, <1>4, <1>5, <2>1 DEF EffectDone, FileLeft, e
<1>6. CASE e \in {"copy", "removeOld", "rename", "setupBegins", "setupEnds", "removeStaging"}
  <2>1. /\ world' \in Hosts /\ world'.auth = world.auth /\ world'.config = world.config
        /\ world'.smokes = world.smokes
        /\ world'.app = IF e = "removeOld" THEN None
                        ELSE IF e \in {"rename", "setupEnds"} THEN "new"
                        ELSE IF e = "setupBegins" THEN "broken" ELSE world.app
        /\ world'.staging = IF e = "copy" THEN TRUE
                            ELSE IF e \in {"rename", "removeStaging"} THEN FALSE ELSE world.staging
    <3>1. CASE e \in {"copy", "removeOld", "rename"}
      BY <1>1, <1>3, <3>1 DEF Changed, Hosts
    <3>2. CASE e \in {"setupBegins", "setupEnds", "removeStaging"}
      BY <1>1, <1>3, <3>2 DEF Changed, Hosts
    <3>. QED
      BY <1>6, <3>1, <3>2
  <2>. QED
    BY <1>1, <1>2, <1>3, <1>4, <1>6, <2>1 DEF EffectDone, FileLeft, e
<1>7. CASE e \in {"useTarget", "useOriginal"}
  <2>1. /\ world' \in Hosts /\ world'.app = world.app /\ world'.staging = world.staging
        /\ world'.config = world.config /\ world'.smokes = world.smokes
    BY <1>1, <1>3, <1>7 DEF Changed, Hosts, Auths
  <2>. QED
    BY <1>1, <1>2, <1>3, <1>4, <1>7, <2>1 DEF EffectDone, FileLeft, e
<1>8. CASE e = "smoke"
  <2>1. /\ world' \in Hosts /\ world'.app = world.app /\ world'.staging = world.staging
        /\ world'.auth = world.auth /\ world'.config = world.config /\ world'.smokes = world.smokes + 1
    BY <1>1, <1>3, <1>8 DEF Changed, Hosts
  <2>. QED
    BY <1>1, <1>2, <1>3, <1>4, <1>8, <2>1 DEF EffectDone, FileLeft, e
<1>. QED
  BY <1>3, <1>5, <1>6, <1>7, <1>8

\* The memory after config.toml was set, or restored.
LEMMA SetToIsMemory ==
  ASSUME LifecycleConstants, NEW m \in Memories, NEW c \in {None} \cup Files, NEW r \in Runtimes
  PROVE  /\ SetTo(m, c, r) \in Memories
         /\ SetTo(m, c, r).first = m.first /\ SetTo(m, c, r).original = m.original
         /\ SetTo(m, c, r).applied = Generated(c, r) /\ SetTo(m, c, r).restored = None
         /\ ~SetTo(m, c, r).preserved => ~m.preserved /\ ~ForeignButSame(m, c)
         /\ ~m.preserved /\ ~ForeignButSame(m, c) => ~SetTo(m, c, r).preserved
<1>. DEFINE kept == m.preserved \/ ForeignButSame(m, c)
            file == Generated(c, r)
            after == [m EXCEPT !.started = TRUE, !.active = r, !.applied = file, !.restored = None,
                               !.preserved = kept]
<1>1. SetTo(m, c, r) = after
  BY DEF SetTo
<1>2. kept \in BOOLEAN /\ file \in Files
  BY GeneratedIsFile
<1>3. kept <=> m.preserved \/ ForeignButSame(m, c)
  OBVIOUS
<1>4. file = Generated(c, r)
  OBVIOUS
<1>. HIDE DEF kept, file
<1>5. /\ after \in Memories /\ after.first = m.first /\ after.original = m.original
      /\ after.applied = file /\ after.restored = None /\ after.preserved = kept
  BY <1>2 DEF Memories
<1>. HIDE DEF after
<1>. QED
  BY <1>1, <1>3, <1>4, <1>5

\* The same of a restoration, which keeps a foreign edit or brings the file of before back.
LEMMA RestoredIsMemory ==
  ASSUME LifecycleConstants, NEW m \in Memories, NEW c \in {None} \cup Files
  PROVE  /\ Restored(m, c) \in {None} \cup Files
         /\ RestoredMemory(m, c) \in Memories
         /\ RestoredMemory(m, c).first = m.first /\ RestoredMemory(m, c).original = m.original
         /\ RestoredMemory(m, c).applied = Restored(m, c) /\ RestoredMemory(m, c).restored = Restored(m, c)
         /\ c # None /\ c = m.restored => RestoredMemory(m, c).preserved = m.preserved
         /\ ~(c # None /\ c = m.restored) => (RestoredMemory(m, c).preserved <=> KeepsForeign(m, c))
<1>. DEFINE kept == IF c # None /\ c = m.restored THEN m.preserved ELSE KeepsForeign(m, c)
            file == Restored(m, c)
            after == [m EXCEPT !.active = m.original, !.applied = file, !.restored = file, !.preserved = kept]
<1>1. RestoredMemory(m, c) = after
  BY DEF RestoredMemory
<1>2. m.original \in Runtimes /\ m.first \in {None} \cup Files /\ m.preserved \in BOOLEAN
  BY DEF Memories
<1>3. file \in {None} \cup Files
  BY <1>2, GeneratedIsFile DEF Restored
<1>4. /\ kept \in BOOLEAN
      /\ c # None /\ c = m.restored => kept = m.preserved
      /\ ~(c # None /\ c = m.restored) => (kept <=> KeepsForeign(m, c))
  <2>1. KeepsForeign(m, c) \in BOOLEAN
    BY DEF KeepsForeign
  <2>. QED
    BY <1>2, <2>1
<1>5. file = Restored(m, c)
  OBVIOUS
<1>. HIDE DEF kept, file
<1>6. /\ after \in Memories /\ after.first = m.first /\ after.original = m.original
      /\ after.applied = file /\ after.restored = file /\ after.preserved = kept
  BY <1>2, <1>3, <1>4 DEF Memories
<1>. HIDE DEF after
<1>. QED
  BY <1>1, <1>3, <1>4, <1>5, <1>6

\* config.toml is set to a runtime, or restored.
LEMMA ConfigureDoes ==
  ASSUME LifecycleConstants, IInv, RunEffect, Configure
  PROVE  EffectDone /\ (FileSet \/ FileRestored)
<1>1. sup \in Supervisors /\ control \in Controls /\ world \in Hosts
  BY DEF IInv, TypeOK
<1>2. /\ platform' = platform /\ report' = report /\ lock' = lock /\ left' = left /\ control' = control
  BY DEF Configure, RunEffect
<1>3. sup.cfg \in Memories /\ world.config \in {None} \cup Files /\ sup.at \in Nat
  BY <1>1 DEF Supervisors, Hosts
<1>4. ASSUME NEW file \in {None} \cup Files, NEW m \in Memories,
             world' = [world EXCEPT !.config = file], sup' = [sup EXCEPT !.at = @ + 1, !.cfg = m]
      PROVE  /\ world' \in Hosts /\ world'.app = world.app /\ world'.staging = world.staging
             /\ world'.auth = world.auth /\ world'.config = file /\ world'.smokes = world.smokes
             /\ sup' \in Supervisors /\ sup'.pc = sup.pc /\ sup'.at = sup.at + 1 /\ sup'.cfg = m
  <2>1. /\ world' \in Hosts /\ world'.app = world.app /\ world'.staging = world.staging
        /\ world'.auth = world.auth /\ world'.config = file /\ world'.smokes = world.smokes
    BY <1>1, <1>4 DEF Hosts
  <2>. DEFINE at == sup.at + 1
  <2>2. sup' \in Supervisors /\ sup'.pc = sup.pc /\ sup'.at = at /\ sup'.cfg = m
    <3>1. at \in Nat /\ sup' = [sup EXCEPT !.at = at, !.cfg = m]
      BY <1>3, <1>4
    <3>. HIDE DEF at
    <3>. QED
      BY <1>1, <3>1 DEF Supervisors
  <2>. QED
    BY <2>1, <2>2
<1>5. CASE Effect = "setConfig"
  <2>1. /\ SettableTo(sup.cfg, world.config, Step.rt)
        /\ world' = [world EXCEPT !.config = Generated(world.config, Step.rt)]
        /\ sup' = [sup EXCEPT !.at = @ + 1, !.cfg = SetTo(sup.cfg, world.config, Step.rt)]
    BY <1>5 DEF Configure
  <2>2. Step.rt \in Runtimes
    BY <1>5, EffectPlace, StepTable DEF PlacedAt, RunEffect
  <2>3. Generated(world.config, Step.rt) \in Files /\ SetTo(sup.cfg, world.config, Step.rt) \in Memories
    BY <1>3, <2>2, GeneratedIsFile, SetToIsMemory
  <2>4. /\ world' \in Hosts /\ world'.app = world.app /\ world'.staging = world.staging
        /\ world'.auth = world.auth /\ world'.config = Generated(world.config, Step.rt)
        /\ world'.smokes = world.smokes
        /\ sup' \in Supervisors /\ sup'.pc = sup.pc /\ sup'.at = sup.at + 1
        /\ sup'.cfg = SetTo(sup.cfg, world.config, Step.rt)
    BY <1>4, <2>1, <2>3
  <2>. QED
    BY <1>1, <1>2, <1>5, <2>1, <2>4 DEF EffectDone, FileSet
<1>6. CASE Effect = "restoreConfig"
  <2>1. /\ Restorable(sup.cfg, world.config)
        /\ world' = [world EXCEPT !.config = Restored(sup.cfg, world.config)]
        /\ sup' = [sup EXCEPT !.at = @ + 1, !.cfg = RestoredMemory(sup.cfg, world.config)]
    BY <1>6 DEF Configure
  <2>2. Restored(sup.cfg, world.config) \in {None} \cup Files /\ RestoredMemory(sup.cfg, world.config) \in Memories
    BY <1>3, RestoredIsMemory
  <2>3. /\ world' \in Hosts /\ world'.app = world.app /\ world'.staging = world.staging
        /\ world'.auth = world.auth /\ world'.config = Restored(sup.cfg, world.config)
        /\ world'.smokes = world.smokes
        /\ sup' \in Supervisors /\ sup'.pc = sup.pc /\ sup'.at = sup.at + 1
        /\ sup'.cfg = RestoredMemory(sup.cfg, world.config)
    BY <1>4, <2>1, <2>2
  <2>. QED
    BY <1>1, <1>2, <1>6, <2>1, <2>3 DEF EffectDone, FileRestored
<1>. QED
  BY <1>5, <1>6 DEF Configure

\* What the effect of a running step does.
LEMMA EffectDoes ==
  ASSUME LifecycleConstants, IInv, RunEffect
  PROVE  EffectDone /\ (FileLeft \/ FileSet \/ FileRestored)
BY AwaitDoes, MarkDoes, ChangeDoes, ConfigureDoes DEF RunEffect

\* Setting or restoring config.toml never loses a foreign edit, and a memory that keeps none
\* knows only files without one.
LEMMA SettingKeepsEdits ==
  ASSUME LifecycleConstants, NEW m \in Memories, NEW c \in {None} \cup Files, NEW r \in Runtimes,
         Remembers(m), SettableTo(m, c, r)
  PROVE  /\ EditCount(Generated(c, r)) = EditCount(c)
         /\ Remembers(SetTo(m, c, r))
<1>. DEFINE after == SetTo(m, c, r)
<1>1. /\ EditCount(Generated(c, r)) = EditCount(c)
      /\ \A q \in Runtimes : EditCount(Generated(m.first, q)) = EditCount(m.first)
  BY GeneratedIsFile DEF Memories
<1>2. /\ after.first = m.first /\ after.applied = Generated(c, r) /\ after.restored = None
      /\ after.original = m.original
      /\ ~after.preserved => ~m.preserved /\ ~ForeignButSame(m, c)
  BY SetToIsMemory
<1>3. ASSUME ~m.preserved, ~ForeignButSame(m, c)
      PROVE  EditCount(c) = 0
  <2>1. c = None \/ c \in Known(m) \cup {m.restored}
    BY <1>3 DEF SettableTo
  <2>2. EditCount(m.first) = 0 /\ EditCount(m.applied) = 0 /\ EditCount(m.restored) = 0
    BY <1>3 DEF Remembers
  <2>3. CASE c = None
    BY <2>3 DEF EditCount
  <2>4. CASE c \in Known(m) \cup {m.restored}
    BY <1>1, <2>2, <2>4 DEF Known
  <2>. QED
    BY <2>1, <2>3, <2>4
<1>4. ~after.preserved => EditCount(after.applied) = 0 /\ EditCount(after.restored) = 0
  BY <1>1, <1>2, <1>3 DEF EditCount
<1>. QED
  BY <1>1, <1>2, <1>4 DEF Remembers

\* The same of a restoration, which may give back the file of before.
LEMMA RestoringKeepsEdits ==
  ASSUME LifecycleConstants, NEW m \in Memories, NEW c \in {None} \cup Files,
         Remembers(m), Restorable(m, c)
  PROVE  /\ EditCount(Restored(m, c)) >= EditCount(c)
         /\ Remembers(RestoredMemory(m, c))
<1>. DEFINE after == RestoredMemory(m, c)
<1>1. /\ m.first \in {None} \cup Files /\ m.original \in Runtimes /\ EditCount(c) \in Nat
      /\ \A q \in Runtimes : EditCount(Generated(m.first, q)) = EditCount(m.first)
      /\ EditCount(Generated(c, m.original)) = EditCount(c)
  BY GeneratedIsFile DEF Memories
<1>2. /\ after.first = m.first /\ after.original = m.original
      /\ after.applied = Restored(m, c) /\ after.restored = Restored(m, c)
      /\ c # None /\ c = m.restored => after.preserved = m.preserved
      /\ ~(c # None /\ c = m.restored) => (after.preserved <=> KeepsForeign(m, c))
  BY RestoredIsMemory
<1>3. EditCount(m.first) = 0 /\ (~m.preserved => EditCount(m.applied) = 0 /\ EditCount(m.restored) = 0)
  BY DEF Remembers
<1>4. CASE c # None /\ c = m.restored
  <2>1. Restored(m, c) = c /\ after.preserved = m.preserved
    BY <1>2, <1>4 DEF Restored
  <2>. QED
    BY <1>1, <1>2, <1>3, <1>4, <2>1 DEF Remembers
<1>5. CASE ~(c # None /\ c = m.restored) /\ KeepsForeign(m, c)
  <2>1. Restored(m, c) = Generated(c, m.original) /\ after.preserved
    BY <1>2, <1>5 DEF Restored
  <2>. QED
    BY <1>1, <1>2, <2>1 DEF Remembers
<1>6. CASE ~(c # None /\ c = m.restored) /\ ~KeepsForeign(m, c)
  <2>1. Restored(m, c) = m.first /\ ~after.preserved
    BY <1>2, <1>6 DEF Restored
  <2>2. EditCount(c) = 0
    <3>1. CASE c = None
      BY <3>1 DEF EditCount
    <3>2. CASE c # None
      <4>1. c \in Known(m) /\ (c = m.applied => ~m.preserved)
        BY <1>6, <3>2 DEF KeepsForeign, Foreign
      <4>. QED
        BY <1>1, <1>3, <4>1 DEF Known
    <3>. QED
      BY <3>1, <3>2
  <2>. QED
    BY <1>1, <1>2, <1>3, <2>1, <2>2 DEF Remembers
<1>. QED
  BY <1>4, <1>5, <1>6

\* An effect keeps what is known of config.toml, and the foreign edits in it.
LEMMA EffectKeepsFile ==
  ASSUME LifecycleConstants, IInv, RunEffect
  PROVE  FileKnown' /\ EditCount(world'.config) >= EditCount(world.config)
<1>1. /\ sup.cfg \in Memories /\ world.config \in {None} \cup Files /\ EditCount(world.config) \in Nat
      /\ Remembers(sup.cfg) /\ Remembers(control.cfg) /\ platform' = platform /\ platform \in {"mac", "windows"}
      /\ platform = "mac" => world.config = None
      /\ PlacedAt(Step.op, sup.at, Effect) /\ report.step \in 1 .. FinalAt
      /\ Step = Steps[report.step]
  BY EffectPlace, EffectDoes, GeneratedIsFile
     DEF IInv, TypeOK, FileKnown, Supervisors, Hosts, EffectDone, RunEffect, Runtimes
<1>2. Effect \in {"setConfig", "restoreConfig"} => platform = "windows"
  BY <1>1, StepTable DEF PlacedAt
<1>3. CASE FileLeft
  <2>1. control'.cfg.first = control.cfg.first /\ sup'.cfg = sup.cfg /\ control'.cfg \in {control.cfg, sup.cfg}
    BY <1>1, <1>3 DEF FileLeft, Remembers
  <2>. QED
    BY <1>1, <1>3, <2>1 DEF FileLeft, FileKnown, Remembers, ParsedRuntime, EditCount
<1>4. CASE FileSet
  <2>1. Step.rt \in Runtimes
    BY <1>1, <1>4, StepTable DEF FileSet, PlacedAt
  <2>2. /\ EditCount(world'.config) = EditCount(world.config)
        /\ Remembers(SetTo(sup.cfg, world.config, Step.rt))
    BY <1>1, <1>4, <2>1, SettingKeepsEdits DEF FileSet
  <2>. QED
    BY <1>1, <1>2, <1>4, <2>2 DEF FileSet, FileKnown, Remembers, ParsedRuntime, EditCount
<1>5. CASE FileRestored
  <2>1. /\ EditCount(world'.config) >= EditCount(world.config)
        /\ Remembers(RestoredMemory(sup.cfg, world.config))
    BY <1>1, <1>5, RestoringKeepsEdits DEF FileRestored
  <2>. QED
    BY <1>1, <1>2, <1>5, <2>1 DEF FileRestored, FileKnown, Remembers, ParsedRuntime, EditCount
<1>. QED
  BY <1>3, <1>4, <1>5, EffectDoes

\* An effect keeps what is known of an unedited config.toml.
LEMMA EffectKeepsUntouched ==
  ASSUME LifecycleConstants, IInv, RunEffect
  PROVE  FileUntouched'
<1>. DEFINE first == control.cfg.first
<1>1. /\ sup.cfg \in Memories /\ control.cfg \in Memories /\ world.config \in {None} \cup Files
      /\ first \in {None} \cup Files /\ sup.cfg.first = first
      /\ platform' = platform /\ report' = report /\ left' = left /\ platform \in {"mac", "windows"}
      /\ sup.pc = "run" /\ sup'.pc = "run" /\ sup'.at = sup.at + 1 /\ sup.at \in Nat
      /\ PlacedAt(Step.op, sup.at, Effect) /\ NeededAt(Step.op, sup.at, Effect)
      /\ report.step \in 1 .. FinalAt /\ Step = Steps[report.step]
  BY EffectPlace, EffectDoes DEF IInv, TypeOK, FileKnown, Remembers, Supervisors, Controls, Memories, Hosts,
     EffectDone, RunEffect, Running
<1>. SUFFICES ASSUME left.edits = MaxEdits
              PROVE  FileUntouched'
  BY <1>1 DEF FileUntouched
<1>2. /\ OwnOnly(sup.cfg) /\ OwnOnly(control.cfg)
      /\ world.config \in {first} \cup {Generated(first, r) : r \in Runtimes}
  BY DEF IInv, FileUntouched
<1>3. platform = "windows" =>
        /\ report.step \in ToWslAt + 1 .. RuntimeAt \/ (report.step = ToWslAt /\ sup.at > 2)
             => world.config \in {first, Generated(first, "wsl")}
        /\ report.step > RuntimeAt \/ (report.step = RuntimeAt /\ sup.at > 3) => world.config = first
  BY <1>1 DEF IInv, FileUntouched, Past, Runs
<1>4. world.config = None \/ world.config \in Known(sup.cfg)
  BY <1>1, <1>2 DEF Known
<1>5. \A q, r \in Runtimes : Generated(Generated(first, q), r) = Generated(first, r)
  BY <1>1, GeneratedIsFile DEF Generated
<1>6. SUFFICES /\ OwnOnly(sup'.cfg) /\ OwnOnly(control'.cfg) /\ control'.cfg.first = first
               /\ world'.config \in {first} \cup {Generated(first, r) : r \in Runtimes}
               /\ platform = "windows" =>
                    /\ report.step \in ToWslAt + 1 .. RuntimeAt \/ (report.step = ToWslAt /\ sup'.at > 2)
                         => world'.config \in {first, Generated(first, "wsl")}
                    /\ report.step > RuntimeAt \/ (report.step = RuntimeAt /\ sup'.at > 3)
                         => world'.config = first
  BY <1>1 DEF FileUntouched, Past, Runs, OwnOnly, Generated, EditCount, ToWslAt, RuntimeAt
<1>7. CASE FileLeft
  <2>1. /\ OwnOnly(sup'.cfg) /\ OwnOnly(control'.cfg) /\ control'.cfg.first = first
        /\ world'.config = world.config
    BY <1>1, <1>2, <1>7 DEF FileLeft
  <2>2. platform = "windows" /\ report.step = ToWslAt => sup.at # 2
    <3>1. platform = "windows" /\ report.step = ToWslAt => Step.op = "switch"
      BY <1>1, StepTable
    <3>. QED
      BY <1>1, <1>7, <3>1 DEF FileLeft, NeededAt
  <2>3. platform = "windows" /\ report.step = RuntimeAt => sup.at # 3
    <3>1. platform = "windows" /\ report.step = RuntimeAt => Step.op = "runtime"
      BY <1>1, StepTable
    <3>. QED
      BY <1>1, <1>7, <3>1 DEF FileLeft, NeededAt
  <2>. QED
    BY <1>1, <1>2, <1>3, <2>1, <2>2, <2>3
<1>8. CASE FileSet
  <2>. DEFINE rt == Step.rt
  <2>1. Step.op = "switch" /\ sup.at = 2
    BY <1>1, <1>8 DEF FileSet, PlacedAt
  <2>2. /\ report.step \in {5, ToWslAt} /\ rt \in Runtimes
        /\ report.step = ToWslAt => rt = "wsl"
    BY <1>1, <2>1, StepTable
  <2>. HIDE DEF rt
  <2>3. world'.config = Generated(first, rt)
    <3>1. world'.config = Generated(world.config, rt)
      BY <1>8 DEF FileSet, rt
    <3>. QED
      BY <1>2, <1>5, <2>2, <3>1
  <2>4. OwnOnly(sup'.cfg)
    <3>1. ~ForeignButSame(sup.cfg, world.config)
      BY <1>4 DEF ForeignButSame, Foreign
    <3>2. sup'.cfg = SetTo(sup.cfg, world.config, rt)
      BY <1>8 DEF FileSet, rt
    <3>3. ~SetTo(sup.cfg, world.config, rt).preserved /\ SetTo(sup.cfg, world.config, rt).restored = None
      BY <1>1, <1>2, <2>2, <3>1, SetToIsMemory DEF OwnOnly
    <3>. QED
      BY <3>2, <3>3 DEF OwnOnly
  <2>5. control'.cfg = control.cfg
    BY <1>8 DEF FileSet
  <2>. QED
    BY <1>1, <1>2, <2>1, <2>2, <2>3, <2>4, <2>5 DEF ToWslAt, RuntimeAt
<1>9. CASE FileRestored
  <2>1. Step.op = "runtime" /\ sup.at = 3
    BY <1>1, <1>9 DEF FileRestored, PlacedAt
  <2>2. report.step = RuntimeAt
    BY <1>1, <2>1, StepTable
  <2>3. ~KeepsForeign(sup.cfg, world.config)
    BY <1>2, <1>4 DEF KeepsForeign, Foreign, OwnOnly
  <2>4. Restored(sup.cfg, world.config) = first
    BY <1>1, <1>2, <2>3 DEF Restored, OwnOnly
  <2>5. world'.config = first /\ sup'.cfg = RestoredMemory(sup.cfg, world.config) /\ control'.cfg = control.cfg
    BY <1>9, <2>4 DEF FileRestored
  <2>6. OwnOnly(sup'.cfg)
    <3>. DEFINE m == RestoredMemory(sup.cfg, world.config)
    <3>1. m.first = first /\ m.restored = first /\ ~m.preserved
      BY <1>1, <1>2, <2>3, <2>4, RestoredIsMemory DEF OwnOnly
    <3>. HIDE DEF m
    <3>. QED
      BY <2>5, <3>1 DEF OwnOnly, m
  <2>. QED
    BY <1>2, <2>2, <2>5, <2>6
<1>. QED
  BY <1>7, <1>8, <1>9, EffectDoes

\* An effect keeps the count of the request.
LEMMA EffectKeepsRequest ==
  ASSUME LifecycleConstants, IInv, RunEffect
  PROVE  SentOnce'
<1>1. /\ report' = report /\ platform' = platform /\ platform \in {"mac", "windows"}
      /\ sup.pc = "run" /\ sup'.pc = "run" /\ sup'.at = sup.at + 1 /\ sup.at \in Nat /\ report.running
      /\ PlacedAt(Step.op, sup.at, Effect) /\ NeededAt(Step.op, sup.at, Effect)
      /\ report.step \in 1 .. FinalAt /\ Step = Steps[report.step]
      /\ world.smokes \in Nat
      /\ world'.smokes = IF Effect = "smoke" THEN world.smokes + 1 ELSE world.smokes
      /\ control'.written = IF Effect = "noteTarget" THEN TRUE
                            ELSE IF Effect = "noteOriginal" THEN FALSE ELSE control.written
      /\ control'.smoked = IF Effect = "noteSmoke" THEN TRUE ELSE control.smoked
  BY EffectPlace, EffectDoes DEF IInv, TypeOK, Supervisors, Hosts, EffectDone, RunEffect
<1>2. /\ Step.op = "account" <=> report.step = AccountAt
      /\ Step.op = "restore" => report.step > AccountAt
  BY <1>1, StepTable
<1>3. report.step \in Int /\ AccountAt \in Int
  BY <1>1 DEF AccountAt, FinalAt
<1>4. CASE report.step = AccountAt
  <2>1. /\ Effect = "smoke" <=> sup.at = 8
        /\ Effect = "noteTarget" <=> sup.at = 3
        /\ Effect = "noteSmoke" => sup.at = 9
        /\ Effect # "noteOriginal"
    BY <1>1, <1>2, <1>4 DEF PlacedAt, NeededAt
  <2>2. /\ control.smoked => world.smokes = 1
        /\ IF sup.at > 8 THEN world.smokes = 1 ELSE world.smokes = 0
        /\ sup.at > 3 => control.written
    BY <1>1, <1>4 DEF IInv, SentOnce, Runs, Past
  <2>3. /\ world'.smokes = IF sup'.at > 8 THEN 1 ELSE 0
        /\ sup'.at > 3 => control'.written
        /\ control'.smoked => world'.smokes = 1
    BY <1>1, <2>1, <2>2
  <2>4. world'.smokes = 0 \/ (world'.smokes = 1 /\ control'.written)
    BY <1>1, <2>3
  <2>. QED
    BY <1>1, <1>3, <1>4, <2>3, <2>4, PlatformKept DEF SentOnce, Before, Runs, Past
<1>5. CASE report.step # AccountAt
  <2>1. Effect \notin {"smoke", "noteTarget", "noteSmoke"} /\ (report.step < AccountAt => Effect # "noteOriginal")
    BY <1>1, <1>2, <1>3, <1>5 DEF PlacedAt
  <2>2. world'.smokes = world.smokes /\ control'.smoked = control.smoked
    BY <1>1, <2>1
  <2>. QED
    BY <1>1, <1>3, <1>5, <2>2, PlatformKept DEF IInv, SentOnce, Before, Runs, Past
<1>. QED
  BY <1>4, <1>5

\* An effect keeps what is known of the package.
LEMMA EffectKeepsPackage ==
  ASSUME LifecycleConstants, IInv, RunEffect
  PROVE  PackageInstalled'
<1>1. /\ report' = report /\ platform' = platform /\ platform \in {"mac", "windows"}
      /\ sup.pc = "run" /\ sup'.pc = "run" /\ sup'.at = sup.at + 1 /\ sup.at \in Nat /\ report.running
      /\ PlacedAt(Step.op, sup.at, Effect) /\ NeededAt(Step.op, sup.at, Effect)
      /\ report.step \in 1 .. FinalAt /\ Step = Steps[report.step]
      /\ world'.app = IF Effect = "removeOld" THEN None
                      ELSE IF Effect \in {"rename", "setupEnds"} THEN "new"
                      ELSE IF Effect = "setupBegins" THEN "broken" ELSE world.app
      /\ world'.staging = IF Effect = "copy" THEN TRUE
                          ELSE IF Effect \in {"rename", "removeStaging"} THEN FALSE ELSE world.staging
  BY EffectPlace, EffectDoes DEF IInv, TypeOK, Supervisors, EffectDone, RunEffect
<1>2. /\ Step.op = "install" <=> report.step = InstallAt
      /\ Step.op = "final" <=> report.step = FinalAt
  BY <1>1, StepTable
<1>3. report.step \in Int /\ InstallAt \in Int /\ FinalAt > InstallAt /\ FinalAt \in Int /\ None # "new"
  BY <1>1 DEF InstallAt, FinalAt, LifecycleConstants
<1>4. CASE report.step = InstallAt
  <2>1. /\ platform = "mac" => /\ Effect = "copy" => sup.at = 3
                               /\ Effect = "removeOld" => sup.at = 4
                               /\ Effect = "rename" <=> sup.at = 5
                               /\ Effect \notin {"setupBegins", "setupEnds"}
        /\ platform = "windows" => /\ Effect = "setupBegins" => sup.at = 3
                                   /\ Effect = "setupEnds" <=> sup.at = 4
                                   /\ Effect \notin {"copy", "removeOld", "rename"}
        /\ Effect # "removeStaging"
    BY <1>1, <1>2, <1>3, <1>4 DEF PlacedAt, NeededAt, Replaces
  <2>2. /\ world.app = "new" \/ platform = "windows" => ~world.staging
        /\ sup.at <= Replaces /\ platform = "mac" => world.app # "new"
        /\ sup.at > Replaces => world.app = "new"
    BY <1>1, <1>4 DEF IInv, PackageInstalled, Runs, Past
  <2>3. /\ world'.app = "new" \/ platform = "windows" => ~world'.staging
        /\ sup'.at <= Replaces /\ platform = "mac" => world'.app # "new"
        /\ sup'.at > Replaces => world'.app = "new"
    BY <1>1, <1>3, <2>1, <2>2 DEF Replaces
  <2>. QED
    BY <1>1, <1>3, <1>4, <2>3, PlatformKept DEF PackageInstalled, Before, Runs, Past
<1>5. CASE report.step # InstallAt
  <2>1. /\ Effect \notin {"copy", "removeOld", "rename", "setupBegins", "setupEnds"}
        /\ report.step < InstallAt => Effect # "removeStaging"
    BY <1>1, <1>2, <1>3, <1>5 DEF PlacedAt
  <2>2. world'.app = world.app /\ (world'.staging = world.staging \/ ~world'.staging)
    BY <1>1, <2>1
  <2>. QED
    BY <1>1, <1>3, <1>5, <2>1, <2>2, PlatformKept DEF IInv, PackageInstalled, Before, Runs, Past
<1>. QED
  BY <1>4, <1>5

\* An effect keeps what the last step has checked.
LEMMA EffectKeepsHost ==
  ASSUME LifecycleConstants, IInv, RunEffect
  PROVE  HostIsBack'
<1>1. /\ report' = report /\ platform' = platform /\ platform \in {"mac", "windows"}
      /\ sup.pc = "run" /\ sup'.at = sup.at + 1 /\ sup.at \in Nat
      /\ PlacedAt(Step.op, sup.at, Effect) /\ NeededAt(Step.op, sup.at, Effect)
      /\ report.step \in 1 .. FinalAt /\ Step = Steps[report.step]
      /\ Effect \notin {"useTarget", "useOriginal"} => world'.auth = world.auth
      /\ Effect = "checkFinal" => FinalState(world, sup.cfg)
  BY EffectPlace, EffectDoes DEF IInv, TypeOK, Supervisors, EffectDone, RunEffect
<1>2. FinalAt \in Int
  BY DEF FinalAt
<1>. SUFFICES ASSUME report.step = FinalAt, sup.at + 1 > 2
              PROVE  /\ world'.auth = "original"
                     /\ platform = "windows" => Matches(control'.cfg, world'.config)
  BY <1>1, <1>2, PlatformKept DEF HostIsBack, Past, Runs, Matches
<1>3. Step.op = "final"
  BY <1>1, StepTable
<1>4. Effect \notin {"useTarget", "useOriginal", "setConfig", "restoreConfig"}
  BY <1>1, <1>3 DEF PlacedAt
<1>5. FileLeft
  BY <1>4, EffectDoes DEF FileSet, FileRestored
<1>6. Remembers(sup.cfg) /\ Remembers(control.cfg)
  BY DEF IInv, FileKnown
<1>7. world.auth = "original" /\ (platform = "windows" => Matches(control.cfg, world.config))
  <2>1. CASE sup.at = 2
    <3>1. FinalState(world, sup.cfg)
      BY <1>1, <1>3, <2>1 DEF NeededAt
    <3>. QED
      BY <1>6, <3>1 DEF FinalState, Matches, Remembers
  <2>2. CASE sup.at > 2
    BY <1>1, <2>2 DEF IInv, HostIsBack, Past, Runs
  <2>. QED
    BY <1>1, <2>1, <2>2
<1>8. /\ world'.config = world.config /\ control'.cfg.first = control.cfg.first
      /\ control'.cfg.original = control.cfg.original
  BY <1>5, <1>6 DEF FileLeft, Remembers
<1>. QED
  BY <1>1, <1>4, <1>7, <1>8 DEF Matches

\* An effect keeps the invariant.
LEMMA EffectKeeps ==
  ASSUME LifecycleConstants, IInv, RunEffect
  PROVE  IInv'
<1>1. /\ platform' = platform /\ report' = report /\ lock' = lock /\ left' = left
      /\ sup' \in Supervisors /\ sup'.pc = sup.pc /\ sup'.at = sup.at + 1
      /\ control' \in Controls /\ world' \in Hosts
  BY EffectDoes DEF EffectDone
<1>2. TypeOK'
  BY <1>1, PlatformKept DEF IInv, TypeOK
<1>3. Working'
  <2>1. Step' = Step
    BY <1>1, PlatformKept DEF Step
  <2>2. /\ sup.at \in 1 .. Len(Script(Step.op)) /\ Len(Script(Step.op)) \in Nat
        /\ platform \in {"mac", "windows"}
    BY EffectPlace, ScriptTable DEF RunEffect
  <2>3. sup'.at \in 1 .. Len(Script(Step.op)) + 1
    BY <1>1, <2>2
  <2>. QED
    BY <1>1, <2>1, <2>3, PlatformKept DEF IInv, Working, Terminal
<1>. QED
  BY <1>2, <1>3, EffectKeepsFile, EffectKeepsUntouched, EffectKeepsRequest, EffectKeepsPackage, EffectKeepsHost
     DEF IInv

-----------------------------------------------------------------------------
(* The invariant of a run and what follows from it.                        *)

\* A confirmed run begins in the invariant.
LEMMA InitIInv == ASSUME LifecycleConstants, Init PROVE IInv
<1>1. PICK p \in Platforms, c \in {None} \cup [runtime : Runtimes, stated : BOOLEAN, edits : {0}] :
        /\ p = "mac" => c = None
        /\ c # None => (c.runtime = "wsl" => c.stated)
        /\ platform = p
        /\ report = Prepared
        /\ control = [base |-> None, history |-> FALSE, written |-> FALSE, restarted |-> FALSE,
                      smoked |-> FALSE, cfg |-> Captured(c)]
        /\ sup = [pc |-> "down", at |-> 0, cfg |-> Captured(c)]
        /\ lock = "none"
        /\ world = [app |-> "old", staging |-> FALSE, auth |-> "original", injector |-> "old",
                    codex |-> [by |-> "old", runtime |-> ParsedRuntime(c), auth |-> "original"],
                    relay |-> TRUE, pending |-> FALSE, config |-> c, smokes |-> 0]
        /\ left = [crashes |-> MaxCrashes, edits |-> MaxEdits, switches |-> MaxSwitches]
  BY DEF Init
<1>2. c \in {None} \cup Files /\ ParsedRuntime(c) \in Runtimes /\ EditCount(c) = 0
  BY <1>1 DEF Files, ParsedRuntime, EditCount, Runtimes
<1>. DEFINE m == Captured(c)
<1>3. /\ m \in Memories /\ m.first = c /\ m.original = ParsedRuntime(c) /\ m.applied = None
      /\ m.restored = None /\ ~m.preserved
  BY <1>2 DEF Captured, Memories
<1>. HIDE DEF m
<1>4. /\ report.status = "prepared" /\ report.step = 1 /\ ~report.running /\ report \in Reports
      /\ sup.pc = "down" /\ sup.cfg = m /\ sup \in Supervisors
      /\ control.cfg = m /\ ~control.smoked /\ control \in Controls
  BY <1>1, <1>3 DEF Prepared, Reports, Statuses, Supervisors, Controls, m
<1>5. /\ world \in Hosts /\ world.app = "old" /\ ~world.staging /\ world.smokes = 0 /\ world.config = c
  BY <1>1, <1>2 DEF Hosts, Auths
<1>6. /\ platform \in {"mac", "windows"} /\ Len(Steps) = FinalAt /\ FinalAt \in {10, 18}
  BY <1>1, StepTable DEF LifecycleConstants, FinalAt
<1>7. TypeOK
  BY <1>1, <1>4, <1>5, <1>6 DEF TypeOK, LifecycleConstants
<1>8. Working
  BY <1>4 DEF Working, Terminal
<1>9. SentOnce /\ PackageInstalled /\ HostIsBack
  BY <1>4, <1>5, <1>6 DEF SentOnce, PackageInstalled, HostIsBack, Before, Runs, Past, AccountAt, InstallAt, FinalAt
<1>10. FileKnown
  <2>1. EditCount(None) = 0
    BY DEF EditCount
  <2>. QED
    BY <1>1, <1>2, <1>3, <1>4, <1>5, <2>1 DEF FileKnown, Remembers
<1>11. FileUntouched
  BY <1>3, <1>4, <1>5 DEF FileUntouched, OwnOnly, ToWslAt, RuntimeAt, Past, Runs
<1>. QED
  BY <1>7, <1>8, <1>9, <1>10, <1>11 DEF IInv

\* A step that changes nothing keeps the invariant.
LEMMA StutterKeeps == ASSUME LifecycleConstants, IInv, UNCHANGED vars PROVE IInv'
<1>1. /\ platform' = platform /\ report' = report /\ control' = control /\ lock' = lock /\ world' = world
      /\ left' = left /\ sup' = sup
  BY DEF vars
<1>2. TypeOK'
  BY <1>1, PlatformKept DEF IInv, TypeOK
<1>3. Working'
  BY <1>1, PlatformKept DEF IInv, Working, Terminal, Step
<1>. QED
  BY <1>1, <1>2, <1>3, QuietKeeps DEF KeepsWorld, KeepsMarks, KeepsStep

\* Every step of a run keeps the invariant.
LEMMA NextIInv == ASSUME LifecycleConstants, IInv, [Next]_vars PROVE IInv'
<1>1. CASE Resume
  BY <1>1, ResumeKeeps
<1>2. CASE TakeLock \/ OwnLock \/ Release
  BY <1>2, LockKeeps
<1>3. CASE BeginRun \/ PassRun \/ Throws
  BY <1>3, StatusKeeps DEF Throws
<1>4. CASE Loop
  BY <1>4, StartKeeps, PassingKeeps, StatusKeeps DEF Loop
<1>5. CASE RunEffect
  BY <1>5, EffectKeeps
<1>6. CASE FinishStep
  <2>1. report.step <= Len(Steps)
    BY <1>6 DEF FinishStep, IInv, Working
  <2>. QED
    BY <1>6, <2>1, PassingKeeps DEF FinishStep
<1>7. CASE ComesUp \/ RelayBack \/ InjectorQuits
  BY <1>7, ProcessesKeep
<1>8. CASE Crash
  BY <1>8, CrashKeeps
<1>9. CASE ExternalEdit
  BY <1>9, EditKeeps
<1>10. CASE UserSwitches
  BY <1>10, UserKeeps
<1>11. CASE Ended \/ UNCHANGED vars
  BY <1>11, StutterKeeps DEF Ended
<1>. QED
  BY <1>1, <1>2, <1>3, <1>4, <1>5, <1>6, <1>7, <1>8, <1>9, <1>10, <1>11 DEF Next, Supervisor

\* The inductive invariant holds throughout every run.
THEOREM LifecycleInvariant == ASSUME LifecycleConstants PROVE Spec => []IInv
<1>1. Init => IInv
  BY InitIInv
<1>2. IInv /\ [Next]_vars => IInv'
  BY NextIInv
<1>. QED
  BY <1>1, <1>2, PTL DEF Spec

\* The request that costs tokens is sent at most once, however often the supervisor dies and
\* whatever the user does in between (scripts/lifecycle-macos.mjs:423-481).
THEOREM RequestIsSentOnce == ASSUME LifecycleConstants PROVE Spec => []SmokeOnce
<1>1. IInv => SmokeOnce
  <2>. SUFFICES ASSUME IInv PROVE SmokeOnce
    OBVIOUS
  <2>1. report.step \in Int /\ AccountAt \in Int
    BY Basics DEF IInv, FinalAt, AccountAt
  <2>2. report.step < AccountAt \/ report.step = AccountAt \/ report.step > AccountAt
    BY <2>1
  <2>. QED
    BY <2>2 DEF IInv, SentOnce, SmokeOnce, Before
<1>. QED
  BY <1>1, LifecycleInvariant, PTL

\* What the invariant says of a run that has passed.
LEMMA PassedHost == ASSUME LifecycleConstants, IInv PROVE PassedIsRestored
<1>. SUFFICES ASSUME report.status = "passed"
              PROVE  /\ world.app = "new" /\ ~world.staging
                     /\ world.auth = "original"
                     /\ ParsedRuntime(world.config) = control.cfg.original
                     /\ left.edits = MaxEdits => world.config = control.cfg.first
                     /\ world.smokes = 1
  BY DEF PassedIsRestored
<1>1. /\ platform \in {"mac", "windows"} /\ report.step \in Int /\ report.step > FinalAt
      /\ report.step > AccountAt /\ report.step > InstallAt /\ (platform = "windows" => report.step > RuntimeAt)
  <2>1. /\ platform \in {"mac", "windows"} /\ report.step \in 1 .. FinalAt + 1 /\ Len(Steps) = FinalAt
        /\ FinalAt \in {10, 18}
    BY Basics DEF IInv
  <2>2. report.step > FinalAt
    BY <2>1 DEF IInv, Working
  <2>. QED
    BY <2>1, <2>2 DEF FinalAt, AccountAt, InstallAt, RuntimeAt
<1>2. world.app = "new" /\ ~world.staging
  BY <1>1 DEF IInv, PackageInstalled
<1>3. world.smokes = 1
  BY <1>1 DEF IInv, SentOnce
<1>4. world.auth = "original" /\ (platform = "windows" => Matches(control.cfg, world.config))
  BY <1>1 DEF IInv, HostIsBack
<1>5. /\ control.cfg.original = ParsedRuntime(control.cfg.first)
      /\ platform = "mac" => control.cfg.first = None /\ world.config = None
  BY DEF IInv, FileKnown, Remembers
<1>6. ParsedRuntime(world.config) = control.cfg.original
  BY <1>1, <1>4, <1>5 DEF Matches, ParsedRuntime
<1>7. left.edits = MaxEdits => world.config = control.cfg.first
  BY <1>1, <1>5 DEF IInv, FileUntouched
<1>. QED
  BY <1>2, <1>3, <1>4, <1>6, <1>7

\* No step of a run takes a foreign edit out of config.toml.
LEMMA EditsKept ==
  ASSUME LifecycleConstants, IInv, [Next]_vars
  PROVE  EditCount(world'.config) >= EditCount(world.config)
<1>1. EditCount(world.config) \in Nat /\ world \in Hosts
  BY GeneratedIsFile DEF IInv, TypeOK, Hosts, Runtimes
<1>2. CASE RunEffect
  BY <1>2, EffectKeepsFile
<1>3. CASE ExternalEdit
  <2>1. PICK r \in Runtimes : world' = [world EXCEPT !.config =
               [runtime |-> r, stated |-> r = "wsl" \/ (@ # None /\ @.stated), edits |-> EditCount(@) + 1]]
    BY <1>3 DEF ExternalEdit
  <2>. DEFINE st == r = "wsl" \/ (world.config # None /\ world.config.stated)
              file == [runtime |-> r, stated |-> st, edits |-> EditCount(world.config) + 1]
  <2>2. st \in BOOLEAN
    OBVIOUS
  <2>3. world' = [world EXCEPT !.config = file]
    BY <2>1
  <2>. HIDE DEF st
  <2>4. file \in Files /\ file.edits = EditCount(world.config) + 1
    BY <1>1, <2>2 DEF Files
  <2>. HIDE DEF file
  <2>5. world'.config = file
    BY <1>1, <2>3 DEF Hosts
  <2>6. file # None
    BY <2>4 DEF LifecycleConstants
  <2>. QED
    BY <1>1, <2>4, <2>5, <2>6 DEF EditCount
<1>4. CASE ~RunEffect /\ ~ExternalEdit
  <2>1. world'.config = world.config
    <3>1. CASE Resume \/ TakeLock \/ OwnLock \/ BeginRun \/ Loop \/ PassRun \/ Release \/ Throws \/ FinishStep
      BY <3>1 DEF Resume, TakeLock, OwnLock, BeginRun, Loop, PassRun, Release, Throws, FinishStep, StartStep,
         Passing, Failing
    <3>2. CASE ComesUp
      BY <1>1, <3>2 DEF ComesUp, Hosts
    <3>3. CASE RelayBack \/ InjectorQuits \/ Crash \/ UserSwitches
      BY <1>1, <3>3 DEF RelayBack, InjectorQuits, Crash, UserSwitches, Hosts
    <3>4. CASE Ended \/ UNCHANGED vars
      BY <3>4 DEF Ended, vars
    <3>. QED
      BY <1>4, <3>1, <3>2, <3>3, <3>4 DEF Next, Supervisor
  <2>. QED
    BY <1>1, <2>1
<1>. QED
  BY <1>2, <1>3, <1>4

\* A run leaves no trace: one that passes has put the package, the account and config.toml where
\* they belong, and on no path is somebody else's edit of config.toml overwritten.
THEOREM RunLeavesNoTrace == ASSUME LifecycleConstants PROVE Spec => LeavesNoTrace
<1>1. IInv => TypeOK /\ PassedIsRestored
  BY PassedHost DEF IInv
<1>2. IInv /\ [Next]_vars => [EditCount(world'.config) >= EditCount(world.config)]_vars
  BY EditsKept
<1>. QED
  BY <1>1, <1>2, LifecycleInvariant, PTL DEF Spec, LeavesNoTrace, EditsStand
-----------------------------------------------------------------------------
(* The update of the application.  Its steps are those of AppUpdate, as    *)
(* MCLifecycle instantiates it: any number of releases, checks, clicks,    *)
(* workers and faults.                                                     *)

\* A worker that may still execute: it is up or comes up, and has not ended.
MayExecute(w) == w.life \in {"new", "up"} /\ w.pc \notin U!Terminal

\* Where a worker may be in its life, and that it has a release to install.
WorkerFits(w) ==
  /\ w.life \in {"none", "new"} => w.pc = "confirm"
  /\ w.life \in {"closing", "leaving", "gone"} => w.pc \in U!Terminal \cup {"confirm"}
  /\ w.life \notin {"none", "gone"} => w.asset # U!Nothing
WorkersFit == \A r \in U!Runs : WorkerFits(runs[r])

\* Who owns the lock: the injector while it runs; a worker from the stop to the end of what the
\* platform replaces under it.
Owns(w) == w.pc \in {"stop", "remove", "rename"} \/ (w.pc = "verify" /\ system = "darwin")
LockFits ==
  /\ owner = U!Injector <=> injector.id # 0
  /\ injector.id = 0 => manager = U!NewManager /\ open = U!NotOpen
  /\ \A r \in U!Runs : Owns(runs[r]) => owner = r
  /\ \A r \in U!Runs : /\ runs[r].pc \in {"remove", "rename"} => system = "darwin"
                       /\ runs[r].pc \in {"prepareSetup", "setup"} => system = "win32"

\* What the manager knows is as new as the click wants it, from the check to the window.
Shows(w, wanted) == w.pc = "confirm" /\ w.life # "gone" => wanted <= w.asset
OfferFits ==
  /\ manager.asset = U!Offered(manager.etag)
  /\ manager.etag <= latest /\ manager.checking <= latest /\ open.wanted <= latest
  /\ manager.checking # U!Nothing => manager.etag <= manager.checking
  /\ open.pc = "check" => open.wanted <= manager.checking
  /\ open.pc \in {"look", "spawn", "close", "gone"} => manager.asset # U!Nothing /\ open.wanted <= manager.asset
  /\ open.pc \in {"show", "close", "gone", "wait"} => open.target \in U!Runs
  /\ open.pc \in {"show", "wait"} => Shows(runs[open.target], open.wanted)

\* Every worker that may execute is found by the next click, or is the one a click waits for.
WorkersFound ==
  ~lost =>
    /\ \A r \in U!Runs : runs[r].life = "new" =>
         open.pc = "wait" /\ open.target = r /\ \A q \in U!Runs \ {r} : ~MayExecute(runs[q])
    /\ \A r \in U!Runs : runs[r].life = "up" /\ runs[r].pc \notin U!Terminal => registry = r
    /\ open.pc \in {"spawn", "gone"} => \A r \in U!Runs : ~MayExecute(runs[r])
    /\ open.pc = "close" => \A r \in U!Runs : MayExecute(runs[r]) => r = open.target

\* An application that is absent is being replaced.
AppFits == app = U!Nothing => broken \/ \E r \in U!Runs : runs[r].pc = "rename"

\* What the probes of a worker that goes to the stop have found.
TurnKnown(w) ==
  /\ w.seen => turn # "none"
  /\ w.pc \in {"check", "ask", "listen", "stop"} /\ ~w.forced /\ w.seen => turn = "saved"
TurnFits == \A r \in U!Runs : TurnKnown(runs[r])

UpdateInv == U!TypeOK /\ WorkersFit /\ LockFits /\ OfferFits /\ WorkersFound /\ AppFits /\ TurnFits

Injectors == [id : Nat, mode : {"none", "dev", "formal"}, version : Nat, ready : BOOLEAN]

-----------------------------------------------------------------------------
\* The owners of the lock are told apart.
LEMMA Owners ==
  ASSUME U!UpdateConstants
  PROVE  /\ U!Nothing \notin U!Runs /\ U!Injector \notin U!Runs /\ U!Injector # U!Nothing /\ U!Nothing = 0
BY DEF U!UpdateConstants, U!Runs, U!Injector, U!Nothing

\* A worker within the run is up.
LEMMA AtIsUp ==
  ASSUME UpdateInv, NEW r \in U!Runs, runs[r].pc \notin U!Terminal \cup {"confirm"}
  PROVE  runs[r].life = "up"
<1>1. runs[r] \in U!Worker /\ WorkerFits(runs[r])
  BY DEF UpdateInv, U!TypeOK, WorkersFit
<1> QED BY <1>1 DEF WorkerFits, U!Worker

\* What a step of worker r leaves alone: the others, and what the window stands for.
Others(r) ==
  /\ runs' \in [U!Runs -> U!Worker] /\ \A q \in U!Runs \ {r} : runs'[q] = runs[q]
  /\ runs'[r].life = runs[r].life /\ runs'[r].asset = runs[r].asset

\* The worker's pc moves.
LEMMA GoDoes ==
  ASSUME UpdateInv, NEW r \in U!Runs, NEW pc \in U!Stages, U!Go(r, pc)
  PROVE  Others(r) /\ runs'[r].pc = pc /\ runs'[r].seen = runs[r].seen /\ runs'[r].forced = runs[r].forced
<1>1. runs \in [U!Runs -> U!Worker] /\ runs[r] \in U!Worker
  BY DEF UpdateInv, U!TypeOK
<1>2. [runs[r] EXCEPT !.pc = pc] \in U!Worker
  BY <1>1 DEF U!Worker
<1>3. runs' = [runs EXCEPT ![r] = [runs[r] EXCEPT !.pc = pc]]
  BY <1>1 DEF U!Go
<1> QED BY <1>1, <1>2, <1>3 DEF Others, U!Worker

\* The run ends, and gives the lock back.
LEMMA EndedDoes ==
  ASSUME UpdateInv, NEW r \in U!Runs, NEW pc \in U!Terminal, U!Ended(r, pc)
  PROVE  /\ Others(r) /\ runs'[r].pc = pc /\ runs'[r].seen = FALSE /\ runs'[r].forced = FALSE
         /\ owner' = IF owner = r THEN U!Nothing ELSE owner
<1>. DEFINE w == [U!NoRun EXCEPT !.pc = pc, !.life = runs[r].life, !.window = runs[r].window, !.asset = runs[r].asset]
<1>1. runs \in [U!Runs -> U!Worker] /\ runs[r] \in U!Worker
  BY DEF UpdateInv, U!TypeOK
<1>2. /\ w \in U!Worker /\ w.pc = pc /\ w.life = runs[r].life /\ w.asset = runs[r].asset
      /\ w.seen = FALSE /\ w.forced = FALSE
  BY <1>1 DEF U!Worker, U!Stages, U!NoRun, U!Nothing
<1>3. runs' = [runs EXCEPT ![r] = w] /\ owner' = IF owner = r THEN U!Nothing ELSE owner
  BY DEF U!Ended
<1> HIDE DEF w
<1> QED BY <1>1, <1>2, <1>3 DEF Others

-----------------------------------------------------------------------------
\* A step of a worker that is up: what it may do to its own place, to the host, to the lock, to
\* the application and to the turn.
Moved(r) ==
  /\ Others(r) /\ runs[r].life = "up" /\ runs[r].pc \notin U!Terminal /\ runs'[r].pc # "confirm"
  /\ UNCHANGED <<system, latest, registry, clicks, checks>> /\ ids' \in Nat /\ faults' \in Nat
HostMoves ==
  \/ UNCHANGED <<injector, manager, open, lost>> /\ (owner' = U!Injector <=> owner = U!Injector)
  \/ U!Exits /\ owner' # U!Injector
  \/ /\ injector.id = 0 /\ injector' \in Injectors /\ injector'.id # 0 /\ UNCHANGED <<manager, open, lost>>
     /\ owner' = U!Injector
LockMoves(r) ==
  /\ owner' \in U!Runs \cup {U!Nothing, U!Injector}
  /\ \A q \in U!Runs \ {r} : owner = q => owner' = q
  /\ Owns(runs'[r]) => owner' = r
  /\ runs'[r].pc \in {"remove", "rename"} => system = "darwin"
  /\ runs'[r].pc \in {"prepareSetup", "setup"} => system = "win32"
AppMoves(r) ==
  /\ app' \in Nat /\ broken' \in BOOLEAN /\ (broken => broken')
  /\ app' = U!Nothing => broken' \/ runs'[r].pc = "rename" \/ (app = U!Nothing /\ runs[r].pc # "rename")
TurnMoves(r) ==
  /\ turn' = turn \/ (turn = "active" /\ turn' = "ended")
  /\ runs'[r].seen => turn' # "none"
  /\ runs'[r].pc \in {"check", "ask", "listen", "stop"} /\ ~runs'[r].forced /\ runs'[r].seen => turn' = "saved"

\* What leaves a host without an injector knows nothing and opens nothing.
LEMMA WorkerStep ==
  ASSUME U!UpdateConstants, UpdateInv, NEW r \in U!Runs, Moved(r), HostMoves, LockMoves(r), AppMoves(r), TurnMoves(r)
  PROVE  UpdateInv'
<1>0. U!TypeOK /\ WorkersFit /\ LockFits /\ OfferFits /\ WorkersFound /\ AppFits /\ TurnFits
  BY DEF UpdateInv
<1>1. \A q \in U!Runs : /\ runs[q] \in U!Worker /\ runs'[q] \in U!Worker /\ (q # r => runs'[q] = runs[q])
                        /\ runs'[q].life = runs[q].life /\ runs'[q].asset = runs[q].asset
                        /\ MayExecute(runs'[q]) => MayExecute(runs[q])
                        /\ runs'[q].pc = "confirm" => runs[q].pc = "confirm"
                        /\ runs'[q].life = "up" /\ runs'[q].pc \notin U!Terminal => runs[q].pc \notin U!Terminal
  BY <1>0 DEF Moved, Others, U!TypeOK, MayExecute
<1>2. U!Exits => manager' = [etag |-> 0, asset |-> 0, checking |-> 0] /\ open' = [pc |-> "none", wanted |-> 0,
        target |-> 0]
               /\ injector' = [id |-> 0, mode |-> "none", version |-> 0, ready |-> FALSE]
  BY DEF U!Exits, U!NewManager, U!NotOpen, U!NoInjector, U!Nothing
<1>l. U!Exits => (lost' <=> lost \/ (open.pc = "wait" /\ runs[open.target].life = "new"))
  BY DEF U!Exits
<1>3. U!TypeOK'
  <2>0. injector \in Injectors /\ manager \in [etag : Nat, asset : Nat, checking : Nat] /\ lost \in BOOLEAN
    BY <1>0 DEF U!TypeOK, Injectors
  <2>b. ASSUME U!Exits PROVE injector' \in Injectors /\ manager' \in [etag : Nat, asset : Nat, checking : Nat]
    <3>1. injector' = [id |-> 0, mode |-> "none", version |-> 0, ready |-> FALSE]
      BY <1>2, <2>b
    <3>2. manager' = [etag |-> 0, asset |-> 0, checking |-> 0]
      BY <1>2, <2>b
    <3>3. injector' \in Injectors
      BY <3>1 DEF Injectors
    <3> QED BY <3>2, <3>3
  <2>a. U!Exits => lost' \in BOOLEAN
    BY <2>0 DEF U!Exits
  <2>1. injector' \in Injectors /\ manager' \in [etag : Nat, asset : Nat, checking : Nat] /\ lost' \in BOOLEAN
    BY <2>0, <2>a, <2>b DEF HostMoves
  <2>2. open' \in [pc : {"none", "check", "older", "look", "show", "close", "gone", "spawn", "wait"},
                   wanted : Nat, target : U!Runs \cup {U!Nothing}]
    BY <1>0, <1>2 DEF HostMoves, U!TypeOK, U!Nothing
  <2> QED BY <1>0, <2>1, <2>2 DEF U!TypeOK, Injectors, Moved, Others, LockMoves, AppMoves, TurnMoves
<1>4. WorkersFit'
  BY <1>0, <1>1 DEF WorkersFit, WorkerFits, Moved, U!Terminal
<1>5. LockFits'
  <2>1. (owner' = U!Injector <=> injector'.id # 0) /\ (injector'.id = 0 => manager' = U!NewManager /\ open' = U!NotOpen)
    BY <1>0, <1>2 DEF LockFits, HostMoves, U!Exits
  <2>2. ASSUME NEW q \in U!Runs
        PROVE  /\ Owns(runs[q])' => owner' = q
               /\ runs'[q].pc \in {"remove", "rename"} => system' = "darwin"
               /\ runs'[q].pc \in {"prepareSetup", "setup"} => system' = "win32"
    BY <1>0, <1>1 DEF LockFits, LockMoves, Owns, Moved
  <2> QED BY <2>1, <2>2 DEF LockFits
<1>6. OfferFits'
  <2>1. CASE U!Exits
    BY <1>0, <1>2, <2>1 DEF OfferFits, U!Offered, U!Nothing, Moved, U!TypeOK
  <2>2. CASE UNCHANGED <<manager, open>> /\ U!Offered(manager.etag)' = U!Offered(manager.etag)
    BY <1>0, <1>1, <2>2 DEF OfferFits, Shows, Moved
  <2>3. CASE UNCHANGED <<injector, manager, open>>
    BY <2>2, <2>3 DEF U!Offered
  <2>4. CASE injector.id = 0 /\ injector' \in Injectors /\ UNCHANGED <<manager, open>>
    <3>1. manager.etag = 0
      BY <1>0, <2>4 DEF LockFits, U!NewManager, U!Nothing
    <3> QED BY <1>0, <2>2, <2>4, <3>1 DEF U!Offered, U!Nothing, Injectors, U!TypeOK
  <2> QED BY <2>1, <2>3, <2>4 DEF HostMoves
<1>7. WorkersFound'
  <2>1. CASE UNCHANGED <<open, lost>>
    <3>1. SUFFICES ASSUME ~lost' PROVE WorkersFound'
      BY DEF WorkersFound
    <3>0. ~lost
      BY <2>1, <3>1
    <3>2. registry' = registry /\ open' = open
      BY <2>1 DEF Moved
    <3>3. \A q \in U!Runs : runs'[q].life = "new" =>
            open'.pc = "wait" /\ open'.target = q /\ \A p \in U!Runs \ {q} : ~MayExecute(runs'[p])
      BY <1>0, <1>1, <3>0, <3>2 DEF WorkersFound
    <3>4. \A q \in U!Runs : runs'[q].life = "up" /\ runs'[q].pc \notin U!Terminal => registry' = q
      BY <1>0, <1>1, <3>0, <3>2 DEF WorkersFound
    <3>5. /\ open'.pc \in {"spawn", "gone"} => \A q \in U!Runs : ~MayExecute(runs'[q])
          /\ open'.pc = "close" => \A q \in U!Runs : MayExecute(runs'[q]) => q = open'.target
      BY <1>0, <1>1, <3>0, <3>2 DEF WorkersFound
    <3> QED BY <3>3, <3>4, <3>5 DEF WorkersFound
  <2>2. CASE U!Exits
    BY <1>0, <1>1, <1>2, <1>l, <2>2 DEF WorkersFound, Moved
  <2> QED BY <2>1, <2>2 DEF HostMoves
<1>8. AppFits'
  BY <1>0, <1>1 DEF AppFits, AppMoves
<1>9. TurnFits'
  BY <1>0, <1>1 DEF TurnFits, TurnKnown, TurnMoves
<1> QED BY <1>3, <1>4, <1>5, <1>6, <1>7, <1>8, <1>9 DEF UpdateInv

-----------------------------------------------------------------------------
\* What is known of a worker that runs.
LEMMA WorkerKnown ==
  ASSUME U!UpdateConstants, UpdateInv, NEW r \in U!Runs
  PROVE  /\ runs \in [U!Runs -> U!Worker] /\ runs[r] \in U!Worker /\ WorkerFits(runs[r]) /\ TurnKnown(runs[r])
         /\ Owns(runs[r]) => owner = r
         /\ runs[r].pc \in {"remove", "rename"} => system = "darwin"
         /\ runs[r].pc \in {"prepareSetup", "setup"} => system = "win32"
         /\ r # U!Nothing /\ r # U!Injector /\ U!Injector # U!Nothing
         /\ owner \in U!Runs \cup {U!Nothing, U!Injector} /\ app \in Nat /\ latest \in Nat /\ lost \in BOOLEAN /\
            broken \in BOOLEAN
         /\ ids \in Nat /\ faults \in Nat /\ system \in {"darwin", "win32"}
         /\ turn \in {"none", "active", "ended", "saved"}
BY Owners DEF UpdateInv, U!TypeOK, WorkersFit, LockFits, TurnFits

\* The run ends; the application it leaves is the one of before, or is known to be broken.
LEMMA EndKeeps ==
  ASSUME U!UpdateConstants, UpdateInv, NEW r \in U!Runs, NEW pc \in U!Terminal, U!Ended(r, pc),
         runs[r].life = "up", runs[r].pc \notin U!Terminal,
         UNCHANGED <<system, latest, turn, injector, manager, open, lost, registry, clicks, checks, ids>>,
         faults' \in Nat, app' \in Nat, broken' \in BOOLEAN, broken => broken',
         app' = app \/ broken', runs[r].pc = "rename" => broken'
  PROVE  UpdateInv'
<1>1. Others(r) /\ runs'[r].pc = pc /\ runs'[r].seen = FALSE /\ owner' = IF owner = r THEN U!Nothing ELSE owner
  BY EndedDoes
<1>2. Moved(r)
  BY <1>1, WorkerKnown DEF Moved, U!Terminal
<1>3. HostMoves
  BY <1>1, WorkerKnown DEF HostMoves
<1>4. LockMoves(r)
  BY <1>1, WorkerKnown DEF LockMoves, Owns, U!Terminal
<1>5. AppMoves(r) /\ TurnMoves(r)
  BY <1>1 DEF AppMoves, TurnMoves, U!Terminal
<1> QED BY <1>2, <1>3, <1>4, <1>5, WorkerStep

\* A step that touches nothing but the worker itself, outside the steps made under the lock.
LEMMA PlainKeeps ==
  ASSUME U!UpdateConstants, UpdateInv, NEW r \in U!Runs, Others(r), runs[r].life = "up", runs[r].pc \notin U!Terminal,
         \/ runs'[r].pc = runs[r].pc /\ runs[r].pc # "confirm"
         \/ runs'[r].pc \in {"probe", "download", "prepare", "wait", "check", "ask"} /\ runs[r].pc # "rename",
         TurnKnown(runs'[r]),
         UNCHANGED <<system, latest, turn, app, injector, owner, manager, open, lost, registry, clicks, checks,
                     ids, broken>>,
         faults' \in Nat
  PROVE  UpdateInv'
<1>1. Moved(r)
  BY WorkerKnown DEF Moved
<1>2. HostMoves
  BY DEF HostMoves
<1>3. LockMoves(r)
  BY WorkerKnown DEF LockMoves, Owns
<1>4. AppMoves(r)
  BY WorkerKnown DEF AppMoves
<1>5. TurnMoves(r)
  BY DEF TurnMoves, TurnKnown
<1> QED BY <1>1, <1>2, <1>3, <1>4, <1>5, WorkerStep

\* Up to the check of the owner a worker touches nothing else.
LEMMA PreparingKeeps ==
  ASSUME U!UpdateConstants, UpdateInv, NEW r \in U!Runs,
         U!Confirm(r) \/ U!ForceRestart(r) \/ U!FirstProbe(r) \/ U!Download(r) \/ U!Prepare(r) \/ U!Probe(r) \/
           U!Deadline(r) \/ U!CheckOwner(r)
  PROVE  UpdateInv'
<1>1. CASE U!Confirm(r)
  <2>1. Others(r) /\ runs'[r].pc = "probe" /\ runs'[r].seen = runs[r].seen
    BY <1>1, GoDoes, WorkerKnown DEF U!Confirm, U!Go, U!Stages
  <2> QED BY <1>1, <2>1, PlainKeeps, WorkerKnown
             DEF U!Confirm, U!Seen, TurnKnown, U!world, U!host, U!counters, U!Terminal
<1>2. CASE U!ForceRestart(r)
  <2>0. runs[r] \in U!Worker /\ runs \in [U!Runs -> U!Worker]
    BY WorkerKnown
  <2>1. runs' = [runs EXCEPT ![r] = [runs[r] EXCEPT !.forced = TRUE]]
    BY <1>2, <2>0 DEF U!ForceRestart
  <2>a. [runs[r] EXCEPT !.forced = TRUE] \in U!Worker
    BY <2>0 DEF U!Worker
  <2>2. Others(r) /\ runs'[r].pc = runs[r].pc /\ runs'[r].seen = runs[r].seen /\ runs[r].pc = "wait"
    BY <1>2, <2>0, <2>1, <2>a DEF U!ForceRestart, Others, U!Worker
  <2> QED BY <1>2, <2>2, PlainKeeps, WorkerKnown
             DEF U!ForceRestart, U!Seen, TurnKnown, U!world, U!host, U!counters, U!Terminal
<1>3. CASE U!FirstProbe(r)
  <2>0. runs[r] \in U!Worker /\ runs \in [U!Runs -> U!Worker] /\ runs[r].pc = "probe" /\ U!Tracked(r) \in BOOLEAN
    BY <1>3, WorkerKnown DEF U!FirstProbe, U!Proceeds, U!At, U!Tracked, U!Worker
  <2>1. runs' = [runs EXCEPT ![r] = [runs[r] EXCEPT !.seen = U!Tracked(r), !.pc = "download"]]
    BY <1>3, <2>0 DEF U!FirstProbe
  <2>2. Others(r) /\ runs'[r].pc = "download" /\ runs'[r].seen = U!Tracked(r)
    BY <2>0, <2>1 DEF Others, U!Worker, U!Stages
  <2>3. TurnKnown(runs'[r])
    BY <2>2, WorkerKnown DEF TurnKnown, U!Tracked
  <2> QED BY <1>3, <2>0, <2>2, <2>3, PlainKeeps, WorkerKnown, AtIsUp
             DEF U!FirstProbe, U!world, U!host, U!counters, U!Terminal
<1>4. CASE U!Download(r)
  <2>1. Others(r) /\ runs'[r].pc = "prepare" /\ runs'[r].seen = runs[r].seen
    BY <1>4, GoDoes, WorkerKnown DEF U!Download, U!Stages
  <2> QED BY <1>4, <2>1, PlainKeeps, WorkerKnown, AtIsUp
          DEF U!Download, U!Proceeds, U!At, TurnKnown, U!world, U!host, U!counters, U!Terminal
<1>5. CASE U!Prepare(r)
  <2>1. Others(r) /\ runs'[r].pc = "wait" /\ runs'[r].seen = runs[r].seen
    BY <1>5, GoDoes, WorkerKnown DEF U!Prepare, U!Stages
  <2> QED BY <1>5, <2>1, PlainKeeps, WorkerKnown, AtIsUp
          DEF U!Prepare, U!Proceeds, U!At, TurnKnown, U!world, U!host, U!counters, U!Terminal
<1>6. CASE U!Probe(r)
  <2>. DEFINE through == runs[r].forced \/ (U!Ready(r) /\ runs[r].stable)
              pc == IF through THEN "check" ELSE runs[r].pc
  <2>0. runs[r] \in U!Worker /\ runs \in [U!Runs -> U!Worker] /\ runs[r].pc = "wait" /\ runs[r].life = "up"
    BY <1>6, WorkerKnown, AtIsUp DEF U!Probe, U!Proceeds, U!At, U!Terminal
  <2>1. /\ U!Tracked(r) \in BOOLEAN /\ U!Ready(r) \in BOOLEAN /\ (U!Ready(r) /\ ~through) \in BOOLEAN
        /\ pc \in U!Stages /\ pc \in {"wait", "check"}
    BY <2>0 DEF U!Tracked, U!Ready, U!Worker, U!Stages
  <2>2. runs' = [runs EXCEPT ![r] = [runs[r] EXCEPT !.seen = U!Tracked(r), !.stable = U!Ready(r) /\ ~through, !.pc = pc]]
    BY <1>6, <2>0 DEF U!Probe
  <2>3. pc = "check" => runs[r].forced \/ (U!Tracked(r) => turn = "saved")
    BY <2>0 DEF U!Ready
  <2> HIDE DEF pc, through
  <2>4. Others(r) /\ runs'[r].pc = pc /\ runs'[r].seen = U!Tracked(r) /\ runs'[r].forced = runs[r].forced
    BY <2>0, <2>1, <2>2 DEF Others, U!Worker
  <2>5. TurnKnown(runs'[r])
    BY <2>1, <2>3, <2>4, WorkerKnown DEF TurnKnown, U!Tracked
  <2> QED BY <1>6, <2>0, <2>1, <2>4, <2>5, PlainKeeps, WorkerKnown
             DEF U!Probe, U!world, U!host, U!counters, U!Terminal
<1>7. CASE U!Deadline(r)
  <2>1. runs[r].pc = "wait" /\ U!Ended(r, "failed")
    BY <1>7 DEF U!Deadline, U!Proceeds, U!At
  <2> QED BY <1>7, <2>1, EndKeeps, WorkerKnown, AtIsUp DEF U!Deadline, U!world, U!counters, U!Terminal
<1>8. CASE U!CheckOwner(r)
  <2>1. runs[r].pc = "check" /\ runs[r].life = "up"
    BY <1>8, AtIsUp DEF U!CheckOwner, U!Proceeds, U!At, U!Terminal
  <2>2. CASE U!Go(r, "ask") /\ UNCHANGED owner
    <3>1. Others(r) /\ runs'[r].pc = "ask" /\ runs'[r].seen = runs[r].seen /\ runs'[r].forced = runs[r].forced
      BY <2>2, GoDoes DEF U!Stages
    <3> QED BY <1>8, <2>1, <2>2, <3>1, PlainKeeps, WorkerKnown
               DEF U!CheckOwner, TurnKnown, U!world, U!host, U!counters, U!Terminal
  <2>3. CASE U!Ended(r, "failed")
    BY <1>8, <2>1, <2>3, EndKeeps, WorkerKnown DEF U!CheckOwner, U!world, U!counters, U!Terminal
  <2> QED BY <1>8, <2>2, <2>3 DEF U!CheckOwner
<1> QED BY <1>1, <1>2, <1>3, <1>4, <1>5, <1>6, <1>7, <1>8

\* Under the lock, and around it: from the takeover to the launch.
LEMMA TakingOverKeeps ==
  ASSUME U!UpdateConstants, UpdateInv, NEW r \in U!Runs, U!Ask(r) \/ U!Listen(r) \/ U!Stop(r) \/ U!PrepareSetup(r)
  PROVE  UpdateInv'
<1>0. /\ runs[r] \in U!Worker /\ runs \in [U!Runs -> U!Worker] /\ TurnKnown(runs[r]) /\ (Owns(runs[r]) => owner = r)
      /\ (owner = U!Injector <=> injector.id # 0)
  BY WorkerKnown DEF UpdateInv, LockFits
<1>1. CASE U!Ask(r)
  <2>1. runs[r].pc = "ask" /\ runs[r].life = "up"
    BY <1>1, AtIsUp DEF U!Ask, U!At, U!Terminal
  <2>2. CASE owner = U!Nothing /\ owner' = r /\ U!Go(r, "stop") /\ UNCHANGED <<injector, manager, open, lost>>
    <3>1. Others(r) /\ runs'[r].pc = "stop" /\ runs'[r].seen = runs[r].seen /\ runs'[r].forced = runs[r].forced
      BY <2>2, GoDoes DEF U!Stages
    <3>2. Moved(r) /\ HostMoves /\ LockMoves(r) /\ AppMoves(r) /\ TurnMoves(r)
      BY <1>0, <1>1, <2>1, <2>2, <3>1, WorkerKnown
         DEF U!Ask, Moved, HostMoves, LockMoves, Owns, AppMoves, TurnMoves, TurnKnown, U!world, U!Terminal
    <3> QED BY <3>2, WorkerStep
  <2>3. CASE owner # U!Nothing /\ U!Go(r, "listen") /\ IF owner = U!Injector THEN U!Exits /\ owner' = U!Nothing
                                                        ELSE UNCHANGED <<owner, injector, manager, open, lost>>
    <3>1. Others(r) /\ runs'[r].pc = "listen" /\ runs'[r].seen = runs[r].seen /\ runs'[r].forced = runs[r].forced
      BY <2>3, GoDoes DEF U!Stages
    <3>2. HostMoves
      BY <2>3, WorkerKnown DEF HostMoves
    <3>3. Moved(r) /\ LockMoves(r) /\ AppMoves(r) /\ TurnMoves(r)
      BY <1>0, <1>1, <2>1, <2>3, <3>1, WorkerKnown
         DEF U!Ask, Moved, LockMoves, Owns, AppMoves, TurnMoves, TurnKnown, U!world, U!Terminal
    <3> QED BY <3>2, <3>3, WorkerStep
  <2> QED BY <1>1, <2>2, <2>3 DEF U!Ask
<1>2. CASE U!Listen(r)
  <2>1. runs[r].pc = "listen" /\ runs[r].life = "up"
    BY <1>2, AtIsUp DEF U!Listen, U!At, U!Terminal
  <2>2. CASE owner = U!Nothing /\ owner' = r /\ U!Go(r, "stop")
    <3>1. Others(r) /\ runs'[r].pc = "stop" /\ runs'[r].seen = runs[r].seen /\ runs'[r].forced = runs[r].forced
      BY <2>2, GoDoes DEF U!Stages
    <3>2. Moved(r) /\ HostMoves /\ LockMoves(r) /\ AppMoves(r) /\ TurnMoves(r)
      BY <1>0, <1>2, <2>1, <2>2, <3>1, WorkerKnown
         DEF U!Listen, Moved, HostMoves, LockMoves, Owns, AppMoves, TurnMoves, TurnKnown, U!world, U!counters,
             U!Terminal
    <3> QED BY <3>2, WorkerStep
  <2>3. CASE U!Ended(r, "failed")
    BY <1>2, <2>1, <2>3, EndKeeps, WorkerKnown DEF U!Listen, U!world, U!counters, U!Terminal
  <2> QED BY <1>2, <2>2, <2>3 DEF U!Listen
<1>3. CASE U!Stop(r)
  <2>. DEFINE pc == IF system = "win32" THEN "prepareSetup" ELSE "remove"
  <2>1. runs[r].pc = "stop" /\ runs[r].life = "up" /\ owner = r
    BY <1>0, <1>3, AtIsUp DEF U!Stop, U!Proceeds, U!At, U!Terminal, Owns
  <2>2. runs' = [runs EXCEPT ![r] = [runs[r] EXCEPT !.pc = pc, !.seen = FALSE, !.stable = FALSE, !.forced = FALSE]]
    BY <1>0, <1>3 DEF U!Stop
  <2>3. pc \in U!Stages \ {"confirm"} /\ pc \notin {"check", "ask", "listen", "stop"}
    BY DEF U!Stages
  <2>4. Others(r) /\ runs'[r].pc = pc /\ runs'[r].seen = FALSE
    <3> HIDE DEF pc
    <3> QED BY <1>0, <2>2, <2>3 DEF Others, U!Worker
  <2>5. Moved(r) /\ HostMoves /\ AppMoves(r)
    BY <1>3, <2>1, <2>3, <2>4, WorkerKnown DEF U!Stop, Moved, HostMoves, AppMoves, U!counters, U!Terminal
  <2>6. LockMoves(r) /\ TurnMoves(r)
    BY <1>3, <2>1, <2>3, <2>4, WorkerKnown DEF U!Stop, U!Stopped, LockMoves, Owns, TurnMoves
  <2> QED BY <2>5, <2>6, WorkerStep
<1>4. CASE U!PrepareSetup(r)
  <2>1. runs[r].pc = "prepareSetup" /\ runs[r].life = "up" /\ system = "win32"
    BY <1>4, AtIsUp, WorkerKnown DEF U!PrepareSetup, U!Proceeds, U!At, U!Terminal
  <2>2. CASE U!Ended(r, "failed") /\ UNCHANGED <<U!world, injector, manager, open, lost>>
    BY <1>4, <2>1, <2>2, EndKeeps, WorkerKnown DEF U!PrepareSetup, U!world, U!Terminal
  <2>3. CASE /\ owner \notin U!Runs /\ U!Go(r, "setup") /\ owner' = U!Nothing /\ U!Stopped /\ UNCHANGED <<system,
                                                                                                          latest>>
             /\ IF owner = U!Injector THEN U!Exits ELSE UNCHANGED <<injector, manager, open, lost>>
    <3>1. Others(r) /\ runs'[r].pc = "setup" /\ runs'[r].seen = runs[r].seen
      BY <2>3, GoDoes DEF U!Stages
    <3>2. HostMoves
      BY <2>3, WorkerKnown DEF HostMoves
    <3>3. Moved(r) /\ LockMoves(r) /\ AppMoves(r) /\ TurnMoves(r)
      BY <1>0, <1>4, <2>1, <2>3, <3>1, WorkerKnown
         DEF U!PrepareSetup, U!Stopped, Moved, LockMoves, Owns, AppMoves, TurnMoves, TurnKnown, U!Terminal
    <3> QED BY <3>2, <3>3, WorkerStep
  <2> QED BY <1>4, <2>2, <2>3 DEF U!PrepareSetup
<1> QED BY <1>1, <1>2, <1>3, <1>4

\* The replacement, the launch and the ends.
LEMMA InstallingKeeps ==
  ASSUME U!UpdateConstants, UpdateInv, NEW r \in U!Runs,
         U!Setup(r) \/ U!Remove(r) \/ U!Rename(r) \/ U!Release(r) \/ U!Launch(r) \/ U!Confirmed(r) \/
           U!Unconfirmed(r) \/ U!Cancelled(r)
  PROVE  UpdateInv'
<1>0. /\ runs[r] \in U!Worker /\ runs \in [U!Runs -> U!Worker] /\ TurnKnown(runs[r]) /\ (Owns(runs[r]) => owner = r)
      /\ (owner = U!Injector <=> injector.id # 0)
      /\ runs[r].life = "up" => runs[r].asset \in Nat /\ runs[r].asset # U!Nothing
  BY WorkerKnown DEF UpdateInv, LockFits, WorkerFits, U!Worker
<1>1. CASE U!Setup(r)
  <2>1. runs[r].pc = "setup" /\ runs[r].life = "up" /\ system = "win32"
    BY <1>1, AtIsUp, WorkerKnown DEF U!Setup, U!Proceeds, U!At, U!Terminal
  <2>2. Others(r) /\ runs'[r].pc = "verify" /\ runs'[r].seen = runs[r].seen
    BY <1>1, GoDoes DEF U!Setup, U!Stages
  <2>3. Moved(r) /\ HostMoves /\ LockMoves(r) /\ AppMoves(r) /\ TurnMoves(r)
    BY <1>0, <1>1, <2>1, <2>2, WorkerKnown
       DEF U!Setup, Moved, HostMoves, LockMoves, Owns, AppMoves, TurnMoves, TurnKnown, U!world, U!counters, U!Terminal
  <2> QED BY <2>3, WorkerStep
<1>2. CASE U!Remove(r)
  <2>1. runs[r].pc = "remove" /\ runs[r].life = "up" /\ system = "darwin" /\ owner = r
    BY <1>0, <1>2, AtIsUp, WorkerKnown DEF U!Remove, U!Proceeds, U!At, U!Terminal, Owns
  <2>2. Others(r) /\ runs'[r].pc = "rename" /\ runs'[r].seen = runs[r].seen
    BY <1>2, GoDoes DEF U!Remove, U!Stages
  <2>3. Moved(r) /\ HostMoves /\ LockMoves(r) /\ AppMoves(r) /\ TurnMoves(r)
    BY <1>0, <1>2, <2>1, <2>2, WorkerKnown
       DEF U!Remove, Moved, HostMoves, LockMoves, Owns, AppMoves, TurnMoves, TurnKnown, U!world, U!counters,
           U!Terminal, U!Nothing
  <2> QED BY <2>3, WorkerStep
<1>3. CASE U!Rename(r)
  <2>1. runs[r].pc = "rename" /\ runs[r].life = "up" /\ system = "darwin" /\ owner = r
    BY <1>0, <1>3, AtIsUp, WorkerKnown DEF U!Rename, U!At, U!Terminal, Owns
  <2>2. Others(r) /\ runs'[r].pc = "verify" /\ runs'[r].seen = runs[r].seen
    BY <1>3, GoDoes DEF U!Rename, U!Stages
  <2>3. Moved(r) /\ HostMoves /\ LockMoves(r) /\ AppMoves(r) /\ TurnMoves(r)
    BY <1>0, <1>3, <2>1, <2>2, WorkerKnown
       DEF U!Rename, Moved, HostMoves, LockMoves, Owns, AppMoves, TurnMoves, TurnKnown, U!world, U!counters,
           U!Terminal
  <2> QED BY <2>3, WorkerStep
<1>4. CASE U!Release(r)
  <2>1. runs[r].pc = "verify" /\ runs[r].life = "up"
    BY <1>4, AtIsUp, WorkerKnown DEF U!Release, U!Proceeds, U!At, U!Terminal
  <2>2. Others(r) /\ runs'[r].pc = "launch" /\ runs'[r].seen = runs[r].seen
    BY <1>4, GoDoes DEF U!Release, U!Stages
  <2>3. Moved(r) /\ HostMoves /\ LockMoves(r) /\ AppMoves(r) /\ TurnMoves(r)
    BY <1>0, <1>4, <2>1, <2>2, WorkerKnown
       DEF U!Release, Moved, HostMoves, LockMoves, Owns, AppMoves, TurnMoves, TurnKnown, U!world, U!counters,
           U!Terminal
  <2> QED BY <2>3, WorkerStep
<1>5. CASE U!Launch(r)
  <2>1. runs[r].pc = "launch" /\ runs[r].life = "up"
    BY <1>5, AtIsUp, WorkerKnown DEF U!Launch, U!Proceeds, U!At, U!Terminal
  <2>2. Others(r) /\ runs'[r].pc = "ready" /\ runs'[r].seen = runs[r].seen
    BY <1>5, GoDoes DEF U!Launch, U!Stages
  <2>3. HostMoves /\ ids' \in Nat /\ owner' \in {owner, U!Injector} /\ (owner = U!Nothing \/ owner' = owner)
    <3>1. CASE owner = U!Nothing /\ app # U!Nothing /\ U!Started("formal", app)
      BY <1>0, <1>5, <3>1, WorkerKnown DEF U!Launch, U!Started, HostMoves, Injectors
    <3>2. CASE UNCHANGED <<injector, owner, ids>>
      BY <1>5, <3>2, WorkerKnown DEF U!Launch, HostMoves
    <3> QED BY <1>5, <3>1, <3>2 DEF U!Launch
  <2>4. Moved(r) /\ LockMoves(r) /\ AppMoves(r) /\ TurnMoves(r)
    BY <1>0, <1>5, <2>1, <2>2, <2>3, WorkerKnown
       DEF U!Launch, Moved, LockMoves, Owns, AppMoves, TurnMoves, TurnKnown, U!world, U!Terminal
  <2> QED BY <2>3, <2>4, WorkerStep
<1>6. CASE U!Confirmed(r) \/ U!Unconfirmed(r)
  <2>1. runs[r].pc = "ready" /\ runs[r].life = "up" /\ runs[r].pc \notin U!Terminal
    BY <1>6, AtIsUp, WorkerKnown DEF U!Confirmed, U!Unconfirmed, U!Proceeds, U!At, U!Terminal
  <2>2. PICK pc \in U!Terminal : U!Ended(r, pc)
    BY <1>6 DEF U!Confirmed, U!Unconfirmed, U!Terminal
  <2>3. /\ UNCHANGED <<system, latest, turn, injector, manager, open, lost, registry, clicks, checks, ids>>
        /\ UNCHANGED <<faults, app, broken>>
    BY <1>6 DEF U!Confirmed, U!Unconfirmed, U!world, U!counters
  <2>4. faults' \in Nat /\ app' \in Nat /\ broken' \in BOOLEAN
    BY <2>3, WorkerKnown
  <2> QED BY <2>1, <2>2, <2>3, <2>4, EndKeeps
<1>7. CASE U!Cancelled(r)
  <2>1. runs[r].pc \in {"stop", "verify"} /\ runs[r].life = "up" /\ U!Ended(r, "cancelled")
    BY <1>7, AtIsUp, WorkerKnown DEF U!Cancelled, U!Terminal
  <2> QED BY <1>7, <2>1, EndKeeps, WorkerKnown DEF U!Cancelled, U!world, U!counters, U!Terminal
<1> QED BY <1>1, <1>2, <1>3, <1>4, <1>5, <1>6, <1>7

\* The user ends a worker's run, or a step of it fails.
LEMMA InterruptionKeeps ==
  ASSUME U!UpdateConstants, UpdateInv, NEW r \in U!Runs, U!Terminate(r) \/ U!StepFails(r)
  PROVE  UpdateInv'
<1>0. /\ runs[r] \in U!Worker /\ runs \in [U!Runs -> U!Worker] /\ TurnKnown(runs[r]) /\ (Owns(runs[r]) => owner = r)
  BY WorkerKnown DEF UpdateInv
<1>1. CASE U!Terminate(r)
  <2>1. runs[r].pc \notin U!Terminal /\ runs[r].life = "up"
    BY <1>1 DEF U!Terminate, U!Seen
  <2>2. CASE runs[r].pc \in U!Completed /\ runs' = [runs EXCEPT ![r].cancelled = TRUE] /\ UNCHANGED <<app, owner,
                                                                                                      broken>>
    <3>1. [runs[r] EXCEPT !.cancelled = TRUE] \in U!Worker
      BY <1>0 DEF U!Worker
    <3>2. runs' = [runs EXCEPT ![r] = [runs[r] EXCEPT !.cancelled = TRUE]]
      BY <1>0, <2>2
    <3>3. /\ Others(r) /\ runs'[r].pc = runs[r].pc /\ runs'[r].seen = runs[r].seen /\ runs'[r].forced = runs[r].forced
      BY <1>0, <3>1, <3>2 DEF Others, U!Worker
    <3> QED BY <1>0, <1>1, <2>1, <2>2, <3>3, PlainKeeps, WorkerKnown DEF U!Terminate, U!Completed, TurnKnown, U!world
  <2>3. CASE /\ runs[r].pc \notin U!Completed /\ U!Ended(r, "cancelled")
             /\ broken' = (broken \/ runs[r].pc = "setup")
             /\ app' = IF runs[r].pc = "setup" THEN U!Nothing ELSE app
    <3>1. broken' \in BOOLEAN /\ (broken => broken') /\ (runs[r].pc = "setup" => broken')
      BY <2>3, WorkerKnown
    <3>2. app' \in Nat /\ (app' = app \/ broken')
      BY <2>3, <3>1, WorkerKnown DEF U!Nothing
    <3> QED BY <1>1, <2>1, <2>3, <3>1, <3>2, EndKeeps, WorkerKnown DEF U!Terminate, U!Completed, U!world, U!Terminal
  <2> QED BY <1>1, <2>2, <2>3 DEF U!Terminate
<1>2. CASE U!StepFails(r)
  <2>1. runs[r].pc \in U!Fallible /\ runs[r].life = "up" /\ runs[r].pc \notin U!Terminal /\ faults' \in Nat
    BY <1>2, AtIsUp, WorkerKnown DEF U!StepFails, U!Fallible, U!Terminal
  <2>2. broken' \in BOOLEAN /\ (broken => broken') /\ (runs[r].pc = "rename" => broken')
        /\ (runs[r].pc # "rename" => broken' = broken)
    BY <1>2, WorkerKnown DEF U!StepFails
  <2>3. CASE runs[r].pc = "wait" /\ runs[r].forced /\ U!Go(r, "check") /\ UNCHANGED owner
    <3>1. Others(r) /\ runs'[r].pc = "check" /\ runs'[r].seen = runs[r].seen /\ runs'[r].forced = runs[r].forced
      BY <2>3, GoDoes DEF U!Stages
    <3> QED BY <1>0, <1>2, <2>1, <2>2, <2>3, <3>1, PlainKeeps DEF U!StepFails, TurnKnown, U!world
  <2>4. CASE U!Ended(r, "failed")
    BY <1>2, <2>1, <2>2, <2>4, EndKeeps, WorkerKnown DEF U!StepFails, U!world, U!Terminal
  <2> QED BY <1>2, <2>3, <2>4 DEF U!StepFails
<1> QED BY <1>1, <1>2

-----------------------------------------------------------------------------
\* Steps of the windows and of the manager.
Managers == [etag : Nat, asset : Nat, checking : Nat]
Clicks == [pc : {"none", "check", "older", "look", "show", "close", "gone", "spawn", "wait"},
           wanted : Nat, target : U!Runs \cup {U!Nothing}]

\* They leave the lock to its owner, unless he is gone, and the application and the turns alone.
LEMMA WindowStep ==
  ASSUME U!UpdateConstants, UpdateInv, runs' \in [U!Runs -> U!Worker], WorkersFit', OfferFits', WorkersFound',
         \A q \in U!Runs :
           \/ runs'[q].pc = runs[q].pc /\ runs'[q].seen = runs[q].seen /\ runs'[q].forced = runs[q].forced
           \/ runs'[q].pc = "confirm" /\ ~runs'[q].seen /\ (runs[q].pc = "rename" => broken'),
         UNCHANGED <<system, latest, turn, app, injector, ids>>,
         owner' = owner \/ (owner' = U!Nothing /\ owner # U!Injector /\ \A q \in U!Runs : Owns(runs[q]) =>
           runs'[q].pc = "confirm"),
         manager' \in Managers, open' \in Clicks, injector.id = 0 => manager' = U!NewManager /\ open' = U!NotOpen,
         registry' \in U!Runs \cup {U!Nothing}, clicks' \in Nat, checks' \in Nat, faults' \in Nat,
         lost' \in BOOLEAN, broken' \in BOOLEAN, broken => broken'
  PROVE  UpdateInv'
<1>0. U!TypeOK /\ LockFits /\ AppFits /\ TurnFits
  BY DEF UpdateInv
<1>1. U!TypeOK'
  BY <1>0, Owners DEF U!TypeOK, Managers, Clicks
<1>2. LockFits'
  <2>1. ASSUME NEW q \in U!Runs
        PROVE  /\ Owns(runs[q])' => owner' = q
               /\ runs'[q].pc \in {"remove", "rename"} => system' = "darwin"
               /\ runs'[q].pc \in {"prepareSetup", "setup"} => system' = "win32"
    BY <1>0 DEF LockFits, Owns
  <2>2. (owner' = U!Injector <=> injector'.id # 0) /\ (injector'.id = 0 => manager' = U!NewManager /\ open' = U!NotOpen)
    BY <1>0, Owners DEF LockFits
  <2> QED BY <2>1, <2>2 DEF LockFits
<1>3. AppFits'
  BY <1>0 DEF AppFits
<1>4. TurnFits'
  BY <1>0 DEF TurnFits, TurnKnown
<1> QED BY <1>1, <1>2, <1>3, <1>4 DEF UpdateInv

\* An offer stands as long as the manager and the click do, and no other release is shown.
LEMMA OfferStands ==
  ASSUME UpdateInv, UNCHANGED <<manager, open, injector, latest>>,
         \A q \in U!Runs : runs'[q].pc = "confirm" /\ runs'[q].life # "gone" =>
           runs[q].pc = "confirm" /\ runs[q].life # "gone" /\ runs'[q].asset = runs[q].asset
  PROVE  OfferFits'
<1>1. OfferFits /\ U!Offered(manager.etag)' = U!Offered(manager.etag)
  BY DEF UpdateInv, U!Offered
<1> QED BY <1>1 DEF OfferFits, Shows

\* Who is found stays found as long as the click, the registration and the workers do.
LEMMA FoundStands ==
  ASSUME UpdateInv, UNCHANGED <<open, registry>>, lost => lost',
         \A q \in U!Runs : /\ MayExecute(runs'[q]) => MayExecute(runs[q])
                           /\ runs'[q].life = "new" => runs[q].life = "new"
                           /\ runs'[q].life = "up" /\ runs'[q].pc \notin U!Terminal => runs[q].life = "up" /\
                              runs[q].pc \notin U!Terminal
  PROVE  WorkersFound'
<1>1. WorkersFound
  BY DEF UpdateInv
<1>2. CASE lost'
  BY <1>2 DEF WorkersFound
<1>3. CASE ~lost'
  <2>1. \A q \in U!Runs : runs'[q].life = "new" =>
          open'.pc = "wait" /\ open'.target = q /\ \A p \in U!Runs \ {q} : ~MayExecute(runs'[p])
    BY <1>1, <1>3 DEF WorkersFound
  <2>2. \A q \in U!Runs : runs'[q].life = "up" /\ runs'[q].pc \notin U!Terminal => registry' = q
    BY <1>1, <1>3 DEF WorkersFound
  <2>3. /\ open'.pc \in {"spawn", "gone"} => \A q \in U!Runs : ~MayExecute(runs'[q])
        /\ open'.pc = "close" => \A q \in U!Runs : MayExecute(runs'[q]) => q = open'.target
    BY <1>1, <1>3 DEF WorkersFound
  <2> QED BY <2>1, <2>2, <2>3 DEF WorkersFound
<1> QED BY <1>2, <1>3

\* What WindowStep asks of a step that touches one worker and neither the manager nor the click.
LEMMA OneWindow ==
  ASSUME U!UpdateConstants, UpdateInv, NEW r \in U!Runs, NEW w \in U!Worker, runs' = [runs EXCEPT ![r] = w],
         \/ w.pc = runs[r].pc /\ w.seen = runs[r].seen /\ w.forced = runs[r].forced /\ w.asset = runs[r].asset
            /\ (w.life = "gone" <=> runs[r].life = "gone")
         \/ w = U!Left /\ (runs[r].pc = "rename" => broken'),
         WorkerFits(w), w.life # "new",
         UNCHANGED <<system, latest, turn, app, injector, ids, manager, open, clicks, checks>>,
         owner' = owner \/ (owner = r /\ owner' = U!Nothing /\ w = U!Left),
         registry' \in U!Runs \cup {U!Nothing}, faults' \in Nat, lost' \in BOOLEAN, broken' \in BOOLEAN,
           broken => broken',
         WorkersFound'
  PROVE  UpdateInv'
<1>1. runs \in [U!Runs -> U!Worker] /\ WorkersFit /\ U!TypeOK /\ LockFits
  BY DEF UpdateInv, U!TypeOK
<1>2. /\ runs' \in [U!Runs -> U!Worker] /\ runs'[r] = w /\ \A q \in U!Runs : q # r => runs'[q] = runs[q]
  BY <1>1
<1>3. U!Left.pc = "confirm" /\ U!Left.life = "gone" /\ U!Left.seen = FALSE
  BY DEF U!Left, U!NoRun
<1>4. WorkersFit'
  BY <1>1, <1>2 DEF WorkersFit
<1>5. OfferFits'
  BY <1>2, <1>3, OfferStands
<1>6. manager' \in Managers /\ open' \in Clicks /\ (injector.id = 0 => manager' = U!NewManager /\ open' = U!NotOpen)
      /\ clicks' \in Nat /\ checks' \in Nat
  BY <1>1 DEF U!TypeOK, LockFits, Managers, Clicks
<1>7. \A q \in U!Runs :
        \/ runs'[q].pc = runs[q].pc /\ runs'[q].seen = runs[q].seen /\ runs'[q].forced = runs[q].forced
        \/ runs'[q].pc = "confirm" /\ ~runs'[q].seen /\ (runs[q].pc = "rename" => broken')
  BY <1>2, <1>3
<1>8. owner' = owner \/ (owner' = U!Nothing /\ owner # U!Injector /\ \A q \in U!Runs : Owns(runs[q]) =>
        runs'[q].pc = "confirm")
  BY <1>1, <1>2, <1>3, Owners DEF LockFits
<1> QED BY <1>2, <1>4, <1>5, <1>6, <1>7, <1>8, WindowStep

\* A worker comes up, its window opens, fails, is closed or is gone, or it dies.
LEMMA LivesKeep ==
  ASSUME U!UpdateConstants, UpdateInv, NEW r \in U!Runs,
         \/ U!Register(r) \/ U!PageReady(r) \/ U!ViewerExits(r) \/ U!CloseWindow(r)
         \/ U!Shutdown(r) \/ U!Unregister(r) \/ U!WorkerDies(r)
  PROVE  UpdateInv'
<1>0. /\ runs \in [U!Runs -> U!Worker] /\ runs[r] \in U!Worker /\ WorkerFits(runs[r]) /\ WorkersFound /\ LockFits
      /\ registry \in U!Runs \cup {U!Nothing} /\ lost \in BOOLEAN /\ broken \in BOOLEAN /\ faults \in Nat
      /\ r # U!Nothing /\ (Owns(runs[r]) => owner = r)
  BY WorkerKnown DEF UpdateInv, U!TypeOK
<1>a. /\ U!Left \in U!Worker /\ WorkerFits(U!Left) /\ ~MayExecute(U!Left) /\ U!Left.life = "gone"
  BY DEF U!Left, U!NoRun, U!Worker, U!Stages, WorkerFits, MayExecute, U!Nothing
<1>1. CASE U!Register(r)
  <2>. DEFINE w == [runs[r] EXCEPT !.life = "up", !.window = "opening"]
  <2>1. runs' = [runs EXCEPT ![r] = w]
    BY <1>0, <1>1 DEF U!Register
  <2>2. /\ w \in U!Worker /\ w.pc = runs[r].pc /\ w.seen = runs[r].seen /\ w.forced = runs[r].forced
        /\ w.asset = runs[r].asset /\ w.life = "up" /\ runs[r].life = "new"
    BY <1>0, <1>1 DEF U!Register, U!Worker
  <2> HIDE DEF w
  <2>3. WorkerFits(w)
    BY <1>0, <2>2 DEF WorkerFits
  <2>4. WorkersFound'
    <3>1. SUFFICES ASSUME ~lost' PROVE WorkersFound'
      BY DEF WorkersFound
    <3>2. ~lost /\ open' = open /\ registry' = r
      BY <1>1, <3>1 DEF U!Register, U!counters
    <3>3. open.pc = "wait" /\ open.target = r /\ \A q \in U!Runs \ {r} : ~MayExecute(runs[q])
      BY <1>0, <2>2, <3>2 DEF WorkersFound
    <3>4. \A q \in U!Runs : q # r => runs'[q] = runs[q] /\ ~MayExecute(runs'[q])
      BY <1>0, <2>1, <3>3
    <3> QED BY <1>0, <2>1, <2>2, <3>2, <3>3, <3>4 DEF WorkersFound, MayExecute
  <2> QED BY <1>0, <1>1, <2>1, <2>2, <2>3, <2>4, OneWindow DEF U!Register, U!world, U!host, U!counters
<1>2. CASE U!PageReady(r) \/ U!ViewerExits(r) \/ U!CloseWindow(r)
  <2>1. PICK w \in U!Worker : /\ runs' = [runs EXCEPT ![r] = w] /\ runs[r].life = "up" /\ w.life \in {"up", "closing"}
                              /\ w.pc = runs[r].pc /\ w.seen = runs[r].seen /\ w.forced = runs[r].forced
                              /\ w.asset = runs[r].asset
                              /\ (w.life = "closing" => w.pc \in U!Terminal \cup {"confirm"})
    <3>1. CASE U!PageReady(r)
      <4>1. [runs[r] EXCEPT !.window = "ready"] \in U!Worker
        BY <1>0 DEF U!Worker
      <4>2. runs' = [runs EXCEPT ![r] = [runs[r] EXCEPT !.window = "ready"]]
        BY <1>0, <3>1 DEF U!PageReady
      <4> QED BY <1>0, <3>1, <4>1, <4>2 DEF U!PageReady, U!Worker
    <3>2. CASE U!ViewerExits(r)
      <4>1. [runs[r] EXCEPT !.window = "failed"] \in U!Worker
        BY <1>0 DEF U!Worker
      <4>2. runs' = [runs EXCEPT ![r] = [runs[r] EXCEPT !.window = "failed"]]
        BY <1>0, <3>2 DEF U!ViewerExits
      <4> QED BY <1>0, <3>2, <4>1, <4>2 DEF U!ViewerExits, U!Worker
    <3>3. CASE U!CloseWindow(r)
      <4>1. [runs[r] EXCEPT !.life = "closing"] \in U!Worker
        BY <1>0 DEF U!Worker
      <4>2. runs' = [runs EXCEPT ![r] = [runs[r] EXCEPT !.life = "closing"]]
        BY <1>0, <3>3 DEF U!CloseWindow
      <4> QED BY <1>0, <3>3, <4>1, <4>2 DEF U!CloseWindow, U!Closable, U!Seen, U!Worker
    <3> QED BY <1>2, <3>1, <3>2, <3>3
  <2>2. WorkerFits(w)
    BY <1>0, <2>1 DEF WorkerFits, U!Terminal
  <2>3. /\ UNCHANGED <<system, latest, turn, app, injector, owner, ids, manager, open, registry, clicks, checks,
                       lost, broken>>
        /\ faults' \in Nat
    BY <1>0, <1>2 DEF U!PageReady, U!ViewerExits, U!CloseWindow, U!world, U!host, U!counters
  <2>4. WorkersFound'
    BY <1>0, <2>1, <2>3, FoundStands DEF MayExecute
  <2> QED BY <1>0, <2>1, <2>2, <2>3, <2>4, OneWindow
<1>3. CASE U!Shutdown(r)
  <2>1. PICK w \in U!Worker : /\ runs' = [runs EXCEPT ![r] = w] /\ runs[r].life = "closing" /\ WorkerFits(w)
                              /\ w.life \in {"leaving", "gone"} /\ (w.life = "gone" => w = U!Left)
                              /\ w.life = "leaving" => /\ w.pc = runs[r].pc /\ w.seen = runs[r].seen
                                                       /\ w.forced = runs[r].forced /\ w.asset = runs[r].asset
    <3>. DEFINE leaving == [runs[r] EXCEPT !.life = "leaving", !.window = "none"]
    <3>1. /\ leaving \in U!Worker /\ leaving.life = "leaving" /\ leaving.pc = runs[r].pc /\ leaving.asset = runs[r].asset
          /\ leaving.seen = runs[r].seen /\ leaving.forced = runs[r].forced
      BY <1>0 DEF U!Worker
    <3>2. runs' = [runs EXCEPT ![r] = IF registry = r THEN leaving ELSE U!Left] /\ runs[r].life = "closing"
      BY <1>0, <1>3 DEF U!Shutdown
    <3> HIDE DEF leaving
    <3>3. WorkerFits(leaving)
      BY <1>0, <3>1, <3>2 DEF WorkerFits
    <3> QED BY <1>a, <3>1, <3>2, <3>3
  <2>2. /\ UNCHANGED <<system, latest, turn, app, injector, owner, ids, manager, open, registry, clicks, checks,
                       lost, broken>>
        /\ faults' \in Nat /\ runs[r].pc # "rename"
    BY <1>0, <1>3, <2>1 DEF U!Shutdown, U!world, U!host, U!counters, WorkerFits, U!Terminal
  <2>3. WorkersFound'
    BY <1>0, <2>1, <2>2, FoundStands DEF MayExecute
  <2> QED BY <1>0, <2>1, <2>2, <2>3, OneWindow
<1>4. CASE U!Unregister(r)
  <2>1. runs' = [runs EXCEPT ![r] = U!Left] /\ runs[r].life = "leaving" /\ runs[r].pc # "rename"
    BY <1>0, <1>4 DEF U!Unregister, WorkerFits, U!Terminal
  <2>2. /\ UNCHANGED <<system, latest, turn, app, injector, owner, ids, manager, open, clicks, checks, broken>>
        /\ faults' \in Nat /\ registry' = U!Nothing /\ lost' \in BOOLEAN /\ (~lost' => ~lost /\ registry = r)
    BY <1>0, <1>4 DEF U!Unregister, U!world, U!host
  <2>3. WorkersFound'
    <3>1. SUFFICES ASSUME ~lost' PROVE WorkersFound'
      BY DEF WorkersFound
    <3>2. \A q \in U!Runs : q # r => runs'[q] = runs[q]
      BY <1>0, <2>1
    <3>3. ~MayExecute(runs[r]) /\ ~MayExecute(runs'[r]) /\ runs'[r].life = "gone"
      BY <1>0, <1>a, <2>1 DEF MayExecute
    <3>4. \A q \in U!Runs : ~(runs[q].life = "up" /\ runs[q].pc \notin U!Terminal)
      BY <1>0, <2>1, <2>2, <3>1 DEF WorkersFound
    <3>5. \A q \in U!Runs : MayExecute(runs'[q]) => MayExecute(runs[q])
      BY <3>2, <3>3
    <3> QED BY <1>0, <2>2, <3>1, <3>2, <3>3, <3>4, <3>5 DEF WorkersFound
  <2> QED BY <1>0, <1>a, <2>1, <2>2, <2>3, OneWindow
<1>5. CASE U!WorkerDies(r)
  <2>1. runs' = [runs EXCEPT ![r] = U!Left] /\ owner' = IF owner = r THEN U!Nothing ELSE owner
    BY <1>5 DEF U!WorkerDies
  <2>2. /\ UNCHANGED <<system, latest, turn, app, injector, ids, manager, open, registry, clicks, checks, lost>>
        /\ faults' \in Nat
    BY <1>0, <1>5 DEF U!WorkerDies, U!world
  <2>3. broken' \in BOOLEAN /\ (broken => broken') /\ (runs[r].pc = "rename" => broken')
    BY <1>5 DEF U!WorkerDies
  <2>4. WorkersFound'
    BY <1>0, <1>a, <2>1, <2>2, FoundStands DEF MayExecute
  <2> QED BY <1>0, <1>a, <2>1, <2>2, <2>3, <2>4, OneWindow
<1> QED BY <1>1, <1>2, <1>3, <1>4, <1>5

-----------------------------------------------------------------------------
\* The manager and the click: the workers stand, or one is shown, closed or spawned.
LEMMA ManagerKnown ==
  ASSUME U!UpdateConstants, UpdateInv
  PROVE  /\ runs \in [U!Runs -> U!Worker] /\ WorkersFit /\ OfferFits /\ WorkersFound /\ manager \in Managers /\
            open \in Clicks
         /\ registry \in U!Runs \cup {U!Nothing} /\ latest \in Nat /\ lost \in BOOLEAN /\ broken \in BOOLEAN
         /\ ids \in Nat /\ clicks \in Nat /\ checks \in Nat /\ faults \in Nat /\
            owner \in U!Runs \cup {U!Nothing, U!Injector}
         /\ (owner = U!Injector <=> injector.id # 0) /\ (injector.id = 0 => manager = U!NewManager /\ open = U!NotOpen)
         /\ injector \in Injectors /\ U!NotOpen \in Clicks /\ U!NewManager \in Managers
         /\ U!NotOpen.pc = "none" /\ U!NotOpen.wanted = 0 /\ U!NotOpen.target = 0 /\ U!NewManager.checking = 0
BY Owners DEF UpdateInv, U!TypeOK, LockFits, Managers, Clicks, Injectors, U!NotOpen, U!NewManager, U!Nothing

\* What WindowStep asks when the workers stand.
LEMMA ClickStep ==
  ASSUME U!UpdateConstants, UpdateInv, UNCHANGED <<system, latest, turn, app, injector, owner, runs, registry, ids,
                                                   broken>>,
         manager' \in Managers, open' \in Clicks, injector.id = 0 => manager' = U!NewManager /\ open' = U!NotOpen,
         clicks' \in Nat, checks' \in Nat, faults' \in Nat, lost' \in BOOLEAN, OfferFits', WorkersFound'
  PROVE  UpdateInv'
<1>1. runs' \in [U!Runs -> U!Worker] /\ WorkersFit' /\ registry' \in U!Runs \cup {U!Nothing} /\ broken' \in BOOLEAN
  BY ManagerKnown DEF WorkersFit
<1> QED BY <1>1, WindowStep

\* Who is found stays found when the click goes on without closing or spawning.
LEMMA FoundAnyway ==
  ASSUME UpdateInv, UNCHANGED <<runs, registry>>, lost => lost',
         ~lost' => (\A q \in U!Runs : runs[q].life # "new") \/ open' = open,
         open'.pc \in {"spawn", "gone"} /\ ~lost' => \A q \in U!Runs : ~MayExecute(runs[q]),
         open'.pc = "close" /\ ~lost' => \A q \in U!Runs : MayExecute(runs[q]) => q = open'.target
  PROVE  WorkersFound'
<1>1. WorkersFound
  BY DEF UpdateInv
<1> QED BY <1>1 DEF WorkersFound

\* A check asks for what is latest now, and keeps or replaces the candidate.
LEMMA CheckFacts ==
  ASSUME U!UpdateConstants, UpdateInv
  PROVE  /\ U!Checking \in Managers /\ U!Checking.checking = latest
         /\ U!Checking.etag = manager.etag /\ U!Checking.asset = manager.asset
         /\ U!Checked \in Managers /\ U!Checked.checking = U!Nothing
         /\ manager.checking # U!Nothing =>
              U!Checked.etag = manager.checking /\ U!Checked.asset = U!Offered(manager.checking)
         /\ manager.checking # U!Nothing /\ manager.asset # U!Nothing =>
              U!Checked.asset # U!Nothing /\ manager.asset <= U!Checked.asset
<1>0. manager \in Managers /\ latest \in Nat /\ injector \in Injectors /\ OfferFits
  BY ManagerKnown
<1>1. \A n \in Nat : U!Offered(n) \in Nat
  BY DEF U!Offered, U!Nothing
<1>2. U!Checking \in Managers /\ U!Checking.checking = latest /\ U!Checking.etag = manager.etag /\
        U!Checking.asset = manager.asset
  BY <1>0 DEF U!Checking, Managers
<1>3. CASE manager.etag = manager.checking
  <2>1. U!Checked = [manager EXCEPT !.checking = U!Nothing]
    BY <1>3 DEF U!Checked
  <2> QED BY <1>0, <1>2, <1>3, <2>1 DEF Managers, U!Nothing, OfferFits
<1>4. CASE manager.etag # manager.checking
  <2>1. U!Checked = [etag |-> manager.checking, asset |-> U!Offered(manager.checking), checking |-> U!Nothing]
    BY <1>4 DEF U!Checked
  <2>2. manager.checking # U!Nothing /\ manager.asset # U!Nothing =>
          U!Offered(manager.checking) # U!Nothing /\ manager.asset <= U!Offered(manager.checking)
    BY <1>0 DEF OfferFits, U!Offered, U!Nothing, Managers, Injectors
  <2> QED BY <1>0, <1>1, <1>2, <2>1, <2>2 DEF Managers, U!Nothing
<1> QED BY <1>3, <1>4
\* A check begins, is answered or fails, and the click that waits for it goes on.
LEMMA ChecksKeep ==
  ASSUME U!UpdateConstants, UpdateInv, U!CheckByTimer \/ U!Click \/ U!CheckAnswered \/ U!CheckFails
  PROVE  UpdateInv'
<1>0. /\ manager \in Managers /\ open \in Clicks /\ OfferFits /\ WorkersFound /\ latest \in Nat
      /\ clicks \in Nat /\ checks \in Nat /\ faults \in Nat /\ lost \in BOOLEAN
  BY ManagerKnown
<1>1. U!NotOpen \in Clicks /\ U!NotOpen.pc = "none" /\ U!NotOpen.wanted = 0
  BY ManagerKnown
<1>2. /\ U!Checking \in Managers /\ U!Checking.checking = latest /\ U!Checking.etag = manager.etag /\
         U!Checking.asset = manager.asset
      /\ U!Checked \in Managers /\ U!Checked.checking = U!Nothing
      /\ manager.checking # U!Nothing => U!Checked.etag = manager.checking /\
         U!Checked.asset = U!Offered(manager.checking)
      /\ manager.checking # U!Nothing /\ manager.asset # U!Nothing => U!Checked.asset # U!Nothing /\
         manager.asset <= U!Checked.asset
  BY CheckFacts
<1>3. ASSUME UNCHANGED <<injector, latest>> PROVE \A n \in Nat : U!Offered(n)' = U!Offered(n)
  BY <1>3 DEF U!Offered
<1>4. CASE U!CheckByTimer
  <2>1. /\ UNCHANGED <<system, latest, turn, app, injector, owner, runs, registry, ids, broken, open, clicks,
                       faults, lost>>
        /\ manager' = U!Checking /\ checks' \in Nat /\ injector.id # 0 /\ manager.checking = U!Nothing
    BY <1>0, <1>4 DEF U!CheckByTimer, U!world, U!host
  <2>2. OfferFits'
    BY <1>0, <1>2, <2>1, <1>3 DEF OfferFits, Shows, Managers, Clicks, U!Nothing, U!Offered
  <2>3. WorkersFound'
    BY <2>1, FoundStands
  <2> QED BY <1>0, <1>2, <2>1, <2>2, <2>3, ClickStep
<1>5. CASE U!Click
  <2>1. /\ UNCHANGED <<system, latest, turn, app, injector, owner, runs, registry, ids, broken, checks, faults, lost>>
        /\ clicks' \in Nat /\ injector.id # 0 /\ open.pc = "none"
        /\ (manager' = U!Checking \/ (manager' = manager /\ manager.checking # U!Nothing))
    BY <1>0, <1>5 DEF U!Click, U!Clicked, U!world, U!host
  <2>2. open' \in Clicks /\ open'.wanted = latest /\ open'.pc \in {"check", "older"}
        /\ (open'.pc = "check" => manager' = U!Checking)
    BY <1>0, <1>5 DEF U!Click, U!Clicked, U!NotOpen, Clicks, U!Nothing
  <2>3. OfferFits'
    BY <1>0, <1>2, <2>1, <2>2 DEF OfferFits, Managers, U!Nothing, U!Offered
  <2>4. WorkersFound'
    BY <1>0, <2>1, <2>2, FoundAnyway DEF WorkersFound
  <2> QED BY <1>0, <1>2, <2>1, <2>2, <2>3, <2>4, ClickStep
<1>6. CASE U!CheckAnswered
  <2>1. /\ UNCHANGED <<system, latest, turn, app, injector, owner, runs, registry, ids, broken, checks, clicks,
                       faults, lost>>
        /\ manager.checking # U!Nothing
    BY <1>6 DEF U!CheckAnswered, U!world, U!host, U!counters
  <2>2. injector.id # 0
    BY <2>1, ManagerKnown DEF U!Nothing
  <2>3. CASE open.pc = "older"
    <3>1. manager' = [U!Checked EXCEPT !.checking = latest] /\ open' = [open EXCEPT !.pc = "check"]
      BY <1>6, <2>3 DEF U!CheckAnswered
    <3>2. /\ manager' \in Managers /\ manager'.checking = latest /\ manager'.etag = U!Checked.etag /\
             manager'.asset = U!Checked.asset
          /\ open' \in Clicks /\ open'.wanted = open.wanted /\ open'.pc = "check" /\ open'.target = open.target
      BY <1>0, <1>2, <3>1 DEF Managers, Clicks
    <3>3. OfferFits'
      BY <1>0, <1>2, <2>1, <3>2 DEF OfferFits, U!Offered, Managers, Clicks, U!Nothing
    <3>4. WorkersFound'
      BY <1>0, <2>1, <2>3, <3>2, FoundAnyway DEF WorkersFound
    <3> QED BY <1>0, <2>1, <2>2, <3>2, <3>3, <3>4, ClickStep
  <2>4. CASE open.pc # "older" /\ open.pc # "check"
    <3>1. manager' = U!Checked /\ open' = open
      BY <1>6, <2>4 DEF U!CheckAnswered
    <3>2. OfferFits'
      BY <1>0, <1>2, <2>1, <2>4, <3>1 DEF OfferFits, U!Offered, Shows, Managers, Clicks, U!Nothing
    <3>3. WorkersFound'
      BY <2>1, <3>1, FoundStands
    <3> QED BY <1>0, <1>2, <2>1, <2>2, <3>1, <3>2, <3>3, ClickStep
  <2>5. CASE open.pc = "check"
    <3>1. manager' = U!Checked /\ open' = IF U!Checked.asset = U!Nothing THEN U!NotOpen ELSE [open EXCEPT !.pc = "look"]
      BY <1>6, <2>5 DEF U!CheckAnswered
    <3>2. /\ open' \in Clicks /\ open'.pc \in {"none", "look"} /\ open'.wanted \in {0, open.wanted}
          /\ open'.pc = "look" => U!Checked.asset # U!Nothing /\ open'.wanted = open.wanted
      BY <1>0, <1>1, <3>1 DEF Clicks
    <3>3. U!Checked.asset # U!Nothing => open.wanted <= U!Checked.asset
      BY <1>0, <1>2, <2>1, <2>5 DEF OfferFits, U!Offered, U!Nothing
    <3>4. OfferFits'
      BY <1>0, <1>2, <2>1, <3>1, <3>2, <3>3 DEF OfferFits, U!Offered, Managers, Clicks, U!Nothing
    <3>5. WorkersFound'
      BY <1>0, <2>1, <2>5, <3>2, FoundAnyway DEF WorkersFound
    <3> QED BY <1>0, <1>2, <2>1, <2>2, <3>1, <3>2, <3>4, <3>5, ClickStep
  <2> QED BY <2>3, <2>4, <2>5
<1>7. CASE U!CheckFails
  <2>1. /\ UNCHANGED <<system, latest, turn, app, injector, owner, runs, registry, ids, broken, checks, clicks, lost>>
        /\ manager.checking # U!Nothing /\ faults' \in Nat
    BY <1>0, <1>7 DEF U!CheckFails, U!world, U!host
  <2>2. injector.id # 0
    BY <2>1, ManagerKnown DEF U!Nothing
  <2>3. CASE open.pc = "older"
    <3>1. manager' = U!Checking /\ open' = [open EXCEPT !.pc = "check"]
      BY <1>7, <2>3 DEF U!CheckFails
    <3>2. open' \in Clicks /\ open'.wanted = open.wanted /\ open'.pc = "check" /\ open'.target = open.target
      BY <1>0, <3>1 DEF Clicks
    <3>3. OfferFits'
      BY <1>0, <1>2, <2>1, <3>1, <3>2 DEF OfferFits, U!Offered, Managers, Clicks, U!Nothing
    <3>4. WorkersFound'
      BY <1>0, <2>1, <2>3, <3>2, FoundAnyway DEF WorkersFound
    <3> QED BY <1>0, <1>2, <2>1, <2>2, <3>1, <3>2, <3>3, <3>4, ClickStep
  <2>4. CASE open.pc # "older"
    <3>1. /\ manager' = [manager EXCEPT !.checking = U!Nothing]
          /\ open' = open \/ (open' = U!NotOpen /\ open.pc = "check")
          /\ open.pc = "check" => open' = U!NotOpen
      BY <1>7, <2>4 DEF U!CheckFails
    <3>2. manager' \in Managers /\ manager'.checking = 0 /\ manager'.etag = manager.etag /\ manager'.asset = manager.asset
      BY <1>0, <3>1 DEF Managers, U!Nothing
    <3>3. OfferFits'
      <4>1. CASE open' = open /\ open.pc # "check"
        BY <1>0, <2>1, <3>2, <4>1 DEF OfferFits, U!Offered, Shows, Managers, U!Nothing
      <4>2. CASE open' = U!NotOpen
        BY <1>0, <1>1, <2>1, <3>2, <4>2 DEF OfferFits, U!Offered, Managers, U!Nothing
      <4> QED BY <3>1, <4>1, <4>2
    <3>4. WorkersFound'
      BY <1>0, <1>1, <2>1, <3>1, FoundAnyway DEF WorkersFound
    <3> QED BY <1>0, <1>1, <2>1, <2>2, <3>1, <3>2, <3>3, <3>4, ClickStep
  <2> QED BY <2>3, <2>4
<1> QED BY <1>4, <1>5, <1>6, <1>7

\* The click finds who is registered, gives up, or waits for a worker to close.
LEMMA LooksKeep ==
  ASSUME U!UpdateConstants, UpdateInv, U!Look \/ U!LookTimesOut \/ U!Gone \/ U!Waited \/ U!WaitTimesOut
  PROVE  UpdateInv'
<1>0. /\ runs \in [U!Runs -> U!Worker] /\ manager \in Managers /\ open \in Clicks /\ OfferFits /\ WorkersFound
      /\ clicks \in Nat /\ checks \in Nat /\ faults \in Nat /\ lost \in BOOLEAN /\ registry \in U!Runs \cup {U!Nothing}
      /\ U!NotOpen \in Clicks /\ U!NotOpen.pc = "none" /\ U!NotOpen.wanted = 0
      /\ (injector.id = 0 => open = U!NotOpen) /\ latest \in Nat
  BY ManagerKnown
<1>1. ASSUME open' = U!NotOpen, UNCHANGED <<injector, manager, latest>> PROVE OfferFits'
  BY <1>0, <1>1 DEF OfferFits, U!Offered
<1>2. CASE U!Look
  <2>1. /\ UNCHANGED <<system, latest, turn, app, injector, owner, runs, registry, ids, broken, manager, checks,
                       clicks, faults, lost>>
        /\ open.pc = "look" /\ injector.id # 0
    BY <1>0, <1>2 DEF U!Look, U!world, U!host, U!counters
  <2>2. ~lost => \A q \in U!Runs : /\ runs[q].life # "new"
                                   /\ MayExecute(runs[q]) => q = registry /\ U!Reachable(registry) /\
                                      runs[registry].pc \notin U!Terminal
    <3>1. ~lost => \A q \in U!Runs : /\ runs[q].life # "new"
                                     /\ runs[q].life = "up" /\ runs[q].pc \notin U!Terminal => registry = q
      BY <1>0, <2>1 DEF WorkersFound
    <3> QED BY <3>1, Owners DEF MayExecute, U!Reachable
  <2>3. CASE open' = U!NotOpen
    BY <1>0, <1>1, <2>1, <2>2, <2>3, FoundAnyway, ClickStep
  <2>4. CASE open' = [open EXCEPT !.pc = "spawn"] /\ ~U!Reachable(registry)
    <3>1. open' \in Clicks /\ open'.pc = "spawn" /\ open'.wanted = open.wanted
      BY <1>0, <2>4 DEF Clicks
    <3>2. OfferFits'
      BY <1>0, <2>1, <3>1 DEF OfferFits, U!Offered
    <3>3. WorkersFound'
      BY <1>0, <2>1, <2>2, <2>4, <3>1, FoundAnyway
    <3> QED BY <1>0, <2>1, <3>1, <3>2, <3>3, ClickStep
  <2>5. CASE U!Reachable(registry) /\ open' = [open EXCEPT !.target = registry,
                               !.pc = IF U!Reusable(runs[registry]) THEN "show"
                                      ELSE IF runs[registry].pc = "confirm" THEN "close" ELSE "spawn"]
    <3>1. /\ open' \in Clicks /\ open'.wanted = open.wanted /\ open'.target = registry /\ registry \in U!Runs
          /\ open'.pc \in {"show", "close", "spawn"}
          /\ open'.pc = "show" => U!Reusable(runs[registry])
          /\ open'.pc = "spawn" => ~U!Reusable(runs[registry]) /\ runs[registry].pc # "confirm"
      BY <1>0, <2>5 DEF Clicks, U!Reachable
    <3>2. open'.pc = "spawn" => runs[registry].pc \in U!Terminal
      BY <3>1 DEF U!Reusable
    <3>3. OfferFits'
      BY <1>0, <2>1, <3>1 DEF OfferFits, U!Offered, Shows, U!Reusable, U!Fits
    <3>4. WorkersFound'
      BY <1>0, <2>1, <2>2, <3>1, <3>2, FoundAnyway
    <3> QED BY <1>0, <2>1, <3>1, <3>3, <3>4, ClickStep
  <2> QED BY <1>2, <2>3, <2>4, <2>5 DEF U!Look
<1>3. CASE U!LookTimesOut
  <2>1. /\ UNCHANGED <<system, latest, turn, app, injector, owner, runs, registry, ids, broken, manager, checks,
                       clicks>>
        /\ open.pc = "look" /\ injector.id # 0 /\ faults' \in Nat /\ lost' /\ open' = [open EXCEPT !.pc = "spawn"]
    BY <1>0, <1>3 DEF U!LookTimesOut, U!world, U!host
  <2>l. lost' \in BOOLEAN
    BY <1>3 DEF U!LookTimesOut
  <2>2. open' \in Clicks /\ open'.pc = "spawn" /\ open'.wanted = open.wanted
    BY <1>0, <2>1 DEF Clicks
  <2>3. OfferFits'
    BY <1>0, <2>1, <2>2 DEF OfferFits, U!Offered
  <2>4. WorkersFound'
    BY <2>1 DEF WorkersFound
  <2> QED BY <1>0, <2>1, <2>l, <2>2, <2>3, <2>4, ClickStep
<1>4. CASE U!Gone
  <2>1. /\ UNCHANGED <<system, latest, turn, app, injector, owner, runs, registry, ids, broken, manager, checks,
                       clicks, faults, lost>>
        /\ open.pc = "gone" /\ injector.id # 0
    BY <1>0, <1>4 DEF U!Gone, U!world, U!host, U!counters
  <2>2. ~lost => \A q \in U!Runs : ~MayExecute(runs[q]) /\ runs[q].life # "new"
    BY <1>0, <2>1 DEF WorkersFound
  <2>3. open' \in Clicks /\ open'.pc \in {"none", "spawn"} /\ (open' = U!NotOpen \/ open'.wanted = open.wanted)
    BY <1>0, <1>4 DEF U!Gone, Clicks
  <2>4. OfferFits'
    BY <1>0, <1>1, <2>1, <2>3 DEF OfferFits, U!Offered
  <2>5. WorkersFound'
    BY <1>0, <2>1, <2>2, <2>3, FoundAnyway
  <2> QED BY <1>0, <2>1, <2>3, <2>4, <2>5, ClickStep
<1>5. CASE U!Waited
  <2>1. /\ UNCHANGED <<system, latest, turn, app, injector, owner, runs, registry, ids, broken, manager, checks,
                       clicks, faults, lost>>
        /\ open.pc = "wait" /\ injector.id # 0 /\ open' = U!NotOpen
    BY <1>0, <1>5 DEF U!Waited, U!world, U!host, U!counters
  <2>2. ~lost => \A q \in U!Runs : runs[q].life # "new"
    <3>1. CASE runs[open.target].life = "gone"
      BY <1>0, <2>1, <3>1 DEF WorkersFound
    <3>2. CASE registry = open.target /\ U!Reachable(registry)
      BY <1>0, <2>1, <3>2 DEF WorkersFound, U!Reachable
    <3> QED BY <1>5, <3>1, <3>2 DEF U!Waited
  <2> QED BY <1>0, <1>1, <2>1, <2>2, FoundAnyway, ClickStep
<1>6. CASE U!WaitTimesOut
  <2>1. /\ UNCHANGED <<system, latest, turn, app, injector, owner, runs, registry, ids, broken, manager, checks,
                       clicks>>
        /\ open.pc = "wait" /\ injector.id # 0 /\ faults' \in Nat /\ lost' /\ open' = U!NotOpen
    BY <1>0, <1>6 DEF U!WaitTimesOut, U!world, U!host
  <2>l. lost' \in BOOLEAN
    BY <1>6 DEF U!WaitTimesOut
  <2>2. WorkersFound'
    BY <2>1 DEF WorkersFound
  <2> QED BY <1>0, <1>1, <2>1, <2>l, <2>2, ClickStep
<1> QED BY <1>2, <1>3, <1>4, <1>5, <1>6
\* The click shows a worker, closes one, or spawns a new one.
LEMMA WindowsKeep ==
  ASSUME U!UpdateConstants, UpdateInv, U!Show \/ U!Close \/ U!Spawn
  PROVE  UpdateInv'
<1>0. /\ runs \in [U!Runs -> U!Worker] /\ WorkersFit /\ manager \in Managers /\ open \in Clicks /\ OfferFits /\
         WorkersFound
      /\ clicks \in Nat /\ checks \in Nat /\ faults \in Nat /\ lost \in BOOLEAN /\ broken \in BOOLEAN
      /\ registry \in U!Runs \cup {U!Nothing} /\ latest \in Nat /\ injector \in Injectors
      /\ U!NotOpen \in Clicks /\ U!NotOpen.pc = "none" /\ U!NotOpen.wanted = 0 /\ (injector.id = 0 => open = U!NotOpen)
  BY ManagerKnown
<1>1. /\ UNCHANGED <<system, latest, turn, app, injector, owner, manager, registry, ids, clicks, checks, faults,
                     lost, broken>>
      /\ open.pc \in {"show", "close", "spawn"} /\ injector.id # 0
  BY <1>0 DEF U!Show, U!Close, U!Spawn, U!world, U!host, U!counters
<1>2. ASSUME open' = U!NotOpen, UNCHANGED runs PROVE UpdateInv'
  <2>1. OfferFits'
    BY <1>0, <1>1, <1>2 DEF OfferFits, U!Offered
  <2>2. WorkersFound'
    BY <1>0, <1>1, <1>2, FoundAnyway DEF WorkersFound
  <2> QED BY <1>0, <1>1, <1>2, <2>1, <2>2, ClickStep
<1>3. CASE U!Show
  <2>1. CASE runs[open.target].life = "up" /\ runs' = [runs EXCEPT ![open.target] = U!Showing(@)] /\
               open' = [open EXCEPT !.pc = "wait"]
    <3>1. open.pc = "show" /\ open.target \in U!Runs /\ open' \in Clicks /\ open'.pc = "wait" /\
            open'.wanted = open.wanted
          /\ open'.target = open.target
      BY <1>0, <1>3, <2>1 DEF U!Show, Clicks, OfferFits
    <3>. DEFINE r == open.target
    <3>2. runs' = [runs EXCEPT ![r] = U!Showing(runs[r])]
      BY <1>0, <2>1, <3>1
    <3>3. LET w == U!Showing(runs[r]) IN
          /\ w \in U!Worker /\ w.pc = runs[r].pc /\ w.life = runs[r].life /\ w.asset = runs[r].asset
          /\ w.seen = runs[r].seen /\ w.forced = runs[r].forced
      BY <1>0, <3>1 DEF U!Showing, U!Worker
    <3>4. runs' \in [U!Runs -> U!Worker]
      BY <1>0, <3>2, <3>3
    <3>5. \A q \in U!Runs : /\ runs'[q].pc = runs[q].pc /\ runs'[q].life = runs[q].life /\ runs'[q].asset = runs[q].asset
                            /\ runs'[q].seen = runs[q].seen /\ runs'[q].forced = runs[q].forced
      BY <1>0, <3>1, <3>2, <3>3
    <3>6. WorkersFit'
      BY <1>0, <3>5 DEF WorkersFit, WorkerFits
    <3>7. OfferFits'
      BY <1>0, <1>1, <3>1, <3>5 DEF OfferFits, U!Offered, Shows
    <3>8. WorkersFound'
      BY <1>0, <1>1, <3>1, <3>5 DEF WorkersFound, MayExecute
    <3> QED BY <1>0, <1>1, <3>1, <3>4, <3>5, <3>6, <3>7, <3>8, WindowStep
  <2> QED BY <1>2, <1>3, <2>1 DEF U!Show
<1>4. CASE U!Close
  <2>1. CASE U!Closable(runs[open.target]) /\ runs' = [runs EXCEPT ![open.target].life = "closing"] /\
               open' = [open EXCEPT !.pc = "gone"]
    <3>1. open.pc = "close" /\ open.target \in U!Runs /\ open' \in Clicks /\ open'.pc = "gone" /\
            open'.wanted = open.wanted
          /\ open'.target = open.target
      BY <1>0, <1>4, <2>1 DEF U!Close, Clicks, OfferFits
    <3>. DEFINE r == open.target
                w == [runs[r] EXCEPT !.life = "closing"]
    <3>2. runs' = [runs EXCEPT ![r] = w]
      BY <1>0, <2>1, <3>1
    <3>3. /\ w \in U!Worker /\ w.pc = runs[r].pc /\ w.life = "closing" /\ w.asset = runs[r].asset
          /\ w.seen = runs[r].seen /\ w.forced = runs[r].forced
      BY <1>0, <3>1 DEF U!Worker
    <3>a. r \in U!Runs /\ runs[r].life = "up" /\ runs[r].pc \in U!Terminal \cup {"confirm"}
      BY <2>1, <3>1 DEF U!Closable
    <3> HIDE DEF w, r
    <3>4. runs' \in [U!Runs -> U!Worker]
      BY <1>0, <3>2, <3>3
    <3>5. \A q \in U!Runs : /\ runs'[q].pc = runs[q].pc /\ runs'[q].asset = runs[q].asset
                            /\ runs'[q].seen = runs[q].seen /\ runs'[q].forced = runs[q].forced
                            /\ (q # r => runs'[q] = runs[q])
      BY <1>0, <3>a, <3>2, <3>3
    <3>6. WorkersFit'
      BY <1>0, <3>a, <3>2, <3>3, <3>5 DEF WorkersFit, WorkerFits
    <3>7. OfferFits'
      BY <1>0, <1>1, <3>1, <3>5 DEF OfferFits, U!Offered
    <3>8. ~lost => \A q \in U!Runs : ~MayExecute(runs'[q])
      <4>1. ~lost => \A q \in U!Runs : MayExecute(runs[q]) => q = r
        BY <1>0, <3>1 DEF WorkersFound, r
      <4> QED BY <1>0, <3>a, <3>2, <3>3, <3>5, <4>1 DEF MayExecute
    <3>9. WorkersFound'
      <4>1. ~lost => \A q \in U!Runs : runs[q].life # "new"
        BY <1>0, <3>1 DEF WorkersFound
      <4>2. ~lost => \A q \in U!Runs : runs'[q].life # "new" /\ (runs'[q].life = "up" => q # r)
        BY <1>0, <3>a, <3>2, <3>3, <3>5, <4>1
      <4> QED BY <1>0, <1>1, <3>1, <3>5, <3>8, <4>2 DEF WorkersFound, MayExecute
    <3> QED BY <1>0, <1>1, <3>1, <3>4, <3>5, <3>6, <3>7, <3>9, WindowStep
  <2> QED BY <1>2, <1>4, <2>1 DEF U!Close
<1>5. CASE U!Spawn
  <2>. DEFINE w == [U!NoRun EXCEPT !.life = "new", !.asset = manager.asset, !.owner = injector.id]
  <2>1. PICK r \in U!Runs : /\ runs[r].life = "none" /\ runs' = [runs EXCEPT ![r] = w]
                            /\ open' = [open EXCEPT !.pc = "wait", !.target = r]
    BY <1>5 DEF U!Spawn
  <2>2. /\ w \in U!Worker /\ w.pc = "confirm" /\ w.life = "new" /\ w.asset = manager.asset /\ w.seen = FALSE
    BY <1>0 DEF U!NoRun, U!Worker, U!Stages, Managers, Injectors, U!Nothing
  <2> HIDE DEF w
  <2>3. /\ open.pc = "spawn" /\ open' \in Clicks /\ open'.pc = "wait" /\ open'.wanted = open.wanted /\ open'.target = r
        /\ manager.asset # U!Nothing /\ open.wanted <= manager.asset
    BY <1>0, <1>5, <2>1 DEF U!Spawn, Clicks, OfferFits
  <2>4. runs' \in [U!Runs -> U!Worker] /\ runs'[r] = w /\ \A q \in U!Runs : q # r => runs'[q] = runs[q]
    BY <1>0, <2>1, <2>2
  <2>5. WorkersFit'
    BY <1>0, <2>2, <2>3, <2>4 DEF WorkersFit, WorkerFits
  <2>6. OfferFits'
    BY <1>0, <1>1, <2>2, <2>3, <2>4 DEF OfferFits, U!Offered, Shows
  <2>7. WorkersFound'
    <3>1. ~lost => \A q \in U!Runs : ~MayExecute(runs[q])
      BY <1>0, <2>3 DEF WorkersFound
    <3>2. ~lost => \A q \in U!Runs : runs[q].life # "new"
      BY <1>0, <2>3 DEF WorkersFound
    <3>3. ~lost => \A q \in U!Runs : q # r => ~MayExecute(runs'[q]) /\ runs'[q].life # "new"
      BY <2>4, <3>1, <3>2
    <3> QED BY <1>0, <1>1, <2>2, <2>3, <2>4, <3>3 DEF WorkersFound, MayExecute
  <2>8. \A q \in U!Runs :
           \/ runs'[q].pc = runs[q].pc /\ runs'[q].seen = runs[q].seen /\ runs'[q].forced = runs[q].forced
           \/ runs'[q].pc = "confirm" /\ ~runs'[q].seen /\ (runs[q].pc = "rename" => broken')
    <3>1. runs[r].pc = "confirm"
      BY <1>0, <2>1 DEF WorkersFit, WorkerFits
    <3> QED BY <2>2, <2>4, <3>1
  <2> QED BY <1>0, <1>1, <2>3, <2>4, <2>5, <2>6, <2>7, <2>8, WindowStep
<1> QED BY <1>3, <1>4, <1>5

-----------------------------------------------------------------------------
\* The world: no worker moves.
LEMMA WorldKeeps ==
  ASSUME U!UpdateConstants, UpdateInv, U!Publish \/ U!Turn \/ U!InjectorReady \/ U!InjectorDies \/ U!StartAgain
  PROVE  UpdateInv'
<1>0. /\ runs \in [U!Runs -> U!Worker] /\ manager \in Managers /\ open \in Clicks /\ OfferFits /\ WorkersFound
      /\ ids \in Nat /\ faults \in Nat /\ lost \in BOOLEAN /\ latest \in Nat /\ injector \in Injectors
      /\ (owner = U!Injector <=> injector.id # 0) /\ (injector.id = 0 => manager = U!NewManager /\ open = U!NotOpen)
      /\ U!TypeOK /\ WorkersFit /\ LockFits /\ AppFits /\ TurnFits
  BY ManagerKnown DEF UpdateInv
<1>1. U!NotOpen \in Clicks /\ U!NotOpen.pc = "none" /\ U!NotOpen.wanted = 0 /\ U!NewManager \in Managers
      /\ U!NewManager = [etag |-> 0, asset |-> 0, checking |-> 0]
  BY ManagerKnown DEF U!NewManager, U!Nothing
<1>2. ASSUME UNCHANGED runs PROVE WorkersFit'
  BY <1>0, <1>2 DEF WorkersFit
<1>3. CASE U!Publish
  <2>1. /\ latest' = latest + 1
        /\ UNCHANGED <<system, turn, app, injector, owner, manager, open, runs, registry, ids, clicks, checks,
                       faults, lost, broken>>
    BY <1>3 DEF U!Publish, U!host, U!counters
  <2>2. OfferFits'
    BY <1>0, <2>1 DEF OfferFits, U!Offered, Shows, Managers, Clicks
  <2>3. WorkersFound'
    BY <2>1, FoundStands
  <2>4. U!TypeOK' /\ LockFits' /\ AppFits' /\ TurnFits'
    BY <1>0, <2>1 DEF U!TypeOK, LockFits, Owns, AppFits, TurnFits, TurnKnown
  <2> QED BY <1>2, <2>1, <2>2, <2>3, <2>4 DEF UpdateInv
<1>4. CASE U!Turn
  <2>1. /\ UNCHANGED <<system, latest, app, injector, owner, manager, open, runs, registry, ids, clicks, checks,
                       faults, lost, broken>>
        /\ turn \in {"none", "active", "ended"} /\ turn' \in {"active", "ended", "saved"}
        /\ (turn = "ended" => turn' = "saved")
    BY <1>0, <1>4 DEF U!Turn, U!host, U!counters, U!TypeOK
  <2>2. OfferFits' /\ WorkersFound'
    BY <2>1, FoundStands, OfferStands
  <2>3. U!TypeOK' /\ LockFits' /\ AppFits'
    BY <1>0, <2>1 DEF U!TypeOK, LockFits, Owns, AppFits
  <2>4. TurnFits'
    BY <1>0, <2>1 DEF TurnFits, TurnKnown
  <2> QED BY <1>2, <2>1, <2>2, <2>3, <2>4 DEF UpdateInv
<1>5. CASE U!InjectorReady
  <2>1. /\ UNCHANGED <<system, latest, turn, app, owner, manager, open, runs, registry, ids, clicks, checks,
                       faults, lost, broken>>
        /\ injector' = [injector EXCEPT !.ready = TRUE]
    BY <1>5 DEF U!InjectorReady, U!world, U!counters
  <2>2. injector' \in Injectors /\ injector'.id = injector.id /\ injector'.mode = injector.mode /\
          injector'.version = injector.version
    BY <1>0, <2>1 DEF Injectors
  <2>3. OfferFits'
    BY <1>0, <2>1, <2>2 DEF OfferFits, U!Offered, Shows
  <2>4. WorkersFound'
    BY <2>1, FoundStands
  <2>5. U!TypeOK' /\ LockFits' /\ AppFits' /\ TurnFits'
    BY <1>0, <2>1, <2>2 DEF U!TypeOK, LockFits, Owns, AppFits, TurnFits, TurnKnown, Injectors
  <2> QED BY <1>2, <2>1, <2>3, <2>4, <2>5 DEF UpdateInv
<1>6. CASE U!InjectorDies
  <2>1. /\ UNCHANGED <<system, latest, turn, app, runs, registry, ids, clicks, checks, broken>>
        /\ injector' = U!NoInjector /\ manager' = U!NewManager /\ open' = U!NotOpen /\ owner' = U!Nothing /\
           faults' \in Nat
        /\ injector.id # 0
    BY <1>0, <1>6 DEF U!InjectorDies, U!Exits, U!world
  <2>l. lost' \in BOOLEAN /\ (lost => lost') /\ (open.pc = "wait" /\ runs[open.target].life = "new" => lost')
    BY <1>0, <1>6 DEF U!InjectorDies, U!Exits
  <2>2. U!NoInjector \in Injectors /\ U!NoInjector.id = 0
    BY DEF U!NoInjector, Injectors
  <2>3. OfferFits'
    BY <1>0, <1>1, <2>1 DEF OfferFits, U!Offered, U!Nothing
  <2>4. WorkersFound'
    BY <1>0, <1>1, <2>1, <2>l DEF WorkersFound, MayExecute
  <2>5. \A q \in U!Runs : ~Owns(runs[q])
    BY <1>0, <2>1, Owners DEF LockFits
  <2>6. LockFits'
    BY <1>0, <2>1, <2>2, <2>5, Owners DEF LockFits, Owns
  <2>7. U!TypeOK' /\ AppFits' /\ TurnFits'
    BY <1>0, <1>1, <2>1, <2>l, <2>2 DEF U!TypeOK, AppFits, TurnFits, TurnKnown, Injectors, Managers, Clicks
  <2> QED BY <1>2, <2>1, <2>3, <2>4, <2>6, <2>7 DEF UpdateInv
<1>7. CASE U!StartAgain
  <2>1. /\ UNCHANGED <<system, latest, turn, app, manager, open, runs, registry, clicks, checks, faults, lost,
                       broken>>
        /\ injector.id = 0 /\ owner = U!Nothing /\ (U!Started("dev", 1) \/ U!Started("formal", app))
    BY <1>7 DEF U!StartAgain, U!world
  <2>2. injector' \in Injectors /\ injector'.id # 0 /\ owner' = U!Injector /\ ids' \in Nat
    <3>1. PICK m \in {"dev", "formal"}, v \in Nat : U!Started(m, v)
      BY <1>0, <2>1 DEF U!TypeOK
    <3>2. injector' = [id |-> ids + 1, mode |-> m, version |-> v, ready |-> FALSE] /\ ids' = ids + 1 /\
            owner' = U!Injector
      BY <3>1 DEF U!Started
    <3> QED BY <1>0, <3>2 DEF Injectors
  <2>3. OfferFits'
    <3>1. manager' = U!NewManager /\ open' = U!NotOpen
      BY <1>0, <2>1
    <3> QED BY <1>0, <1>1, <2>1, <3>1 DEF OfferFits, U!Offered, U!Nothing
  <2>4. WorkersFound'
    BY <2>1, FoundStands
  <2>5. \A q \in U!Runs : ~Owns(runs[q])
    BY <1>0, <2>1, Owners DEF LockFits
  <2>6. LockFits'
    BY <1>0, <2>1, <2>2, <2>5 DEF LockFits, Owns
  <2>7. U!TypeOK' /\ AppFits' /\ TurnFits'
    BY <1>0, <2>1, <2>2 DEF U!TypeOK, AppFits, TurnFits, TurnKnown, Injectors
  <2> QED BY <1>2, <2>1, <2>3, <2>4, <2>6, <2>7 DEF UpdateInv
<1> QED BY <1>3, <1>4, <1>5, <1>6, <1>7
-----------------------------------------------------------------------------
\* Initially no worker has begun.
LEMMA UpdateBegins ==
  ASSUME U!UpdateConstants, U!Init
  PROVE  UpdateInv
<1>0. /\ system \in {"darwin", "win32"} /\ latest = 1 /\ app = 1 /\ turn = "none"
      /\ injector = [id |-> 1, mode |-> U!FirstMode, version |-> 1, ready |-> TRUE] /\ owner = U!Injector
      /\ manager = [etag |-> 0, asset |-> 0, checking |-> 0] /\ open = [pc |-> "none", wanted |-> 0, target |-> 0]
      /\ runs = [r \in U!Runs |-> U!NoRun] /\ registry = 0
      /\ ids = 1 /\ clicks = 0 /\ checks = 0 /\ faults = 0 /\ lost = FALSE /\ broken = FALSE
  BY DEF U!Init, U!NewManager, U!NotOpen, U!Nothing
<1>1. /\ U!NoRun \in U!Worker /\ U!NoRun.pc = "confirm" /\ U!NoRun.life = "none" /\ U!NoRun.seen = FALSE
      /\ U!FirstMode \in {"dev", "formal"}
  BY DEF U!NoRun, U!Worker, U!Stages, U!Nothing, U!FirstMode
<1>2. \A r \in U!Runs : runs[r] = U!NoRun
  BY <1>0
<1>3. U!TypeOK
  <2>1. injector \in [id : Nat, mode : {"none", "dev", "formal"}, version : Nat, ready : BOOLEAN]
    BY <1>0, <1>1
  <2>2. runs \in [U!Runs -> U!Worker]
    BY <1>0, <1>1
  <2>3. manager \in [etag : Nat, asset : Nat, checking : Nat]
    BY <1>0
  <2>4. open \in [pc : {"none", "check", "older", "look", "show", "close", "gone", "spawn", "wait"},
                 wanted : Nat, target : U!Runs \cup {U!Nothing}]
    BY <1>0 DEF U!Nothing
  <2> QED BY <1>0, <2>1, <2>2, <2>3, <2>4 DEF U!TypeOK, U!Nothing
<1>4. WorkersFit /\ TurnFits
  BY <1>1, <1>2 DEF WorkersFit, WorkerFits, TurnFits, TurnKnown
<1>5. LockFits /\ WorkersFound
  BY <1>0, <1>1, <1>2, Owners DEF LockFits, Owns, WorkersFound, MayExecute
<1>6. OfferFits /\ AppFits
  BY <1>0 DEF OfferFits, U!Offered, AppFits, U!Nothing
<1> QED BY <1>3, <1>4, <1>5, <1>6 DEF UpdateInv

\* Every step keeps the invariant.
LEMMA UpdateGoesOn ==
  ASSUME U!UpdateConstants, UpdateInv, [U!Next]_(U!vars)
  PROVE  UpdateInv'
<1>1. CASE U!Managing
  BY <1>1, ChecksKeep, LooksKeep, WindowsKeep DEF U!Managing
<1>2. CASE \E r \in U!Runs : U!Step(r)
  BY <1>2, PreparingKeeps, TakingOverKeeps, InstallingKeeps DEF U!Step
<1>3. CASE \E r \in U!Runs : U!Process(r) \/ U!User(r)
  BY <1>3, LivesKeep, PreparingKeeps, InterruptionKeeps DEF U!Process, U!User
<1>4. CASE U!Fault
  BY <1>4, ChecksKeep, LooksKeep, WorldKeeps, LivesKeep, InterruptionKeeps DEF U!Fault
<1>5. CASE U!World
  BY <1>5, WorldKeeps, ChecksKeep DEF U!World
<1>6. CASE UNCHANGED U!vars
  <2>1. UNCHANGED <<system, latest, app, injector, owner, manager, open, runs, registry, turn,
                    ids, clicks, checks, faults, lost, broken>>
    BY <1>6 DEF U!vars
  <2>2. U!TypeOK' /\ WorkersFit' /\ AppFits' /\ TurnFits'
    BY <2>1 DEF UpdateInv, U!TypeOK, WorkersFit, AppFits, TurnFits, TurnKnown
  <2>3. LockFits'
    BY <2>1 DEF UpdateInv, LockFits, Owns
  <2>4. OfferFits' /\ WorkersFound'
    BY <2>1, OfferStands, FoundStands
  <2> QED BY <2>2, <2>3, <2>4 DEF UpdateInv
<1> QED BY <1>1, <1>2, <1>3, <1>4, <1>5, <1>6 DEF U!Next, U!Steps

\* The workers, the lock, the offer, the registration, the application and the turn fit together: the
\* inductive invariant of the update.
THEOREM UpdateInvariant == ASSUME U!UpdateConstants PROVE U!Spec => []UpdateInv
<1>1. U!Init => UpdateInv
  BY UpdateBegins
<1>2. UpdateInv /\ [U!Next]_(U!vars) => UpdateInv'
  BY UpdateGoesOn
<1> QED BY <1>1, <1>2, PTL DEF U!Spec

\* open(), launchUpdateWindow(): the window a click shows or spawns to be confirmed offers a release at
\* least as new as the newest one when it was made.
THEOREM LatestIsShown == ASSUME U!UpdateConstants PROVE U!Spec => []LatestIsOffered
<1>1. UpdateInv => U!LatestIsOffered
  <2>1. SUFFICES ASSUME UpdateInv, open.pc = "wait", runs[open.target].pc = "confirm", runs[open.target].life # "gone"
                 PROVE  runs[open.target].asset >= open.wanted
    BY DEF U!LatestIsOffered
  <2>2. open.target \in U!Runs /\ open.wanted <= runs[open.target].asset
    BY <2>1 DEF UpdateInv, OfferFits, Shows
  <2>3. open.wanted \in Nat /\ runs[open.target].asset \in Nat
    BY <2>1, <2>2 DEF UpdateInv, U!TypeOK, U!Worker
  <2> QED BY <2>2, <2>3
<1> QED BY <1>1, UpdateInvariant, PTL DEF LatestIsOffered

\* Who executes is up.
LEMMA ExecutingIsUp ==
  ASSUME UpdateInv, NEW r \in U!Runs, U!Executing(runs[r])
  PROVE  runs[r].life = "up" /\ runs[r].pc \notin U!Terminal \cup {"confirm"}
<1>1. runs[r] \in U!Worker /\ WorkerFits(runs[r])
  BY DEF UpdateInv, U!TypeOK, WorkersFit
<1> QED BY <1>1 DEF U!Executing, WorkerFits, U!Worker

\* As long as nobody is lost, the registration names who executes.
LEMMA OneIsUnderWay == ASSUME UpdateInv PROVE U!OneExecutes
<1>1. ASSUME ~lost, NEW r \in U!Runs, U!Executing(runs[r]) PROVE registry = r
  BY <1>1, ExecutingIsUp DEF UpdateInv, WorkersFound
<1> QED BY <1>1 DEF U!OneExecutes

\* Who replaces the application of macOS owns the lock.
LEMMA AppIsThere == ASSUME U!UpdateConstants, UpdateInv PROVE U!StaysInstalled
<1>1. ASSUME system = "darwin", NEW r \in U!Runs, U!Replacing(r) PROVE owner = r
  BY <1>1 DEF UpdateInv, LockFits, Owns, U!Replacing
<1>2. app = U!Nothing => broken \/ \E r \in U!Runs : U!At(r, "rename")
  BY AtIsUp DEF UpdateInv, AppFits, U!At, U!Terminal
<1> QED BY <1>1, <1>2 DEF U!StaysInstalled

\* A stop that was not forced comes with a saved turn, if one was seen.
LEMMA TurnsAreSaved ==
  ASSUME UpdateInv
  PROVE  \A r \in U!Runs : U!Stop(r) /\ ~runs[r].forced /\ runs[r].seen => turn \in {"none", "saved"}
BY DEF UpdateInv, TurnFits, TurnKnown, U!Stop, U!Proceeds, U!At

\* As long as nobody is lost one update at a time is under way; on macOS one worker at a time replaces the
\* application, which is absent only while it is replaced or after that was broken off; and no turn a
\* worker has seen is cut off unless it was forced.
THEOREM UpdateIsSafe == ASSUME U!UpdateConstants PROVE U!Spec => UpdatesAreSafe
<1>1. UpdateInv => U!TypeOK /\ U!OneExecutes /\ U!StaysInstalled
  BY OneIsUnderWay, AppIsThere DEF UpdateInv
<1>2. UpdateInv /\ [U!Next]_(U!vars) =>
        [\A r \in U!Runs : U!Stop(r) /\ ~runs[r].forced /\ runs[r].seen => turn \in {"none", "saved"}]_(U!vars)
  BY TurnsAreSaved
<1> QED BY <1>1, <1>2, UpdateInvariant, PTL DEF UpdatesAreSafe, U!SeenTurnIsSaved, U!Spec
=============================================================================
