----------------------------- MODULE CodexRuntime -----------------------------
(***************************************************************************)
(* The choice of the Codex backend in src/codex-runtime/manager.mjs.   *)
(* A backend is the one bundled with the desktop app, an installed alpha,  *)
(* or a custom file.  Three asynchronous activities work on the choice:    *)
(*                                                                         *)
(*   user     a page action: select, share (MCP connection sharing), or    *)
(*            install the latest alpha and select it                       *)
(*   launch   a start of Codex: get the backend, start it, on a failure    *)
(*            fall back and start once more, then confirm what runs        *)
(*   catalog  a refresh of the model catalogue asks for the backend        *)
(*                                                                         *)
(* proc[a] is the await at which activity a is.  A probe of a backend is   *)
(* judged at the moment it ends.  A settings write and the assignments     *)
(* after it are one step, with what was computed before it.                *)
(***************************************************************************)
EXTENDS Naturals, FiniteSets

CONSTANTS
  Bundled, Custom,  \* the backend of the desktop app, and a file of the user's
  Alphas,           \* alpha releases, each its own version and directory
  Versions,         \* versions of the bundled and the custom backend
  Sharing,          \* versions that know MCP connection sharing
  None,
  MaxFiles,         \* bound: files that appear or go, in a behaviour
  MaxStarts,        \* bound: activities, and restarts of the injector
  MaxFaults         \* bound: launches and writes that fail

Places == {Bundled, Custom} \cup Alphas
Actors == {"user", "launch", "catalog"}

ASSUME RuntimeConstants ==
  /\ Bundled # Custom /\ {Bundled, Custom} \cap Alphas = {} /\ None \notin Places
  /\ Sharing \subseteq Versions \cup Alphas /\ Versions \ Sharing # {} /\ None \notin Versions \cup Alphas
  /\ {MaxFiles, MaxStarts, MaxFaults} \subseteq Nat

\* A file: its version, its fingerprint, and the sharing flags it answers the
\* handshake with.
Stamps == 0 .. MaxFiles + MaxStarts
File == [ver : Versions \cup Alphas, stamp : Stamps, answers : SUBSET BOOLEAN]
Selection == [place : Places, ver : Versions \cup Alphas, stamp : Stamps, sharing : BOOLEAN]

VARIABLES
  file,       \* what lies at each place, None if nothing usable
  disk,       \* codex-runtime.json
  settings,   \* this.settings
  bundled,    \* this.bundled
  changed,    \* this.bundledVersionChanged
  installed,  \* this.installed
  validated, active, attempt,  \* this.runtimeState
  view,       \* selected, fallback and pendingRestart of this.view
  proc,       \* the activities
  apart,      \* in this behaviour they run one at a time: no safe restart comes upon a
              \* page action, and no change of the login upon either
  ran,        \* ghost: selections that Codex was started with
  acked,      \* ghost: the place of the last acknowledged selection, or confirmed fallback
  count       \* counters of the bounds

files  == <<file, apart>>
choice == <<settings, disk, bundled, changed, installed, validated, active, attempt, view>>
ghosts == <<ran, acked>>
vars   == <<files, choice, proc, ghosts, count>>

Idle == [pc |-> "idle", op |-> "none", sel |-> None, flag |-> FALSE, cfg |-> None, rt |-> None, fb |-> FALSE]

Count(what, max) == count[what] < max /\ count' = [count EXCEPT ![what] = @ + 1]
Fault == Count("faults", MaxFaults)
Goes(a, pc) == proc' = [proc EXCEPT ![a].pc = pc]
MayStart == apart => \A a \in Actors : proc[a].pc = "idle"
Ends(a) == proc' = [proc EXCEPT ![a] = Idle]

-----------------------------------------------------------------------------
(* Verification *)

\* verifySelection: the backend answers at this moment; ver = None takes any version.
\* The bundled one is believed without a handshake unless sharing or asked to.
Verified(place, ver, flag, probe) ==
  /\ file[place] # None
  /\ LET b == file[place]
         shares == flag /\ (IF ver = None THEN b.ver ELSE ver) \in Sharing
     IN (place = Bundled /\ ~shares /\ ~probe) \/ (shares \in b.answers /\ ver \in {None, b.ver})

\* What verifySelection returns; the version asked for is kept.
Checked(place, ver) ==
  [place |-> place, ver |-> IF ver = None THEN file[place].ver ELSE ver,
   stamp |-> file[place].stamp, sharing |-> FALSE]

\* launchSelection, under settings s
LaunchSelection(sel, fallback, s) ==
  [sel EXCEPT !.sharing = (IF fallback THEN sel.sharing ELSE s.sharing) /\ sel.ver \in Sharing]

Differs(selected) == active # None /\ active # selected
Shown(selected, fallback) == [selected |-> selected, fallback |-> fallback, pending |-> Differs(selected)]

-----------------------------------------------------------------------------
(* initialize, after a crash too *)

\* The good backend is worth a try.
TriesGood(s, failed, own) == s.good # None /\ s.good # failed /\ s.good # own

GoodStands(good) ==
  /\ file[good.place] # None
  /\ good.place = Bundled => file[Bundled].ver = good.ver
  /\ Verified(good.place, good.ver, good.sharing, FALSE)
GoodSelection(good) == [Checked(good.place, good.ver) EXCEPT !.sharing = good.sharing]

ConfiguredStands(s, listed, own) ==
  /\ s.place \in Alphas => s.place \in listed
  /\ Verified(s.place, IF s.place = Custom THEN None ELSE IF s.place = Bundled THEN own.ver ELSE s.place,
              s.sharing, FALSE)

Listed == {v \in Alphas : file[v] # None}

\* initializeOnce: from the settings on disk and the files as they are.
Initialized ==
  LET own    == Checked(Bundled, None)
      newer  == disk.was # None /\ disk.was # own.ver
      stands == ConfiguredStands(disk, Listed, own)
      good   == ~newer /\ TriesGood(disk, None, own) /\ GoodStands(disk.good)
      sel    == IF stands THEN [Checked(disk.place, None) EXCEPT !.sharing = FALSE]
                ELSE IF good THEN GoodSelection(disk.good) ELSE own
  IN
  /\ Verified(Bundled, None, FALSE, ~stands /\ ~good)
  /\ settings' = disk /\ bundled' = own /\ changed' = newer /\ installed' = Listed
  /\ validated' = sel /\ active' = None /\ attempt' = None
  /\ view' = [selected |-> LaunchSelection(sel, ~stands, disk), fallback |-> ~stands, pending |-> FALSE]
  /\ proc' = [a \in Actors |-> Idle]

\* The injector is killed, or stops, and starts again; Codex runs on.
Restart ==
  /\ Count("starts", MaxStarts)
  /\ Initialized
  /\ acked' = disk.place
  /\ UNCHANGED <<files, disk, ran>>

-----------------------------------------------------------------------------
(* getLaunchRuntime, for a launch or for the catalogue *)

Get(a, r) == [r EXCEPT !.pc = IF attempt = None THEN "fingerprint" ELSE "return", !.sel = validated]

\* resolveFallbackSelection begins: the good backend first, unless it just failed or
\* the desktop app brought a new one.
Falling(r, failed) ==
  IF ~changed /\ TriesGood(settings, failed, bundled)
    THEN [r EXCEPT !.pc = "tryGood", !.sel = settings.good]
    ELSE [r EXCEPT !.pc = "tryBundled"]

\* prepareCodexLaunch goes on without a backend of its own.
Unresolved(a) ==
  proc' = [proc EXCEPT ![a] =
    IF a = "launch" /\ proc[a].op # "rollback" THEN [proc[a] EXCEPT !.pc = "launch", !.rt = None] ELSE Idle]

\* ensureValidatedRuntimeCurrent: the file is still the one that was verified, or it
\* is verified again, or given up.
Fingerprint(a) ==
  LET r == proc[a]
      b == file[r.sel.place]
  IN
  /\ r.pc = "fingerprint"
  /\ \/ /\ b = None /\ r.sel.place = Bundled
        /\ Unresolved(a)
     \/ /\ b = None /\ r.sel.place # Bundled
        /\ proc' = [proc EXCEPT ![a] = Falling(r, r.sel)]
     \/ /\ b # None /\ b.stamp = r.sel.stamp
        /\ Goes(a, "return")
     \/ /\ b # None /\ b.stamp # r.sel.stamp
        /\ proc' = [proc EXCEPT ![a] = [r EXCEPT !.pc = "verify", !.flag = settings.sharing]]
  /\ UNCHANGED <<files, choice, ghosts, count>>

Reverified(a) ==
  LET r    == proc[a]
      want == IF r.sel.place \in Alphas THEN r.sel.ver ELSE None
      ok   == Verified(r.sel.place, want, r.flag, TRUE)
      next == Checked(r.sel.place, None)
  IN
  /\ r.pc = "verify" /\ a # "user"
  /\ \/ /\ ok
        /\ validated' = next
        /\ IF next.place = Bundled
             THEN bundled' = next /\ changed' = (settings.was # None /\ settings.was # next.ver)
             ELSE UNCHANGED <<bundled, changed>>
        /\ view' = Shown(LaunchSelection(next, view.fallback, settings), view.fallback)
        /\ Goes(a, "return")
     \/ /\ ~ok /\ r.sel.place = Bundled
        /\ Unresolved(a)
        /\ UNCHANGED <<validated, bundled, changed, view>>
     \/ /\ ~ok /\ r.sel.place # Bundled
        /\ proc' = [proc EXCEPT ![a] = Falling(r, r.sel)]
        /\ UNCHANGED <<validated, bundled, changed, view>>
  /\ UNCHANGED <<files, settings, disk, installed, active, attempt, ghosts, count>>

\* stageFallback, once the fallback is found
Staged(a, sel) ==
  /\ attempt' = [sel |-> sel, before |-> validated, shown |-> view]
  /\ validated' = sel
  /\ view' = [selected |-> LaunchSelection(sel, TRUE, settings), fallback |-> TRUE, pending |-> TRUE]
  /\ Goes(a, IF proc[a].op = "rollback" THEN "prepare" ELSE "return")

TryGood(a) ==
  LET good == proc[a].sel IN
  /\ proc[a].pc = "tryGood"
  /\ \/ /\ GoodStands(good)
        /\ Staged(a, GoodSelection(good))
     \/ /\ ~GoodStands(good)
        /\ Goes(a, "tryBundled")
        /\ UNCHANGED <<attempt, validated, view>>
  /\ UNCHANGED <<files, settings, disk, bundled, changed, installed, active, ghosts, count>>

TryBundled(a) ==
  /\ proc[a].pc = "tryBundled"
  /\ \/ /\ Verified(Bundled, None, FALSE, TRUE)
        /\ Staged(a, Checked(Bundled, None))
     \/ /\ ~Verified(Bundled, None, FALSE, TRUE)
        /\ Unresolved(a)
        /\ UNCHANGED <<attempt, validated, view>>
  /\ UNCHANGED <<files, settings, disk, bundled, changed, installed, active, ghosts, count>>

\* The end of getLaunchRuntime: a staged fallback goes first.
Return(a) ==
  LET fb  == attempt # None \/ view.fallback
      sel == IF attempt # None THEN attempt.sel ELSE validated
      rt  == LaunchSelection(sel, fb, settings)
  IN
  /\ proc[a].pc = "return"
  /\ validated' = sel
  /\ view' = IF attempt # None THEN [selected |-> rt, fallback |-> TRUE, pending |-> TRUE] ELSE view
  /\ proc' = [proc EXCEPT ![a] =
       IF a = "catalog" THEN Idle ELSE [Idle EXCEPT !.pc = "launch", !.op = proc[a].op, !.rt = rt, !.fb = fb]]
  /\ UNCHANGED <<files, settings, disk, bundled, changed, installed, active, attempt, ghosts, count>>

\* The model catalogue asks for the backend to run.
RefreshCatalog ==
  /\ proc["catalog"].pc = "idle" /\ Count("starts", MaxStarts)
  /\ MayStart
  /\ proc' = [proc EXCEPT !["catalog"] = Get("catalog", Idle)]
  /\ UNCHANGED <<files, choice, ghosts>>

-----------------------------------------------------------------------------
(* launchWithFallback and confirmLaunch *)

StartLaunch ==
  /\ proc["launch"].pc = "idle" /\ Count("starts", MaxStarts)
  /\ MayStart
  /\ proc' = [proc EXCEPT !["launch"] = Get("launch", [Idle EXCEPT !.op = "first"])]
  /\ UNCHANGED <<files, choice, ghosts>>

lp == proc["launch"]

\* The relay cannot be prepared: the launch goes on with the bundled backend.
\* runtimeDispositionForLaunch compares it with what was asked for.
Degrade ==
  LET own == LaunchSelection(bundled, TRUE, settings) IN
  /\ lp.pc = "launch" /\ lp.rt # None /\ Fault
  /\ proc' = [proc EXCEPT !["launch"] = [lp EXCEPT !.pc = "launch", !.rt = own,
       !.op = IF own = lp.rt THEN lp.op ELSE IF lp.op = "first" THEN "degraded" ELSE "degradedAgain"]]
  /\ UNCHANGED <<files, choice, ghosts>>

Again == {"rollback", "degradedAgain"}
Degraded == {"degraded", "degradedAgain"}

LaunchWorks ==
  /\ lp.pc = "launch"
  /\ IF lp.rt = None THEN Ends("launch") /\ UNCHANGED ran
     ELSE Goes("launch", "confirm") /\ ran' = ran \cup {lp.rt}
  /\ UNCHANGED <<files, choice, acked, count>>

\* The relay of a managed backend does not get ready: rollbackAfterLaunchFailure.
LaunchNotReady ==
  /\ lp.pc = "launch" /\ lp.op = "first" /\ Fault
  /\ lp.rt # None /\ lp.rt.place # Bundled
  /\ proc' = [proc EXCEPT !["launch"] =
       IF attempt # None THEN Idle ELSE Falling([lp EXCEPT !.op = "rollback"], lp.rt)]
  /\ UNCHANGED <<files, choice, ghosts>>

\* The first start fails for another reason.
LaunchThrows ==
  /\ lp.pc = "launch" /\ lp.op \notin Again /\ Fault
  /\ Ends("launch")
  /\ UNCHANGED <<files, choice, ghosts>>

\* The fallback is prepared: getLaunchRuntime again.
Prepare ==
  /\ lp.pc = "prepare"
  /\ proc' = [proc EXCEPT !["launch"] = Get("launch", lp)]
  /\ UNCHANGED <<files, choice, ghosts, count>>

\* The fallback fails too: cancelFallbackAttempt.
Cancel ==
  /\ lp.pc = "launch" /\ lp.op \in Again /\ Fault
  /\ Ends("launch")
  /\ attempt' = None
  /\ IF attempt = None THEN UNCHANGED <<validated, view>>
                       ELSE validated' = attempt.before /\ view' = attempt.shown
  /\ UNCHANGED <<files, settings, disk, bundled, changed, installed, active, ghosts>>

Expected ==
  IF lp.op \in Degraded THEN LaunchSelection(bundled, TRUE, settings)
  ELSE IF lp.fb THEN IF attempt # None THEN LaunchSelection(attempt.sel, TRUE, settings)
                     ELSE IF view.fallback THEN view.selected ELSE None
  ELSE IF ~view.fallback THEN view.selected ELSE None

AppliesFallback == lp.fb /\ lp.op \notin Degraded

\* What confirmLaunch saves: the good backend, and a fallback as the new choice.
Confirming ==
  LET good == [settings EXCEPT !.good = lp.rt, !.was = bundled.ver] IN
  IF AppliesFallback THEN [good EXCEPT !.place = lp.rt.place, !.sharing = lp.rt.sharing] ELSE good

\* The confirmation is refused when the choice changed meanwhile.
Confirm ==
  /\ lp.pc = "confirm"
  /\ IF lp.rt # Expected THEN Ends("launch")
     ELSE proc' = [proc EXCEPT !["launch"] = [lp EXCEPT !.pc = "confirmed", !.cfg = Confirming]]
  /\ UNCHANGED <<files, choice, ghosts, count>>

Confirmed ==
  LET degraded == lp.op \in Degraded
      selected == IF degraded THEN view.selected ELSE lp.rt
  IN
  /\ lp.pc = "confirmed"
  /\ settings' = lp.cfg /\ disk' = lp.cfg
  /\ attempt' = IF AppliesFallback THEN None ELSE attempt
  /\ active' = lp.rt /\ changed' = FALSE
  /\ validated' = IF degraded THEN validated ELSE lp.rt
  /\ view' = [selected |-> selected, fallback |-> ~AppliesFallback /\ view.fallback,
              pending |-> degraded /\ lp.rt # selected]
  /\ acked' = IF AppliesFallback THEN lp.rt.place ELSE acked
  /\ Ends("launch")
  /\ UNCHANGED <<files, bundled, installed, ran, count>>

\* The settings cannot be written.
NotConfirmed ==
  /\ lp.pc = "confirmed" /\ lp.cfg # settings /\ Fault
  /\ Ends("launch")
  /\ UNCHANGED <<files, choice, ghosts>>

-----------------------------------------------------------------------------
(* The page actions; none starts while Codex is being restarted, or the catalogue *)
(* is refreshed                                                                   *)

up == proc["user"]
UserIdle == (\A a \in Actors : proc[a].pc = "idle") /\ Count("starts", MaxStarts)

Requested(place) ==
  [place |-> place, ver |-> IF place = Bundled THEN bundled.ver ELSE IF place = Custom THEN None ELSE place]

\* applySelection begins: the chosen backend is verified.
Select(place) ==
  /\ UserIdle
  /\ place \in Alphas => place \in installed
  /\ proc' = [proc EXCEPT !["user"] = [Idle EXCEPT !.pc = "verify", !.op = "select",
                                         !.sel = Requested(place), !.flag = settings.sharing]]
  /\ UNCHANGED <<files, choice, ghosts>>

\* installCodexRuntime: the new directory takes its place as a whole, after a probe;
\* then it is selected, and verified again only for sharing.
Install(v) ==
  /\ UserIdle /\ v \notin installed
  /\ \E with \in {{FALSE}, BOOLEAN} :
       /\ file' = [file EXCEPT ![v] = [ver |-> v, stamp |-> MaxFiles + count["starts"] + 1, answers |-> with]]
       /\ installed' = installed \cup {v}
  /\ proc' = [proc EXCEPT !["user"] = [Idle EXCEPT !.pc = "verify", !.op = "select",
                                         !.sel = Requested(v), !.flag = settings.sharing]]
  /\ UNCHANGED <<settings, disk, bundled, changed, validated, active, attempt, view, apart, ghosts>>

\* setMcpConnectionSharing: switching it on is verified with the backend in use.
Share(on) ==
  /\ UserIdle
  /\ on => ~view.fallback /\ validated.ver \in Sharing
  /\ proc' = [proc EXCEPT !["user"] =
       [Idle EXCEPT !.op = "share", !.flag = on, !.sel = validated,
          !.pc = IF on THEN "verify" ELSE "save",
          !.cfg = IF on THEN None ELSE [settings EXCEPT !.sharing = FALSE]]]
  /\ UNCHANGED <<files, choice, ghosts>>

UserVerified ==
  LET sel == up.sel
      ok  == Verified(sel.place, sel.ver, up.flag, FALSE)
  IN
  /\ up.pc = "verify"
  /\ proc' = [proc EXCEPT !["user"] =
       IF ~ok THEN Idle
       ELSE IF up.op = "share" THEN [up EXCEPT !.pc = "save", !.cfg = [settings EXCEPT !.sharing = TRUE]]
       ELSE [up EXCEPT !.pc = "save", !.sel = Checked(sel.place, sel.ver),
                       !.cfg = [settings EXCEPT !.place = sel.place]]]
  /\ UNCHANGED <<files, choice, ghosts, count>>

\* Broken on purpose: the selection counts as the good one before it ever ran.
SelectedAsGood ==
  LET selected == LaunchSelection(up.sel, FALSE, up.cfg) IN
  /\ up.pc = "save" /\ up.op = "select"
  /\ settings' = [up.cfg EXCEPT !.good = selected] /\ disk' = settings'
  /\ attempt' = None /\ validated' = up.sel /\ changed' = FALSE
  /\ view' = Shown(selected, FALSE)
  /\ acked' = up.sel.place
  /\ Ends("user")
  /\ UNCHANGED <<files, bundled, installed, active, ran, count>>

Selected ==
  LET selected == LaunchSelection(up.sel, FALSE, up.cfg) IN
  /\ up.pc = "save" /\ up.op = "select"
  /\ settings' = up.cfg /\ disk' = up.cfg
  /\ attempt' = None /\ validated' = up.sel /\ changed' = FALSE
  /\ view' = Shown(selected, FALSE)
  /\ acked' = up.sel.place
  /\ Ends("user")
  /\ UNCHANGED <<files, bundled, installed, active, ran, count>>

Shared ==
  /\ up.pc = "save" /\ up.op = "share"
  /\ settings' = up.cfg /\ disk' = up.cfg
  /\ view' = Shown(LaunchSelection(validated, view.fallback, up.cfg), view.fallback)
  /\ Ends("user")
  /\ UNCHANGED <<files, bundled, changed, installed, validated, active, attempt, ghosts, count>>

\* The settings cannot be written: the page shows the error.
NotSaved ==
  /\ up.pc = "save" /\ Fault
  /\ Ends("user")
  /\ UNCHANGED <<files, choice, ghosts>>

-----------------------------------------------------------------------------
(* Files change under the injector: an update of the desktop app, a custom build *)

\* The files of the first start.
Fresh == [ver |-> CHOOSE v \in Versions \ Sharing : TRUE, stamp |-> 0, answers |-> {FALSE}]

Replace(place) ==
  /\ Count("files", MaxFiles)
  /\ place \in Alphas => file[place] # None
  /\ \E ver \in IF place \in Alphas THEN {place} ELSE Versions \ {Fresh.ver}, answers \in {{}, BOOLEAN} :
       file' = [file EXCEPT ![place] = [ver |-> ver, stamp |-> count["files"] + 1, answers |-> answers]]
  /\ UNCHANGED <<choice, proc, apart, ghosts>>

Remove(place) ==
  /\ place # Bundled /\ file[place] # None /\ Count("files", MaxFiles)
  /\ file' = [file EXCEPT ![place] = None]
  /\ UNCHANGED <<choice, proc, apart, ghosts>>

-----------------------------------------------------------------------------
\* The first start of the injector; a custom build is there, and no alpha.
Init ==
  /\ file = [p \in Places |-> IF p \in Alphas THEN None ELSE Fresh]
  /\ disk = [place |-> Bundled, sharing |-> FALSE, was |-> None, good |-> None]
  /\ settings = disk /\ changed = FALSE /\ installed = Listed
  /\ bundled = Checked(Bundled, None) /\ validated = bundled
  /\ active = None /\ attempt = None
  /\ view = [selected |-> bundled, fallback |-> FALSE, pending |-> FALSE]
  /\ proc = [a \in Actors |-> Idle]
  /\ ran = {} /\ acked = Bundled /\ apart \in BOOLEAN
  /\ count = [w \in {"files", "starts", "faults"} |-> 0]

Launching(a) ==
  Fingerprint(a) \/ Reverified(a) \/ TryGood(a) \/ TryBundled(a) \/ Return(a)

Step ==
  \/ \E a \in {"launch", "catalog"} : Launching(a)
  \/ LaunchWorks \/ Prepare \/ Confirm \/ Confirmed
  \/ UserVerified \/ Selected \/ Shared

Environment ==
  \/ \E p \in Places : Replace(p) \/ Remove(p)
  \/ StartLaunch \/ RefreshCatalog \/ Restart
  \/ Degrade \/ LaunchNotReady \/ LaunchThrows \/ Cancel \/ NotConfirmed \/ NotSaved
  \/ \E p \in Places : Select(p)
  \/ \E v \in Alphas : Install(v)
  \/ \E on \in BOOLEAN : Share(on)

Next == Step \/ Environment

Spec == Init /\ [][Next]_vars

\* Every await ends; a start of Codex is given up after its time limit.
FairSpec == Spec /\ WF_vars(Step)

-----------------------------------------------------------------------------
Settings == [place : Places, sharing : BOOLEAN, was : Versions \cup {None}, good : Selection \cup {None}]

\* Every variable has its type.
TypeOK ==
  /\ file \in [Places -> File \cup {None}]
  /\ settings \in Settings /\ disk \in Settings
  /\ bundled \in Selection /\ validated \in Selection
  /\ active \in Selection \cup {None}
  /\ view \in [selected : Selection, fallback : BOOLEAN, pending : BOOLEAN]
  /\ installed \subseteq Alphas /\ changed \in BOOLEAN

\* The last known good backend, to which failures fall back and which the next start
\* of the injector believes, is one that Codex was really started with.
GoodWasRun == {settings.good, disk.good} \subseteq ran \cup {None}

\* Every launch ends, with or without a fallback.
LaunchEnds == lp.pc # "idle" ~> lp.pc = "idle"
=============================================================================
