------------------------------ MODULE ExtraModels ------------------------------
(***************************************************************************)
(* The models of other platforms, src/extra-model-manager.mjs: a DeepSeek  *)
(* preset, which always exists, and a platform of the user's.  Saves,      *)
(* removals and the reports of detections pass one chain of writes;        *)
(* detections, balance requests and launches of Codex run beside it.       *)
(*                                                                         *)
(* A platform is abstracted to its target, what the fingerprint of a       *)
(* detection is made of (address, key and model), and to whether it is     *)
(* enabled; both offer the same model id.  For the preset a target is a    *)
(* key.  A write is two steps: the checks and the new settings, then the   *)
(* atomic replacement of the file and what follows it.                     *)
(***************************************************************************)
EXTENDS Naturals, Sequences, FiniteSets

CONSTANTS
  Preset, Own,  \* the ids of the two platforms; Own is assigned at its first save
  Draft,        \* the empty id of a form not saved yet
  Keys,         \* targets of the preset
  Targets,      \* targets of the user's platform
  None,
  MaxSaves, MaxDetections, MaxBalances, MaxLaunches, MaxFaults  \* bounds

Ids == {Preset, Own}
Offered(i) == IF i = Preset THEN Keys \cup {None} ELSE Targets
Platforms == [target : Keys \cup Targets \cup {None}, enabled : BOOLEAN]
\* normalizePlatformInput: what is enabled has a key.
Forms(i) == {p \in [target : Offered(i), enabled : BOOLEAN] : p.enabled => p.target # None}

ExtraConstants ==
  /\ Preset # Own /\ Draft \notin Ids /\ None \notin Platforms
  /\ {MaxSaves, MaxDetections, MaxBalances, MaxLaunches, MaxFaults} \subseteq Nat

VARIABLES
  settings,    \* this.settings: generation, platforms and detectionReports
  disk,        \* extra-model-settings.json
  writes,      \* the chain of settingsWrite; its head runs
  next,        \* what the head is writing, None before its checks
  latest,      \* this.modelDetections: the newest request of each form
  detecting,   \* detections whose probe or report is under way
  balance,     \* value, generation and refreshing of the balance
  asked,       \* balance requests under way
  pendingRestart,
  written, running,  \* the generations in the runtime catalogue and in Codex; None while
                     \* no launch is under way
  acked,       \* ghost: what was last acknowledged about each platform
  apart,       \* in this behaviour no launch comes upon a save: no safe restart is asked for
  count        \* what the bounds count; one platform of the user's is made in a behaviour

vars == <<settings, disk, writes, next, latest, detecting, balance, asked, pendingRestart,
          written, running, acked, apart, count>>
stored == <<settings, disk, next, acked, pendingRestart>>
money == <<balance, asked>>

\* compatibilityTargetFingerprint: what a detection was made of is what a platform now holds.
SameTarget(a, b) == a.target = b.target
Report(d, platform) ==
  [platform |-> platform, target |-> d.target, request |-> d.request, form |-> d.form]

TypeOK ==
  /\ settings.platforms \in [Ids -> Platforms \cup {None}]
  /\ settings.platforms[Preset] # None
  /\ \A i \in Ids : settings.platforms[i] # None => settings.platforms[i].target \in Offered(i)
  /\ \A i \in Ids : Cardinality({r \in settings.reports : r.platform = i}) <= 1
  /\ latest \in [Ids \cup {Draft} -> 0 .. MaxDetections]
  /\ balance.value \in Keys \cup {None}
  /\ balance.refreshing = (\E q \in asked : q.generation = balance.generation)
  /\ next # None => writes # <<>>

Init ==
  /\ settings = [generation |-> 0, reports |-> {},
                 platforms |-> [i \in Ids |-> IF i = Own THEN None
                                ELSE [target |-> None, enabled |-> FALSE]]]
  /\ disk = settings /\ writes = <<>> /\ next = None
  /\ latest = [f \in Ids \cup {Draft} |-> 0] /\ detecting = {}
  /\ balance = [value |-> None, generation |-> 0, refreshing |-> FALSE] /\ asked = {}
  /\ pendingRestart = FALSE /\ written = None /\ running = 0
  /\ acked = settings.platforms /\ apart \in BOOLEAN
  /\ count = [saves |-> 0, drafts |-> 0, detections |-> 0, balances |-> 0, launches |-> 0, faults |-> 0]

Faulty == count.faults < MaxFaults /\ count' = [count EXCEPT !.faults = @ + 1]

(***************************************************************************)
(* The chain of writes.                                                    *)
(***************************************************************************)
\* The page saves a form or removes a platform; #withSettingsWrite queues it.  A form without an id
\* makes a platform with a new one.
Save ==
  /\ count.saves + count.drafts < MaxSaves
  /\ apart => written = None
  /\ \/ \E p \in Forms(Own) :
          /\ count.drafts = 0 /\ count' = [count EXCEPT !.drafts = 1]
          /\ writes' = Append(writes, [op |-> "save", form |-> Draft, as |-> p])
     \/ \E f \in {Preset, Own} : \E p \in Forms(f) :
          /\ count' = [count EXCEPT !.saves = @ + 1]
          /\ writes' = Append(writes, [op |-> "save", form |-> f, as |-> p])
     \/ /\ count' = [count EXCEPT !.saves = @ + 1]
        /\ writes' = Append(writes, [op |-> "remove", form |-> Own, as |-> None])
  /\ UNCHANGED <<stored, latest, detecting, money, written, running, apart>>

IdOf(w) == IF w.form = Draft THEN Own ELSE w.form

\* assertUniqueModelIds: another enabled platform offers the same model.
Conflicts(w) ==
  \E i \in Ids \ {IdOf(w)} : settings.platforms[i] # None /\ settings.platforms[i].enabled
\* The platform must exist, and no two enabled ones may offer the same model.
Refused(w) ==
  \/ w.op = "save" /\ w.form # Draft /\ settings.platforms[w.form] = None
  \/ w.op = "remove" /\ settings.platforms[w.form] = None
  \/ w.op = "save" /\ w.as.enabled /\ Conflicts(w)

\* #replaceSettings; a report of the draft becomes one of the platform it was saved as.
Replaced(w) ==
  [generation |-> settings.generation + 1,
   platforms |-> [settings.platforms EXCEPT ![IdOf(w)] = w.as],
   reports |-> {IF w.form = Draft /\ r.platform = Draft /\ SameTarget(r, w.as)
                  THEN [r EXCEPT !.platform = Own] ELSE r : r \in settings.reports}]

\* The report of a detection that is still the newest of its form.
Matching(d) ==
  IF d.form # Draft THEN d.form
  ELSE IF settings.platforms[Own] # None /\ SameTarget(settings.platforms[Own], d)
         THEN Own ELSE Draft
Reported(d) ==
  [settings EXCEPT !.reports = {r \in @ : r.platform # Matching(d)} \cup {Report(d, Matching(d))}]

Reports(w) == w.op = "report"
Superseded(w) == Reports(w) /\ latest[w.of.form] # w.of.request

\* Mutant: this.settings is assigned before the file is written.
BeginAtOnce ==
  /\ writes # <<>> /\ next = None
  /\ LET w == Head(writes) IN
     /\ ~Superseded(w)
     /\ \/ Reports(w) /\ next' = Reported(w.of)
        \/ ~Reports(w) /\ ~Refused(w) /\ next' = Replaced(w)
  /\ settings' = next'
  /\ UNCHANGED <<disk, writes, latest, detecting, money, pendingRestart, written, running,
                 acked, apart, count>>

Begin ==
  /\ writes # <<>> /\ next = None
  /\ LET w == Head(writes) IN
     /\ ~Superseded(w)
     /\ \/ Reports(w) /\ next' = Reported(w.of)
        \/ ~Reports(w) /\ ~Refused(w) /\ next' = Replaced(w)
  /\ UNCHANGED <<settings, disk, writes, latest, detecting, money, pendingRestart, written,
                 running, acked, apart, count>>

Ended(w) == detecting' = IF Reports(w) THEN detecting \ {w.of} ELSE detecting

\* Nothing is written: a refused save, or the report of an older detection.
Drop ==
  /\ writes # <<>> /\ next = None
  /\ LET w == Head(writes) IN
     /\ Superseded(w) \/ (~Reports(w) /\ Refused(w))
     /\ Ended(w)
  /\ writes' = Tail(writes)
  /\ UNCHANGED <<stored, latest, money, written, running, apart, count>>

Cleared == [value |-> None, generation |-> balance.generation + 1, refreshing |-> FALSE]

\* The file is replaced; a new key of the preset clears its balance.
Persist ==
  /\ next # None /\ next' = None /\ writes' = Tail(writes)
  /\ settings' = next /\ disk' = next
  /\ LET w == Head(writes) IN
     /\ Ended(w)
     /\ pendingRestart' = (pendingRestart \/ ~Reports(w))
     /\ acked' = IF Reports(w) THEN acked ELSE [acked EXCEPT ![IdOf(w)] = w.as]
  /\ balance' = IF next.platforms[Preset].target # settings.platforms[Preset].target
                  THEN Cleared ELSE balance
  /\ UNCHANGED <<latest, asked, written, running, apart, count>>

PersistFails ==
  /\ next # None /\ next' = None /\ Faulty /\ writes' = Tail(writes) /\ Ended(Head(writes))
  /\ UNCHANGED <<settings, disk, latest, money, pendingRestart, written, running, acked, apart>>

(***************************************************************************)
(* Detections: a later one of the same form replaces the earlier one.      *)
(***************************************************************************)
Detect ==
  /\ count.detections < MaxDetections
  /\ count' = [count EXCEPT !.detections = @ + 1]
  /\ \E f \in {Preset, Own, Draft} :
     \E t \in Offered(IF f = Preset THEN Preset ELSE Own) \ {None} :
       LET d == [form |-> f, target |-> t, request |-> count.detections + 1, probing |-> TRUE] IN
       /\ f = Own => settings.platforms[Own] # None
       /\ latest' = [latest EXCEPT ![f] = d.request]
       /\ detecting' = detecting \cup {d}
  /\ UNCHANGED <<stored, writes, money, written, running, apart>>

\* The probe passes or fails, and its report is queued.
Probed ==
  /\ \E d \in detecting :
       /\ d.probing
       /\ LET e == [d EXCEPT !.probing = FALSE] IN
          /\ detecting' = (detecting \ {d}) \cup {e}
          /\ writes' = Append(writes, [op |-> "report", of |-> e])
  /\ UNCHANGED <<stored, latest, money, written, running, apart, count>>

(***************************************************************************)
(* The balance of the preset: a newer request aborts the older one.        *)
(***************************************************************************)
RefreshBalance ==
  /\ count.balances < MaxBalances /\ count' = [count EXCEPT !.balances = @ + 1]
  /\ settings.platforms[Preset].target # None
  /\ balance' = [balance EXCEPT !.generation = @ + 1, !.refreshing = TRUE]
  /\ asked' = asked \cup {[generation |-> balance.generation + 1,
                           key |-> settings.platforms[Preset].target]}
  /\ UNCHANGED <<stored, writes, latest, detecting, written, running, apart>>

Answered(q) ==
  IF q.generation = balance.generation
    THEN [balance EXCEPT !.value = q.key, !.refreshing = FALSE] ELSE balance

\* An answer, late for an aborted request, or an error.
BalanceAnswer ==
  /\ \E q \in asked :
       /\ asked' = asked \ {q}
       /\ \/ balance' = Answered(q) /\ UNCHANGED count
          \/ /\ Faulty
             /\ balance' = IF q.generation = balance.generation
                             THEN [balance EXCEPT !.refreshing = FALSE] ELSE balance
  /\ UNCHANGED <<stored, writes, latest, detecting, written, running, apart>>

(***************************************************************************)
(* A launch of Codex writes the runtime catalogue, starts Codex, and marks *)
(* the restart.                                                            *)
(***************************************************************************)
WriteRuntimeCatalog ==
  /\ written = None /\ count.launches < MaxLaunches
  /\ count' = [count EXCEPT !.launches = @ + 1]
  /\ apart => writes = <<>>
  /\ written' = settings.generation
  /\ UNCHANGED <<stored, writes, latest, detecting, money, running, apart>>

MarkRestarted ==
  /\ written # None /\ written' = None
  /\ \/ running' = written /\ pendingRestart' = FALSE /\ UNCHANGED count
     \/ Faulty /\ UNCHANGED <<running, pendingRestart>>
  /\ UNCHANGED <<settings, disk, next, acked, writes, latest, detecting, money, apart>>

Next == Save \/ Begin \/ Drop \/ Persist \/ PersistFails \/ Detect \/ Probed
        \/ RefreshBalance \/ BalanceAnswer \/ WriteRuntimeCatalog \/ MarkRestarted
Spec == Init /\ [][Next]_vars

(***************************************************************************)
(* Properties.                                                             *)
(***************************************************************************)
\* No later write undoes an acknowledged save or removal, in memory or on disk: neither
\* the report of a detection that began before it, nor a write that fails.
SavedStands ==
  settings.platforms = acked /\ disk.platforms = acked

\* The balance shown was asked with the key that is saved, whatever answers come late.
BalanceIsOfSavedKey ==
  balance.value # None => balance.value = settings.platforms[Preset].target

\* A saved platform stands: no write under way undoes it, and no balance of another
\* key is shown beside it.
PlatformsStand == TypeOK /\ SavedStands /\ BalanceIsOfSavedKey
=============================================================================
