---------------------------- MODULE RuntimeInstall ----------------------------
(***************************************************************************)
(* The installation of a managed Codex backend                             *)
(* (src/codex-runtime/install.mjs), and the cleaning of what an earlier    *)
(* one has put aside (refreshInstalled, manager.mjs).                      *)
(*                                                                         *)
(* A version has one directory.  What is downloaded is put together and    *)
(* tried in a staging directory, which takes the place of that one; what   *)
(* stood there is moved aside first, and back when the staging directory   *)
(* cannot be moved.  A backend is tried by starting its app-server in an   *)
(* empty home and waiting for the answer to initialize.                    *)
(*                                                                         *)
(* Installations of one injector run one after the other (installLatest);  *)
(* what is selected and run afterwards is CodexRuntime.                    *)
(***************************************************************************)
EXTENDS Naturals, SequencesExt

CONSTANTS
  MaxInstalls, \* bound: installations
  MaxTrouble   \* bound: failing calls, backends that do not answer in time, crashes

InstallConstants == MaxInstalls \in Nat /\ MaxTrouble \in Nat

VARIABLES
  pc,        \* where the installer is
  found,     \* the directory of the version as it was at first
  final,     \* ... and as it is: finalDirectory
  staging,   \* the staging directory
  aside,     \* the directories moved aside, "<version>.invalid-<time>"
  work,      \* the directory of the downloads is there
  replace,   \* replaceExisting
  at,        \* the entry of aside refreshInstalled is at
  probe,     \* the trial of a backend: where it is, its process and its home directory
  outcome,   \* of the last installation: "none", "reused", "installed" or "failed"
  left,      \* directories nobody will remove any more
  failed,    \* what went wrong during the installation
  installs, trouble  \* counters of the bounds

place  == <<found, final, staging, aside, work>>
bounds == <<failed, installs, trouble>>
vars   == <<pc, place, replace, at, probe, outcome, left, bounds>>

\* A directory, and what is in it: an executable may run and answer, or be there only.
Absent == [made |-> FALSE, codex |-> "none", host |-> "none", metadata |-> FALSE]
Empty  == [Absent EXCEPT !.made = TRUE]
Whole  == [made |-> TRUE, codex |-> "good", host |-> "good", metadata |-> TRUE]
Founds == {Absent, Whole} \cup {[Whole EXCEPT !.codex = "bad"], [Whole EXCEPT !.host = "none"],
                                [Whole EXCEPT !.host = "bad"], [Whole EXCEPT !.metadata = FALSE]}
Off == [pc |-> "off", child |-> "none", home |-> FALSE]

Init ==
  /\ pc = "list" /\ found \in Founds /\ final = found /\ staging = Absent /\ work = FALSE
  /\ aside \in {<<>>, <<[Whole EXCEPT !.host = "none"]>>}  \* of an earlier installation
  /\ replace = FALSE /\ at = 1 /\ probe = Off /\ outcome = "none" /\ left = {}
  /\ failed = 0 /\ installs = 0 /\ trouble = 0

Trouble == trouble < MaxTrouble /\ trouble' = trouble + 1 /\ failed' = failed + 1
Smooth == UNCHANGED <<failed, trouble>>

-----------------------------------------------------------------------------
(* The end of an installation *)

\* The finally removes the downloads and the staging directory; what it throws is what is reported.
Clean ==
  /\ pc \in {"clean", "undone"} /\ work' = FALSE /\ staging' = Absent
  /\ \/ outcome' = (IF pc = "clean" THEN "installed" ELSE "failed") /\ UNCHANGED left /\ Smooth
     \/ /\ Trouble /\ outcome' = "failed"
        /\ \E kept \in {{"work", "staging"}, {"staging"}} :
             left' = left \cup {d \in kept : IF d = "work" THEN work ELSE staging.made}
  /\ pc' = (IF outcome' = "installed" THEN "list" ELSE "idle") /\ at' = 1
  /\ UNCHANGED <<found, final, aside, replace, probe, installs>>
GivesUp == pc' = "undone"

-----------------------------------------------------------------------------
(* verifyCodexRuntime: in the version's directory before and after, in the staging directory between *)

Verifying == pc \in {"check", "verify", "tidy"}
Target == IF pc = "verify" THEN staging ELSE final
\* What is there does not do: it is installed anew, given up or kept.
Rejected ==
  /\ pc' = CASE pc = "check" -> "look" [] pc = "verify" -> "undone" [] pc = "tidy" -> "list"
  /\ at' = IF pc = "tidy" THEN at + 1 ELSE at
  /\ UNCHANGED <<place, replace, outcome>>
\* The backend has answered: the other executable and the metadata are looked at.
Accepted ==
  \/ /\ pc = "check" /\ final.host = "good" /\ final.metadata
     /\ pc' = "list" /\ at' = 1 /\ outcome' = "reused" /\ UNCHANGED <<place, replace>>
  \/ pc = "check" /\ ~(final.host = "good" /\ final.metadata) /\ Rejected
  \/ /\ pc = "verify" /\ staging' = [staging EXCEPT !.metadata = TRUE]
     /\ pc' = (IF replace THEN "aside" ELSE "swap")
     /\ UNCHANGED <<found, final, aside, work, replace, at, outcome>>
  \/ /\ pc = "tidy" /\ final.host = "good" /\ pc' = "list" /\ aside' = RemoveAt(aside, at)
     /\ UNCHANGED <<found, final, staging, work, replace, at, outcome>>
  \/ pc = "tidy" /\ final.host # "good" /\ Rejected

\* The executable is missing, does not tell its version, or tells another.
NotRunnable ==
  /\ Verifying /\ probe.pc = "off" /\ Rejected
  /\ \/ Target.codex # "good" /\ Smooth
     \/ Trouble
  /\ UNCHANGED <<probe, left, installs>>
\* probeCodexAppServer
Starts ==
  /\ Verifying /\ probe.pc = "off" /\ Target.codex # "none"
  /\ probe' = [pc |-> "hand", child |-> "running", home |-> TRUE]
  /\ UNCHANGED <<pc, place, replace, at, outcome, left, bounds>>
\* It has answered, and is given a while to go by itself.
Answers ==
  /\ probe.pc = "hand" /\ probe.child = "running" /\ Target.codex = "good"
  /\ probe' = [probe EXCEPT !.pc = "answered"]
  /\ UNCHANGED <<pc, place, replace, at, outcome, left, bounds>>
\* It answers with an error, or not in time, or has gone.
Refuses ==
  /\ probe.pc = "hand" /\ probe' = [probe EXCEPT !.pc = "refused"]
  /\ \/ (Target.codex = "bad" \/ probe.child = "closed") /\ Smooth
     \/ Target.codex = "good" /\ probe.child = "running" /\ Trouble
  /\ UNCHANGED <<pc, place, replace, at, outcome, left, installs>>
\* It goes: asked to, killed, or on its own.
Closes ==
  /\ probe.child = "running" /\ probe' = [probe EXCEPT !.child = "closed"]
  /\ \/ (probe.pc \in {"answered", "refused"} \/ Target.codex = "bad") /\ Smooth
     \/ probe.pc = "hand" /\ Target.codex = "good" /\ Trouble
  /\ UNCHANGED <<pc, place, replace, at, outcome, left, installs>>
\* Mutant of Tried: the backend is left as soon as it has answered.
TriedAtOnce ==
  /\ probe.pc \in {"answered", "refused"}
  /\ probe' = Off /\ (IF probe.pc = "answered" THEN Accepted ELSE Rejected)
  /\ left' = (IF probe.child = "running" THEN left \cup {"home"} ELSE left)
  /\ UNCHANGED bounds
\* Once it has closed its home is removed, or the trial fails on that or on what follows.
Tried ==
  /\ probe.pc \in {"answered", "refused"} /\ probe.child = "closed" /\ probe' = Off
  /\ \/ (IF probe.pc = "answered" THEN Accepted ELSE Rejected) /\ UNCHANGED left /\ Smooth
     \/ Rejected /\ left' \in {left, left \cup {"home"}} /\ Trouble
  /\ UNCHANGED installs
Verification == NotRunnable \/ Starts \/ Answers \/ Refuses \/ Closes \/ Tried

-----------------------------------------------------------------------------
(* installCodexRuntime *)

VerifyRest == UNCHANGED <<at, probe, left, installs>>
Begin ==
  /\ pc = "idle" /\ installs < MaxInstalls /\ installs' = installs + 1
  /\ pc' = "check" /\ failed' = 0 /\ outcome' = "none" /\ replace' = FALSE
  /\ UNCHANGED <<place, at, probe, left, trouble>>
\* Nothing will do: is there a directory?
Looks ==
  /\ pc = "look"
  /\ \/ replace' = final.made /\ pc' = "make" /\ UNCHANGED outcome /\ Smooth
     \/ Trouble /\ pc' = "idle" /\ outcome' = "failed" /\ UNCHANGED replace
  /\ UNCHANGED place /\ VerifyRest
Makes ==
  /\ pc = "make"
  /\ \/ staging' = Empty /\ pc' = "codex" /\ Smooth
     \/ Trouble /\ GivesUp /\ UNCHANGED staging
  /\ UNCHANGED <<found, final, aside, work, replace, outcome>> /\ VerifyRest
\* The download, of the size and the hash of the release, and what is unpacked and copied from it:
\* an executable of another architecture is turned away, one that does not run is not noticed yet.
Copied(part, what) == staging' = [staging EXCEPT ![part] = what]
Fetches(part, next) ==
  /\ pc = part /\ work' = TRUE
  /\ \/ Copied(part, "good") /\ pc' = next /\ Smooth
     \/ part = "codex" /\ Trouble /\ Copied(part, "bad") /\ pc' = next
     \/ Trouble /\ GivesUp /\ (UNCHANGED staging \/ Copied(part, "bad"))
  /\ UNCHANGED <<found, final, aside, replace, outcome>> /\ VerifyRest
\* Mutant of Fetched: what was put together is not tried.
FetchedOnly == Fetches("codex", "host") \/ Fetches("host", IF replace THEN "aside" ELSE "swap")
Fetched == Fetches("codex", "host") \/ Fetches("host", "verify")
\* The directory that will not do is moved aside ...
MovesAside ==
  /\ pc = "aside"
  /\ \/ aside' = Append(aside, final) /\ final' = Absent /\ pc' = "swap" /\ Smooth
     \/ Trouble /\ GivesUp /\ UNCHANGED <<aside, final>>
  /\ UNCHANGED <<found, staging, work, replace, outcome>> /\ VerifyRest
\* ... and the new one takes its place,
Swaps ==
  /\ pc = "swap"
  /\ \/ final' = staging /\ staging' = Absent /\ pc' = (IF replace THEN "drop" ELSE "clean") /\ Smooth
     \/ Trouble /\ pc' = (IF replace THEN "undo" ELSE "undone") /\ UNCHANGED <<final, staging>>
  /\ UNCHANGED <<found, aside, work, replace, outcome>> /\ VerifyRest
\* Mutant of Undoes: what was moved aside stays there.
UndoesNothing == pc = "undo" /\ GivesUp /\ UNCHANGED <<place, replace, outcome>> /\ Smooth /\ VerifyRest
\* or the old one comes back.
Undoes ==
  /\ pc = "undo" /\ GivesUp
  /\ \/ final' = Last(aside) /\ aside' = Front(aside) /\ Smooth
     \/ Trouble /\ UNCHANGED <<final, aside>>
  /\ UNCHANGED <<found, staging, work, replace, outcome>> /\ VerifyRest
Drops ==
  /\ pc = "drop" /\ pc' = "clean"
  /\ \/ aside' = Front(aside) /\ Smooth
     \/ Trouble /\ UNCHANGED aside
  /\ UNCHANGED <<found, final, staging, work, replace, outcome>> /\ VerifyRest

-----------------------------------------------------------------------------
(* refreshInstalled, at the start and after an installation *)

\* installed: by its files and its metadata, which are not tried.
Listed == final.codex # "none" /\ final.host # "none" /\ final.metadata
\* Mutant of Lists: what was moved aside is removed when the version is listed.
ListsOnly ==
  /\ pc = "list" /\ pc' = "idle" /\ aside' = (IF Listed THEN <<>> ELSE aside)
  /\ UNCHANGED <<found, final, staging, work, replace, at, probe, outcome, left, bounds>>
\* What was moved aside is removed once the version is listed and a trial of it succeeds.
Lists ==
  /\ pc = "list"
  /\ pc' = IF Listed /\ at <= Len(aside) THEN "tidy" ELSE "idle"
  /\ UNCHANGED <<place, replace, at, probe, outcome, left, bounds>>

\* The injector ends on the way, and starts again; the process that was tried goes with it.
Crash ==
  /\ pc # "idle" /\ Trouble /\ pc' = "list" /\ at' = 1 /\ probe' = Off /\ outcome' = "none"
  /\ left' = left \cup (IF probe.home THEN {"home"} ELSE {}) \cup (IF work THEN {"work"} ELSE {})
                  \cup (IF staging.made THEN {"staging"} ELSE {})
  /\ work' = FALSE /\ staging' = Absent /\ replace' = FALSE
  /\ UNCHANGED <<found, final, aside, installs>>

Install == Looks \/ Makes \/ Fetched \/ MovesAside \/ Swaps \/ Undoes \/ Drops \/ Clean \/ Lists
Next == Begin \/ Install \/ Verification \/ Crash
\* Every await ends: a backend answers, goes or is killed in time, and so does what is fetched.
Spec == Init /\ [][Next]_vars /\ WF_vars(Install \/ Verification)

-----------------------------------------------------------------------------
Directories == [made : BOOLEAN, codex : {"none", "good", "bad"}, host : {"none", "good", "bad"},
                metadata : BOOLEAN]
TypeOK ==
  /\ pc \in {"list", "tidy", "idle", "check", "look", "make", "codex", "host", "verify", "aside",
             "swap", "undo", "drop", "clean", "undone"}
  /\ found \in Directories /\ final \in Directories /\ staging \in Directories
  /\ aside \in Seq(Directories) /\ work \in BOOLEAN /\ replace \in BOOLEAN /\ at \in Nat \ {0}
  /\ probe \in [pc : {"off", "hand", "answered", "refused"}, child : {"none", "running", "closed"},
                home : BOOLEAN]
  /\ outcome \in {"none", "reused", "installed", "failed"} /\ left \subseteq {"work", "staging", "home"}
  /\ failed \in 0 .. MaxTrouble /\ installs \in 0 .. MaxInstalls /\ trouble \in 0 .. MaxTrouble

\* Wherever an installation fails or is cut short, the directory of the version holds what was found
\* there or a backend that is complete and was tried, never a part of one.
NeverInPart == final.made => final \in {found, Whole}
\* A version that was there is there still, at its place or aside, and it takes two failures of one
\* installation that ends to leave its place empty.
NothingIsLost ==
  /\ found.made => final.made \/ aside # <<>>
  /\ pc = "undone" /\ replace /\ ~final.made => failed >= 2
\* What is reported as installed is there, and a process that was tried has gone when its trial ends;
\* an installation nothing went wrong with leaves nothing behind.
ReportIsTrue ==
  /\ outcome \in {"reused", "installed"} => final = Whole
  /\ probe.pc = "off" => probe.child = "none" /\ ~probe.home
  /\ trouble = 0 => left = {} /\ (pc = "idle" => ~work /\ ~staging.made)
\* What was moved aside is removed only while a complete backend stands in its place.
RemovedOnlyWhenReplaced == [][Len(aside') < Len(aside) => final' \in {Whole, Last(aside)}]_vars

\* Every installation ends.
InstallEnds == pc # "idle" ~> pc = "idle"
===============================================================================
