-------------------------- MODULE CodexRuntimeProofs --------------------------
(***************************************************************************)
(* The backends of Codex, for any files, versions, page actions, launches, *)
(* failures and restarts of the injector (CodexRuntime), and the           *)
(* installation of one, for any number of installations, failing calls,    *)
(* backends that do not answer and crashes (RuntimeInstall), as            *)
(* MCCodexRuntime composes them: what the injector may fall back to, what  *)
(* stands in the directory of a version, and what is reported of it.       *)
(***************************************************************************)
EXTENDS MCCodexRuntime, SequenceTheorems, TLAPS

Dirs == S!Directories
Complete(d) == d.codex = "good" /\ d.host = "good" /\ d.metadata

\* What is put together in the staging directory, by the step the installer is at
StagingFits ==
  /\ pc \in {"list", "tidy", "idle", "check", "look", "make"} => staging = S!Absent /\ ~work
  /\ pc \in {"codex", "host", "verify"} => staging.made /\ ~staging.metadata
  /\ pc = "verify" => staging.host = "good"
  /\ pc \in {"aside", "swap", "undo"} => staging = S!Whole
\* The directory that is replaced stands in its place until it is moved aside, as the last one there,
\* and it takes a failure to need it again and a second one to lose its place.
LastAside == aside # <<>> /\ aside[Len(aside)].made /\ aside[Len(aside)] \in {found, S!Whole}
ReplacingFits ==
  /\ pc \in {"make", "codex", "host", "verify", "aside"} /\ replace => final.made
  /\ pc = "swap" /\ replace => LastAside /\ final = S!Absent
  /\ pc = "undo" => LastAside /\ final = S!Absent /\ failed >= 1
  /\ pc = "undone" /\ replace /\ ~final.made => failed >= 2
  /\ pc = "drop" => aside # <<>>
  /\ pc \in {"drop", "clean"} => final = S!Whole
  /\ pc = "tidy" => at <= Len(aside) /\ final.codex # "none" /\ final.host # "none" /\ final.metadata
\* A trial goes on only in a directory that is verified, and one that answered runs.
ProbeFits ==
  /\ probe.pc = "off" => probe = S!Off
  /\ probe.pc # "off" => S!Verifying /\ probe.home
  /\ probe.pc = "answered" => S!Target.codex = "good"
OutcomeFits ==
  /\ outcome \in {"reused", "installed"} => final = S!Whole
  /\ pc \notin {"list", "tidy", "idle"} => outcome = "none"
  /\ trouble = 0 => left = {}
  /\ failed <= trouble
Standing ==
  /\ found \in S!Founds /\ final \in {found, S!Whole, S!Absent}
  /\ found.made => final.made \/ aside # <<>>
InstallInv == S!TypeOK /\ Standing /\ StagingFits /\ ReplacingFits /\ ProbeFits /\ OutcomeFits

-----------------------------------------------------------------------------
(* Directories *)

LEMMA Shapes ==
  /\ S!Absent \in Dirs /\ ~S!Absent.made /\ S!Absent.codex = "none" /\ S!Absent.host = "none" /\ ~S!Absent.metadata
  /\ S!Empty \in Dirs /\ S!Empty.made /\ ~S!Empty.metadata
  /\ S!Whole \in Dirs /\ S!Whole.made /\ Complete(S!Whole)
<1>1. S!Absent \in Dirs /\ ~S!Absent.made /\ S!Absent.codex = "none" /\ S!Absent.host = "none" /\ ~S!Absent.metadata
  BY DEF S!Absent, Dirs, S!Directories
<1>2. S!Whole \in Dirs /\ S!Whole.made /\ Complete(S!Whole)
  BY DEF S!Whole, Dirs, S!Directories, Complete
<1>3. S!Empty \in Dirs /\ S!Empty.made /\ ~S!Empty.metadata
  <2>. HIDE DEF S!Absent
  <2>. QED
    BY <1>1 DEF S!Empty, Dirs, S!Directories
<1>. QED
  BY <1>1, <1>2, <1>3

\* A directory with all a backend has is a whole one.
LEMMA WholeByParts ==
  ASSUME NEW d \in Dirs, d.made, Complete(d) PROVE d = S!Whole
BY DEF Dirs, S!Directories, Complete, S!Whole

LEMMA SetPart ==
  ASSUME NEW d \in Dirs, NEW what \in {"good", "bad"}
  PROVE  /\ [d EXCEPT !.codex = what] \in Dirs /\ [d EXCEPT !.codex = what].made = d.made
         /\ [d EXCEPT !.codex = what].metadata = d.metadata
         /\ [d EXCEPT !.host = what] \in Dirs /\ [d EXCEPT !.host = what].made = d.made
         /\ [d EXCEPT !.host = what].metadata = d.metadata /\ [d EXCEPT !.host = what].host = what
BY DEF Dirs, S!Directories

\* What may have been found is a directory of its own or nothing, and whole once all parts do.
LEMMA FoundShapes ==
  ASSUME NEW d \in S!Founds PROVE d \in Dirs /\ (d.made \/ d = S!Absent)
<1> DEFINE w == S!Whole
<1>1. w \in Dirs /\ w.made
  BY Shapes
<1>2. /\ [w EXCEPT !.codex = "bad"] \in Dirs /\ [w EXCEPT !.codex = "bad"].made
      /\ [w EXCEPT !.host = "none"] \in Dirs /\ [w EXCEPT !.host = "none"].made
      /\ [w EXCEPT !.host = "bad"] \in Dirs /\ [w EXCEPT !.host = "bad"].made
      /\ [w EXCEPT !.metadata = FALSE] \in Dirs /\ [w EXCEPT !.metadata = FALSE].made
  <2>. HIDE DEF w
  <2>. QED
    BY <1>1 DEF Dirs, S!Directories
<1>3. d \in {S!Absent, w, [w EXCEPT !.codex = "bad"], [w EXCEPT !.host = "none"], [w EXCEPT !.host = "bad"],
             [w EXCEPT !.metadata = FALSE]}
  <2>. HIDE DEF S!Whole, S!Absent
  <2>. QED
    BY DEF S!Founds
<1>. HIDE DEF w
<1>. QED
  BY <1>1, <1>2, <1>3, Shapes

\* The directories moved aside, with one more or without the last or another one
LEMMA AsideParts ==
  ASSUME NEW ds \in Seq(Dirs), ds # <<>>, NEW i \in 1 .. Len(ds)
  PROVE  /\ S!Front(ds) \in Seq(Dirs) /\ S!Last(ds) = ds[Len(ds)] /\ S!RemoveAt(ds, i) \in Seq(Dirs)
         /\ Len(ds) \in Nat /\ Len(ds) >= 1
<1>1. Len(ds) \in Nat /\ Len(ds) >= 1
  OBVIOUS
<1>2. S!Front(ds) \in Seq(Dirs)
  BY <1>1, SubSeqProperties DEF S!Front
<1>3. SubSeq(ds, 1, i - 1) \in Seq(Dirs) /\ SubSeq(ds, i + 1, Len(ds)) \in Seq(Dirs)
  BY <1>1, SubSeqProperties
<1>. QED
  BY <1>1, <1>2, <1>3, ConcatProperties DEF S!Last, S!RemoveAt

LEMMA InstallTypes ==
  ASSUME InstallInv
  PROVE  /\ final \in Dirs /\ staging \in Dirs /\ found \in Dirs /\ aside \in Seq(Dirs)
         /\ (final.made \/ final = S!Absent) /\ (found.made \/ found = S!Absent)
         /\ final.made \in BOOLEAN /\ Len(aside) \in Nat /\ at \in Nat \ {0} /\ failed \in Nat /\ trouble \in Nat
         /\ MaxTrouble \in Nat
<1>1. InstallInv => S!TypeOK /\ Standing
  BY DEF InstallInv
<1>2. final \in Dirs /\ staging \in Dirs /\ found \in Dirs /\ aside \in Seq(Dirs)
  BY <1>1 DEF S!TypeOK, Dirs
<1>3. (found.made \/ found = S!Absent) /\ (final.made \/ final = S!Absent)
  BY <1>1, FoundShapes, Shapes DEF Standing
<1>4. final.made \in BOOLEAN
  BY <1>2 DEF Dirs, S!Directories
<1>. QED
  BY <1>1, <1>2, <1>3, <1>4, InstallAssumption DEF S!TypeOK, S!InstallConstants

-----------------------------------------------------------------------------
(* The steps of an installation *)

LEMMA Counting ==
  ASSUME InstallInv, S!Trouble \/ S!Smooth
  PROVE  /\ failed' \in 0 .. MaxTrouble /\ trouble' \in 0 .. MaxTrouble /\ failed' <= trouble' /\ failed' >= failed
         /\ trouble' = 0 => trouble = 0 /\ S!Smooth
         /\ S!Trouble => failed' = failed + 1
<1>1. failed \in 0 .. MaxTrouble /\ trouble \in 0 .. MaxTrouble /\ failed <= trouble /\ MaxTrouble \in Nat
  BY InstallTypes DEF InstallInv, S!TypeOK, OutcomeFits
<1>. QED
  BY <1>1 DEF S!Trouble, S!Smooth

LEMMA NoTrial ==
  ASSUME InstallInv, ~S!Verifying PROVE probe = S!Off /\ probe.pc = "off"
<1>1. probe.pc = "off"
  BY DEF InstallInv, ProbeFits
<1>. QED
  BY <1>1 DEF InstallInv, ProbeFits

LEMMA BeginKeeps ==
  ASSUME InstallInv, S!Begin PROVE InstallInv'
<1>t. S!TypeOK /\ Standing /\ StagingFits /\ ReplacingFits /\ ProbeFits /\ OutcomeFits
  BY DEF InstallInv
<1>1. /\ pc = "idle" /\ pc' = "check" /\ failed' = 0 /\ outcome' = "none" /\ replace' = FALSE
      /\ UNCHANGED <<found, final, staging, aside, work, at, probe, left, trouble>>
      /\ installs < MaxInstalls /\ installs' = installs + 1
  BY DEF S!Begin, S!place
<1>2. probe = S!Off /\ probe.pc = "off"
  BY <1>1, NoTrial DEF S!Verifying
<1>3. S!TypeOK'
  <2>1. failed' \in 0 .. MaxTrouble /\ installs' \in 0 .. MaxInstalls
    BY <1>1, <1>t, InstallAssumption DEF S!TypeOK, S!InstallConstants
  <2>. QED
    BY <1>1, <1>t, <2>1 DEF S!TypeOK
<1>. QED
  BY <1>1, <1>2, <1>3, <1>t, InstallTypes
     DEF InstallInv, Standing, StagingFits, ReplacingFits, ProbeFits, OutcomeFits, LastAside, S!Verifying, S!Target

\* What is looked for, made and fetched
LEMMA FetchingKeeps ==
  ASSUME InstallInv, S!Looks \/ S!Makes \/ S!Fetched PROVE InstallInv'
<1>t. S!TypeOK /\ Standing /\ StagingFits /\ ReplacingFits /\ ProbeFits /\ OutcomeFits
  BY DEF InstallInv
<1>1. /\ pc \in {"look", "make", "codex", "host"} /\ UNCHANGED <<found, final, aside, at, probe, left, installs>>
      /\ S!Trouble \/ S!Smooth
  BY DEF S!Looks, S!Makes, S!Fetched, S!Fetches, S!place, S!VerifyRest
<1>2. probe = S!Off /\ probe.pc = "off"
  BY <1>1, NoTrial DEF S!Verifying
<1>3. /\ failed' \in 0 .. MaxTrouble /\ trouble' \in 0 .. MaxTrouble /\ failed' <= trouble'
      /\ trouble' = 0 => trouble = 0
  BY <1>1, Counting
<1>4. Standing' /\ ProbeFits'
  BY <1>1, <1>2, <1>t DEF Standing, ProbeFits
<1>5. CASE S!Looks
  <2>1. /\ pc = "look" /\ UNCHANGED <<staging, work>> /\ outcome = "none" /\ staging = S!Absent /\ ~work
        /\ \/ replace' = final.made /\ pc' = "make" /\ UNCHANGED outcome
           \/ pc' = "idle" /\ outcome' = "failed" /\ UNCHANGED replace
    BY <1>5, <1>t DEF S!Looks, S!place, OutcomeFits, StagingFits
  <2>2. S!TypeOK'
    BY <1>1, <1>3, <2>1, <1>t, InstallTypes DEF S!TypeOK
  <2>3. StagingFits' /\ ReplacingFits' /\ OutcomeFits'
    BY <1>1, <1>3, <2>1, <1>t DEF StagingFits, ReplacingFits, OutcomeFits
  <2>. QED
    BY <1>4, <2>2, <2>3 DEF InstallInv
<1>6. CASE S!Makes
  <2>1. /\ pc = "make" /\ UNCHANGED <<work, replace, outcome>> /\ outcome = "none" /\ (replace => final.made)
        /\ \/ staging' = S!Empty /\ pc' = "codex"
           \/ pc' = "undone" /\ UNCHANGED staging
    BY <1>6, <1>t DEF S!Makes, S!GivesUp, OutcomeFits, ReplacingFits
  <2>2. staging' \in Dirs
    BY <2>1, InstallTypes, Shapes
  <2>3. S!TypeOK'
    BY <1>1, <1>3, <2>1, <2>2, <1>t DEF S!TypeOK, Dirs
  <2>4. StagingFits' /\ ReplacingFits' /\ OutcomeFits'
    BY <1>1, <1>3, <2>1, <1>t, Shapes DEF StagingFits, ReplacingFits, OutcomeFits
  <2>. QED
    BY <1>4, <2>3, <2>4 DEF InstallInv
<1>7. CASE S!Fetched
  <2>1. PICK part_ \in {"codex", "host"}, what \in {"good", "bad"} :
          /\ pc = part_ /\ work' = TRUE /\ UNCHANGED <<replace, outcome>>
          /\ \/ staging' = [staging EXCEPT ![part_] = what] /\ pc' = "undone"
             \/ staging' = staging /\ pc' = "undone"
             \/ staging' = [staging EXCEPT ![part_] = what] /\ (what = "good" \/ part_ = "codex")
                /\ pc' = (IF part_ = "codex" THEN "host" ELSE "verify")
    BY <1>7 DEF S!Fetched, S!Fetches, S!Copied, S!GivesUp
  <2>2. /\ outcome = "none" /\ (replace => final.made) /\ staging.made /\ ~staging.metadata /\ staging \in Dirs
    BY <1>1, <2>1, <1>t, InstallTypes DEF OutcomeFits, ReplacingFits, StagingFits
  <2>3. /\ staging' \in Dirs /\ staging'.made /\ ~staging'.metadata
        /\ pc' = "verify" => staging'.host = "good"
    <3>1. CASE staging' = staging /\ pc' = "undone"
      BY <2>2, <3>1
    <3>2. CASE staging' = [staging EXCEPT !.codex = what] /\ pc' # "verify"
      BY <2>2, <3>2, SetPart
    <3>3. CASE staging' = [staging EXCEPT !.host = what] /\ (pc' = "undone" \/ what = "good")
      <4>1. /\ [staging EXCEPT !.host = what] \in Dirs /\ [staging EXCEPT !.host = what].made = staging.made
            /\ [staging EXCEPT !.host = what].metadata = staging.metadata /\ [staging EXCEPT !.host = what].host = what
        BY <2>2, SetPart
      <4>. QED
        BY <2>2, <3>3, <4>1
    <3>. QED
      BY <2>1, <3>1, <3>2, <3>3
  <2>4. S!TypeOK'
    BY <1>1, <1>3, <2>1, <2>3, <1>t DEF S!TypeOK, Dirs
  <2>5. StagingFits' /\ ReplacingFits' /\ OutcomeFits'
    BY <1>1, <1>3, <2>1, <2>2, <2>3, <1>t DEF StagingFits, ReplacingFits, OutcomeFits
  <2>. QED
    BY <1>4, <2>4, <2>5 DEF InstallInv
<1>. QED
  BY <1>5, <1>6, <1>7

\* What stood there is moved aside, the new directory takes its place, or the old one comes back.
LEMMA SwappingKeeps ==
  ASSUME InstallInv, S!MovesAside \/ S!Swaps \/ S!Undoes \/ S!Drops PROVE InstallInv'
<1>t. S!TypeOK /\ Standing /\ StagingFits /\ ReplacingFits /\ ProbeFits /\ OutcomeFits
  BY DEF InstallInv
<1>1. /\ pc \in {"aside", "swap", "undo", "drop"} /\ UNCHANGED <<found, work, replace, outcome, at, probe, left, installs>>
      /\ S!Trouble \/ S!Smooth
  BY DEF S!MovesAside, S!Swaps, S!Undoes, S!Drops, S!VerifyRest
<1>2. probe = S!Off /\ probe.pc = "off" /\ outcome = "none"
  BY <1>1, <1>t, NoTrial DEF S!Verifying, OutcomeFits
<1>3. /\ failed' \in 0 .. MaxTrouble /\ trouble' \in 0 .. MaxTrouble /\ failed' <= trouble' /\ failed' >= failed
      /\ trouble' = 0 => trouble = 0
      /\ S!Trouble => failed' = failed + 1
  BY <1>1, Counting
<1>4. ProbeFits' /\ OutcomeFits'
  BY <1>1, <1>2, <1>3, <1>t DEF ProbeFits, OutcomeFits
<1>d. /\ final \in Dirs /\ staging \in Dirs /\ aside \in Seq(Dirs) /\ (found.made \/ found = S!Absent)
      /\ Len(aside) \in Nat /\ failed \in Nat
  BY InstallTypes
<1>5. CASE S!MovesAside
  <2>1. /\ pc = "aside" /\ UNCHANGED staging
        /\ \/ aside' = Append(aside, final) /\ final' = S!Absent /\ pc' = "swap"
           \/ pc' = "undone" /\ UNCHANGED <<aside, final>>
    BY <1>5 DEF S!MovesAside, S!GivesUp
  <2>2. CASE pc' = "undone" /\ UNCHANGED <<aside, final>>
    <3>1. S!TypeOK'
      BY <1>1, <1>3, <2>1, <2>2, <1>t DEF S!TypeOK
    <3>2. Standing' /\ StagingFits' /\ ReplacingFits'
      BY <1>1, <2>1, <2>2, <1>t DEF Standing, StagingFits, ReplacingFits
    <3>. QED
      BY <3>1, <3>2, <1>4 DEF InstallInv
  <2>3. CASE aside' = Append(aside, final) /\ final' = S!Absent /\ pc' = "swap"
    <3>1. /\ aside' \in Seq(Dirs) /\ aside' # <<>> /\ Len(aside') = Len(aside) + 1 /\ aside'[Len(aside')] = final
      BY <2>3, <1>d
    <3>2. S!TypeOK'
      BY <1>1, <1>3, <2>1, <2>3, <3>1, <1>t, Shapes DEF S!TypeOK, Dirs
    <3>3. replace => final.made /\ final \in {found, S!Whole}
      BY <2>1, <1>t, Shapes DEF ReplacingFits, Standing
    <3>4. Standing' /\ StagingFits'
      BY <1>1, <2>1, <2>3, <3>1, <1>t DEF Standing, StagingFits
    <3>5. ReplacingFits'
      BY <1>1, <2>3, <3>1, <3>3 DEF ReplacingFits, LastAside
    <3>. QED
      BY <3>2, <3>4, <3>5, <1>4 DEF InstallInv
  <2>. QED
    BY <2>1, <2>2, <2>3
<1>6. CASE S!Swaps
  <2>1. /\ pc = "swap" /\ UNCHANGED aside /\ staging = S!Whole /\ (replace => LastAside /\ final = S!Absent)
        /\ \/ final' = staging /\ staging' = S!Absent /\ pc' = IF replace THEN "drop" ELSE "clean"
           \/ S!Trouble /\ pc' = (IF replace THEN "undo" ELSE "undone") /\ UNCHANGED <<final, staging>>
    BY <1>6, <1>t DEF S!Swaps, StagingFits, ReplacingFits
  <2>2. CASE final' = staging /\ staging' = S!Absent /\ pc' = IF replace THEN "drop" ELSE "clean"
    <3>1. S!TypeOK'
      BY <1>1, <1>3, <1>d, <2>1, <2>2, <1>t, Shapes DEF S!TypeOK, Dirs
    <3>2. Standing' /\ StagingFits'
      BY <1>1, <2>1, <2>2, <1>t, Shapes DEF Standing, StagingFits
    <3>3. ReplacingFits'
      BY <1>1, <2>1, <2>2 DEF ReplacingFits, LastAside
    <3>. QED
      BY <3>1, <3>2, <3>3, <1>4 DEF InstallInv
  <2>3. CASE S!Trouble /\ pc' = (IF replace THEN "undo" ELSE "undone") /\ UNCHANGED <<final, staging>>
    <3>1. S!TypeOK'
      BY <1>1, <1>3, <2>1, <2>3, <1>t DEF S!TypeOK
    <3>2. Standing' /\ StagingFits'
      BY <1>1, <2>1, <2>3, <1>t DEF Standing, StagingFits
    <3>3. failed' >= 1
      BY <1>3, <1>d, <2>3
    <3>4. ReplacingFits'
      BY <1>1, <2>1, <2>3, <3>3 DEF ReplacingFits, LastAside
    <3>. QED
      BY <3>1, <3>2, <3>4, <1>4 DEF InstallInv
  <2>. QED
    BY <2>1, <2>2, <2>3
<1>7. CASE S!Undoes
  <2>1. /\ pc = "undo" /\ pc' = "undone" /\ UNCHANGED staging /\ LastAside /\ final = S!Absent /\ failed >= 1
        /\ \/ final' = S!Last(aside) /\ aside' = S!Front(aside)
           \/ S!Trouble /\ UNCHANGED <<final, aside>>
    BY <1>7, <1>t DEF S!Undoes, S!GivesUp, ReplacingFits
  <2>2. S!Last(aside) = aside[Len(aside)] /\ S!Front(aside) \in Seq(Dirs)
    BY <1>d, <2>1, AsideParts DEF LastAside
  <2>3. CASE final' = S!Last(aside) /\ aside' = S!Front(aside)
    <3>1. final' \in {found, S!Whole} /\ final'.made
      BY <2>1, <2>2, <2>3 DEF LastAside
    <3>2. S!TypeOK'
      BY <1>1, <1>3, <1>d, <2>1, <2>2, <2>3, <3>1, <1>t, Shapes, InstallTypes DEF S!TypeOK, Dirs
    <3>3. Standing' /\ StagingFits' /\ ReplacingFits'
      BY <1>1, <2>1, <3>1, <1>t DEF Standing, StagingFits, ReplacingFits
    <3>. QED
      BY <3>2, <3>3, <1>4 DEF InstallInv
  <2>4. CASE S!Trouble /\ UNCHANGED <<final, aside>>
    <3>1. failed' >= 2
      BY <1>3, <1>d, <2>1, <2>4
    <3>2. S!TypeOK'
      BY <1>1, <1>3, <2>1, <2>4, <1>t DEF S!TypeOK
    <3>3. Standing' /\ StagingFits' /\ ReplacingFits'
      BY <1>1, <2>1, <2>4, <3>1, <1>t DEF Standing, StagingFits, ReplacingFits
    <3>. QED
      BY <3>2, <3>3, <1>4 DEF InstallInv
  <2>. QED
    BY <2>1, <2>3, <2>4
<1>8. CASE S!Drops
  <2>1. /\ pc = "drop" /\ pc' = "clean" /\ UNCHANGED <<final, staging>> /\ final = S!Whole /\ aside # <<>>
        /\ aside' = S!Front(aside) \/ aside' = aside
    BY <1>8, <1>t DEF S!Drops, ReplacingFits
  <2>2. aside' \in Seq(Dirs)
    BY <1>d, <2>1, AsideParts
  <2>3. S!TypeOK'
    BY <1>1, <1>3, <2>1, <2>2, <1>t DEF S!TypeOK, Dirs
  <2>4. Standing' /\ StagingFits' /\ ReplacingFits'
    BY <1>1, <2>1, <1>t, Shapes DEF Standing, StagingFits, ReplacingFits
  <2>. QED
    BY <2>3, <2>4, <1>4 DEF InstallInv
<1>. QED
  BY <1>5, <1>6, <1>7, <1>8

\* The end of an installation and the listing after it, or a crash anywhere
LEMMA EndingKeeps ==
  ASSUME InstallInv, S!Clean \/ S!Lists \/ S!Crash PROVE InstallInv'
<1>t. S!TypeOK /\ Standing /\ StagingFits /\ ReplacingFits /\ ProbeFits /\ OutcomeFits
  BY DEF InstallInv
<1>1. UNCHANGED <<found, final, aside, installs>> /\ Standing'
  BY <1>t DEF S!Clean, S!Lists, S!Crash, S!place, S!bounds, Standing
<1>d. aside \in Seq(Dirs) /\ Len(aside) \in Nat
  BY InstallTypes
<1>2. CASE S!Clean
  <2>1. /\ pc \in {"clean", "undone"} /\ work' = FALSE /\ staging' = S!Absent /\ UNCHANGED <<replace, probe>> /\ at' = 1
        /\ pc' = IF outcome' = "installed" THEN "list" ELSE "idle"
        /\ \/ outcome' = (IF pc = "clean" THEN "installed" ELSE "failed") /\ UNCHANGED left /\ S!Smooth
           \/ /\ S!Trouble /\ outcome' = "failed"
              /\ \E kept \in {{"work", "staging"}, {"staging"}} :
                   left' = left \cup {d \in kept : IF d = "work" THEN work ELSE staging.made}
    BY <1>2 DEF S!Clean
  <2>2. /\ failed' \in 0 .. MaxTrouble /\ trouble' \in 0 .. MaxTrouble /\ failed' <= trouble'
        /\ trouble' = 0 => trouble = 0 /\ S!Smooth
    BY <2>1, Counting
  <2>3. probe = S!Off /\ probe.pc = "off"
    BY <2>1, NoTrial DEF S!Verifying
  <2>4. left' \subseteq {"work", "staging", "home"} /\ (trouble' = 0 => left' = {})
    <3>1. CASE UNCHANGED left
      BY <2>2, <3>1, <1>t DEF S!TypeOK, OutcomeFits
    <3>2. CASE S!Trouble
      <4>1. trouble' # 0
        BY <3>2, InstallTypes DEF S!Trouble
      <4>2. left' \subseteq {"work", "staging", "home"}
        BY <2>1, <1>t DEF S!TypeOK
      <4>. QED
        BY <4>1, <4>2
    <3>. QED
      BY <2>1, <3>1, <3>2
  <2>5. outcome' \in {"installed", "failed"} /\ (outcome' = "installed" => final = S!Whole)
    BY <2>1, <1>t DEF ReplacingFits
  <2>k. at' \in Nat \ {0} /\ staging' \in Dirs /\ work' \in BOOLEAN
    <3>1. at' = 1 /\ staging' = S!Absent /\ work' = FALSE
      BY <2>1
    <3>2. at' \in Nat \ {0}
      BY <3>1
    <3>. QED
      BY <3>1, <3>2, Shapes
  <2>o. outcome' \in {"none", "reused", "installed", "failed"} /\ pc' \in {"list", "idle"}
    BY <2>1, <2>5
  <2>6. S!TypeOK'
    <3>1. /\ pc' \in {"list", "tidy", "idle", "check", "look", "make", "codex", "host", "verify", "aside",
                      "swap", "undo", "drop", "clean", "undone"}
      BY <2>o
    <3>2. found' \in Dirs /\ final' \in Dirs /\ aside' \in Seq(Dirs) /\ replace' \in BOOLEAN /\ installs' \in 0 .. MaxInstalls
      BY <1>1, <2>1, <1>t DEF S!TypeOK, Dirs
    <3>3. probe' \in [pc : {"off", "hand", "answered", "refused"}, child : {"none", "running", "closed"},
                      home : BOOLEAN]
      BY <2>1, <1>t DEF S!TypeOK
    <3>. QED
      BY <3>1, <3>2, <3>3, <2>k, <2>o, <2>2, <2>4 DEF S!TypeOK, Dirs
  <2>7. StagingFits' /\ ReplacingFits' /\ ProbeFits' /\ OutcomeFits'
    BY <1>1, <2>1, <2>2, <2>3, <2>4, <2>5 DEF StagingFits, ReplacingFits, ProbeFits, OutcomeFits
  <2>. QED
    BY <1>1, <2>6, <2>7 DEF InstallInv
<1>3. CASE S!Lists
  <2>1. /\ pc = "list" /\ UNCHANGED <<staging, work, replace, at, probe, outcome, left, failed, trouble>>
        /\ pc' = IF S!Listed /\ at <= Len(aside) THEN "tidy" ELSE "idle"
    BY <1>3 DEF S!Lists, S!place, S!bounds
  <2>2. probe = S!Off /\ probe.pc = "off"
    BY <2>1, NoTrial DEF S!Verifying
  <2>3. S!TypeOK'
    BY <1>1, <2>1, <1>t DEF S!TypeOK
  <2>4. StagingFits' /\ ReplacingFits' /\ ProbeFits' /\ OutcomeFits'
    BY <1>1, <2>1, <2>2, <1>t DEF StagingFits, ReplacingFits, ProbeFits, OutcomeFits, S!Listed
  <2>. QED
    BY <1>1, <2>3, <2>4 DEF InstallInv
<1>4. CASE S!Crash
  <2>1. /\ S!Trouble /\ pc' = "list" /\ at' = 1 /\ probe' = S!Off /\ outcome' = "none" /\ work' = FALSE
        /\ staging' = S!Absent /\ replace' = FALSE
        /\ left' = left \cup (IF probe.home THEN {"home"} ELSE {}) \cup (IF work THEN {"work"} ELSE {})
                        \cup (IF staging.made THEN {"staging"} ELSE {})
    BY <1>4 DEF S!Crash
  <2>2. failed' \in 0 .. MaxTrouble /\ trouble' \in 0 .. MaxTrouble /\ failed' <= trouble'
    BY <2>1, Counting
  <2>3. trouble' # 0
    BY <2>1, InstallTypes DEF S!Trouble
  <2>4. left' \subseteq {"work", "staging", "home"}
    BY <2>1, <1>t DEF S!TypeOK
  <2>5. S!Off \in [pc : {"off", "hand", "answered", "refused"}, child : {"none", "running", "closed"}, home : BOOLEAN]
        /\ S!Off.pc = "off"
    BY DEF S!Off
  <2>k. at' \in Nat \ {0} /\ staging' \in Dirs /\ work' \in BOOLEAN /\ replace' \in BOOLEAN
    <3>1. at' = 1 /\ staging' = S!Absent /\ work' = FALSE /\ replace' = FALSE
      BY <2>1
    <3>2. at' \in Nat \ {0}
      BY <3>1
    <3>. QED
      BY <3>1, <3>2, Shapes
  <2>6. S!TypeOK'
    <3>1. /\ pc' \in {"list", "tidy", "idle", "check", "look", "make", "codex", "host", "verify", "aside",
                      "swap", "undo", "drop", "clean", "undone"}
          /\ outcome' \in {"none", "reused", "installed", "failed"}
      BY <2>1
    <3>2. found' \in Dirs /\ final' \in Dirs /\ aside' \in Seq(Dirs) /\ installs' \in 0 .. MaxInstalls
      BY <1>1, <1>t DEF S!TypeOK, Dirs
    <3>3. probe' \in [pc : {"off", "hand", "answered", "refused"}, child : {"none", "running", "closed"},
                      home : BOOLEAN]
      BY <2>1, <2>5
    <3>. QED
      BY <3>1, <3>2, <3>3, <2>k, <2>2, <2>4 DEF S!TypeOK, Dirs
  <2>7. StagingFits' /\ ReplacingFits' /\ ProbeFits' /\ OutcomeFits'
    BY <2>1, <2>2, <2>3, <2>5 DEF StagingFits, ReplacingFits, ProbeFits, OutcomeFits
  <2>. QED
    BY <1>1, <2>6, <2>7 DEF InstallInv
<1>. QED
  BY <1>2, <1>3, <1>4

-----------------------------------------------------------------------------
(* The trials of a backend *)

LEMMA BoundsGoOn ==
  ASSUME InstallInv, S!Trouble \/ S!Smooth
  PROVE  (left' = left => (trouble' = 0 => left' = {})) /\ (S!Trouble => trouble' # 0)
<1>1. trouble' = 0 => trouble = 0 /\ S!Smooth
  BY Counting
<1>2. S!Trouble => trouble' # 0
  BY InstallTypes DEF S!Trouble
<1>. QED
  BY <1>1, <1>2 DEF InstallInv, OutcomeFits

\* While the backend that is tried has not gone, nothing but its trial goes on.
LEMMA TrialGoesOn ==
  ASSUME InstallInv, S!Starts \/ S!Answers \/ S!Refuses \/ S!Closes PROVE InstallInv'
<1>t. S!TypeOK /\ Standing /\ StagingFits /\ ReplacingFits /\ ProbeFits /\ OutcomeFits
  BY DEF InstallInv
<1> DEFINE Trials == [pc : {"off", "hand", "answered", "refused"}, child : {"none", "running", "closed"},
                      home : BOOLEAN]
<1>1. UNCHANGED <<pc, found, final, staging, aside, work, replace, at, outcome, left, installs>>
  BY DEF S!Starts, S!Answers, S!Refuses, S!Closes, S!place, S!bounds
<1>2. (S!Trouble \/ S!Smooth)
  BY DEF S!Starts, S!Answers, S!Refuses, S!Closes, S!bounds, S!Smooth
<1>3. /\ failed' \in 0 .. MaxTrouble /\ trouble' \in 0 .. MaxTrouble /\ failed' <= trouble' /\ failed' >= failed
      /\ trouble' = 0 => left' = {}
  BY <1>1, <1>2, Counting, BoundsGoOn
<1>4. probe \in Trials
  BY <1>t DEF S!TypeOK
<1>5. probe.pc = "off" => probe.child = "none"
  <2>1. S!Off.child = "none"
    BY DEF S!Off
  <2>. QED
    BY <2>1, <1>t DEF ProbeFits
<1>6. /\ probe' \in Trials /\ probe'.pc # "off" /\ probe'.home /\ S!Verifying
      /\ probe'.pc = "answered" => S!Target.codex = "good"
  <2>1. CASE S!Starts
    BY <2>1 DEF S!Starts
  <2>2. CASE S!Answers
    BY <2>2, <1>4, <1>t DEF S!Answers, ProbeFits
  <2>3. CASE S!Refuses
    BY <2>3, <1>4, <1>t DEF S!Refuses, ProbeFits
  <2>4. CASE S!Closes
    <3>1. probe.child = "running" /\ probe' = [probe EXCEPT !.child = "closed"]
      BY <2>4 DEF S!Closes
    <3>2. probe.pc # "off"
      BY <3>1, <1>5
    <3>. QED
      BY <3>1, <3>2, <1>4, <1>t DEF ProbeFits
  <2>. QED
    BY <2>1, <2>2, <2>3, <2>4
<1>7. ProbeFits'
  BY <1>1, <1>6 DEF ProbeFits, S!Verifying, S!Target
<1>8. S!TypeOK'
  BY <1>1, <1>3, <1>6, <1>t DEF S!TypeOK
<1>9. Standing' /\ StagingFits' /\ OutcomeFits'
  BY <1>1, <1>3, <1>t DEF Standing, StagingFits, OutcomeFits
<1>10. ReplacingFits'
  <2>1. failed \in Nat /\ failed' \in Nat
    BY <1>t, <1>3 DEF S!TypeOK
  <2>2. (failed >= 1 => failed' >= 1) /\ (failed >= 2 => failed' >= 2)
    BY <2>1, <1>3
  <2>. QED
    BY <1>1, <2>2, <1>t DEF ReplacingFits, LastAside
<1>. QED
  BY <1>7, <1>8, <1>9, <1>10 DEF InstallInv

\* What a trial may do to the bounds and to what is left behind when it ends
TrialOver ==
  /\ probe' = S!Off /\ UNCHANGED installs /\ (S!Trouble \/ S!Smooth)
  /\ left' \in {left, left \cup {"home"}} /\ (S!Smooth => left' = left)

LEMMA TrialOverFits ==
  ASSUME InstallInv, TrialOver
  PROVE  /\ failed' \in 0 .. MaxTrouble /\ trouble' \in 0 .. MaxTrouble /\ failed' <= trouble' /\ installs' \in 0 .. MaxInstalls
         /\ trouble' = 0 => left' = {}
         /\ left' \subseteq {"work", "staging", "home"}
         /\ ProbeFits'
         /\ probe' \in [pc : {"off", "hand", "answered", "refused"}, child : {"none", "running", "closed"},
                        home : BOOLEAN]
<1>1. failed' \in 0 .. MaxTrouble /\ trouble' \in 0 .. MaxTrouble /\ failed' <= trouble' /\ (trouble' = 0 => S!Smooth)
  BY Counting DEF TrialOver
<1>2. trouble' = 0 => left' = {}
  BY <1>1, BoundsGoOn DEF TrialOver
<1>3. left' \subseteq {"work", "staging", "home"} /\ installs' \in 0 .. MaxInstalls
  BY DEF TrialOver, InstallInv, S!TypeOK
<1>4. /\ S!Off \in [pc : {"off", "hand", "answered", "refused"}, child : {"none", "running", "closed"}, home : BOOLEAN]
      /\ S!Off.pc = "off"
  BY DEF S!Off
<1>. QED
  BY <1>1, <1>2, <1>3, <1>4 DEF TrialOver, ProbeFits

\* A backend that fails its trial is installed anew, given up or left as it is.
LEMMA RejectedKeeps ==
  ASSUME InstallInv, TrialOver, S!Verifying, S!Rejected PROVE InstallInv'
<1>t. S!TypeOK /\ Standing /\ StagingFits /\ ReplacingFits /\ ProbeFits /\ OutcomeFits
  BY DEF InstallInv
<1>1. /\ UNCHANGED <<found, final, staging, aside, work, replace, outcome>> /\ pc \in {"check", "verify", "tidy"}
      /\ pc = "check" => pc' = "look"
      /\ pc = "verify" => pc' = "undone"
      /\ pc = "tidy" => pc' = "list"
  BY DEF S!Rejected, S!Verifying, S!place
<1>2. at' \in Nat \ {0}
  BY InstallTypes DEF S!Rejected
<1>3. S!TypeOK'
  <2>1. /\ pc' \in {"list", "tidy", "idle", "check", "look", "make", "codex", "host", "verify", "aside",
                    "swap", "undo", "drop", "clean", "undone"}
    BY <1>1
  <2>. QED
    BY <2>1, <1>1, <1>2, <1>t, TrialOverFits DEF S!TypeOK
<1>4. Standing' /\ StagingFits'
  BY <1>1, <1>t DEF Standing, StagingFits
<1>5. ReplacingFits'
  BY <1>1, <1>t DEF ReplacingFits
<1>6. OutcomeFits'
  BY <1>1, <1>t, TrialOverFits DEF OutcomeFits
<1>. QED
  BY <1>3, <1>4, <1>5, <1>6, TrialOverFits DEF InstallInv

\* One that has answered is kept, is given its metadata, or lets what was moved aside go.
LEMMA AcceptedKeeps ==
  ASSUME InstallInv, TrialOver, S!Verifying, S!Target.codex = "good", S!Accepted PROVE InstallInv'
<1>t. S!TypeOK /\ Standing /\ StagingFits /\ ReplacingFits /\ ProbeFits /\ OutcomeFits
  BY DEF InstallInv
<1>d. /\ final \in Dirs /\ staging \in Dirs /\ aside \in Seq(Dirs) /\ (final.made \/ final = S!Absent)
      /\ at \in Nat \ {0} /\ Len(aside) \in Nat
  BY InstallTypes
<1>1. CASE pc = "check" /\ final.host = "good" /\ final.metadata /\ ~S!Rejected
  <2>1. /\ pc' = "list" /\ at' = 1 /\ outcome' = "reused" /\ UNCHANGED <<found, final, staging, aside, work, replace>>
    BY <1>1 DEF S!Accepted, S!place
  <2>2. final.codex = "good"
    BY <1>1 DEF S!Target
  <2>3. final.made
    BY <2>2, <1>d, Shapes
  <2>4. final = S!Whole
    BY <1>1, <2>2, <2>3, <1>d, WholeByParts DEF Complete
  <2>k. at' \in Nat \ {0}
    BY <2>1
  <2>5. S!TypeOK'
    BY <2>1, <2>k, <1>t, TrialOverFits DEF S!TypeOK
  <2>6. Standing' /\ StagingFits' /\ ReplacingFits'
    BY <1>1, <2>1, <1>t DEF Standing, StagingFits, ReplacingFits
  <2>7. OutcomeFits'
    BY <2>1, <2>4, TrialOverFits DEF OutcomeFits
  <2>. QED
    BY <2>5, <2>6, <2>7, TrialOverFits DEF InstallInv
<1>2. CASE pc = "verify" /\ ~S!Rejected
  <2>1. /\ staging' = [staging EXCEPT !.metadata = TRUE] /\ pc' = (IF replace THEN "aside" ELSE "swap")
        /\ UNCHANGED <<found, final, aside, work, replace, at, outcome>>
    BY <1>2 DEF S!Accepted
  <2>2. staging.made /\ staging.host = "good" /\ staging.codex = "good"
    BY <1>2, <1>t DEF StagingFits, S!Target
  <2>3. staging' \in Dirs /\ staging'.made /\ Complete(staging')
    BY <2>1, <2>2, <1>d DEF Dirs, S!Directories, Complete
  <2>4. staging' = S!Whole
    BY <2>3, WholeByParts
  <2>5. S!TypeOK'
    <3>1. pc' \in {"list", "tidy", "idle", "check", "look", "make", "codex", "host", "verify", "aside",
                   "swap", "undo", "drop", "clean", "undone"}
      BY <2>1
    <3>. QED
      BY <2>1, <2>3, <3>1, <1>t, TrialOverFits DEF S!TypeOK, Dirs
  <2>6. Standing' /\ StagingFits' /\ ReplacingFits'
    BY <1>2, <2>1, <2>4, <1>t DEF Standing, StagingFits, ReplacingFits
  <2>7. OutcomeFits'
    BY <1>2, <2>1, <1>t, TrialOverFits DEF OutcomeFits
  <2>. QED
    BY <2>5, <2>6, <2>7, TrialOverFits DEF InstallInv
<1>3. CASE pc = "tidy" /\ ~S!Rejected
  <2>1. /\ pc' = "list" /\ aside' = S!RemoveAt(aside, at) /\ UNCHANGED <<found, final, staging, work, replace, at, outcome>>
    BY <1>3 DEF S!Accepted
  <2>2. final.codex = "good"
    BY <1>3 DEF S!Target
  <2>3. final.made
    BY <2>2, <1>d, Shapes
  <2>4. aside' \in Seq(Dirs)
    <3>1. at <= Len(aside)
      BY <1>3, <1>t DEF ReplacingFits
    <3>2. at \in 1 .. Len(aside) /\ aside # <<>>
      BY <3>1, <1>d
    <3>. QED
      BY <2>1, <3>2, <1>d, AsideParts
  <2>5. S!TypeOK'
    BY <2>1, <2>4, <1>t, TrialOverFits DEF S!TypeOK, Dirs
  <2>6. Standing' /\ StagingFits' /\ ReplacingFits'
    BY <1>3, <2>1, <2>3, <1>t DEF Standing, StagingFits, ReplacingFits
  <2>7. OutcomeFits'
    BY <1>3, <2>1, <1>t, TrialOverFits DEF OutcomeFits
  <2>. QED
    BY <2>5, <2>6, <2>7, TrialOverFits DEF InstallInv
<1>4. CASE S!Rejected
  BY <1>4, RejectedKeeps
<1>. QED
  BY <1>1, <1>2, <1>3, <1>4 DEF S!Accepted

LEMMA TrialEnds ==
  ASSUME InstallInv, S!NotRunnable \/ S!Tried PROVE InstallInv'
<1>1. CASE S!NotRunnable
  <2>1. S!Verifying /\ S!Rejected /\ probe.pc = "off" /\ UNCHANGED <<probe, left, installs>> /\ (S!Trouble \/ S!Smooth)
    BY <1>1 DEF S!NotRunnable
  <2>2. probe' = S!Off
    BY <2>1 DEF InstallInv, ProbeFits
  <2>. QED
    BY <2>1, <2>2, RejectedKeeps DEF TrialOver
<1>2. CASE S!Tried
  <2>1. /\ probe.pc \in {"answered", "refused"} /\ probe' = S!Off /\ UNCHANGED installs
        /\ \/ (IF probe.pc = "answered" THEN S!Accepted ELSE S!Rejected) /\ UNCHANGED left /\ S!Smooth
           \/ S!Rejected /\ left' \in {left, left \cup {"home"}} /\ S!Trouble
    BY <1>2 DEF S!Tried
  <2>2. S!Verifying /\ (probe.pc = "answered" => S!Target.codex = "good")
    BY <2>1 DEF InstallInv, ProbeFits
  <2>3. S!Trouble => ~S!Smooth
    BY InstallTypes DEF S!Trouble, S!Smooth
  <2>4. TrialOver
    BY <2>1, <2>3 DEF TrialOver
  <2>. QED
    BY <2>1, <2>2, <2>4, RejectedKeeps, AcceptedKeeps
<1>. QED
  BY <1>1, <1>2

-----------------------------------------------------------------------------
(* The invariant *)

LEMMA InitInstallInv ==
  ASSUME S!Init PROVE InstallInv
<1>1. /\ pc = "list" /\ found \in S!Founds /\ final = found /\ staging = S!Absent /\ work = FALSE
      /\ replace = FALSE /\ at = 1 /\ probe = S!Off /\ outcome = "none" /\ left = {}
      /\ failed = 0 /\ installs = 0 /\ trouble = 0
      /\ aside \in {<<>>, <<[S!Whole EXCEPT !.host = "none"]>>}
  BY DEF S!Init
<1>2. aside \in Seq(Dirs)
  <2> DEFINE w == S!Whole
  <2>1. w \in Dirs
    BY Shapes
  <2>2. aside \in {<<>>, <<[w EXCEPT !.host = "none"]>>}
    BY <1>1
  <2>. HIDE DEF w
  <2>3. [w EXCEPT !.host = "none"] \in Dirs
    BY <2>1 DEF Dirs, S!Directories
  <2> DEFINE d == [w EXCEPT !.host = "none"]
  <2>4. d \in Dirs
    BY <2>3
  <2>5. aside \in {<<>>, <<d>>}
    BY <2>2
  <2>. HIDE DEF d
  <2>6. <<>> \in Seq(Dirs) /\ <<d>> \in Seq(Dirs)
    BY <2>4
  <2>. QED
    BY <2>5, <2>6
<1>3. found \in Dirs /\ staging \in Dirs
  BY <1>1, FoundShapes, Shapes
<1>4. /\ S!Off \in [pc : {"off", "hand", "answered", "refused"}, child : {"none", "running", "closed"}, home : BOOLEAN]
      /\ S!Off.pc = "off"
  BY DEF S!Off
<1>5. MaxInstalls \in Nat /\ MaxTrouble \in Nat
  BY InstallAssumption DEF S!InstallConstants
<1>6. failed \in 0 .. MaxTrouble /\ installs \in 0 .. MaxInstalls /\ trouble \in 0 .. MaxTrouble /\ failed <= trouble
      /\ at \in Nat \ {0}
  BY <1>1, <1>5
<1>7. S!TypeOK
  BY <1>1, <1>2, <1>3, <1>4, <1>6 DEF S!TypeOK, Dirs
<1>8. Standing /\ StagingFits /\ ReplacingFits /\ ProbeFits
  BY <1>1, <1>4 DEF Standing, StagingFits, ReplacingFits, ProbeFits
<1>9. OutcomeFits
  BY <1>1, <1>6 DEF OutcomeFits
<1>. QED
  BY <1>7, <1>8, <1>9 DEF InstallInv

LEMMA NextInstallInv ==
  ASSUME InstallInv, S!Next \/ UNCHANGED installVars PROVE InstallInv'
<1>1. CASE S!Begin
  BY <1>1, BeginKeeps
<1>2. CASE S!Looks \/ S!Makes \/ S!Fetched
  BY <1>2, FetchingKeeps
<1>3. CASE S!MovesAside \/ S!Swaps \/ S!Undoes \/ S!Drops
  BY <1>3, SwappingKeeps
<1>4. CASE S!Clean \/ S!Lists \/ S!Crash
  BY <1>4, EndingKeeps
<1>5. CASE S!Starts \/ S!Answers \/ S!Refuses \/ S!Closes
  BY <1>5, TrialGoesOn
<1>6. CASE S!NotRunnable \/ S!Tried
  BY <1>6, TrialEnds
<1>7. CASE UNCHANGED installVars
  BY <1>7 DEF installVars, InstallInv, S!TypeOK, Standing, StagingFits, ReplacingFits, LastAside, ProbeFits,
              OutcomeFits, S!Verifying, S!Target
<1>. QED
  BY <1>1, <1>2, <1>3, <1>4, <1>5, <1>6, <1>7 DEF S!Next, S!Install, S!Verification

LEMMA InstallSteps ==
  ASSUME [PartNext]_all PROVE S!Next \/ UNCHANGED installVars
BY DEF PartNext, all, Rest, BackendSteps, BackendWorld, InstallRuns, InstallWorld, RelayRuns, RelayReads, RelayWorld,
       LooksRuns, Looks, S!Next

\* Where an installation is agrees with what is in the directories, in the trial of a backend and in what
\* is reported, in every state, whatever fails and whenever the injector ends (installCodexRuntime,
\* verifyCodexRuntime, refreshInstalled).
THEOREM BackendInstallInvariant == PartSpec => []InstallInv
<1>1. PartInit => InstallInv
  BY InitInstallInv DEF PartInit
<1>2. InstallInv /\ [PartNext]_all => InstallInv'
  BY NextInstallInv, InstallSteps
<1>. QED
  BY <1>1, <1>2, PTL DEF PartSpec

\* The directory of the version is as it was found, empty or holds a whole backend; what stood there is
\* there still or aside, and loses its place only by two failures of one installation; what is reported as
\* installed is there, a trial that is over has left no process, and without trouble nothing is left behind.
LEMMA InstallIsWholeByInv ==
  ASSUME InstallInv PROVE InstallIsWhole
<1>t. S!TypeOK /\ Standing /\ StagingFits /\ ReplacingFits /\ ProbeFits /\ OutcomeFits
  BY DEF InstallInv
<1>1. S!NeverInPart
  BY <1>t, Shapes DEF S!NeverInPart, Standing
<1>2. S!NothingIsLost
  BY <1>t DEF S!NothingIsLost, Standing, ReplacingFits
<1>3. S!ReportIsTrue
  <2>1. S!Off.child = "none" /\ ~S!Off.home
    BY DEF S!Off
  <2>2. pc = "idle" => ~work /\ ~staging.made
    BY <1>t, Shapes DEF StagingFits
  <2>. QED
    BY <1>t, <2>1, <2>2 DEF S!ReportIsTrue, ProbeFits, OutcomeFits
<1>. QED
  BY <1>t, <1>1, <1>2, <1>3 DEF InstallIsWhole

-----------------------------------------------------------------------------
(* What was moved aside *)

LEMMA AsideKept ==
  ASSUME InstallInv, S!Next PROVE Len(aside') < Len(aside) => final' \in {S!Whole, S!Last(aside)}
<1>t. S!TypeOK /\ Standing /\ StagingFits /\ ReplacingFits /\ ProbeFits /\ OutcomeFits
  BY DEF InstallInv
<1>d. final \in Dirs /\ aside \in Seq(Dirs) /\ (final.made \/ final = S!Absent) /\ Len(aside) \in Nat
  BY InstallTypes
<1>u. ASSUME aside' = aside PROVE ~(Len(aside') < Len(aside))
  BY <1>u, <1>d
<1>1. CASE S!MovesAside
  <2>1. aside' = Append(aside, final) \/ aside' = aside
    BY <1>1 DEF S!MovesAside
  <2>2. aside' = Append(aside, final) => Len(aside') = Len(aside) + 1
    BY <1>d
  <2>. QED
    BY <2>1, <2>2, <1>d
<1>2. CASE S!Undoes
  BY <1>2, <1>u DEF S!Undoes
<1>3. CASE S!Drops
  BY <1>3, <1>t DEF S!Drops, ReplacingFits
<1>4. CASE S!Tried
  <2>1. S!Rejected => aside' = aside
    BY DEF S!Rejected, S!place
  <2>2. probe.pc = "answered" \/ S!Rejected
    BY <1>4 DEF S!Tried
  <2>3. CASE probe.pc = "answered" /\ S!Accepted
    <3>1. S!Target.codex = "good"
      BY <2>3, <1>t DEF ProbeFits
    <3>2. \/ aside' = aside
          \/ S!Rejected
          \/ pc = "tidy" /\ final' = final /\ final.host = "good"
      BY <2>3 DEF S!Accepted, S!place
    <3>3. CASE pc = "tidy" /\ final' = final /\ final.host = "good"
      <4>1. final.codex = "good" /\ final.metadata
        BY <3>1, <3>3, <1>t DEF S!Target, ReplacingFits
      <4>2. final.made
        BY <4>1, <1>d, Shapes
      <4>3. final = S!Whole
        BY <3>3, <4>1, <4>2, <1>d, WholeByParts DEF Complete
      <4>. QED
        BY <3>3, <4>3
    <3>. QED
      BY <3>2, <3>3, <2>1, <1>u
  <2>. QED
    BY <2>1, <2>2, <2>3, <1>4, <1>u DEF S!Tried
<1>5. CASE S!Begin \/ S!Crash \/ S!Looks \/ S!Makes \/ S!Fetched \/ S!Swaps \/ S!Clean \/ S!Lists
  <2>1. aside' = aside
    BY <1>5 DEF S!Begin, S!Crash, S!Looks, S!Makes, S!Fetched, S!Fetches, S!Swaps, S!Clean, S!Lists, S!place
  <2>. QED
    BY <2>1, <1>u
<1>6. CASE S!NotRunnable \/ S!Starts \/ S!Answers \/ S!Refuses \/ S!Closes
  <2>1. aside' = aside
    BY <1>6 DEF S!NotRunnable, S!Rejected, S!Starts, S!Answers, S!Refuses, S!Closes, S!place
  <2>. QED
    BY <2>1, <1>u
<1>. QED
  BY <1>1, <1>2, <1>3, <1>4, <1>5, <1>6 DEF S!Next, S!Install, S!Verification

\* A directory that was moved aside is removed only while a whole backend stands in its place, or when it
\* goes back there (the trial of refreshInstalled, the rm after the second rename of installCodexRuntime).
THEOREM BackendRemovedOnlyWhenReplaced == PartSpec => S!RemovedOnlyWhenReplaced
<1>1. ASSUME InstallInv, [PartNext]_all
      PROVE  [Len(aside') < Len(aside) => final' \in {S!Whole, S!Last(aside)}]_(S!vars)
  <2>1. UNCHANGED installVars => UNCHANGED S!vars
    BY DEF installVars, S!vars, S!place, S!bounds
  <2>. QED
    BY <1>1, <2>1, InstallSteps, AsideKept
<1>. QED
  BY <1>1, BackendInstallInvariant, PTL DEF PartSpec, S!RemovedOnlyWhenReplaced

-----------------------------------------------------------------------------
(* The backends *)

Vers == Versions \cup Alphas
Wanted == [place : Places, ver : Vers \cup {None}]
Views == [selected : Selection, fallback : BOOLEAN, pending : BOOLEAN]
Attempts == [sel : Selection, before : Selection, shown : Views]
Procs == [pc : {"idle", "fingerprint", "verify", "tryGood", "tryBundled", "return", "prepare", "launch", "confirm",
                "confirmed", "save"},
          op : {"none", "first", "rollback", "degraded", "degradedAgain", "select", "share"},
          sel : Selection \cup Wanted \cup {None}, flag : BOOLEAN, cfg : Settings \cup {None},
          rt : Selection \cup {None}, fb : BOOLEAN]

\* What activity a has computed before its await is still good, when rs are the backends that were run:
\* a launch confirms one of them, and nobody writes settings with another good backend.
Fits(a, n, rs) ==
  /\ n \in Procs
  /\ a # "user" /\ n.pc \in {"fingerprint", "verify", "tryGood"} => n.sel \in Selection
  /\ a = "launch" /\ n.pc \in {"confirm", "confirmed"} => n.rt \in rs /\ n.rt \in Selection
  /\ a = "launch" /\ n.pc = "confirmed" => n.cfg \in Settings /\ n.cfg.good \in rs \cup {None}
  /\ a = "user" /\ n.pc = "verify" => n.sel \in Selection \cup Wanted
  /\ a = "user" /\ n.pc = "save" => n.cfg \in Settings /\ n.cfg.good \in rs \cup {None}
  /\ a = "user" /\ n.pc = "save" /\ n.op = "select" => n.sel \in Selection
ProcsFit == proc \in [Actors -> Procs] /\ \A a \in Actors : Fits(a, proc[a], ran)
Counted ==
  /\ count \in [{"files", "starts", "faults"} -> Nat]
  /\ count["files"] <= MaxFiles /\ count["starts"] <= MaxStarts
ChoiceFits ==
  /\ settings \in Settings /\ disk \in Settings /\ bundled \in Selection /\ validated \in Selection
  /\ active \in Selection \cup {None} /\ view \in Views /\ changed \in BOOLEAN
  /\ attempt \in Attempts \cup {None} /\ bundled.ver \in Versions
FilesFit ==
  /\ file \in [Places -> File \cup {None}] /\ installed \subseteq Alphas
  /\ file[Bundled] # None => file[Bundled].ver \in Versions
BackendInv == FilesFit /\ ChoiceFits /\ GoodWasRun /\ ProcsFit /\ Counted

LEMMA Assumed ==
  /\ Bundled \in Places /\ Custom \in Places /\ Alphas \subseteq Places /\ None \notin Places /\ None \notin Vers
  /\ Fresh.ver \in Versions /\ MaxFiles \in Nat /\ MaxStarts \in Nat
  /\ \A p \in Places : p = Bundled \/ p = Custom \/ p \in Alphas
<1>1. Fresh.ver \in Versions
  BY RuntimeConstants DEF Fresh
<1>. QED
  BY <1>1, RuntimeConstants DEF Places, Vers

LEMMA FitsLater ==
  ASSUME NEW a, NEW n, NEW rs, NEW more, rs \subseteq more, Fits(a, n, rs) PROVE Fits(a, n, more)
BY DEF Fits

LEMMA IdleFits ==
  ASSUME NEW a, NEW rs PROVE Fits(a, Idle, rs) /\ Idle \in Procs /\ Idle.pc = "idle"
BY DEF Fits, Idle, Procs

\* One activity goes on, the others stay where they are.
LEMMA OneGoesOn ==
  ASSUME ProcsFit, NEW a \in Actors, NEW n, Fits(a, n, ran'), ran \subseteq ran', proc' = [proc EXCEPT ![a] = n]
  PROVE  ProcsFit'
<1>1. n \in Procs
  BY DEF Fits
<1>2. proc' \in [Actors -> Procs] /\ proc'[a] = n /\ \A b \in Actors : b # a => proc'[b] = proc[b]
  BY <1>1 DEF ProcsFit
<1>3. ASSUME NEW b \in Actors PROVE Fits(b, proc'[b], ran')
  BY <1>2, FitsLater DEF ProcsFit
<1>. QED
  BY <1>2, <1>3 DEF ProcsFit

LEMMA CountStep ==
  ASSUME Counted, NEW what \in {"files", "starts", "faults"}, NEW max \in Nat,
         what = "files" => max = MaxFiles, what = "starts" => max = MaxStarts, Count(what, max)
  PROVE  Counted' /\ count[what] \in Nat /\ count[what] + 1 <= max
<1>1. count[what] \in Nat /\ count[what] < max /\ count' = [count EXCEPT ![what] = count[what] + 1]
  BY DEF Counted, Count
<1>2. count' \in [{"files", "starts", "faults"} -> Nat]
  BY <1>1 DEF Counted
<1>3. count'[what] = count[what] + 1 /\ \A w \in {"files", "starts", "faults"} : w # what => count'[w] = count[w]
  BY <1>1 DEF Counted
<1>4. count'["files"] <= MaxFiles /\ count'["starts"] <= MaxStarts
  BY <1>1, <1>3 DEF Counted
<1>. QED
  BY <1>1, <1>2, <1>4 DEF Counted

LEMMA FaultCounts ==
  ASSUME Counted, Fault PROVE Counted'
BY CountStep, RuntimeConstants DEF Fault

\* What the operators of the manager return
LEMMA LaunchSelectionType ==
  ASSUME NEW sel \in Selection, NEW fallback \in BOOLEAN, NEW s \in Settings
  PROVE  LaunchSelection(sel, fallback, s) \in Selection
BY DEF LaunchSelection, Selection, Settings

LEMMA CheckedType ==
  ASSUME FilesFit, NEW place \in Places, NEW ver \in Vers \cup {None}, file[place] # None
  PROVE  Checked(place, ver) \in Selection /\ Checked(place, ver).place = place
<1>1. file[place] \in File
  BY DEF FilesFit
<1>2. file[place].ver \in Vers /\ file[place].stamp \in Stamps
  BY <1>1 DEF File, Vers
<1>. QED
  BY <1>2 DEF Checked, Selection, Vers

LEMMA ShownType ==
  ASSUME NEW sel \in Selection, NEW fallback \in BOOLEAN PROVE Shown(sel, fallback) \in Views
BY DEF Shown, Views, Differs

LEMMA GoodSelectionType ==
  ASSUME FilesFit, NEW good \in Selection, GoodStands(good) PROVE GoodSelection(good) \in Selection
<1>1. good.place \in Places /\ good.ver \in Vers \cup {None} /\ good.sharing \in BOOLEAN /\ file[good.place] # None
  BY DEF Selection, Vers, GoodStands
<1> DEFINE c == Checked(good.place, good.ver)
<1>2. c \in Selection
  BY <1>1, CheckedType
<1>. HIDE DEF c
<1>3. [c EXCEPT !.sharing = good.sharing] \in Selection
  BY <1>1, <1>2 DEF Selection
<1>. QED
  BY <1>3 DEF c, GoodSelection

LEMMA FallingFits ==
  ASSUME ChoiceFits, NEW r \in Procs, NEW a \in {"launch", "catalog"}, NEW lost, NEW rs
  PROVE  Fits(a, Falling(r, lost), rs)
<1>1. settings.good \in Selection \cup {None}
  BY DEF ChoiceFits, Settings
<1>2. CASE ~changed /\ TriesGood(settings, lost, bundled)
  <2>1. settings.good \in Selection
    BY <1>1, <1>2 DEF TriesGood
  <2> DEFINE g == settings.good
  <2>2. Falling(r, lost) = [r EXCEPT !.pc = "tryGood", !.sel = g]
    BY <1>2 DEF Falling
  <2>. HIDE DEF g
  <2>3. g \in Selection
    BY <2>1 DEF g
  <2> DEFINE n == [r EXCEPT !.pc = "tryGood", !.sel = g]
  <2>4. n \in Procs /\ n.pc = "tryGood" /\ n.sel = g
    BY <2>3 DEF Procs
  <2>. HIDE DEF n
  <2>5. Fits(a, n, rs)
    BY <2>3, <2>4 DEF Fits
  <2>. QED
    BY <2>2, <2>5 DEF n
<1>3. CASE ~(~changed /\ TriesGood(settings, lost, bundled))
  <2> DEFINE n == [r EXCEPT !.pc = "tryBundled"]
  <2>1. n \in Procs /\ n.pc = "tryBundled"
    BY DEF Procs
  <2>2. Falling(r, lost) = n
    BY <1>3 DEF Falling
  <2>. HIDE DEF n
  <2>. QED
    BY <2>1, <2>2 DEF Fits
<1>. QED
  BY <1>2, <1>3

LEMMA GetFits ==
  ASSUME ChoiceFits, NEW r \in Procs, NEW a \in {"launch", "catalog"}, NEW rs PROVE Fits(a, Get(a, r), rs)
<1> DEFINE v == validated
           w == IF attempt = None THEN "fingerprint" ELSE "return"
           n == [r EXCEPT !.pc = w, !.sel = v]
<1>1. v \in Selection /\ w \in {"fingerprint", "return"}
  BY DEF ChoiceFits
<1>2. Get(a, r) = n
  BY DEF Get
<1>. HIDE DEF v, w
<1>3. n \in Procs /\ n.pc \in {"fingerprint", "return"} /\ n.sel \in Selection
  BY <1>1 DEF Procs
<1>. HIDE DEF n
<1>. QED
  BY <1>2, <1>3 DEF Fits

\* The steps of getLaunchRuntime leave the choice with its types, and the activity with what it needs.
LEMMA LaunchingKeeps ==
  ASSUME BackendInv, NEW a \in {"launch", "catalog"}, Launching(a) PROVE BackendInv'
<1>t. FilesFit /\ ChoiceFits /\ GoodWasRun /\ ProcsFit /\ Counted /\ a \in Actors /\ a # "user"
  BY DEF BackendInv, Actors
<1>1. /\ UNCHANGED <<file, installed, settings, disk, active, ran, count>>
  BY DEF Launching, Fingerprint, Reverified, TryGood, TryBundled, Staged, Return, files, choice, ghosts
<1>2. FilesFit' /\ GoodWasRun' /\ Counted'
  BY <1>t, <1>1 DEF FilesFit, GoodWasRun, Counted
<1>3. proc[a] \in Procs /\ Fits(a, proc[a], ran)
  BY <1>t DEF ProcsFit
<1>u. ASSUME proc' = [proc EXCEPT ![a] = Idle] PROVE ProcsFit'
  BY <1>u, <1>t, <1>1, IdleFits, OneGoesOn
<1>f. ASSUME NEW lost, proc' = [proc EXCEPT ![a] = Falling(proc[a], lost)] PROVE ProcsFit'
  BY <1>f, <1>t, <1>1, <1>3, FallingFits, OneGoesOn
<1>g. ASSUME NEW to \in {"return", "prepare", "tryBundled"}, Goes(a, to) PROVE ProcsFit'
  <2> DEFINE n == [proc[a] EXCEPT !.pc = to]
  <2>1. n \in Procs /\ n.pc = to
    BY <1>3 DEF Procs
  <2>2. proc' = [proc EXCEPT ![a] = n]
    BY <1>g DEF Goes
  <2>. HIDE DEF n
  <2>3. Fits(a, n, ran')
    BY <2>1, <1>t DEF Fits
  <2>. QED
    BY <2>2, <2>3, <1>t, <1>1, OneGoesOn
<1>v. ASSUME Unresolved(a) PROVE ProcsFit'
  <2> DEFINE n == [proc[a] EXCEPT !.pc = "launch", !.rt = None]
  <2>1. n \in Procs /\ n.pc = "launch"
    BY <1>3 DEF Procs
  <2>2. proc' = [proc EXCEPT ![a] = n] \/ proc' = [proc EXCEPT ![a] = Idle]
    BY <1>v DEF Unresolved
  <2>. HIDE DEF n
  <2>3. Fits(a, n, ran')
    BY <2>1, <1>t DEF Fits
  <2>. QED
    BY <2>2, <2>3, <1>t, <1>1, <1>u, OneGoesOn
<1>s. ASSUME NEW sel \in Selection, Staged(a, sel), UNCHANGED <<bundled, changed>> PROVE ChoiceFits' /\ ProcsFit'
  <2>1. ProcsFit'
    BY <1>s, <1>g DEF Staged
  <2>2. /\ attempt' = [sel |-> sel, before |-> validated, shown |-> view] /\ validated' = sel
        /\ view' = [selected |-> LaunchSelection(sel, TRUE, settings), fallback |-> TRUE, pending |-> TRUE]
    BY <1>s DEF Staged
  <2>3. attempt' \in Attempts
    BY <2>2, <1>t DEF ChoiceFits, Attempts
  <2> DEFINE shown == LaunchSelection(sel, TRUE, settings)
  <2>4. shown \in Selection
    BY <1>t, LaunchSelectionType DEF ChoiceFits
  <2>. HIDE DEF shown
  <2>5. view' \in Views
    BY <2>2, <2>4 DEF Views, shown
  <2>. QED
    BY <1>s, <1>1, <1>t, <2>1, <2>2, <2>3, <2>5 DEF ChoiceFits
<1>4. CASE Fingerprint(a)
  <2>1. ChoiceFits'
    BY <1>4, <1>t DEF Fingerprint, choice, ChoiceFits
  <2>2. CASE proc' = [proc EXCEPT ![a] = [proc[a] EXCEPT !.pc = "verify", !.flag = settings.sharing]]
        /\ proc[a].pc = "fingerprint"
    <3> DEFINE f == settings.sharing
               n == [proc[a] EXCEPT !.pc = "verify", !.flag = f]
    <3>1. f \in BOOLEAN
      BY <1>t DEF ChoiceFits, Settings
    <3>. HIDE DEF f
    <3>2. n \in Procs /\ n.pc = "verify" /\ n.sel = proc[a].sel
      BY <1>3, <3>1 DEF Procs
    <3>3. proc' = [proc EXCEPT ![a] = n]
      BY <2>2 DEF f
    <3>. HIDE DEF n
    <3>4. Fits(a, n, ran')
      BY <3>2, <2>2, <1>3, <1>t DEF Fits
    <3>. QED
      BY <3>3, <3>4, <1>t, <1>1, <1>2, <2>1, OneGoesOn DEF BackendInv
  <2>3. \/ Unresolved(a) \/ Goes(a, "return") \/ proc' = [proc EXCEPT ![a] = Falling(proc[a], proc[a].sel)]
        \/ /\ proc' = [proc EXCEPT ![a] = [proc[a] EXCEPT !.pc = "verify", !.flag = settings.sharing]]
           /\ proc[a].pc = "fingerprint"
    BY <1>4 DEF Fingerprint
  <2>. QED
    BY <2>1, <2>2, <2>3, <1>2, <1>f, <1>g, <1>v DEF BackendInv
<1>5. CASE Reverified(a)
  <2> DEFINE s == proc[a].sel
             next == Checked(s.place, None)
  <2>1. proc[a].pc = "verify" /\ s \in Selection
    BY <1>5, <1>3, <1>t DEF Reverified, Fits
  <2>2. s.place \in Places
    BY <2>1 DEF Selection
  <2>3. CASE UNCHANGED <<validated, bundled, changed, view>>
    <3>1. Unresolved(a) \/ proc' = [proc EXCEPT ![a] = Falling(proc[a], proc[a].sel)] \/ Goes(a, "return")
      BY <1>5 DEF Reverified
    <3>2. ChoiceFits'
      BY <1>5, <1>1, <1>t, <2>3 DEF Reverified, ChoiceFits
    <3>. QED
      BY <3>1, <3>2, <1>2, <1>f, <1>g, <1>v DEF BackendInv
  <2>4. CASE /\ file[s.place] # None /\ validated' = next /\ Goes(a, "return")
             /\ \/ next.place = Bundled /\ bundled' = next /\ changed' = (settings.was # None /\ settings.was # next.ver)
                \/ UNCHANGED <<bundled, changed>>
             /\ view' = Shown(LaunchSelection(next, view.fallback, settings), view.fallback)
    <3>1. next \in Selection /\ next.place = s.place
      BY <2>2, <2>4, <1>t, CheckedType
    <3>o. next.place = Bundled => next.ver \in Versions
      <4>1. next.ver = file[s.place].ver
        BY DEF Checked
      <4>. HIDE DEF next
      <4>. QED
        BY <2>4, <3>1, <4>1, <1>t DEF FilesFit
    <3>. HIDE DEF next
    <3>2. view.fallback \in BOOLEAN /\ settings \in Settings
      BY <1>t DEF ChoiceFits, Views
    <3>3. view' \in Views
      BY <2>4, <3>1, <3>2, LaunchSelectionType, ShownType
    <3>4. bundled' \in Selection /\ changed' \in BOOLEAN /\ bundled'.ver \in Versions
      BY <2>4, <3>1, <3>o, <1>t DEF ChoiceFits
    <3>5. attempt' = attempt
      BY <1>5 DEF Reverified
    <3>6. ChoiceFits'
      BY <1>1, <1>t, <2>4, <3>1, <3>3, <3>4, <3>5 DEF ChoiceFits
    <3>. QED
      BY <2>4, <3>6, <1>2, <1>g DEF BackendInv
  <2>5. \A ver, flag, asked : Verified(s.place, ver, flag, asked) => file[s.place] # None
    BY DEF Verified
  <2>. QED
    BY <1>5, <2>3, <2>4, <2>5 DEF Reverified
<1>6. CASE TryGood(a)
  <2> DEFINE good == proc[a].sel
  <2>1. good \in Selection /\ UNCHANGED <<bundled, changed>>
    BY <1>6, <1>3, <1>t DEF TryGood, Fits
  <2>2. CASE GoodStands(good) /\ Staged(a, GoodSelection(good))
    BY <2>1, <2>2, <1>t, <1>2, <1>s, GoodSelectionType DEF BackendInv
  <2>3. CASE Goes(a, "tryBundled") /\ UNCHANGED <<attempt, validated, view>>
    <3>1. ChoiceFits'
      BY <2>1, <2>3, <1>1, <1>t DEF ChoiceFits
    <3>. QED
      BY <3>1, <2>3, <1>2, <1>g DEF BackendInv
  <2>. QED
    BY <1>6, <2>2, <2>3 DEF TryGood
<1>7. CASE TryBundled(a)
  <2>1. UNCHANGED <<bundled, changed>>
    BY <1>7 DEF TryBundled
  <2>2. CASE Verified(Bundled, None, FALSE, TRUE) /\ Staged(a, Checked(Bundled, None))
    <3>1. Checked(Bundled, None) \in Selection
      BY <2>2, <1>t, CheckedType, Assumed DEF Verified
    <3>. QED
      BY <2>1, <2>2, <3>1, <1>2, <1>s DEF BackendInv
  <2>3. CASE Unresolved(a) /\ UNCHANGED <<attempt, validated, view>>
    <3>1. ChoiceFits'
      BY <2>1, <2>3, <1>1, <1>t DEF ChoiceFits
    <3>. QED
      BY <3>1, <2>3, <1>2, <1>v DEF BackendInv
  <2>. QED
    BY <1>7, <2>2, <2>3 DEF TryBundled
<1>8. CASE Return(a)
  <2> DEFINE fb  == attempt # None \/ view.fallback
             sel == IF attempt # None THEN attempt.sel ELSE validated
             rt  == LaunchSelection(sel, fb, settings)
             n   == [Idle EXCEPT !.pc = "launch", !.op = proc[a].op, !.rt = rt, !.fb = fb]
  <2>1. fb \in BOOLEAN /\ sel \in Selection
    BY <1>t DEF ChoiceFits, Attempts, Views
  <2>2. validated' = sel /\ (view' = view \/ view' = [selected |-> rt, fallback |-> TRUE, pending |-> TRUE])
        /\ UNCHANGED <<bundled, changed, attempt>>
        /\ (proc' = [proc EXCEPT ![a] = Idle] \/ proc' = [proc EXCEPT ![a] = n])
    BY <1>8 DEF Return
  <2>. HIDE DEF fb, sel
  <2>3. rt \in Selection
    BY <2>1, <1>t, LaunchSelectionType DEF ChoiceFits
  <2>. HIDE DEF rt
  <2>4. ChoiceFits'
    <3>1. [selected |-> rt, fallback |-> TRUE, pending |-> TRUE] \in Views
      BY <2>3 DEF Views
    <3>2. view' \in Views
      BY <2>2, <3>1, <1>t DEF ChoiceFits
    <3>. QED
      BY <1>1, <1>t, <2>1, <2>2, <3>2 DEF ChoiceFits
  <2>5. Fits(a, n, ran')
    <3> DEFINE o == proc[a].op
    <3>1. o \in {"none", "first", "rollback", "degraded", "degradedAgain", "select", "share"}
      BY <1>3 DEF Procs
    <3>. HIDE DEF o
    <3> DEFINE m == [Idle EXCEPT !.pc = "launch", !.op = o, !.rt = rt, !.fb = fb]
    <3>3. m \in Procs /\ m.pc = "launch"
      BY <3>1, <2>1, <2>3, IdleFits DEF Procs
    <3>4. n = m
      BY DEF o
    <3>. HIDE DEF n, m
    <3>. QED
      BY <3>3, <3>4, <1>t DEF Fits
  <2>. HIDE DEF n
  <2>6. ProcsFit'
    BY <2>2, <2>5, <1>t, <1>1, <1>u, OneGoesOn
  <2>. QED
    BY <2>4, <2>6, <1>2 DEF BackendInv
<1>. QED
  BY <1>4, <1>5, <1>6, <1>7, <1>8 DEF Launching

\* What only moves one activity on, to a place where it holds what it needs
LEMMA MovesOn ==
  ASSUME BackendInv, NEW a \in Actors, NEW n, Fits(a, n, ran), proc' = [proc EXCEPT ![a] = n],
         UNCHANGED <<file, installed, choice, ran>>, Counted'
  PROVE  BackendInv'
<1>t. FilesFit /\ ChoiceFits /\ GoodWasRun /\ ProcsFit
  BY DEF BackendInv
<1>1. UNCHANGED <<settings, disk, bundled, changed, validated, active, attempt, view>>
  BY DEF choice
<1>2. FilesFit' /\ ChoiceFits' /\ GoodWasRun'
  BY <1>t, <1>1 DEF FilesFit, ChoiceFits, GoodWasRun
<1>3. ran' = ran
  OBVIOUS
<1>4. ProcsFit'
  BY <1>t, <1>3, OneGoesOn
<1>. QED
  BY <1>2, <1>4 DEF BackendInv

\* A launch from its start to the start of Codex
LEMMA StartingKeeps ==
  ASSUME BackendInv, StartLaunch \/ RefreshCatalog \/ Prepare \/ Degrade \/ LaunchNotReady \/ LaunchThrows
  PROVE  BackendInv'
<1>t. FilesFit /\ ChoiceFits /\ GoodWasRun /\ ProcsFit /\ Counted /\ "launch" \in Actors /\ "catalog" \in Actors
  BY DEF BackendInv, Actors
<1>1. lp \in Procs /\ Fits("launch", lp, ran)
  BY <1>t DEF ProcsFit, lp
<1>2. UNCHANGED <<file, installed, choice, ran>>
  BY DEF StartLaunch, RefreshCatalog, Prepare, Degrade, LaunchNotReady, LaunchThrows, files, choice, ghosts
<1>3. StartLaunch \/ RefreshCatalog => Counted'
  BY <1>t, CountStep, RuntimeConstants DEF StartLaunch, RefreshCatalog
<1>4. Degrade \/ LaunchNotReady \/ LaunchThrows => Counted'
  BY <1>t, FaultCounts DEF Degrade, LaunchNotReady, LaunchThrows
<1>5. CASE StartLaunch
  <2> DEFINE r == [Idle EXCEPT !.op = "first"]
  <2>1. r \in Procs
    BY IdleFits DEF Procs
  <2>2. proc' = [proc EXCEPT !["launch"] = Get("launch", r)]
    BY <1>5 DEF StartLaunch
  <2>. HIDE DEF r
  <2>3. Fits("launch", Get("launch", r), ran)
    BY <2>1, <1>t, GetFits
  <2>. QED
    BY <2>2, <2>3, <1>2, <1>3, <1>5, <1>t, MovesOn
<1>6. CASE RefreshCatalog
  <2>1. proc' = [proc EXCEPT !["catalog"] = Get("catalog", Idle)] /\ Fits("catalog", Get("catalog", Idle), ran)
    BY <1>6, <1>t, IdleFits, GetFits DEF RefreshCatalog
  <2>. QED
    BY <2>1, <1>2, <1>3, <1>6, <1>t, MovesOn
<1>7. CASE Prepare
  <2>1. proc' = [proc EXCEPT !["launch"] = Get("launch", lp)] /\ Fits("launch", Get("launch", lp), ran)
    BY <1>7, <1>1, <1>t, GetFits DEF Prepare
  <2>2. Counted'
    BY <1>7, <1>t DEF Prepare, Counted
  <2>. QED
    BY <2>1, <2>2, <1>2, <1>t, MovesOn
<1>8. CASE Degrade
  <2> DEFINE own == LaunchSelection(bundled, TRUE, settings)
             o == IF own = lp.rt THEN lp.op ELSE IF lp.op = "first" THEN "degraded" ELSE "degradedAgain"
             n == [lp EXCEPT !.pc = "launch", !.rt = own, !.op = o]
  <2>1. own \in Selection
    BY <1>t, LaunchSelectionType DEF ChoiceFits
  <2>2. o \in {"none", "first", "rollback", "degraded", "degradedAgain", "select", "share"}
    BY <1>1 DEF Procs
  <2>3. proc' = [proc EXCEPT !["launch"] = n]
    BY <1>8 DEF Degrade
  <2>. HIDE DEF own, o
  <2>4. n \in Procs /\ n.pc = "launch"
    BY <1>1, <2>1, <2>2 DEF Procs
  <2>. HIDE DEF n
  <2>5. Fits("launch", n, ran)
    BY <2>4 DEF Fits
  <2>. QED
    BY <2>3, <2>5, <1>2, <1>4, <1>8, <1>t, MovesOn
<1>9. CASE LaunchNotReady
  <2> DEFINE r == [lp EXCEPT !.op = "rollback"]
  <2>1. r \in Procs
    BY <1>1 DEF Procs
  <2>2. proc' = [proc EXCEPT !["launch"] = Idle] \/ proc' = [proc EXCEPT !["launch"] = Falling(r, lp.rt)]
    BY <1>9 DEF LaunchNotReady
  <2>. HIDE DEF r
  <2>3. Fits("launch", Falling(r, lp.rt), ran) /\ Fits("launch", Idle, ran)
    BY <2>1, <1>t, FallingFits, IdleFits
  <2>. QED
    BY <2>2, <2>3, <1>2, <1>4, <1>9, <1>t, MovesOn
<1>10. CASE LaunchThrows
  <2>1. proc' = [proc EXCEPT !["launch"] = Idle] /\ Fits("launch", Idle, ran)
    BY <1>10, IdleFits DEF LaunchThrows, Ends
  <2>. QED
    BY <2>1, <1>2, <1>4, <1>10, <1>t, MovesOn
<1>. QED
  BY <1>5, <1>6, <1>7, <1>8, <1>9, <1>10

\* A launch from the start of Codex to its confirmation
LEMMA ConfirmingKeeps ==
  ASSUME BackendInv, LaunchWorks \/ Cancel \/ Confirm \/ Confirmed \/ NotConfirmed PROVE BackendInv'
<1>t. FilesFit /\ ChoiceFits /\ GoodWasRun /\ ProcsFit /\ Counted /\ "launch" \in Actors
  BY DEF BackendInv, Actors
<1>1. lp \in Procs /\ Fits("launch", lp, ran)
  BY <1>t DEF ProcsFit, lp
<1>2. UNCHANGED <<file, installed>>
  BY DEF LaunchWorks, Cancel, Confirm, Confirmed, NotConfirmed, files, choice
<1>3. FilesFit'
  BY <1>t, <1>2 DEF FilesFit
<1>4. CASE LaunchWorks
  <2> DEFINE n == [lp EXCEPT !.pc = "confirm"]
  <2>1. UNCHANGED <<choice, count>>
    BY <1>4 DEF LaunchWorks
  <2>2. ChoiceFits' /\ Counted' /\ ran \subseteq ran'
    BY <1>4, <2>1, <1>t DEF ChoiceFits, choice, Counted, LaunchWorks
  <2>3. GoodWasRun'
    BY <2>1, <2>2, <1>t DEF GoodWasRun, choice
  <2>4. n \in Procs /\ n.pc = "confirm" /\ n.rt = lp.rt
    BY <1>1 DEF Procs
  <2>5. \/ proc' = [proc EXCEPT !["launch"] = Idle]
        \/ proc' = [proc EXCEPT !["launch"] = n] /\ lp.rt # None /\ lp.rt \in ran'
    BY <1>4 DEF LaunchWorks, Goes, Ends, lp
  <2>. HIDE DEF n
  <2>6. lp.rt # None /\ lp.rt \in ran' => Fits("launch", n, ran')
    BY <1>1, <2>4 DEF Fits, Procs
  <2>7. ProcsFit'
    BY <2>2, <2>5, <2>6, <1>t, IdleFits, OneGoesOn
  <2>. QED
    BY <1>3, <2>2, <2>3, <2>7 DEF BackendInv
<1>5. CASE Cancel
  <2>1. UNCHANGED <<settings, disk, bundled, changed, active, ran>> /\ attempt' = None
        /\ proc' = [proc EXCEPT !["launch"] = Idle]
        /\ \/ UNCHANGED <<validated, view>>
           \/ attempt # None /\ validated' = attempt.before /\ view' = attempt.shown
    BY <1>5 DEF Cancel, Ends, ghosts
  <2>2. validated' \in Selection /\ view' \in Views
    BY <2>1, <1>t DEF ChoiceFits, Attempts
  <2>3. ChoiceFits' /\ GoodWasRun'
    BY <2>1, <2>2, <1>t DEF ChoiceFits, GoodWasRun
  <2>4. Counted'
    BY <1>5, <1>t, FaultCounts DEF Cancel
  <2>5. ProcsFit'
    BY <2>1, <1>t, IdleFits, OneGoesOn
  <2>. QED
    BY <1>3, <2>3, <2>4, <2>5 DEF BackendInv
<1>6. CASE Confirm
  <2> DEFINE c == Confirming
             n == [lp EXCEPT !.pc = "confirmed", !.cfg = c]
  <2>1. UNCHANGED <<choice, ran, count>> /\ lp.pc = "confirm"
        /\ (proc' = [proc EXCEPT !["launch"] = Idle] \/ proc' = [proc EXCEPT !["launch"] = n])
    BY <1>6 DEF Confirm, Ends, ghosts
  <2>2. lp.rt \in ran /\ lp.rt \in Selection
    BY <2>1, <1>1 DEF Fits
  <2>3. c \in Settings /\ c.good = lp.rt
    <3> DEFINE rt == lp.rt
               v == bundled.ver
               good == [settings EXCEPT !.good = rt, !.was = v]
               pl == rt.place
               sh == rt.sharing
               whole == [good EXCEPT !.place = pl, !.sharing = sh]
    <3>1. v \in Versions /\ settings \in Settings /\ rt \in Selection /\ pl \in Places /\ sh \in BOOLEAN
      BY <2>2, <1>t DEF ChoiceFits, Selection, Vers
    <3>2. c = good \/ c = whole
      BY DEF Confirming, AppliesFallback
    <3>. HIDE DEF rt, v, pl, sh, c
    <3>3. good \in Settings /\ good.good = rt
      BY <3>1 DEF Settings
    <3>. HIDE DEF good
    <3>4. whole \in Settings /\ whole.good = rt
      BY <3>1, <3>3 DEF Settings
    <3>. QED
      BY <3>2, <3>3, <3>4 DEF rt
  <2>. HIDE DEF c
  <2>4. n \in Procs /\ n.pc = "confirmed" /\ n.cfg = c /\ n.rt = lp.rt
    BY <1>1, <2>3 DEF Procs
  <2>. HIDE DEF n
  <2>5. Fits("launch", n, ran)
    BY <2>2, <2>3, <2>4 DEF Fits
  <2>6. Counted'
    BY <2>1, <1>t DEF Counted
  <2>. QED
    BY <2>1, <2>5, <2>6, <1>2, <1>t, IdleFits, MovesOn
<1>7. CASE Confirmed
  <2>1. /\ lp.pc = "confirmed" /\ settings' = lp.cfg /\ disk' = lp.cfg /\ attempt' \in {None, attempt}
        /\ active' = lp.rt /\ changed' = FALSE /\ validated' \in {validated, lp.rt}
        /\ UNCHANGED <<bundled, ran, count>> /\ proc' = [proc EXCEPT !["launch"] = Idle]
    BY <1>7 DEF Confirmed, Ends
  <2>2. lp.rt \in Selection /\ lp.cfg \in Settings /\ lp.cfg.good \in ran \cup {None}
    BY <2>1, <1>1 DEF Fits
  <2>3. view' \in Views
    <3> DEFINE selected == IF lp.op \in Degraded THEN view.selected ELSE lp.rt
    <3>1. selected \in Selection /\ view.fallback \in BOOLEAN
      BY <2>2, <1>t DEF ChoiceFits, Views
    <3>2. view' = [selected |-> selected, fallback |-> ~AppliesFallback /\ view.fallback,
                   pending |-> lp.op \in Degraded /\ lp.rt # selected]
      BY <1>7 DEF Confirmed
    <3>. HIDE DEF selected
    <3> DEFINE f == ~AppliesFallback /\ view.fallback
               q == lp.op \in Degraded /\ lp.rt # selected
    <3>3. f \in BOOLEAN /\ q \in BOOLEAN
      OBVIOUS
    <3>4. view' = [selected |-> selected, fallback |-> f, pending |-> q]
      BY <3>2
    <3>. HIDE DEF f, q
    <3>. QED
      BY <3>1, <3>3, <3>4 DEF Views
  <2>4. ChoiceFits'
    BY <2>1, <2>2, <2>3, <1>t DEF ChoiceFits
  <2>5. GoodWasRun' /\ Counted'
    BY <2>1, <2>2, <1>t DEF GoodWasRun, Counted
  <2>6. ProcsFit'
    BY <2>1, <1>t, IdleFits, OneGoesOn
  <2>. QED
    BY <1>3, <2>4, <2>5, <2>6 DEF BackendInv
<1>8. CASE NotConfirmed
  <2>1. UNCHANGED <<choice, ran>> /\ proc' = [proc EXCEPT !["launch"] = Idle] /\ Fits("launch", Idle, ran)
    BY <1>8, IdleFits DEF NotConfirmed, Ends, ghosts
  <2>2. Counted'
    BY <1>8, <1>t, FaultCounts DEF NotConfirmed
  <2>. QED
    BY <2>1, <2>2, <1>2, <1>t, MovesOn
<1>. QED
  BY <1>4, <1>5, <1>6, <1>7, <1>8

\* The page actions: what is chosen, shared or installed, and what of it is saved
LEMMA RequestedType ==
  ASSUME ChoiceFits, NEW place \in Places PROVE Requested(place) \in Wanted
<1> DEFINE v == IF place = Bundled THEN bundled.ver ELSE IF place = Custom THEN None ELSE place
<1>1. v \in Vers \cup {None}
  BY Assumed DEF ChoiceFits, Vers
<1>2. Requested(place) = [place |-> place, ver |-> v]
  BY DEF Requested
<1>. HIDE DEF v
<1>. QED
  BY <1>1, <1>2 DEF Wanted

\* A page action that begins verifies what it was asked for.
LEMMA VerifyingFits ==
  ASSUME ChoiceFits, NEW w \in Selection \cup Wanted, NEW o \in {"select", "share"}, NEW f \in BOOLEAN, NEW rs
  PROVE  Fits("user", [Idle EXCEPT !.pc = "verify", !.op = o, !.sel = w, !.flag = f], rs)
<1> DEFINE n == [Idle EXCEPT !.pc = "verify", !.op = o, !.sel = w, !.flag = f]
<1>1. n \in Procs /\ n.pc = "verify" /\ n.sel = w
  BY IdleFits DEF Procs
<1>. HIDE DEF n
<1>2. Fits("user", n, rs)
  BY <1>1 DEF Fits
<1>. QED
  BY <1>2 DEF n

\* The present settings with the sharing or the place changed name the same good backend.
LEMMA EditedSettings ==
  ASSUME ChoiceFits, GoodWasRun, NEW f \in BOOLEAN, NEW p \in Places
  PROVE  /\ [settings EXCEPT !.sharing = f] \in Settings /\ [settings EXCEPT !.sharing = f].good \in ran \cup {None}
         /\ [settings EXCEPT !.place = p] \in Settings /\ [settings EXCEPT !.place = p].good \in ran \cup {None}
<1>1. settings \in Settings /\ settings.good \in ran \cup {None}
  BY DEF ChoiceFits, GoodWasRun
<1>. QED
  BY <1>1 DEF Settings

LEMMA ChoosingKeeps ==
  ASSUME BackendInv,
         \/ \E p_ \in Places : Select(p_)
         \/ \E v_ \in Alphas : Install(v_)
         \/ \E on \in BOOLEAN : Share(on)
  PROVE  BackendInv'
<1>t. FilesFit /\ ChoiceFits /\ GoodWasRun /\ ProcsFit /\ Counted /\ "user" \in Actors
  BY DEF BackendInv, Actors
<1>1. Counted' /\ count["starts"] \in Nat /\ count["starts"] + 1 <= MaxStarts
  BY <1>t, CountStep, RuntimeConstants DEF Select, Install, Share, UserIdle
<1>2. settings.sharing \in BOOLEAN
  BY <1>t DEF ChoiceFits, Settings
<1>3. ASSUME NEW place \in Places, Select(place) PROVE BackendInv'
  <2> DEFINE w == Requested(place)
             f == settings.sharing
             n == [Idle EXCEPT !.pc = "verify", !.op = "select", !.sel = w, !.flag = f]
  <2>1. UNCHANGED <<file, installed, choice, ran>> /\ proc' = [proc EXCEPT !["user"] = n]
    BY <1>3 DEF Select, files, choice, ghosts
  <2>2. w \in Wanted
    BY <1>t, RequestedType
  <2>3. Fits("user", n, ran)
    <3>. HIDE DEF w, f
    <3>1. f \in BOOLEAN
      BY <1>2 DEF f
    <3>. QED
      BY <2>2, <3>1, <1>t, VerifyingFits
  <2>. HIDE DEF n
  <2>. QED
    BY <2>1, <2>3, <1>1, <1>t, MovesOn
<1>4. ASSUME NEW v \in Alphas, Install(v) PROVE BackendInv'
  <2> DEFINE w == Requested(v)
             f == settings.sharing
             n == [Idle EXCEPT !.pc = "verify", !.op = "select", !.sel = w, !.flag = f]
  <2>1. UNCHANGED <<settings, disk, bundled, changed, validated, active, attempt, view, ran>>
        /\ proc' = [proc EXCEPT !["user"] = n]
    BY <1>4 DEF Install, ghosts
  <2>2. v \in Places /\ v # Bundled
    BY RuntimeConstants DEF Places
  <2>3. Fits("user", n, ran')
    <3>1. w \in Wanted
      BY <1>t, <2>2, RequestedType
    <3>2. f \in BOOLEAN
      BY <1>2
    <3>. HIDE DEF w, f
    <3>. QED
      BY <3>1, <3>2, <1>t, VerifyingFits
  <2>. HIDE DEF n
  <2>4. ProcsFit'
    BY <2>1, <2>3, <1>t, OneGoesOn
  <2>5. FilesFit'
    <3> DEFINE stamp == MaxFiles + count["starts"] + 1
    <3>1. stamp \in Stamps
      BY <1>1, Assumed DEF Stamps
    <3>2. PICK with \in {{FALSE}, BOOLEAN} : file' = [file EXCEPT ![v] = [ver |-> v, stamp |-> stamp, answers |-> with]]
      BY <1>4 DEF Install
    <3>. HIDE DEF stamp
    <3> DEFINE b == [ver |-> v, stamp |-> stamp, answers |-> with]
    <3>3. b \in File
      BY <3>1 DEF File
    <3>4. file' = [file EXCEPT ![v] = b]
      BY <3>2
    <3>. HIDE DEF b
    <3>5. file' \in [Places -> File \cup {None}] /\ file'[Bundled] = file[Bundled]
      BY <3>3, <3>4, <2>2, <1>t, Assumed DEF FilesFit
    <3>6. installed' \subseteq Alphas
      BY <1>4, <1>t DEF Install, FilesFit
    <3>. QED
      BY <3>5, <3>6, <1>t DEF FilesFit
  <2>6. ChoiceFits' /\ GoodWasRun'
    BY <2>1, <1>t DEF ChoiceFits, GoodWasRun
  <2>. QED
    BY <2>4, <2>5, <2>6, <1>1 DEF BackendInv
<1>5. ASSUME NEW on \in BOOLEAN, Share(on) PROVE BackendInv'
  <2> DEFINE sel == validated
             c == [settings EXCEPT !.sharing = FALSE]
             n == [Idle EXCEPT !.op = "share", !.flag = on, !.sel = sel, !.pc = "save", !.cfg = c]
             k == [Idle EXCEPT !.op = "share", !.flag = on, !.sel = sel, !.pc = "verify", !.cfg = None]
  <2>1. UNCHANGED <<file, installed, choice, ran>>
        /\ (proc' = [proc EXCEPT !["user"] = k] \/ proc' = [proc EXCEPT !["user"] = n])
    BY <1>5 DEF Share, files, choice, ghosts
  <2>2. sel \in Selection
    BY <1>t DEF ChoiceFits
  <2>3. c \in Settings /\ c.good \in ran \cup {None}
    BY <1>t, Assumed, EditedSettings
  <2>. HIDE DEF sel, c
  <2>4. n \in Procs /\ n.pc = "save" /\ n.op = "share" /\ n.cfg = c
    BY <2>2, <2>3, IdleFits DEF Procs
  <2>5. k \in Procs /\ k.pc = "verify" /\ k.sel = sel
    BY <2>2, IdleFits DEF Procs
  <2>. HIDE DEF n, k
  <2>6. Fits("user", n, ran) /\ Fits("user", k, ran)
    BY <2>2, <2>3, <2>4, <2>5 DEF Fits
  <2>. QED
    BY <2>1, <2>6, <1>1, <1>t, MovesOn
<1>. QED
  BY <1>3, <1>4, <1>5

LEMMA SavingKeeps ==
  ASSUME BackendInv, UserVerified \/ Selected \/ Shared \/ NotSaved PROVE BackendInv'
<1>t. FilesFit /\ ChoiceFits /\ GoodWasRun /\ ProcsFit /\ Counted /\ "user" \in Actors
  BY DEF BackendInv, Actors
<1>1. up \in Procs /\ Fits("user", up, ran)
  BY <1>t DEF ProcsFit, up
<1>2. UNCHANGED <<file, installed, ran>>
  BY DEF UserVerified, Selected, Shared, NotSaved, files, choice, ghosts
<1>3. FilesFit'
  BY <1>t, <1>2 DEF FilesFit
<1>4. CASE UserVerified
  <2> DEFINE sel == up.sel
             c == Checked(sel.place, sel.ver)
             shared == [settings EXCEPT !.sharing = TRUE]
             placed == [settings EXCEPT !.place = sel.place]
             n == [up EXCEPT !.pc = "save", !.cfg = shared]
             m == [up EXCEPT !.pc = "save", !.sel = c, !.cfg = placed]
  <2>1. up.pc = "verify" /\ UNCHANGED <<choice, count>>
        /\ \/ proc' = [proc EXCEPT !["user"] = Idle]
           \/ proc' = [proc EXCEPT !["user"] = n] /\ up.op = "share"
           \/ proc' = [proc EXCEPT !["user"] = m] /\ Verified(sel.place, sel.ver, up.flag, FALSE)
    BY <1>4 DEF UserVerified
  <2>2. sel \in Selection \cup Wanted
    BY <2>1, <1>1 DEF Fits
  <2>3. sel.place \in Places /\ sel.ver \in Vers \cup {None}
    BY <2>2 DEF Selection, Wanted, Vers
  <2>4. Verified(sel.place, sel.ver, up.flag, FALSE) => c \in Selection
    BY <2>3, <1>t, CheckedType DEF Verified
  <2>5. /\ shared \in Settings /\ shared.good \in ran \cup {None} /\ placed \in Settings /\ placed.good \in ran \cup {None}
    BY <2>3, <1>t, EditedSettings
  <2>. HIDE DEF c, shared, placed
  <2>6. n \in Procs /\ n.pc = "save" /\ n.cfg = shared /\ n.op = up.op
    BY <1>1, <2>5 DEF Procs
  <2>7. c \in Selection => m \in Procs /\ m.pc = "save" /\ m.cfg = placed /\ m.sel = c
    BY <1>1, <2>5 DEF Procs
  <2>. HIDE DEF n, m, sel
  <2>8. (up.op = "share" => Fits("user", n, ran)) /\ (c \in Selection => Fits("user", m, ran))
    BY <2>5, <2>6, <2>7 DEF Fits
  <2>9. Counted'
    BY <2>1, <1>t DEF Counted
  <2>. QED
    BY <2>1, <2>4, <2>8, <2>9, <1>2, <1>t, IdleFits, MovesOn
<1>5. CASE Selected \/ Shared
  <2>1. /\ up.pc = "save" /\ settings' = up.cfg /\ disk' = up.cfg /\ UNCHANGED <<bundled, active, count>>
        /\ proc' = [proc EXCEPT !["user"] = Idle]
        /\ changed' \in {FALSE, changed} /\ attempt' \in {None, attempt}
    BY <1>5 DEF Selected, Shared, Ends
  <2>2. up.cfg \in Settings /\ up.cfg.good \in ran \cup {None}
    BY <2>1, <1>1 DEF Fits
  <2>3. validated' \in Selection /\ view' \in Views
    <3>1. CASE Selected
      <4>1. up.sel \in Selection
        BY <3>1, <1>1 DEF Selected, Fits
      <4>2. validated' = up.sel /\ view' = Shown(LaunchSelection(up.sel, FALSE, up.cfg), FALSE)
        BY <3>1 DEF Selected
      <4>. QED
        BY <4>1, <4>2, <2>2, LaunchSelectionType, ShownType
    <3>2. CASE Shared
      <4>1. validated' = validated /\ view' = Shown(LaunchSelection(validated, view.fallback, up.cfg), view.fallback)
        BY <3>2 DEF Shared
      <4>2. validated \in Selection /\ view.fallback \in BOOLEAN
        BY <1>t DEF ChoiceFits, Views
      <4>. QED
        BY <4>1, <4>2, <2>2, LaunchSelectionType, ShownType
    <3>. QED
      BY <3>1, <3>2, <1>5
  <2>4. ChoiceFits'
    BY <2>1, <2>2, <2>3, <1>t DEF ChoiceFits
  <2>5. GoodWasRun' /\ Counted'
    BY <2>1, <2>2, <1>2, <1>t DEF GoodWasRun, Counted
  <2>6. ProcsFit'
    BY <2>1, <1>2, <1>t, IdleFits, OneGoesOn
  <2>. QED
    BY <1>3, <2>4, <2>5, <2>6 DEF BackendInv
<1>6. CASE NotSaved
  <2>1. UNCHANGED choice /\ proc' = [proc EXCEPT !["user"] = Idle] /\ Fits("user", Idle, ran)
    BY <1>6, IdleFits DEF NotSaved, Ends
  <2>2. Counted'
    BY <1>6, <1>t, FaultCounts DEF NotSaved
  <2>. QED
    BY <2>1, <2>2, <1>2, <1>t, MovesOn
<1>. QED
  BY <1>4, <1>5, <1>6

\* Files that appear, change or go, and the injector's next start
LEMMA FilesChange ==
  ASSUME BackendInv, NEW place \in Places, Replace(place) \/ Remove(place) PROVE BackendInv'
<1>t. FilesFit /\ ChoiceFits /\ GoodWasRun /\ ProcsFit /\ Counted
  BY DEF BackendInv
<1>1. UNCHANGED <<choice, proc, ran>> /\ Count("files", MaxFiles)
  BY DEF Replace, Remove, ghosts
<1>2. Counted' /\ count["files"] \in Nat /\ count["files"] + 1 <= MaxFiles
  BY <1>1, <1>t, CountStep, RuntimeConstants
<1>3. ChoiceFits' /\ GoodWasRun' /\ ProcsFit'
  BY <1>1, <1>t DEF choice, ChoiceFits, GoodWasRun, ProcsFit
<1>4. FilesFit'
  <2>1. CASE Replace(place)
    <3> DEFINE stamp == count["files"] + 1
    <3>1. stamp \in Stamps
      BY <1>2, Assumed DEF Stamps
    <3>2. PICK ver \in (IF place \in Alphas THEN {place} ELSE Versions \ {Fresh.ver}), answers \in {{}, BOOLEAN} :
            file' = [file EXCEPT ![place] = [ver |-> ver, stamp |-> stamp, answers |-> answers]]
      BY <2>1 DEF Replace
    <3>. HIDE DEF stamp
    <3> DEFINE b == [ver |-> ver, stamp |-> stamp, answers |-> answers]
    <3>3. b \in File /\ b.ver = ver
      BY <3>1 DEF File
    <3>4. file' = [file EXCEPT ![place] = b]
      BY <3>2
    <3>5. place = Bundled => ver \in Versions
      BY <3>2, RuntimeConstants
    <3>6. UNCHANGED installed
      BY <1>1 DEF choice
    <3>. HIDE DEF b
    <3>. QED
      BY <3>3, <3>4, <3>5, <3>6, <1>t, Assumed DEF FilesFit
  <2>2. CASE Remove(place)
    <3>1. file' = [file EXCEPT ![place] = None] /\ place # Bundled /\ UNCHANGED installed
      BY <2>2, <1>1 DEF Remove, choice
    <3>. QED
      BY <3>1, <1>t, Assumed DEF FilesFit
  <2>. QED
    BY <2>1, <2>2
<1>. QED
  BY <1>2, <1>3, <1>4 DEF BackendInv

LEMMA NobodyAtWork ==
  ASSUME proc' = [a \in Actors |-> Idle] PROVE ProcsFit'
BY IdleFits DEF ProcsFit

LEMMA RestartKeeps ==
  ASSUME BackendInv, Restart PROVE BackendInv'
<1>t. FilesFit /\ ChoiceFits /\ GoodWasRun /\ ProcsFit /\ Counted
  BY DEF BackendInv
<1> DEFINE own    == Checked(Bundled, None)
           newer  == disk.was # None /\ disk.was # own.ver
           stands == ConfiguredStands(disk, Listed, own)
           good   == ~newer /\ TriesGood(disk, None, own) /\ GoodStands(disk.good)
           c      == Checked(disk.place, None)
           sel    == IF stands THEN [c EXCEPT !.sharing = FALSE]
                     ELSE IF good THEN GoodSelection(disk.good) ELSE own
           shown  == LaunchSelection(sel, ~stands, disk)
<1>1. /\ Verified(Bundled, None, FALSE, ~stands /\ ~good)
      /\ settings' = disk /\ bundled' = own /\ changed' = newer /\ installed' = Listed
      /\ validated' = sel /\ active' = None /\ attempt' = None
      /\ view' = [selected |-> shown, fallback |-> ~stands, pending |-> FALSE]
      /\ proc' = [a \in Actors |-> Idle]
      /\ UNCHANGED <<file, disk, ran>> /\ Count("starts", MaxStarts)
  BY DEF Restart, Initialized, files
<1>2. file[Bundled] # None
  BY <1>1 DEF Verified
<1>3. own \in Selection /\ own.ver \in Versions
  <2>1. own \in Selection
    BY <1>2, <1>t, CheckedType, Assumed
  <2>2. own.ver = file[Bundled].ver
    BY DEF Checked
  <2>. QED
    BY <2>1, <2>2, <1>2, <1>t DEF FilesFit
<1>4. disk \in Settings /\ disk.place \in Places /\ disk.good \in Selection \cup {None}
  BY <1>t DEF ChoiceFits, Settings
<1>5. sel \in Selection
  <2>1. CASE stands
    <3>1. file[disk.place] # None
      BY <2>1 DEF ConfiguredStands, Verified
    <3>2. c \in Selection
      BY <3>1, <1>4, <1>t, CheckedType
    <3>. HIDE DEF c
    <3>3. [c EXCEPT !.sharing = FALSE] \in Selection
      BY <3>2 DEF Selection
    <3>. QED
      BY <2>1, <3>3
  <2>2. CASE ~stands /\ good
    <3>1. disk.good \in Selection
      BY <2>2, <1>4 DEF TriesGood
    <3>2. GoodSelection(disk.good) \in Selection
      BY <3>1, <2>2, <1>t, GoodSelectionType
    <3>. QED
      BY <2>2, <3>2
  <2>3. CASE ~stands /\ ~good
    BY <2>3, <1>3
  <2>. QED
    BY <2>1, <2>2, <2>3
<1>6. stands \in BOOLEAN /\ newer \in BOOLEAN
  BY DEF ConfiguredStands, Verified
<1>. HIDE DEF own, newer, stands, good, c, sel
<1>7. shown \in Selection
  BY <1>4, <1>5, <1>6, LaunchSelectionType
<1>. HIDE DEF shown
<1>8. view' \in Views
  <2> DEFINE f == ~stands
  <2>1. f \in BOOLEAN /\ view' = [selected |-> shown, fallback |-> f, pending |-> FALSE]
    BY <1>1
  <2>. HIDE DEF f
  <2>. QED
    BY <1>7, <2>1 DEF Views
<1>9. ChoiceFits'
  BY <1>1, <1>3, <1>4, <1>5, <1>6, <1>8 DEF ChoiceFits
<1>10. FilesFit' /\ GoodWasRun'
  <2>1. Listed \subseteq Alphas
    BY DEF Listed
  <2>. QED
    BY <2>1, <1>1, <1>t DEF FilesFit, GoodWasRun
<1>11. Counted'
  BY <1>1, <1>t, CountStep, RuntimeConstants
<1>. QED
  BY <1>1, <1>9, <1>10, <1>11, NobodyAtWork DEF BackendInv

LEMMA InitBackendInv ==
  ASSUME Init PROVE BackendInv
<1>1. /\ file = [p_ \in Places |-> IF p_ \in Alphas THEN None ELSE Fresh]
      /\ disk = [place |-> Bundled, sharing |-> FALSE, was |-> None, good |-> None]
      /\ settings = disk /\ changed = FALSE /\ installed = Listed
      /\ bundled = Checked(Bundled, None) /\ validated = bundled /\ active = None /\ attempt = None
      /\ view = [selected |-> bundled, fallback |-> FALSE, pending |-> FALSE]
      /\ proc = [a \in Actors |-> Idle] /\ ran = {}
      /\ count = [w \in {"files", "starts", "faults"} |-> 0]
  BY DEF Init
<1>2. Fresh \in File
  <2> DEFINE v == CHOOSE v \in Versions \ Sharing : TRUE
  <2>1. v \in Versions
    BY RuntimeConstants
  <2>2. Fresh = [ver |-> v, stamp |-> 0, answers |-> {FALSE}]
    BY DEF Fresh
  <2>. HIDE DEF v
  <2>3. 0 \in Stamps
    BY Assumed DEF Stamps
  <2>. QED
    BY <2>1, <2>2, <2>3 DEF File
<1>3. file \in [Places -> File \cup {None}] /\ file[Bundled] = Fresh /\ Bundled \in Places
  BY <1>1, <1>2, RuntimeConstants DEF Places
<1>4. FilesFit
  <2>1. installed \subseteq Alphas
    BY <1>1 DEF Listed
  <2>. QED
    BY <1>3, <2>1, Assumed DEF FilesFit
<1>5. bundled \in Selection /\ bundled.ver \in Versions
  <2>1. bundled = [place |-> Bundled, ver |-> Fresh.ver, stamp |-> Fresh.stamp, sharing |-> FALSE]
    BY <1>1, <1>3 DEF Checked
  <2>2. Fresh.stamp \in Stamps
    BY <1>2 DEF File
  <2>. QED
    BY <1>3, <2>1, <2>2, Assumed DEF Selection
<1>6. disk \in Settings
  BY <1>1, Assumed DEF Settings
<1>7. view \in Views
  BY <1>1, <1>5 DEF Views
<1>8. ChoiceFits /\ GoodWasRun
  <2>1. disk.good = None
    BY <1>1
  <2>. QED
    BY <1>1, <1>5, <1>6, <1>7, <2>1 DEF ChoiceFits, GoodWasRun
<1>9. ProcsFit
  BY <1>1, IdleFits DEF ProcsFit
<1>10. Counted
  BY <1>1, Assumed DEF Counted
<1>. QED
  BY <1>4, <1>8, <1>9, <1>10 DEF BackendInv

LEMMA NextBackendInv ==
  ASSUME BackendInv, Next \/ UNCHANGED vars PROVE BackendInv'
<1>1. CASE UNCHANGED vars
  <2>1. UNCHANGED <<file, installed, settings, disk, bundled, changed, validated, active, attempt, view, proc, ran, count>>
    BY <1>1 DEF vars, files, choice, ghosts
  <2>. QED
    BY <2>1 DEF BackendInv, FilesFit, ChoiceFits, GoodWasRun, ProcsFit, Counted
<1>2. CASE Step
  BY <1>2, LaunchingKeeps, StartingKeeps, ConfirmingKeeps, SavingKeeps DEF Step
<1>3. CASE Environment
  <2>2. CASE \E p_ \in Places : Replace(p_) \/ Remove(p_)
    BY <2>2, FilesChange
  <2>3. CASE StartLaunch \/ RefreshCatalog \/ Degrade \/ LaunchNotReady \/ LaunchThrows
    BY <2>3, StartingKeeps
  <2>4. CASE Cancel \/ NotConfirmed
    BY <2>4, ConfirmingKeeps
  <2>5. CASE NotSaved
    BY <2>5, SavingKeeps
  <2>6. CASE Restart
    BY <2>6, RestartKeeps
  <2>7. CASE \/ \E p_ \in Places : Select(p_)
             \/ \E v \in Alphas : Install(v)
             \/ \E on \in BOOLEAN : Share(on)
    BY <2>7, ChoosingKeeps
  <2>. QED
    BY <1>3, <2>2, <2>3, <2>4, <2>5, <2>6, <2>7 DEF Environment
<1>. QED
  BY <1>1, <1>2, <1>3 DEF Next

LEMMA BackendParts ==
  /\ [PartNext]_all => Next \/ UNCHANGED vars
  /\ PartInit => Init /\ S!Init
<1>1. [PartNext]_all => Next \/ UNCHANGED vars
  BY DEF PartNext, all, Rest, BackendSteps, BackendWorld, InstallRuns, InstallWorld, RelayRuns, RelayReads, RelayWorld,
         LooksRuns, Looks, Next
<1>. QED
  BY <1>1 DEF PartInit

\* Every backend that is noted as good, in memory, on disk or in what an activity is about to write, is one
\* that Codex was started with, and each activity holds what it needs behind its await (manager.mjs).
THEOREM BackendInvariant == PartSpec => []BackendInv
<1>1. PartInit => BackendInv
  BY BackendParts, InitBackendInv
<1>2. BackendInv /\ [PartNext]_all => BackendInv'
  BY BackendParts, NextBackendInv
<1>. QED
  BY <1>1, <1>2, PTL DEF PartSpec

\* The backend a failing launch falls back to was really run; and the directory of an installed version is
\* whole, as it was found or empty, loses nothing of what was there, and is what is reported of it, whatever
\* fails and whenever the injector ends (manager.mjs, install.mjs).
THEOREM BackendsStandFirm == PartSpec => []BackendsStand
<1>1. BackendInv /\ InstallInv => BackendsStand
  <2>1. BackendInv => TypeOK
    BY DEF BackendInv, FilesFit, ChoiceFits, Views, TypeOK
  <2>2. BackendInv => GoodWasRun
    BY DEF BackendInv
  <2>. QED
    BY <2>1, <2>2, InstallIsWholeByInv DEF BackendsStand
<1>. QED
  BY <1>1, BackendInvariant, BackendInstallInvariant, PTL

-----------------------------------------------------------------------------
(* The relays a launch looks for *)

Relays == [pc : {"none", "starting", "claiming", "claimed", "running", "cleaning", "leaving", "gone"},
           mode : {"child", "sidecar"}, gen : Nat, pid : Pids \cup {None}, upstream : {"none", "running", "ended"},
           missed : BOOLEAN, end : {"none", "failed", "upstream", "ranOut", "killed", "signal"},
           client : {"open", "closed"}]

\* A process that serves a session has the pid of its relay; a state file speaks of the relay of its session;
\* and what a look has read and found of its generation is such a file, of a relay that was started.
Files == [pid : Pids \cup {None}, of : Sessions \cup {None}, gen : Nat]
Looking == [pc : {"idle", "next", "process", "ready", "missing"}, left : SUBSET Sessions, read : Files, gen : Nat]
RelaysFit == relay \in [Sessions -> Relays] /\ config \in Nat /\ config >= 1
ProcsServe ==
  /\ procs \in [Pids -> Sessions \cup {None, "other"}]
  /\ \A i \in Pids, s \in Sessions : procs[i] = s => Q!Up(s) /\ relay[s].pid = i
  /\ \A s \in Sessions : Q!Up(s) => relay[s].pid \in Pids
Speaks(f, s) ==
  f.of = s /\ f.pid = relay[s].pid /\ f.pid \in Pids /\ f.gen = relay[s].gen /\ relay[s].pc # "none"
StatesFit ==
  /\ state \in [Sessions -> Files]
  /\ \A s \in Sessions : state[s] = Q!NoFile \/ Speaks(state[s], s)
LookFits ==
  /\ look \in Looking
  /\ look.pc \in {"next", "process"} => look.gen >= 1
  /\ look.pc = "process" => look.read.gen = look.gen /\ look.read.of \in Sessions /\ Speaks(look.read, look.read.of)
LookInv == RelaysFit /\ ProcsServe /\ StatesFit /\ LookFits

\* A relay that goes on keeps its generation and its pid.
Same(s, r) == r \in Relays /\ r.gen = relay[s].gen /\ r.pid = relay[s].pid

LEMMA RelayGoesOn ==
  ASSUME LookInv, NEW s \in Sessions, NEW r, Same(s, r),
         r.pc = relay[s].pc \/ (Q!Up(s) /\ r.pc \notin {"none", "gone"}),
         relay' = [relay EXCEPT ![s] = r], UNCHANGED <<procs, config, look>>,
         state' = state \/ \E f \in {Q!NoFile, [pid |-> relay[s].pid, of |-> s, gen |-> relay[s].gen]} :
                             state' = [state EXCEPT ![s] = f] /\ Q!Up(s)
  PROVE  LookInv'
<1>t. RelaysFit /\ ProcsServe /\ StatesFit /\ LookFits
  BY DEF LookInv
<1>1. relay' \in [Sessions -> Relays] /\ relay'[s] = r /\ \A u \in Sessions : u # s => relay'[u] = relay[u]
  BY <1>t DEF RelaysFit, Same
<1>2. \A u \in Sessions : /\ relay'[u].gen = relay[u].gen /\ relay'[u].pid = relay[u].pid
                          /\ Q!Up(u)' <=> Q!Up(u)
                          /\ relay[u].pc # "none" => relay'[u].pc # "none"
  BY <1>1 DEF Same, Q!Up
<1>3. RelaysFit'
  BY <1>1, <1>t DEF RelaysFit
<1>4. ProcsServe'
  BY <1>2, <1>t DEF ProcsServe
<1>5. \A f, u : u \in Sessions /\ Speaks(f, u) => Speaks(f, u)'
  BY <1>2 DEF Speaks
<1>6. StatesFit'
  <2>1. CASE state' = state
    BY <2>1, <1>5, <1>t DEF StatesFit
  <2>2. ASSUME NEW f \in {Q!NoFile, [pid |-> relay[s].pid, of |-> s, gen |-> relay[s].gen]},
               state' = [state EXCEPT ![s] = f], Q!Up(s)
        PROVE  StatesFit'
    <3>1. f = Q!NoFile \/ Speaks(f, s)
      BY <2>2, <1>t DEF Speaks, ProcsServe, Q!Up
    <3>2. state'[s] = f /\ \A u \in Sessions : u # s => state'[u] = state[u]
      BY <2>2, <1>t DEF StatesFit
    <3>4. state' \in [Sessions -> Files]
      <4>1. Q!NoFile \in Files
        BY DEF Files, Q!NoFile
      <4>2. [pid |-> relay[s].pid, of |-> s, gen |-> relay[s].gen] \in Files
        <5>1. relay[s].pid \in Pids \cup {None} /\ relay[s].gen \in Nat
          BY <1>t DEF RelaysFit, Relays
        <5>. QED
          BY <5>1 DEF Files
      <4>3. f \in Files
        BY <2>2, <4>1, <4>2
      <4>. QED
        BY <2>2, <4>3, <1>t DEF StatesFit
    <3>3. ASSUME NEW u \in Sessions PROVE (state[u] = Q!NoFile \/ Speaks(state[u], u))'
      <4>1. CASE u = s
        <5>1. f = Q!NoFile \/ Speaks(f, s)'
          BY <3>1, <1>5
        <5>. QED
          BY <3>2, <4>1, <5>1 DEF Speaks
      <4>2. CASE u # s
        <5>1. state'[u] = state[u]
          BY <3>2, <4>2
        <5>2. state[u] = Q!NoFile \/ Speaks(state[u], u)
          BY <1>t DEF StatesFit
        <5>. QED
          BY <5>1, <5>2, <1>2 DEF Speaks
      <4>. QED
        BY <4>1, <4>2
    <3>. QED
      BY <3>3, <3>4 DEF StatesFit
  <2>. QED
    BY <2>1, <2>2
<1>7. LookFits'
  BY <1>5, <1>t DEF LookFits
<1>. QED
  BY <1>3, <1>4, <1>6, <1>7 DEF LookInv

\* A relay that ends gives its pid back.
LEMMA RelayEnds ==
  ASSUME LookInv, NEW s \in Sessions, Q!Up(s),
         NEW how \in {"none", "failed", "upstream", "ranOut", "killed", "signal"}, Q!Ends(s, how), UNCHANGED <<state, config, look>>
  PROVE  LookInv'
<1>t. RelaysFit /\ ProcsServe /\ StatesFit /\ LookFits
  BY DEF LookInv
<1> DEFINE r == [relay[s] EXCEPT !.pc = "gone", !.end = how]
           i == relay[s].pid
<1>1. r \in Relays /\ r.pc = "gone" /\ r.gen = relay[s].gen /\ r.pid = relay[s].pid
  <2> DEFINE q == relay[s]
  <2>1. q \in Relays
    BY <1>t DEF RelaysFit
  <2>2. r = [q EXCEPT !.pc = "gone", !.end = how]
    OBVIOUS
  <2>. HIDE DEF q, r
  <2>3. r \in Relays /\ r.pc = "gone" /\ r.gen = q.gen /\ r.pid = q.pid
    BY <2>1, <2>2 DEF Relays
  <2>. QED
    BY <2>3 DEF q
<1>2. relay' = [relay EXCEPT ![s] = r] /\ procs' = [procs EXCEPT ![i] = None]
  BY DEF Q!Ends
<1>d. i \in Pids
  BY <1>t DEF ProcsServe
<1>. HIDE DEF r
<1>3. relay' \in [Sessions -> Relays] /\ relay'[s] = r /\ \A u \in Sessions : u # s => relay'[u] = relay[u]
  BY <1>1, <1>2, <1>t DEF RelaysFit
<1>4. \A u \in Sessions : /\ relay'[u].gen = relay[u].gen /\ relay'[u].pid = relay[u].pid
                          /\ relay[u].pc # "none" => relay'[u].pc # "none"
                          /\ Q!Up(u)' <=> Q!Up(u) /\ u # s
  BY <1>1, <1>3 DEF Q!Up
<1>5. RelaysFit'
  BY <1>3, <1>t DEF RelaysFit
<1>6. ProcsServe'
  <2>1. procs' \in [Pids -> Sessions \cup {None, "other"}]
    BY <1>2, <1>d, <1>t DEF ProcsServe
  <2>2. ASSUME NEW j \in Pids, NEW u \in Sessions, procs'[j] = u PROVE Q!Up(u)' /\ relay'[u].pid = j
    <3>1. j # i /\ procs[j] = u
      BY <1>2, <1>d, <2>2, <1>t, RelayAssumption DEF ProcsServe
    <3>2. Q!Up(u) /\ relay[u].pid = j
      BY <3>1, <1>t DEF ProcsServe
    <3>. QED
      BY <3>1, <3>2, <1>4
  <2>3. \A u \in Sessions : Q!Up(u)' => relay'[u].pid \in Pids
    BY <1>4, <1>t DEF ProcsServe
  <2>. QED
    BY <2>1, <2>2, <2>3 DEF ProcsServe
<1>7. \A f, u : u \in Sessions /\ Speaks(f, u) => Speaks(f, u)'
  BY <1>4 DEF Speaks
<1>8. StatesFit' /\ LookFits'
  BY <1>7, <1>t DEF StatesFit, LookFits
<1>. QED
  BY <1>5, <1>6, <1>8 DEF LookInv

LEMMA NothingMoves ==
  ASSUME LookInv, UNCHANGED <<relay, procs, state, config, look>> PROVE LookInv'
BY DEF LookInv, RelaysFit, ProcsServe, StatesFit, LookFits, Speaks, Q!Up

Started(q, i, g, m, v) ==
  [q EXCEPT !.pc = "starting", !.mode = m, !.gen = g, !.pid = i, !.upstream = v]

LEMMA StartedType ==
  ASSUME NEW q \in Relays, NEW i \in Pids, NEW g \in Nat, NEW m \in {"child", "sidecar"},
         NEW v \in {"none", "running", "ended"}
  PROVE  Started(q, i, g, m, v) \in Relays
BY DEF Relays, Started

LEMMA RelayStarts ==
  ASSUME LookInv, NEW s \in Sessions, Q!Start(s) PROVE LookInv'
<1>t. RelaysFit /\ ProcsServe /\ StatesFit /\ LookFits
  BY DEF LookInv
<1>1. PICK i \in Pids, m \in {"child"} :
        /\ procs[i] = None /\ procs' = [procs EXCEPT ![i] = s]
        /\ relay' = [relay EXCEPT ![s] = [relay[s] EXCEPT !.pc = "starting", !.mode = m, !.gen = config, !.pid = i,
                                            !.upstream = IF m = "sidecar" THEN "running" ELSE "none"]]
  BY DEF Q!Start
<1>2. relay[s].pc = "none" /\ UNCHANGED <<state, config, look>>
  BY DEF Q!Start
<1> DEFINE up_ == IF m = "sidecar" THEN "running" ELSE "none"
           r == [relay[s] EXCEPT !.pc = "starting", !.mode = m, !.gen = config, !.pid = i, !.upstream = up_]
<1>3. r \in Relays /\ r.pc = "starting" /\ r.pid = i
  <2>1. up_ \in {"none", "running", "ended"} /\ m \in {"child", "sidecar"}
    OBVIOUS
  <2> DEFINE g == config
  <2>2. relay[s] \in Relays /\ g \in Nat
    BY <1>t DEF RelaysFit
  <2>3. r = Started(relay[s], i, g, m, up_)
    BY DEF Started
  <2>. HIDE DEF up_, g, r
  <2>. QED
    <3>1. i \in Pids /\ m \in {"child", "sidecar"} /\ up_ \in {"none", "running", "ended"}
      BY <2>1
    <3>2. Started(relay[s], i, g, m, up_) \in Relays
      BY <2>2, <3>1, StartedType, Zenon
    <3>3. Started(relay[s], i, g, m, up_).pc = "starting" /\ Started(relay[s], i, g, m, up_).pid = i
      <4> DEFINE q == relay[s]
      <4>1. q \in Relays
        BY <2>2
      <4>. HIDE DEF q
      <4>. QED
        BY <4>1 DEF Started, Relays
    <3>. QED
      BY <2>3, <3>2, <3>3
<1>4. relay' = [relay EXCEPT ![s] = r]
  BY <1>1
<1>. HIDE DEF r
<1>5. relay' \in [Sessions -> Relays] /\ relay'[s] = r /\ \A u \in Sessions : u # s => relay'[u] = relay[u]
  BY <1>3, <1>4, <1>t DEF RelaysFit
<1>6. RelaysFit'
  BY <1>2, <1>5, <1>t DEF RelaysFit
<1>7. ~Q!Up(s) /\ Q!Up(s)' /\ \A u \in Sessions : u # s => (Q!Up(u)' <=> Q!Up(u))
  BY <1>2, <1>3, <1>5 DEF Q!Up
<1>8. ProcsServe'
  <2>1. procs' \in [Pids -> Sessions \cup {None, "other"}]
    BY <1>1, <1>t DEF ProcsServe
  <2>2. ASSUME NEW j \in Pids, NEW u \in Sessions, procs'[j] = u PROVE Q!Up(u)' /\ relay'[u].pid = j
    <3>1. CASE j = i
      BY <1>1, <1>3, <1>5, <1>7, <2>2, <3>1, <1>t DEF ProcsServe
    <3>2. CASE j # i
      <4>1. procs[j] = u
        BY <1>1, <2>2, <3>2, <1>t DEF ProcsServe
      <4>2. Q!Up(u) /\ relay[u].pid = j
        BY <4>1, <1>t DEF ProcsServe
      <4>. QED
        BY <4>2, <1>5, <1>7
    <3>. QED
      BY <3>1, <3>2
  <2>3. ASSUME NEW u \in Sessions, Q!Up(u)' PROVE relay'[u].pid \in Pids
    BY <2>3, <1>3, <1>5, <1>7, <1>t DEF ProcsServe
  <2>. QED
    BY <2>1, <2>2, <2>3 DEF ProcsServe
<1>9. \A f, u : u \in Sessions /\ Speaks(f, u) => Speaks(f, u)'
  BY <1>2, <1>5 DEF Speaks
<1>10. StatesFit' /\ LookFits'
  BY <1>2, <1>9, <1>t DEF StatesFit, LookFits
<1>. QED
  BY <1>6, <1>8, <1>10 DEF LookInv

\* The steps of a relay, until it ends
LEMMA RelayKeeps ==
  ASSUME LookInv, NEW s \in Sessions, Q!Runs(s) \/ Q!Changes(s) PROVE LookInv'
<1>t. RelaysFit /\ ProcsServe /\ StatesFit /\ LookFits
  BY DEF LookInv
<1>r. relay[s] \in Relays
  BY <1>t DEF RelaysFit
<1>u. Q!Serving(s) => Q!Up(s)
  BY DEF Q!Serving, Q!Up
<1>1. CASE Q!Prepare(s)
  <2> DEFINE v == IF relay[s].mode = "child" THEN "running" ELSE relay[s].upstream
             r == [relay[s] EXCEPT !.pc = "claiming", !.upstream = v]
  <2>1. relay[s].pc = "starting" /\ UNCHANGED <<state, config, look>>
        /\ ((relay' = [relay EXCEPT ![s] = r] /\ UNCHANGED procs) \/ Q!Ends(s, "failed"))
    BY <1>1 DEF Q!Prepare
  <2>2. v \in {"none", "running", "ended"}
    BY <1>r DEF Relays
  <2>. HIDE DEF v
  <2>3. Same(s, r) /\ r.pc = "claiming"
    BY <2>2, <1>r DEF Relays, Same
  <2>. HIDE DEF r
  <2>4. Q!Up(s)
    BY <2>1 DEF Q!Up
  <2>. QED
    BY <2>1, <2>3, <2>4, RelayGoesOn, RelayEnds
<1>2. CASE Q!Claim(s)
  <2> DEFINE r == [relay[s] EXCEPT !.pc = "claimed"]
  <2>1. relay[s].pc = "claiming" /\ UNCHANGED <<config, look>>
        /\ \/ relay' = [relay EXCEPT ![s] = r] /\ UNCHANGED procs
              /\ state' = [state EXCEPT ![s] = [pid |-> relay[s].pid, of |-> s, gen |-> relay[s].gen]]
           \/ Q!Ends(s, "failed") /\ UNCHANGED state
    BY <1>2 DEF Q!Claim, Q!StateWritten
  <2>2. Same(s, r) /\ r.pc = "claimed"
    BY <1>r DEF Relays, Same
  <2>. HIDE DEF r
  <2>3. Q!Up(s)
    BY <2>1 DEF Q!Up
  <2>. QED
    BY <2>1, <2>2, <2>3, RelayGoesOn, RelayEnds
<1>3. CASE Q!Listen(s)
  <2>1. PICK seen \in BOOLEAN : relay' = [relay EXCEPT ![s] = [relay[s] EXCEPT !.pc = "running", !.missed = ~seen]]
    BY <1>3 DEF Q!Listen
  <2> DEFINE b == ~seen
             r == [relay[s] EXCEPT !.pc = "running", !.missed = b]
  <2>2. b \in BOOLEAN /\ relay[s].pc = "claimed" /\ UNCHANGED <<procs, state, config, look>>
    BY <1>3 DEF Q!Listen
  <2>. HIDE DEF b
  <2>3. relay' = [relay EXCEPT ![s] = r]
    BY <2>1 DEF b
  <2>4. Same(s, r) /\ r.pc = "running"
    BY <2>2, <1>r DEF Relays, Same
  <2>. HIDE DEF r
  <2>. QED
    BY <2>2, <2>3, <2>4, RelayGoesOn DEF Q!Up
<1>c. ASSUME NEW why \in {"upstream", "signal"}, Q!Cleanup(s, why), Q!Up(s), UNCHANGED <<procs, state, config, look>>
      PROVE  LookInv'
  <2> DEFINE r == [relay[s] EXCEPT !.pc = "cleaning", !.end = why]
  <2>1. relay' = [relay EXCEPT ![s] = r]
    BY <1>c DEF Q!Cleanup
  <2>2. Same(s, r) /\ r.pc = "cleaning"
    BY <1>r DEF Relays, Same
  <2>. HIDE DEF r
  <2>. QED
    BY <1>c, <2>1, <2>2, RelayGoesOn
<1>4. CASE Q!ChildExit(s)
  BY <1>4, <1>c DEF Q!ChildExit, Q!Up
<1>5. CASE Q!Flush(s) \/ Q!Appended(s)
  BY <1>5, NothingMoves DEF Q!Flush, Q!Appended
<1>6. CASE Q!RemoveState(s)
  <2> DEFINE r == [relay[s] EXCEPT !.pc = "leaving"]
  <2>1. relay[s].pc = "cleaning" /\ UNCHANGED <<procs, config, look>> /\ relay' = [relay EXCEPT ![s] = r]
        /\ (state' = state \/ state' = [state EXCEPT ![s] = IF Q!Mine(s) THEN Q!NoFile ELSE state[s]])
    BY <1>6 DEF Q!RemoveState
  <2>2. state' = state \/ state' = [state EXCEPT ![s] = Q!NoFile]
    <3>1. CASE Q!Mine(s)
      BY <2>1, <3>1
    <3>2. CASE ~Q!Mine(s)
      <4>1. [state EXCEPT ![s] = state[s]] = state
        BY <1>t DEF StatesFit
      <4>. QED
        BY <2>1, <3>2, <4>1
    <3>. QED
      BY <3>1, <3>2
  <2>3. Same(s, r) /\ r.pc = "leaving"
    BY <1>r DEF Relays, Same
  <2>. HIDE DEF r
  <2>4. Q!Up(s)
    BY <2>1 DEF Q!Up
  <2>. QED
    BY <2>1, <2>2, <2>3, <2>4, RelayGoesOn
<1>7. CASE Q!Leave(s) \/ Q!RunsOut(s)
  <2>1. Q!Up(s) /\ UNCHANGED <<state, config, look>> /\ (Q!Ends(s, relay[s].end) \/ Q!Ends(s, "ranOut"))
    BY <1>7 DEF Q!Leave, Q!RunsOut, Q!Cleaned, Q!Up
  <2>2. relay[s].end \in {"none", "failed", "upstream", "ranOut", "killed", "signal"}
    BY <1>r DEF Relays
  <2>. QED
    BY <2>1, <2>2, RelayEnds
<1>8. CASE \E d \in Q!Dirs : Q!Data(s, d) \/ Q!End(s, d)
  <2>1. PICK d \in Q!Dirs : Q!Data(s, d) \/ Q!End(s, d)
    BY <1>8
  <2>2. CASE Q!Data(s, d)
    <3>1. Q!Up(s) /\ UNCHANGED <<state, config, look>> /\ (Q!Ends(s, "failed") \/ UNCHANGED <<relay, procs>>)
      BY <2>2, <1>u DEF Q!Data, Q!Feed
    <3>. QED
      BY <3>1, RelayEnds, NothingMoves
  <2>3. CASE Q!End(s, d)
    <3>1. Q!Up(s) /\ UNCHANGED <<procs, state, config, look>> /\ (Q!Cleanup(s, "upstream") \/ UNCHANGED relay)
      BY <2>3, <1>u DEF Q!End, Q!Feed
    <3>. QED
      BY <3>1, <1>c, NothingMoves
  <2>. QED
    BY <2>1, <2>2, <2>3
<1>9. CASE Q!Start(s)
  BY <1>9, RelayStarts
<1>e. ASSUME relay' = [relay EXCEPT ![s].upstream = "ended"], UNCHANGED <<procs, state, config, look>> PROVE LookInv'
  <2> DEFINE r == [relay[s] EXCEPT !.upstream = "ended"]
  <2>1. relay' = [relay EXCEPT ![s] = r]
    BY <1>e
  <2>2. Same(s, r) /\ r.pc = relay[s].pc
    BY <1>r DEF Relays, Same
  <2>. HIDE DEF r
  <2>. QED
    BY <1>e, <2>1, <2>2, RelayGoesOn
<1>10. CASE Q!UpstreamEnds(s)
  BY <1>10, <1>e DEF Q!UpstreamEnds
<1>11. CASE Q!Stops(s)
  <2>1. Q!Up(s) /\ UNCHANGED <<state, config, look>>
        /\ \/ Q!Ends(s, "killed")
           \/ relay' = [relay EXCEPT ![s].upstream = "ended"] /\ UNCHANGED procs
           \/ Q!Cleanup(s, "signal") /\ UNCHANGED procs
    BY <1>11 DEF Q!Stops, Q!Signal, Q!Kill
  <2>. QED
    BY <2>1, <1>c, <1>e, RelayEnds
<1>. QED
  BY <1>1, <1>2, <1>3, <1>4, <1>5, <1>6, <1>7, <1>8, <1>9, <1>10, <1>11 DEF Q!Runs, Q!Changes

\* The steps of the injector that looks for a relay
LEMMA LooksKeep ==
  ASSUME LookInv, Q!Looks PROVE LookInv'
<1>t. RelaysFit /\ ProcsServe /\ StatesFit /\ LookFits
  BY DEF LookInv
<1>r. UNCHANGED relay
  BY DEF Q!Looks, Q!NewConfig, Q!Others, Q!Look, Q!ReadFile, Q!Compare
<1>s. StatesFit' /\ \A f, u : u \in Sessions /\ Speaks(f, u) => Speaks(f, u)'
  <2>1. UNCHANGED <<relay, state>>
    BY DEF Q!Looks, Q!NewConfig, Q!Others, Q!Look, Q!ReadFile, Q!Compare
  <2>. QED
    BY <2>1, <1>t DEF StatesFit, Speaks
<1>u. \A u \in Sessions : (Q!Up(u)' <=> Q!Up(u)) /\ relay'[u] = relay[u]
  BY <1>r DEF Q!Up
<1>1. CASE Q!NewConfig
  <2>1. config' = config + 1 /\ UNCHANGED <<procs, look>>
    BY <1>1 DEF Q!NewConfig
  <2>2. RelaysFit'
    BY <1>r, <1>t, <2>1 DEF RelaysFit
  <2>3. ProcsServe' /\ LookFits'
    BY <1>s, <1>u, <1>t, <2>1 DEF ProcsServe, LookFits
  <2>. QED
    BY <1>s, <2>2, <2>3 DEF LookInv
<1>2. CASE Q!Others
  <2>1. PICK i \in Pids : procs[i] = None /\ procs' = [procs EXCEPT ![i] = "other"]
    BY <1>2 DEF Q!Others
  <2>2. UNCHANGED <<config, look>>
    BY <1>2 DEF Q!Others
  <2>3. ProcsServe'
    BY <1>u, <1>t, <2>1, RelayAssumption DEF ProcsServe
  <2>4. RelaysFit' /\ LookFits'
    BY <1>r, <1>s, <1>t, <2>2 DEF RelaysFit, LookFits
  <2>. QED
    BY <1>s, <2>3, <2>4 DEF LookInv
<1>k. UNCHANGED <<procs, config>> => RelaysFit' /\ ProcsServe'
  BY <1>r, <1>u, <1>t DEF RelaysFit, ProcsServe
<1>3. CASE Q!Look
  <2>1. look' = [pc |-> "next", left |-> {u \in Sessions : state[u] # Q!NoFile}, read |-> Q!NoFile, gen |-> config]
    BY <1>3 DEF Q!Look, Q!NoLook
  <2>2. UNCHANGED <<procs, config>>
    BY <1>3 DEF Q!Look
  <2>3. LookFits'
    <3> DEFINE l == {u \in Sessions : state[u] # Q!NoFile}
    <3>1. l \subseteq Sessions
      OBVIOUS
    <3> DEFINE f == Q!NoFile
               g == config
    <3>2. look' = [pc |-> "next", left |-> l, read |-> f, gen |-> g]
      BY <2>1
    <3>3. f \in Files /\ g \in Nat /\ g >= 1
      BY <1>t DEF Files, Q!NoFile, RelaysFit
    <3>. HIDE DEF l, f, g
    <3>4. look' \in Looking /\ look'.pc = "next" /\ look'.gen = g
      BY <3>1, <3>2, <3>3 DEF Looking
    <3>. QED
      BY <3>3, <3>4 DEF LookFits
  <2>. QED
    BY <1>k, <1>s, <2>2, <2>3 DEF LookInv
<1>4. CASE Q!ReadFile
  <2>1. look.pc = "next" /\ UNCHANGED <<procs, config>>
    BY <1>4 DEF Q!ReadFile
  <2>2. look \in Looking /\ look.gen >= 1
    BY <2>1, <1>t DEF LookFits
  <2>3. LookFits'
    <3>1. CASE look.left = {}
      <4>1. look' \in Looking /\ look'.pc = "missing"
        BY <1>4, <2>2, <3>1 DEF Q!ReadFile, Looking
      <4>. QED
        BY <4>1 DEF LookFits
    <3>2. CASE look.left # {}
      <4>1. PICK u \in look.left :
              look' = [look EXCEPT !.pc = IF state[u].gen = look.gen THEN "process" ELSE "next",
                                   !.left = look.left \ {u}, !.read = state[u]]
        BY <1>4, <3>2 DEF Q!ReadFile
      <4> DEFINE c == IF state[u].gen = look.gen THEN "process" ELSE "next"
                 l == look.left \ {u}
                 f == state[u]
      <4>2. u \in Sessions /\ l \subseteq Sessions
        BY <2>2 DEF Looking
      <4>3. f \in Files /\ c \in {"next", "process"}
        BY <4>2, <1>t DEF StatesFit
      <4>4. c = "process" => f.gen = look.gen /\ (f = Q!NoFile \/ Speaks(f, u))
        BY <4>2, <1>t DEF StatesFit
      <4>. HIDE DEF c, l, f
      <4>5. look' = [look EXCEPT !.pc = c, !.left = l, !.read = f]
        BY <4>1 DEF c, l, f
      <4>6. look' \in Looking /\ look'.pc = c /\ look'.read = f /\ look'.gen = look.gen
        BY <4>2, <4>3, <4>5, <2>2 DEF Looking
      <4>7. ASSUME look'.pc = "process"
            PROVE  look'.read.gen = look'.gen /\ look'.read.of \in Sessions /\ Speaks(look.read, look.read.of)'
        <5>1. f.gen = look.gen /\ f.gen >= 1
          BY <4>4, <4>6, <4>7, <2>2
        <5>2. Q!NoFile.gen = 0
          BY DEF Q!NoFile
        <5>3. Speaks(f, u)
          BY <4>4, <4>6, <4>7, <5>1, <5>2
        <5>4. f.of = u
          BY <5>3 DEF Speaks
        <5>. QED
          BY <1>r, <4>2, <4>6, <5>1, <5>3, <5>4 DEF Speaks
      <4>8. look'.pc \in {"next", "process"} => look'.gen >= 1
        BY <4>6, <2>2
      <4>. QED
        BY <4>6, <4>7, <4>8 DEF LookFits
    <3>. QED
      BY <3>1, <3>2
  <2>. QED
    BY <1>k, <1>s, <2>1, <2>3 DEF LookInv
<1>5. CASE Q!Compare
  <2> DEFINE c == IF Q!SameProcess(look.read) THEN "ready" ELSE "next"
  <2>1. look' = [look EXCEPT !.pc = c] /\ c \in {"ready", "next"} /\ UNCHANGED <<procs, config>>
    BY <1>5 DEF Q!Compare
  <2>2. look \in Looking /\ look.gen >= 1
    BY <1>5, <1>t DEF LookFits, Q!Compare
  <2>. HIDE DEF c
  <2>3. look' \in Looking /\ look'.pc # "process" /\ look'.gen = look.gen
    BY <2>1, <2>2 DEF Looking
  <2>4. LookFits'
    BY <2>2, <2>3 DEF LookFits
  <2>. QED
    BY <2>1, <2>4, <1>k, <1>s DEF LookInv
<1>. QED
  BY <1>1, <1>2, <1>3, <1>4, <1>5 DEF Q!Looks

LEMMA InitLookInv ==
  ASSUME Q!Init PROVE LookInv
<1> DEFINE r == Q!NotStarted
           f == Q!NoFile
<1>1. /\ relay = [s \in Sessions |-> r] /\ state = [s \in Sessions |-> f]
      /\ procs = [i \in Pids |-> None] /\ config = 1 /\ look = Q!NoLook
  BY DEF Q!Init
<1>2. r \in Relays /\ r.pc = "none"
  BY DEF Q!NotStarted, Relays
<1>3. f \in Files
  BY DEF Q!NoFile, Files
<1>4. look \in Looking /\ look.pc = "idle"
  BY <1>1, <1>3 DEF Q!NoLook, Looking
<1>. HIDE DEF r
<1>5. RelaysFit
  BY <1>1, <1>2 DEF RelaysFit
<1>6. ProcsServe
  BY <1>1, <1>2, RelayAssumption DEF ProcsServe, Q!Up
<1>7. StatesFit
  BY <1>1, <1>3 DEF StatesFit
<1>8. LookFits
  BY <1>4 DEF LookFits
<1>. QED
  BY <1>5, <1>6, <1>7, <1>8 DEF LookInv

\* What a launch is told of a relay, it is told when the process has just been found to run.
LEMMA ReadyRuns ==
  ASSUME LookInv, Q!Compare, look'.pc = "ready"
  PROVE  Q!Up(look.read.of) /\ relay[look.read.of].gen = look.gen
<1>1. look.pc = "process"
  BY DEF Q!Compare
<1>2. look \in Looking /\ look' = [look EXCEPT !.pc = IF Q!SameProcess(look.read) THEN "ready" ELSE "next"]
  BY DEF Q!Compare, LookInv, LookFits
<1>3. Q!SameProcess(look.read)
  BY <1>2 DEF Looking
<1> DEFINE f == look.read
           u == f.of
<1>4. u \in Sessions /\ Speaks(f, u) /\ f.gen = look.gen
  BY <1>1 DEF LookInv, LookFits
<1>5. procs[f.pid] = u /\ f.pid \in Pids /\ relay[u].gen = look.gen
  BY <1>3, <1>4 DEF Q!SameProcess, Speaks
<1>6. Q!Up(u)
  BY <1>4, <1>5 DEF LookInv, ProcsServe
<1>. QED
  BY <1>5, <1>6

\* No relay touches the look of the injector.
LEMMA RelaysDoNotLook ==
  /\ \A s \in Sessions : Q!Runs(s) \/ Q!Changes(s) => look' = look
  /\ P!Runs(FirstSession) \/ P!Reads(FirstSession) \/ P!World(FirstSession) => look' = look
<1>1. ASSUME NEW s \in Sessions PROVE Q!Runs(s) \/ Q!Changes(s) => look' = look
  BY DEF Q!Runs, Q!Prepare, Q!Claim, Q!Listen, Q!ChildExit, Q!Flush, Q!Appended, Q!RemoveState, Q!Leave, Q!RunsOut,
         Q!Data, Q!End, Q!Changes, Q!Start, Q!UpstreamEnds, Q!Stops, Q!Signal, Q!Kill
<1>2. P!Runs(FirstSession) \/ P!Reads(FirstSession) \/ P!World(FirstSession) => look' = look
  BY DEF P!Runs, P!Prepare, P!Claim, P!Listen, P!ChildExit, P!Flush, P!Appended, P!RemoveState, P!Leave, P!RunsOut,
         P!Data, P!End, P!Reads, P!Take, P!World, P!Changes, P!Start, P!UpstreamEnds, P!Stops, P!Signal, P!Kill,
         P!ClientCloses
<1>. QED
  BY <1>1, <1>2

LEMMA LookParts ==
  /\ PartInit /\ part = "looks" => Q!Init
  /\ [PartNext]_all => /\ part' = part
                       /\ \/ part = "looks" /\ \E s \in Sessions : Q!Runs(s) \/ Q!Changes(s)
                          \/ part = "looks" /\ Q!Looks
                          \/ UNCHANGED relayVars
                          \/ part # "looks" /\ look' = look
<1>1. PartInit /\ part = "looks" => Q!Init
  BY DEF PartInit
<1>2. PartNext => /\ part' = part
                  /\ \/ part = "looks" /\ \E s \in Sessions : Q!Runs(s) \/ Q!Changes(s)
                     \/ part = "looks" /\ Q!Looks
                     \/ UNCHANGED relayVars
                     \/ part # "looks" /\ look' = look
  BY RelaysDoNotLook DEF PartNext, Rest, BackendSteps, BackendWorld, InstallRuns, InstallWorld, RelayRuns, RelayReads,
                         RelayWorld, LooksRuns, Looks
<1>. QED
  BY <1>1, <1>2 DEF all

\* A launch is told that its relay is ready only while a process runs that claimed the file, of the
\* generation asked for (readiness.mjs, app-server-relay/ownership.mjs).
THEOREM ReadyRelayRuns == PartSpec => Q!FoundRuns
<1> DEFINE LooksInv == part = "looks" => LookInv
<1>1. PartInit => LooksInv
  BY LookParts, InitLookInv
<1>2. LooksInv /\ [PartNext]_all => LooksInv'
  <2>1. ASSUME LookInv, UNCHANGED relayVars PROVE LookInv'
    BY <2>1, NothingMoves DEF relayVars
  <2>2. ASSUME LookInv, \E s \in Sessions : Q!Runs(s) \/ Q!Changes(s) PROVE LookInv'
    BY <2>2, RelayKeeps
  <2>3. ASSUME LookInv, Q!Looks PROVE LookInv'
    BY <2>3, LooksKeep
  <2>. QED
    BY <2>1, <2>2, <2>3, LookParts
<1>3. LooksInv /\ [PartNext]_all
      => [look'.pc = "ready" /\ look.pc # "ready"
            => Q!Up(look.read.of) /\ relay[look.read.of].gen = look.gen]_(Q!vars)
  <2> SUFFICES ASSUME LooksInv, [PartNext]_all, look'.pc = "ready", look.pc # "ready"
               PROVE  Q!Up(look.read.of) /\ relay[look.read.of].gen = look.gen
    OBVIOUS
  <2>1. part = "looks" /\ Q!Looks
    BY LookParts, RelaysDoNotLook DEF relayVars
  <2>2. LookInv
    BY <2>1
  <2>3. Q!Compare
    <3>1. ~Q!NewConfig /\ ~Q!Others
      BY DEF Q!NewConfig, Q!Others
    <3>2. ~Q!Look
      BY DEF Q!Look, Q!NoLook
    <3>3. ~Q!ReadFile
      BY <2>2 DEF Q!ReadFile, LookInv, LookFits, Looking
    <3>. QED
      BY <2>1, <3>1, <3>2, <3>3 DEF Q!Looks
  <2>. QED
    BY <2>2, <2>3, ReadyRuns
<1>. QED
  BY <1>1, <1>2, <1>3, PTL DEF PartSpec, Q!FoundRuns
==============================================================================
