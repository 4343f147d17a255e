--------------------------- MODULE MCCodexRuntime ---------------------------
(***************************************************************************)
(* The backends of Codex, side by side with the installation of one and    *)
(* with the relay processes a launch of Codex starts: one with traffic,    *)
(* and two that come and go while a launch looks for them.  A launch takes *)
(* the readiness of its relay as a free choice, and what is installed as a *)
(* whole, so a behaviour exercises one part and leaves the others.         *)
(***************************************************************************)
EXTENDS CodexRuntime, Sequences, TLC

CONSTANTS MaxWorld,  \* bound: files, activities and faults of the backends together
          Sessions, FirstSession, Pids, HighWater, MaxSignals, MaxLooks,
          MaxInstalls, MaxTrouble

VARIABLES part, relay, pipe, usage, state, procs, config, look, tally,
          pc, found, final, staging, aside, work, replace, at, probe, outcome, left, failed, installs, trouble

S == INSTANCE RuntimeInstall
ASSUME InstallAssumption == S!InstallConstants
ASSUME RelayAssumption == None \notin Sessions /\ "other" \notin Sessions

P == INSTANCE RelayProcess WITH
       Sessions <- {FirstSession}, Busy <- {FirstSession}, Modes <- {"child", "sidecar"},
       FromClient <- <<"plain", "direct">>, FromServer <- <<"usage", "plain">>,
       MaxFaults <- 1, MaxLooks <- 0, MaxChanges <- 0, count <- tally
Q == INSTANCE RelayProcess WITH
       Busy <- {}, Modes <- {"child"}, FromClient <- <<>>, FromServer <- <<>>,
       MaxFaults <- 0, MaxSignals <- 1, MaxChanges <- 1, count <- tally

relayVars == <<relay, pipe, usage, state, procs, config, look, tally>>
installVars == <<pc, found, final, staging, aside, work, replace, at, probe, outcome, left, failed,
                 installs, trouble>>
all == <<part, vars, relayVars, installVars>>

PartInit ==
  /\ part \in {"backends", "lines", "looks", "install"}
  /\ Init /\ (IF part = "lines" THEN P!Init ELSE Q!Init) /\ S!Init
  /\ part # "install" => found = S!Absent /\ aside = <<>>

Rest == UNCHANGED <<part, vars, installVars>>
BackendSteps == part = "backends" /\ Step /\ UNCHANGED <<part, relayVars, installVars>>
BackendWorld ==
  /\ part = "backends" /\ Environment /\ UNCHANGED <<part, relayVars, installVars>>
  /\ count'.files + count'.starts + count'.faults <= MaxWorld
InstallRuns == part = "install" /\ (S!Install \/ S!Verification) /\ UNCHANGED <<part, vars, relayVars>>
InstallWorld == part = "install" /\ (S!Begin \/ S!Crash) /\ UNCHANGED <<part, vars, relayVars>>
RelayRuns == part = "lines" /\ P!Runs(FirstSession) /\ Rest
RelayReads == part = "lines" /\ P!Reads(FirstSession) /\ Rest
RelayWorld == part = "lines" /\ P!World(FirstSession) /\ Rest
LooksRuns == part = "looks" /\ (\E s \in Sessions : Q!Runs(s) \/ Q!Changes(s)) /\ Rest
Looks == part = "looks" /\ Q!Looks /\ Rest

PartNext ==
  \/ BackendSteps \/ BackendWorld
  \/ RelayRuns \/ RelayReads \/ RelayWorld
  \/ LooksRuns \/ Looks
  \/ InstallRuns \/ InstallWorld

\* The fairness of the parts: the awaits of the injector and of an installation end, and the relay
\* goes on and is read.
PartSpec ==
  /\ PartInit /\ [][PartNext]_all
  /\ WF_all(BackendSteps) /\ WF_all(InstallRuns) /\ WF_all(RelayRuns) /\ WF_all(RelayReads)

\* A launch of Codex always ends, with a backend that comes up or with a failure (CodexRuntime); an
\* installation always ends, too, and takes no backend away before it has another (RuntimeInstall).
LaunchesFallBack ==
  /\ part = "backends" => LaunchEnds
  /\ S!RemovedOnlyWhenReplaced
  /\ part = "install" => (pc # "idle" ~> pc = "idle")

\* A relay serves as long as it has someone to serve: what the client has are the upstream's lines,
\* all of them after an orderly end, without an upstream and a client it ends, and a launch is told of
\* a relay only while it runs; see RelayProcess.
RelayServes ==
  /\ [](part = "lines" => P!EndIsHeard)
  /\ part = "lines" => (P!Abandoned(FirstSession) ~> relay[FirstSession].pc = "gone")
  /\ Q!FoundRuns

\* The backend a failing launch falls back to is one that was really run (CodexRuntime); an installation
\* leaves the directory of the version as it was or puts a whole backend there, loses nothing of what it
\* moves aside, and reports what is there (RuntimeInstall).
InstallIsWhole == S!TypeOK /\ S!NeverInPart /\ S!NothingIsLost /\ S!ReportIsTrue
BackendsStand == TypeOK /\ GoodWasRun /\ InstallIsWhole
=============================================================================
