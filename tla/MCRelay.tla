-------------------------------- MODULE MCRelay --------------------------------
(***************************************************************************)
(* The check of a task's tools, side by side with the selection of the     *)
(* task to check, whose result the first takes as a free choice, and with  *)
(* a WebSocket that the router passes through.  A behaviour exercises one  *)
(* of them and leaves the others at rest.                                  *)
(***************************************************************************)
EXTENDS Naturals, Sequences, FiniteSets

CONSTANTS
  None,
  Checked, Tools, Read, MaxActive, MaxAttempts, MaxSelections, MaxCommands, MaxStarts,
  MaxMessages, MaxCalls, MaxPassive,
  Tasks, Sessions, FirstSession, MaxSwitches, MaxChanges, MaxClicks, MaxFaults,
  MaxSent, MaxPending

VARIABLES
  part,
  tools, calls, connection, written, tries, counted,
  shown, session, job, file, relays, command, spoilt, changed,
  client, upstream, proxy

T == INSTANCE HostTools WITH
       Tasks <- Checked, relay <- tools, server <- connection, count <- counted
S == INSTANCE HostSelection WITH
       First <- FirstSession, MaxCommands <- MaxClicks, relay <- relays, count <- changed
W == INSTANCE AuxiliarySocket WITH MaxMessages <- MaxSent

toolVars == <<tools, calls, connection, written, tries, counted>>
selectionVars == <<shown, session, job, file, relays, command, spoilt, changed>>
socketVars == <<client, upstream, proxy>>
vars == <<part, toolVars, selectionVars, socketVars>>

Init ==
  /\ part \in {"tools", "selection", "socket"}
  /\ T!Init /\ S!Init /\ W!Init
  /\ part # "tools" => written = {}

ToolsRest == UNCHANGED <<part, selectionVars, socketVars>>
ToolsUser == part = "tools" /\ T!User /\ ToolsRest
ToolsServer == part = "tools" /\ T!Server /\ ToolsRest
ToolsTimers == part = "tools" /\ T!Timers /\ ToolsRest
SelectionRest == UNCHANGED <<part, toolVars, socketVars>>
SelectionSync == part = "selection" /\ S!Sync /\ SelectionRest
SelectionPublishes == part = "selection" /\ (S!ReadView \/ S!Clear \/ S!Set \/ S!Counted) /\ SelectionRest
SelectionRelay(s) == part = "selection" /\ S!Relay(s) /\ SelectionRest
SelectionHears == part = "selection" /\ S!Hears /\ SelectionRest
SelectionWorld == part = "selection" /\ (S!Click \/ S!Failed \/ S!Codex) /\ SelectionRest
SocketRest == UNCHANGED <<part, toolVars, selectionVars>>
SocketEvents == part = "socket" /\ W!Events /\ SocketRest
SocketClosing == part = "socket" /\ W!Closing /\ SocketRest
SocketEnds == part = "socket" /\ W!Ends /\ SocketRest

Next ==
  \/ ToolsUser \/ ToolsServer \/ ToolsTimers
  \/ SelectionSync \/ SelectionPublishes \/ SelectionHears \/ SelectionWorld
  \/ \E s \in Sessions : SelectionRelay(s)
  \/ SocketEvents \/ SocketClosing \/ SocketEnds

\* The fairness of the parts: that of HostTools is over states, that of HostSelection over its steps.
Spec ==
  /\ Init /\ [][Next]_vars
  /\ T!Fairness
  /\ WF_vars(SelectionSync) /\ WF_vars(SelectionPublishes) /\ WF_vars(SelectionHears)
  /\ \A s \in Sessions : WF_vars(SelectionRelay(s))
  /\ WF_vars(SocketEvents) /\ WF_vars(SocketClosing)

\* A tool counts as passed only by a call through its task's present connection, and a verification
\* comes to a verdict or waits for the task's first message; see HostTools.
VerificationEnds ==
  /\ [](part = "tools" => T!TypeOK /\ T!ProofIsCurrent)
  /\ part = "tools" => T!VerificationEnds

\* The relays come to check the task Codex shows, and a command waits for its selection; see
\* HostSelection.
RelaysFollow ==
  /\ [](part = "selection" => S!TypeOK)
  /\ part = "selection" => S!SelectionConverges
  /\ S!CommandIsHeard

\* What one side sends the other gets in order, and both end together; see AuxiliarySocket.
SocketPasses ==
  /\ [](part = "socket" => W!PassedInOrder)
  /\ part = "socket" => W!EndsTogether
=============================================================================
