----------------------------- MODULE HostSelection -----------------------------
(***************************************************************************)
(* Which task the relays check: the injector follows the task Codex shows  *)
(* and publishes it, numbered, in the selection file of the relay that     *)
(* owns the task; the relay watches the file, and a click writes a command *)
(* with the number of the selection it belongs to.                         *)
(* src/injector/host-health-session.mjs, the publications and watchers of  *)
(* src/host-health.mjs and the watchers of src/app-server-relay.mjs.       *)
(*                                                                         *)
(* Several relays may run and each task has its observers among them.  A   *)
(* publication is an atomic replacement, then the signal to the relay,     *)
(* which may fail on WSL and takes the file back.  A watcher is late by a  *)
(* debounce and reads before it applies; commands are read beside it.      *)
(* Tasks on other hosts are no task here, and the injector does not stop.  *)
(***************************************************************************)
EXTENDS Naturals, FiniteSets

CONSTANTS
  Tasks, Sessions,   \* local tasks; sessions of relays
  First,             \* the session that runs at first
  None,
  MaxSwitches, MaxChanges, MaxCommands, MaxFaults  \* bounds

VARIABLES
  shown,     \* the task Codex shows
  session,   \* the injector: the scope, the owner it published to and its revision
  job,       \* its single synchronisation
  file,      \* the selection file of each relay
  relay,     \* each relay: live, the tasks it observes, its selection and its task, the key
             \* its watcher applied last, what the watcher has read, and whether it is woken
  command,   \* the click under way
  spoilt,    \* ghost: whether a file was taken back after its replacement, and the selections
             \* whose task was closed and opened again since
  count

vars == <<shown, session, job, file, relay, command, spoilt, count>>

Idle == [pc |-> "idle"]
NoFile == [rev |-> 0, task |-> None]
Down == [live |-> FALSE, observed |-> {}, sel |-> NoFile, task |-> None, applied |-> 0,
         read |-> NoFile, woken |-> FALSE]

\* resolveHostHealthInstance: the one live relay that observes the task
Owners(task) == {s \in Sessions : relay[s].live /\ task \in relay[s].observed}
Owner(task) == IF Cardinality(Owners(task)) = 1 THEN CHOOSE s \in Owners(task) : TRUE ELSE None
Live(s) == s # None /\ relay[s].live

(***************************************************************************)
(* The injector.                                                           *)
(***************************************************************************)

\* syncHostHealth, by the loop, a file event or an action: the scope follows the task shown, and
\* a synchronisation begins unless one is under way.
Sync ==
  /\ session' = [session EXCEPT !.scope = shown]
  /\ job' = IF job = Idle THEN [pc |-> "read", scope |-> shown] ELSE job
  /\ session' # session \/ job' # job
  /\ UNCHANGED <<shown, file, relay, command, spoilt, count>>

Ended == job' = Idle
\* The view model and what it makes wanted; a scope left meanwhile ends the synchronisation.
Wanted == IF job.scope = None \/ Owner(job.scope) = None THEN None
          ELSE [task |-> job.scope, session |-> Owner(job.scope)]
ReadView ==
  /\ job.pc = "read"
  /\ LET o == session.owner
         w == Wanted
         same == o # None /\ w # None => o.session = w.session
     IN IF session.scope # job.scope \/ o = w \/ (o = None /\ w = None) THEN Ended
        ELSE IF o # None /\ (w # None => o.session # w.session)
        THEN job' = [pc |-> "clear", scope |-> job.scope, want |-> w]
        ELSE job' = [pc |-> "set", scope |-> job.scope, want |-> w]
  /\ UNCHANGED <<shown, session, file, relay, command, spoilt, count>>

\* publishHostToolSelection: the check of the owner and the replacement of the file
Publish(s, task) ==
  /\ file' = [file EXCEPT ![s] = [rev |-> session.rev + 1, task |-> task]]
  /\ relay' = [relay EXCEPT ![s].woken = TRUE]
  /\ job' = [job EXCEPT !.pc = IF task = None THEN "cleared" ELSE "published"]
Aimed == IF job.pc \in {"clear", "cleared"} THEN session.owner.session ELSE job.want.session

\* The owner may have gone: a clear is then done, a selection fails.
Clear ==
  /\ job.pc = "clear"
  /\ IF Live(session.owner.session) THEN Publish(session.owner.session, None) /\ UNCHANGED session
     ELSE /\ session' = [session EXCEPT !.rev = @ + 1, !.owner = None]
          /\ IF job.want = None THEN Ended ELSE job' = [job EXCEPT !.pc = "set"]
          /\ UNCHANGED <<file, relay>>
  /\ UNCHANGED <<shown, command, spoilt, count>>
Set ==
  /\ job.pc = "set"
  /\ IF Owner(job.want.task) = job.want.session
     THEN Publish(job.want.session, job.want.task) /\ UNCHANGED session
     ELSE Ended /\ UNCHANGED <<session, file, relay>>
  /\ UNCHANGED <<shown, command, spoilt, count>>
\* The publication counts: only now the revision and the owner are the injector's.
Counted ==
  /\ job.pc \in {"cleared", "published"}
  /\ session' = [session EXCEPT !.rev = @ + 1,
                   !.owner = IF job.pc = "cleared" THEN None
                             ELSE job.want]
  /\ IF job.pc = "cleared" /\ job.want # None THEN job' = [job EXCEPT !.pc = "set"] ELSE Ended
  /\ UNCHANGED <<shown, file, relay, command, spoilt, count>>
\* The replacement fails, or the signal after it, which takes the file back
Failed ==
  /\ count.faults < MaxFaults /\ job.pc \in {"clear", "set", "cleared", "published"}
  /\ IF job.pc \in {"cleared", "published"}
     THEN /\ file' = [file EXCEPT ![Aimed] = NoFile]
          /\ spoilt' = [spoilt EXCEPT !.takenBack = TRUE]
     ELSE UNCHANGED <<file, spoilt>>
  /\ Ended
  /\ count' = [count EXCEPT !.faults = @ + 1]
  /\ UNCHANGED <<shown, session, relay, command>>

\* A click carries the selection the injector holds, and reaches the relay as a file.
Click ==
  /\ count.commands < MaxCommands /\ command.pc = "none"
  /\ session.owner # None /\ session.owner.task = session.scope
  /\ Owner(session.scope) = session.owner.session
  /\ command' = [pc |-> "sent", task |-> session.owner.task, session |-> session.owner.session,
                 rev |-> session.rev, sel |-> NoFile]
  /\ count' = [count EXCEPT !.commands = @ + 1]
  /\ UNCHANGED <<shown, session, job, file, relay, spoilt>>

(***************************************************************************)
(* A relay.                                                                *)
(***************************************************************************)

\* applySelection and, behind it, selectTask; for a task the relay observes
Applied(r, sel) ==
  IF sel.rev <= r.sel.rev \/ (sel.task # None /\ sel.task \notin r.observed) THEN r
  ELSE [r EXCEPT !.sel = sel, !.task = sel.task]

\* The watcher of the selection, in two steps
WatchReads(s) ==
  /\ relay[s].live /\ relay[s].woken /\ relay[s].read = NoFile
  /\ relay' = [relay EXCEPT ![s].woken = FALSE,
                 ![s].read = IF file[s].rev = relay[s].applied THEN NoFile ELSE file[s]]
  /\ UNCHANGED <<shown, session, job, file, command, spoilt, count>>
WatchApplies(s) ==
  /\ relay[s].live /\ relay[s].read # NoFile
  /\ relay' = [relay EXCEPT ![s] = [Applied(@, @.read) EXCEPT !.applied = relay[s].read.rev,
                                                              !.read = NoFile]]
  /\ UNCHANGED <<shown, session, job, file, command, spoilt, count>>

\* The watcher of commands removes the file, reads the selection, applies it and handles the
\* command if the selection is the command's.
CommandReads ==
  /\ command.pc = "sent" /\ relay[command.session].live
  /\ command' = [command EXCEPT !.pc = "read", !.sel = file[command.session]]
  /\ UNCHANGED <<shown, session, job, file, relay, spoilt, count>>
Matches(r, c) == r.task # None /\ r.task = c.task /\ r.sel.rev = c.rev
\* Mutant of CommandHandled: the selection is left to its own watcher.
CommandHandledAlone ==
  /\ command.pc = "read" /\ relay[command.session].live
  /\ LET heard == Matches(relay[command.session], command) IN
     command' = [command EXCEPT !.pc = IF heard THEN "heard" ELSE "refused"]
  /\ UNCHANGED <<shown, session, job, file, relay, spoilt, count>>

CommandHandled ==
  /\ command.pc = "read" /\ relay[command.session].live
  /\ LET s == command.session
         r == IF command.sel = NoFile THEN relay[s] ELSE Applied(relay[s], command.sel)
         heard == Matches(r, command) /\ command.sel # NoFile
     IN /\ relay' = [relay EXCEPT ![s] = r]
        /\ command' = [command EXCEPT !.pc = IF heard THEN "heard" ELSE "refused"]
  /\ UNCHANGED <<shown, session, job, file, spoilt, count>>

(***************************************************************************)
(* Codex: the task shown, the relays that come and go, the tasks they      *)
(* observe.                                                                *)
(***************************************************************************)
Show(task) ==
  /\ count.switches < MaxSwitches /\ task # shown
  /\ shown' = task
  /\ count' = [count EXCEPT !.switches = @ + 1]
  /\ UNCHANGED <<session, job, file, relay, command, spoilt>>
Changed == count.changes < MaxChanges /\ count' = [count EXCEPT !.changes = @ + 1]
RelayStarts(s) ==
  /\ Changed /\ ~relay[s].live /\ file[s] = NoFile /\ relay[s] = Down
  /\ relay' = [relay EXCEPT ![s].live = TRUE]
  /\ UNCHANGED <<shown, session, job, file, command, spoilt>>
\* A session never comes back: its files stay behind
RelayDies(s) ==
  /\ Changed /\ relay[s].live
  /\ relay' = [relay EXCEPT ![s] = [Down EXCEPT !.applied = 1]]
  /\ UNCHANGED <<shown, session, job, file, command, spoilt>>
\* noteTask, by a thread that starts, resumes or takes a turn
Observes(s, task) ==
  /\ Changed /\ relay[s].live /\ task \notin relay[s].observed
  /\ relay' = [relay EXCEPT ![s].observed = @ \cup {task}]
  /\ spoilt' = [spoilt EXCEPT !.reopened =
       @ \cup {file[r].rev : r \in {x \in {s} : file[x].task = task}}
         \cup {session.rev : o \in {session.owner} \cap {[task |-> task, session |-> s]}}]
  /\ UNCHANGED <<shown, session, job, file, command>>
\* thread/closed
Closes(s, task) ==
  /\ Changed /\ relay[s].live /\ task \in relay[s].observed
  /\ relay' = [relay EXCEPT ![s].observed = @ \ {task},
                            ![s].task = IF @ = task THEN None ELSE @]
  /\ UNCHANGED <<shown, session, job, file, command, spoilt>>

Init ==
  /\ shown = None
  /\ session = [scope |-> None, owner |-> None, rev |-> 0]
  /\ job = Idle
  /\ file = [s \in Sessions |-> NoFile]
  /\ relay = [s \in Sessions |-> IF s = First THEN [Down EXCEPT !.live = TRUE] ELSE Down]
  /\ command = [pc |-> "none", task |-> None, session |-> First, rev |-> 0, sel |-> NoFile]
  /\ spoilt = [takenBack |-> FALSE, reopened |-> {}]
  /\ count = [switches |-> 0, changes |-> 0, commands |-> 0, faults |-> 0]

Injector == Sync \/ ReadView \/ Clear \/ Set \/ Counted
Relay(s) == WatchReads(s) \/ WatchApplies(s)
Hears == CommandReads \/ CommandHandled
Codex ==
  \/ \E task \in Tasks \cup {None} : Show(task)
  \/ \E s \in Sessions : RelayStarts(s) \/ RelayDies(s)
  \/ \E s \in Sessions, task \in Tasks : Observes(s, task) \/ Closes(s, task)
Next ==
  \/ Injector
  \/ \E s \in Sessions : Relay(s)
  \/ Hears
  \/ Click \/ Failed \/ Codex

\* The loop polls without end and every await comes back; watchers run.
Fairness ==
  /\ WF_vars(Sync) /\ WF_vars(ReadView \/ Clear \/ Set \/ Counted)
  /\ \A s \in Sessions : WF_vars(Relay(s))
  /\ WF_vars(Hears)
Spec == Init /\ [][Next]_vars /\ Fairness

(***************************************************************************)
(* Properties.                                                             *)
(***************************************************************************)
TypeOK ==
  /\ shown \in Tasks \cup {None}
  /\ session.scope \in Tasks \cup {None} /\ session.rev \in Nat
  /\ job.pc \in {"idle", "read", "clear", "set", "cleared", "published"}
  /\ \A s \in Sessions :
       /\ file[s].rev \in Nat /\ file[s].task \in Tasks \cup {None}
       /\ relay[s].observed \subseteq Tasks /\ relay[s].task \in Tasks \cup {None}

\* Every live relay has the task shown selected if it alone observes it, and none else.
Agreed ==
  \A s \in Sessions : relay[s].live =>
    relay[s].task = IF shown # None /\ Owner(shown) = s THEN shown ELSE None

\* Once Codex rests, the relays come to check the task it shows: whatever was selected, closed,
\* moved to another relay or lost before.  Two cases are excepted.  A task closed and opened
\* again while the injector took it for selected is selected again only by the next selection.
\* And a publication whose signal fails is taken back though its relay may have read it: the
\* number is used again, and nobody clears what the relay selected.
SelectionConverges == <>[](Agreed \/ spoilt.takenBack \/ session.rev \in spoilt.reopened)

\* A command of the user is obeyed, unless a newer selection was published, the task has closed
\* or moved, or the selection was one of the two excepted above: it never comes before the
\* selection it belongs to.
CommandIsHeard ==
  [][command.pc = "read" /\ command'.pc = "refused" =>
       \/ file[command.session].rev # command.rev
       \/ command.task \notin relay[command.session].observed
       \/ spoilt.takenBack \/ command.rev \in spoilt.reopened]_vars
=============================================================================
