------------------------------- MODULE HostTools -------------------------------
(***************************************************************************)
(* The relay's check of Codex's task tools: the controller of              *)
(* src/app-server-relay/host-tools.mjs and the tracker of                  *)
(* src/host-health.mjs.  The controller probes every required tool of the  *)
(* selected task, retries what fails and reloads the tool servers; the     *)
(* tracker turns startup notifications and tool results into the verdict   *)
(* each task shows.                                                        *)
(*                                                                         *)
(* Both live in one process and every handler runs to its end, so the      *)
(* state is one record and an action applies a handler to it.  What comes  *)
(* from outside is free: the order of notifications and answers, answers   *)
(* that never come, Codex's own tool calls, reloads, closed tasks and the  *)
(* first message of a task.  A cancelled start is a failed one; the        *)
(* catalogue query (diagnose), the health file and texts are left out.     *)
(***************************************************************************)
EXTENDS Naturals, Sequences, FiniteSets, SequencesExt

CONSTANTS
  Tasks, Tools,
  Read,          \* read_thread: unconfirmed while the task has no user message
  None,
  MaxActive,     \* MAX_ACTIVE_PROBES
  MaxAttempts,   \* retries: the length of TOOL_RETRY_DELAYS_MS, the first of which is 0
  MaxSelections, MaxCommands, MaxStarts, MaxMessages, MaxCalls, MaxPassive  \* bounds

VARIABLES
  relay,      \* the controller: task, epoch, wanted, key, timer, reloading, queue and
              \* retries; the tracker: revision and the context of every task
  calls,      \* tool calls without an answer: the relay's probes and Codex's own
  server,     \* ghost: what the tool server of each task last announced, and how often
              \* it started
  written,    \* tasks with a user message
  tries,      \* ghost: probes of each tool since the epoch began
  count       \* what the bounds count

vars == <<relay, calls, server, written, tries, count>>

Startups == {None, "starting", "ready", "failed"}
Verdicts == {"none", "checking", "passed", "failed", "unconfirmed"}
NoCheck == [status |-> "none", call |-> 0, retry |-> FALSE, bare |-> FALSE, of |-> 0]

Context(rev) ==
  [startup |-> None, server |-> "notStarted", status |-> "idle", verified |-> FALSE,
   active |-> FALSE, seen |-> FALSE, rev |-> rev, checks |-> [t \in Tools |-> NoCheck]]

(***************************************************************************)
(* The tracker: operators on a context c.                                  *)
(***************************************************************************)
Has(c, verdict) == {t \in Tools : c.checks[t].status = verdict}
Failing(c) == {t \in Has(c, "failed") : ~c.checks[t].retry}
Checking(c) ==
  \/ \E t \in Tools : c.checks[t].status = "checking" \/ c.checks[t].retry
  \/ c.active /\ Has(c, "none") # {}
AwaitsFirstMessage(c) ==
  /\ c.active /\ ~c.seen /\ ~Checking(c) /\ Failing(c) = {}
  /\ \A t \in Tools \ Has(c, "passed") :
       t = Read /\ c.checks[t].status = "unconfirmed" /\ c.checks[t].bare

\* updateCheckSummary
Summary(c) ==
  LET ready == Has(c, "passed") = Tools IN
  [c EXCEPT !.verified = ready,
            !.active = @ /\ ~ready,
            !.status = CASE ready -> "ready"
                         [] ~ready /\ Failing(c) # {} -> "degraded"
                         [] ~ready /\ Failing(c) = {} /\ ~Checking(c) /\ ~c.active -> "idle"
                         [] ~ready /\ Failing(c) = {} /\ (Checking(c) \/ AwaitsFirstMessage(c)) -> "starting"
                         [] OTHER -> "unconfirmed"]

\* beginToolCheck, observeToolResult: results are of the call and the revision that asked
Begun(c, tool, id) == Summary([c EXCEPT !.checks[tool] = [NoCheck EXCEPT !.status = "checking", !.call = id]])
CanBegin(c) == c.startup \notin {"failed", "starting"}
\* Mutant of Counts: an answer counts whatever asked for it.
CountsAlways(c, call) == CanBegin(c)
Counts(c, call) ==
  /\ call.rev = c.rev /\ c.checks[call.tool].call = call.id /\ CanBegin(c)
Judged(c, call, verdict) ==
  IF ~Counts(c, call) THEN c
  ELSE Summary([c EXCEPT !.checks[call.tool].status = verdict,
                         !.checks[call.tool].bare = verdict = "unconfirmed" /\ call.bare,
                         !.checks[call.tool].of = call.of])

\* setToolRetryPending: nothing for a tool without a check
Flagged(c, tools, pending) ==
  LET of == tools \ Has(c, "none") IN
  IF of = {} THEN c
  ELSE Summary([c EXCEPT !.checks = [t \in Tools |->
         IF t \in of THEN [@[t] EXCEPT !.retry = pending] ELSE @[t]]])

\* activateTask, deactivateTask, prepareVerification
Activated(c) ==
  IF c.status = "ready" /\ c.verified THEN c
  ELSE IF c.startup = "failed" THEN [c EXCEPT !.active = TRUE]
  ELSE [c EXCEPT !.active = TRUE, !.status = "starting", !.verified = FALSE]
Deactivated(c) ==
  [c EXCEPT !.active = FALSE,
            !.status = IF @ = "starting" /\ ~c.verified THEN "idle" ELSE @]
Prepared(c, force) ==
  LET kept == IF force THEN {} ELSE Has(c, "passed")
      ready == kept = Tools
  IN [c EXCEPT !.checks = [t \in Tools |->
                 IF t \in kept THEN [@[t] EXCEPT !.retry = FALSE] ELSE NoCheck],
               !.active = ~ready, !.verified = ready,
               !.status = IF ready THEN "ready" ELSE "starting"]

\* observeStartupStatus of the tracker; rev is the next revision
Announced(c, status, rev) ==
  CASE status = "ready" /\ c.startup = "ready" -> c
    [] status = "ready" /\ c.startup # "ready" ->
         [c EXCEPT !.startup = "ready", !.server = "ready",
                   !.status = IF @ = "ready" /\ c.verified THEN @ ELSE "idle",
                   !.verified = c.status = "ready" /\ @]
    [] status # "ready" ->
         [c EXCEPT !.startup = status, !.server = status, !.rev = rev, !.active = FALSE,
                   !.checks = [t \in Tools |-> NoCheck], !.verified = FALSE,
                   !.status = IF status = "starting" THEN "idle" ELSE "degraded"]

\* observeReloadStarted: the proofs of every task go, the user messages stay
Forgotten(contexts, task, rev) ==
  [t \in Tasks |->
     LET c == [Context(rev) EXCEPT !.seen = contexts[t].seen] IN
     IF t = task THEN [c EXCEPT !.startup = "starting", !.server = "starting", !.status = "starting"]
     ELSE c]
ReloadFailed(c) ==
  IF c.startup = "ready" THEN c
  ELSE [c EXCEPT !.status = "unconfirmed", !.verified = FALSE, !.server = "notStarted"]
TimedOut(c, rev) ==
  IF c.rev = rev /\ c.status = "starting" THEN [c EXCEPT !.status = "unconfirmed", !.verified = FALSE] ELSE c

(***************************************************************************)
(* The controller: operators on the relay r, or on <<r, calls>> where      *)
(* probes may be sent.                                                     *)
(***************************************************************************)
Fresh == [task |-> None, epoch |-> 0, wanted |-> FALSE, key |-> None, timer |-> None,
          reloading |-> None, queue |-> << >>, retries |-> [t \in Tools |-> None],
          revision |-> 0, ctx |-> [t \in Tasks |-> Context(0)]]
Queued(r) == {r.queue[i].tool : i \in DOMAIN r.queue}
Unqueued(queue, tool) == SelectSeq(queue, LAMBDA job : job.tool # tool)
OnTask(r, c) == [r EXCEPT !.ctx[r.task] = c]

\* clearRetry, for a set of tools of the selected task
ClearRetry(r, tools) ==
  LET pending == {t \in tools : r.task # None => r.ctx[r.task].checks[t].retry}
      clean == [r EXCEPT !.queue = SelectSeq(@, LAMBDA job : job.tool \notin tools),
                         !.retries = [t \in Tools |-> IF t \in tools THEN None ELSE @[t]]]
  IN IF r.task = None \/ pending = {} THEN clean
     ELSE OnTask(clean, Flagged(r.ctx[r.task], pending, FALSE))

\* advanceEpoch: only the flags of tools with a retry record are lowered
AdvanceEpoch(r, wanted) ==
  LET r1 == ClearRetry(r, {t \in Tools : r.retries[t] # None}) IN
  [r1 EXCEPT !.epoch = @ + 1, !.wanted = wanted, !.key = None, !.timer = None, !.queue = << >>]

StartTimer(r) == [r EXCEPT !.timer = r.ctx[r.task].rev]

Enqueue(r, cs, tool) ==
  LET job == [tool |-> tool, rev |-> r.ctx[r.task].rev]
      running == \E k \in cs : k.live /\ k.task = r.task /\ k.tool = tool /\ k.epoch = r.epoch
  IN IF running THEN r
     ELSE IF tool \in Queued(r)
     THEN [r EXCEPT !.queue = [i \in DOMAIN @ |-> IF @[i].tool = tool THEN job ELSE @[i]]]
     ELSE [r EXCEPT !.queue = Append(@, job)]

\* One turn of the loop of drain, which stops at the limit
DrainOne(s, job) ==
  LET r == s.relay
      c == r.ctx[r.task]
      id == s.next
      r1 == [r EXCEPT !.queue = Unqueued(@, job.tool)]
      fits == job.rev = c.rev /\ c.server = "ready"
      r2 == IF r.retries[job.tool] = None THEN r1 ELSE [r1 EXCEPT !.retries[job.tool].timer = FALSE]
  IN IF Cardinality({k \in s.calls : k.live}) >= MaxActive THEN s
     ELSE IF ~fits THEN [s EXCEPT !.relay = r1]
     ELSE IF ~CanBegin(c) THEN [s EXCEPT !.relay = r2]
     ELSE [relay |-> [OnTask(r2, Begun(c, job.tool, id)) EXCEPT !.timer = None],
           calls |-> s.calls \cup {[id |-> id, task |-> r.task, tool |-> job.tool, epoch |-> r.epoch,
                                    rev |-> c.rev, live |-> TRUE, probe |-> TRUE,
                                    bare |-> FALSE, of |-> server[r.task].starts]},
           next |-> id + 1]
Reloading(r) == r.reloading # None /\ r.reloading.open
Drain(s) ==
  IF Reloading(s.relay) THEN s ELSE FoldLeft(DrainOne, s, s.relay.queue)

State == [relay |-> relay, calls |-> calls, next |-> count.calls + 1]
With(s, r) == [s EXCEPT !.relay = r]

HandleReady(s, task) ==
  LET r == s.relay
      key == <<r.epoch, r.ctx[task].rev>>
      c == r.ctx[task]
      c1 == Activated(IF c.verified THEN c ELSE Prepared(c, FALSE))
      r1 == OnTask([r EXCEPT !.key = key], c1)
      asked == SetToSeq(Tools \ Has(c1, "passed"))
      r2 == FoldLeft(LAMBDA acc, tool : Enqueue(acc, s.calls, tool), StartTimer(r1), asked)
  IN IF task # r.task \/ ~r.wanted THEN s
     ELSE IF key = r.key THEN Drain(s)
     ELSE IF c1.verified THEN With(s, [r1 EXCEPT !.wanted = FALSE, !.timer = None])
     ELSE Drain(With(s, r2))

BeginVerification(s, force) ==
  LET r == AdvanceEpoch(s.relay, TRUE)
      c == r.ctx[r.task]
      c1 == Activated(IF force \/ ~c.verified THEN Prepared(c, force) ELSE c)
      r1 == OnTask(r, c1)
      started == With(s, StartTimer(r1))
  IN IF c.startup = "failed" THEN With(s, OnTask([r EXCEPT !.wanted = FALSE], Activated(c)))
     ELSE IF c1.status = "ready" /\ c1.verified THEN With(s, [r1 EXCEPT !.wanted = FALSE])
     ELSE IF c1.server = "ready" THEN HandleReady(started, r.task)
     ELSE started

\* What a retry does when its delay is over; a delay of 0 is over at once
Retry(s, tool) ==
  LET r == s.relay
      c == r.ctx[r.task]
      idle == [r EXCEPT !.retries[tool].timer = FALSE]
      again == [idle EXCEPT !.retries[tool].attempts = @ + 1]
  IN IF r.retries[tool].rev # c.rev THEN With(s, idle)
     ELSE IF c.checks[tool].status = "passed" THEN With(s, ClearRetry(idle, {tool}))
     ELSE IF c.server # "ready" \/ c.checks[tool].status = "checking" THEN With(s, idle)
     ELSE Drain(With(s, Enqueue(again, s.calls, tool)))

RetryTool(s, task, tool) ==
  LET r == s.relay
      c == r.ctx[task]
      check == c.checks[tool]
      kept == r.retries[tool] # None /\ r.retries[tool].rev = c.rev
      r1 == IF kept THEN r
            ELSE [ClearRetry(r, {tool}) EXCEPT
                   !.retries[tool] = [rev |-> c.rev, attempts |-> 0, timer |-> FALSE]]
      rec == r1.retries[tool]
      flag(on) == OnTask(r1, Flagged(r1.ctx[task], {tool}, on))
      waiting == \/ rec.timer
                 \/ tool \in Queued(r1)
                 \/ \E k \in s.calls : k.live /\ k.task = task /\ k.tool = tool /\ k.epoch = r1.epoch
  IN IF \/ ~r.wanted
        \/ task # r.task
        \/ c.server # "ready"
        \/ check.status \in {"none", "passed", "checking"}
        \/ tool = Read /\ ~c.seen /\ check.bare
     THEN s
     ELSE IF waiting THEN With(s, flag(TRUE))
     ELSE IF rec.attempts >= MaxAttempts THEN With(s, flag(FALSE))
     ELSE IF rec.attempts = 0 THEN Retry(With(s, flag(TRUE)), tool)
     ELSE With(s, [flag(TRUE) EXCEPT !.retries[tool].timer = TRUE])

\* observeToolCompletion
Completed(s, task, tool) ==
  LET r == s.relay
      r1 == IF task = r.task THEN ClearRetry(r, {tool}) ELSE r
  IN IF r.ctx[task].checks[tool].status = "passed"
     THEN With(s, IF r1.ctx[task].verified THEN [r1 EXCEPT !.wanted = FALSE, !.timer = None] ELSE r1)
     ELSE RetryTool(s, task, tool)

Current(r, k) == k.task = r.task /\ k.epoch = r.epoch /\ k.rev = r.ctx[k.task].rev
Judge(s, k, verdict) == With(s, [s.relay EXCEPT !.ctx[k.task] = Judged(@, k, verdict)])

\* Mutant of Finished: a probe without an answer is retried, but its check is not judged.
FinishedSilently(s, k, verdict, timeout) ==
  LET s1 == [s EXCEPT !.calls = IF timeout THEN (@ \ {k}) \cup {[k EXCEPT !.live = FALSE]} ELSE @ \ {k}]
      s2 == IF ~Current(s.relay, k) THEN s1
            ELSE IF timeout THEN RetryTool(s1, k.task, k.tool)
            ELSE Completed(Judge(s1, k, verdict), k.task, k.tool)
  IN Drain(s2)

\* finishProbe with the result of a probe, or with its timeout
Finished(s, k, verdict, timeout) ==
  LET s1 == [s EXCEPT !.calls = IF timeout THEN (@ \ {k}) \cup {[k EXCEPT !.live = FALSE]} ELSE @ \ {k}]
      s2 == IF ~Current(s.relay, k) THEN s1
            ELSE IF timeout THEN RetryTool(Judge(s1, k, verdict), k.task, k.tool)
            ELSE Completed(Judge(s1, k, verdict), k.task, k.tool)
  IN Drain(s2)

SelectTask(s, task) ==
  LET r == s.relay
      r1 == AdvanceEpoch(r, FALSE)
      r2 == [IF r.task = None THEN r1 ELSE OnTask(r1, Deactivated(r1.ctx[r.task])) EXCEPT !.task = task]
  IN IF task = r.task THEN s ELSE With(s, r2)

\* beginReload; every context is renewed
BeginReload(r, verify) ==
  LET r1 == AdvanceEpoch(r, verify)
      r2 == [r1 EXCEPT !.revision = @ + 1, !.ctx = Forgotten(@, r.task, r.revision + 1)]
  IN IF verify THEN StartTimer(r2) ELSE r2

(***************************************************************************)
(* The steps.                                                              *)
(***************************************************************************)
Counted(field) == count' = [count EXCEPT ![field] = @ + 1, !.calls = @]

\* Every handler ends here: what it did to the relay and the calls, and which probes it sent
Becomes(s, c) ==
  /\ s.next <= MaxCalls + 1
  /\ relay' = s.relay
  /\ calls' = s.calls
  /\ count' = [c EXCEPT !.calls = s.next - 1]
  /\ tries' = LET sent == {k \in s.calls \ calls : k.probe /\ k.id > count.calls}
                  old == IF s.relay.epoch = relay.epoch THEN tries ELSE [t \in Tools |-> 0]
              IN [t \in Tools |-> old[t] + Cardinality({k \in sent : k.tool = t})]

\* applySelection: a newer revision of the selection file
Select(task) ==
  /\ count.selections < MaxSelections /\ task # relay.task
  /\ Becomes(SelectTask(State, task), [count EXCEPT !.selections = @ + 1])
  /\ UNCHANGED <<server, written>>

\* handleCommand for the selected task; force asks again what is verified
Check ==
  /\ count.commands < MaxCommands /\ relay.task # None
  /\ Becomes(BeginVerification(State, relay.ctx[relay.task].verified), [count EXCEPT !.commands = @ + 1])
  /\ UNCHANGED <<server, written>>
Reload ==
  /\ count.commands < MaxCommands /\ relay.task # None /\ ~Reloading(relay)
  /\ LET r == BeginReload(relay, TRUE) IN
     Becomes(With(State, [r EXCEPT !.reloading = [task |-> r.task, epoch |-> r.epoch, open |-> TRUE, owed |-> TRUE]]),
             [count EXCEPT !.commands = @ + 1])
  /\ UNCHANGED <<server, written>>
\* observeExternalReload: Codex itself asks for a reload
ExternalReload ==
  /\ count.commands < MaxCommands /\ relay.task # None
  /\ Becomes(With(State, BeginReload(relay, FALSE)), [count EXCEPT !.commands = @ + 1])
  /\ UNCHANGED <<server, written>>

\* finishReload: the timeout, or the answer, which may be late but not of an earlier request
ReloadFinished(r, failed) ==
  LET current == r.reloading.task = r.task /\ r.reloading.epoch = r.epoch
      r1 == [r EXCEPT !.reloading.open = FALSE]
  IN Drain(With(State, IF failed /\ current THEN OnTask(r1, ReloadFailed(r1.ctx[r1.task])) ELSE r1))
ReloadAnswered(failed) ==
  /\ relay.reloading # None /\ relay.reloading.owed
  /\ Becomes(ReloadFinished([relay EXCEPT !.reloading.owed = FALSE], failed), count)
  /\ UNCHANGED <<server, written>>
ReloadTimesOut ==
  /\ Reloading(relay)
  /\ Becomes(ReloadFinished(relay, TRUE), count)
  /\ UNCHANGED <<server, written>>

\* A startup notification: the tracker first, then the controller
Notify(task, status) ==
  LET r == [relay EXCEPT !.ctx[task] = Announced(@, status, relay.revision + 1),
                         !.revision = IF status = "ready" THEN @ ELSE @ + 1]
      r1 == AdvanceEpoch(r, relay.wanted)
      r2 == IF status = "starting" /\ relay.wanted
            THEN StartTimer(OnTask(r1, Activated(r1.ctx[task]))) ELSE r1
      s == IF task # relay.task THEN With(State, r)
           ELSE IF status = "ready" THEN HandleReady(With(State, r), task)
           ELSE With(State, r2)
  IN Becomes(s, IF status = "starting" THEN [count EXCEPT !.starts = @ + 1] ELSE count)

ServerStarts(task) ==
  /\ count.starts < MaxStarts
  /\ server' = [server EXCEPT ![task] = [status |-> "starting", starts |-> @.starts + 1]]
  /\ Notify(task, "starting")
  /\ UNCHANGED written
ServerSettles(task, status) ==
  /\ server[task].status = "starting" /\ status \in {"ready", "failed"}
  /\ server' = [server EXCEPT ![task].status = status]
  /\ Notify(task, status)
  /\ UNCHANGED written

\* The answer to a probe, which may be one of a connection that has gone, or its timeout.
\* A read of a task without a message is refused as such.
Results(k) == IF k.tool = Read /\ k.task \notin written THEN {"bare"} ELSE {"passed", "failed", "unconfirmed"}
Result(k, result) ==
  IF result = "bare" THEN [call |-> [k EXCEPT !.bare = TRUE], verdict |-> "unconfirmed"]
  ELSE [call |-> k, verdict |-> result]
ProbeAnswered(k, result) ==
  /\ k.probe /\ result \in Results(k)
  /\ LET answer == Result(k, result)
         s == [State EXCEPT !.calls = (@ \ {k}) \cup {answer.call}]
     IN Becomes(Finished(s, answer.call, answer.verdict, FALSE), count)
  /\ UNCHANGED <<server, written>>
ProbeTimesOut(k) ==
  /\ k.probe /\ k.live
  /\ Becomes(Finished(State, k, "unconfirmed", TRUE), count)
  /\ UNCHANGED <<server, written>>

RetryFires(tool) ==
  /\ relay.retries[tool] # None /\ relay.retries[tool].timer
  /\ Becomes(Retry(State, tool), count)
  /\ UNCHANGED <<server, written>>
ActivationFires ==
  /\ relay.timer # None
  /\ Becomes(With(State, [OnTask(relay, TimedOut(relay.ctx[relay.task], relay.timer)) EXCEPT !.timer = None]), count)
  /\ UNCHANGED <<server, written>>

\* A tool call of Codex itself, observed when it begins and when it ends.  One that begins while
\* the task's server is not up leaves no proof to judge, but its end is observed.
CallBegins(task, tool) ==
  LET c == relay.ctx[task]
      id == count.calls + 1
      k == [id |-> id, task |-> task, tool |-> tool, epoch |-> 0, rev |-> c.rev, live |-> FALSE,
            probe |-> FALSE, bare |-> FALSE, of |-> server[task].starts]
      r == IF CanBegin(c) THEN [relay EXCEPT !.ctx[task] = Begun(c, tool, id)] ELSE relay
  IN /\ count.passive < MaxPassive
     /\ Becomes([relay |-> r, calls |-> calls \cup {k},
                 next |-> id + 1],
                [count EXCEPT !.passive = @ + 1])
     /\ UNCHANGED <<server, written>>
CallEnds(k, result) ==
  /\ ~k.probe /\ result \in Results(k)
  /\ LET answer == Result(k, result)
         s == [State EXCEPT !.calls = @ \ {k}]
     IN Becomes(Completed(Judge(s, answer.call, answer.verdict), k.task, k.tool), count)
  /\ UNCHANGED <<server, written>>

\* observeUserMessage
UserMessage(task) ==
  /\ count.messages < MaxMessages
  /\ written' = written \cup {task}
  /\ LET s == With(State, [relay EXCEPT !.ctx[task].seen = TRUE]) IN
     Becomes(IF task = relay.task THEN RetryTool(s, task, Read) ELSE s,
             [count EXCEPT !.messages = @ + 1])
  /\ UNCHANGED server

Init ==
  /\ relay = Fresh
  /\ calls = {}
  /\ server = [t \in Tasks |-> [status |-> None, starts |-> 0]]
  /\ written \in SUBSET Tasks
  /\ tries = [t \in Tools |-> 0]
  /\ count = [selections |-> 0, commands |-> 0, starts |-> 0, messages |-> 0, calls |-> 0, passive |-> 0]

User == \/ \E task \in Tasks \cup {None} : Select(task)
        \/ Check
        \/ Reload
        \/ ExternalReload
        \/ \E task \in Tasks : UserMessage(task)
Server == \/ \E task \in Tasks : ServerStarts(task)
          \/ \E task \in Tasks, status \in {"ready", "failed"} : ServerSettles(task, status)
          \/ \E k \in calls, result \in Verdicts \cup {"bare"} : ProbeAnswered(k, result)
          \/ \E task \in Tasks, tool \in Tools : CallBegins(task, tool)
          \/ \E k \in calls, result \in Verdicts \cup {"bare"} : CallEnds(k, result)
          \/ \E failed \in BOOLEAN : ReloadAnswered(failed)
Timers == \/ \E k \in calls : ProbeTimesOut(k)
          \/ \E tool \in Tools : RetryFires(tool)
          \/ ActivationFires
          \/ ReloadTimesOut
Next == User \/ Server \/ Timers

\* Every timer of the relay fires or is cleared, and Codex ends the tool calls it began: weak
\* fairness of the actions that do so, written by the conditions that enable them.
Fairness ==
  /\ []<>(relay.timer = None) /\ []<>~Reloading(relay)
  /\ \A tool \in Tools : []<>(relay.retries[tool] # None => ~relay.retries[tool].timer)
  /\ \A id \in 1..MaxCalls : []<>(\A k \in calls : k.id = id => k.probe /\ ~k.live)
Spec == Init /\ [][Next]_vars /\ Fairness

(***************************************************************************)
(* Properties.                                                             *)
(***************************************************************************)
TypeOK ==
  /\ relay.task \in Tasks \cup {None}
  /\ relay.epoch \in Nat /\ relay.wanted \in BOOLEAN /\ relay.revision \in Nat
  /\ relay.timer \in Nat \cup {None}
  /\ \A t \in Tasks :
       /\ relay.ctx[t].startup \in Startups
       /\ relay.ctx[t].status \in {"idle", "starting", "ready", "degraded", "unconfirmed"}
       /\ \A tool \in Tools : relay.ctx[t].checks[tool].status \in Verdicts
  /\ Len(relay.queue) <= Cardinality(Tools)
  /\ Cardinality({k \in calls : k.live}) <= MaxActive
  /\ tries \in [Tools -> Nat]

\* A tool counts as passed only by a call that was made through the connection the task's tools
\* have now: an answer of a connection that was restarted or reloaded proves nothing.
ProofIsCurrent ==
  \A t \in Tasks : \A tool \in Has(relay.ctx[t], "passed") :
    relay.ctx[t].checks[tool].of = server[t].starts

\* A verification whose server is up, or that still waits for it, comes to a verdict of its task,
\* or waits for the task's first message, whether or not the server ever answers.  (A call of
\* Codex itself may show a check again that has timed out before its server was heard of; no
\* timer runs then, and the check is shown until the server announces itself.)
Verifying(t) ==
  /\ relay.task = t /\ relay.wanted
  /\ relay.timer # None \/ relay.ctx[t].server = "ready"
  /\ relay.ctx[t].status = "starting" /\ ~AwaitsFirstMessage(relay.ctx[t])
Concluded(t) ==
  \/ relay.task # t \/ ~relay.wanted
  \/ relay.ctx[t].status # "starting" \/ AwaitsFirstMessage(relay.ctx[t])
VerificationEnds == \A t \in Tasks : Verifying(t) ~> Concluded(t)
=============================================================================
