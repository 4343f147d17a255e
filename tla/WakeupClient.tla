----------------------------- MODULE WakeupClient -----------------------------
(***************************************************************************)
(* One wake-up request (sendWakeupRequest, src/wakeup-client.mjs): an      *)
(* official app-server started in an empty home of its own is led from the *)
(* login to one turn and its reply.  The caller, the app-server, a timeout *)
(* and the one refresh of the credentials meet in a single failure.        *)
(*                                                                         *)
(* The awaits of the request are the stages; what arrives on the child's   *)
(* stdout is read line by line, and a chunk of several lines is read       *)
(* before the request goes on.                                             *)
(***************************************************************************)
EXTENDS Naturals, Sequences

CONSTANTS
  MaxWritten,  \* bound: lines of the child that answer nothing
  MaxFailures  \* bound: a cancellation, failing steps, a child that ends on its own

ClientConstants == MaxWritten \in Nat /\ MaxFailures \in Nat

VARIABLES
  pc,          \* where the request is
  call,        \* what it awaits: an answer that is pending, answered or refused
  completion,  \* the promise of the turn: "open", "reply", "empty" or "failed"
  failure,     \* failure is set
  aborted,     \* requestSignal.aborted
  refreshed,
  renewals,    \* forced refreshes of the credentials, one of which may be under way
  child,       \* the process: "none", "running", "exited", or "closed" with its pipes
  killed,
  lines,       \* what the child has written and the request has not read
  asked,       \* the stages whose request the child has read and not answered
  turn,        \* external: the turn: "none", "running", "completed" or "failed"
  directory,   \* "none", "made", "removed" or "left" when the removal failed
  outcome,     \* of the request: "none", "ok" or "failed"
  written, failures  \* counters of the bounds

flow    == <<pc, call, completion, failure, outcome>>
renewal == <<refreshed, renewals>>
process == <<child, killed, lines, asked, turn>>
bounds  == <<written, failures>>
vars == <<flow, aborted, renewal, process, directory, bounds>>

Rpcs == <<"initialize", "login", "list", "thread", "turn">>
Stages == {Rpcs[i] : i \in DOMAIN Rpcs}

Init ==
  /\ pc = "resolve" /\ call = "none" /\ completion = "open" /\ failure = FALSE /\ aborted = FALSE
  /\ refreshed = FALSE /\ renewals = [begun |-> 0, running |-> FALSE]
  /\ child = "none" /\ killed = FALSE /\ lines = <<>> /\ asked = {} /\ turn = "none"
  /\ directory = "none" /\ outcome = "none" /\ written = 0 /\ failures = 0

Fault == failures < MaxFailures /\ failures' = failures + 1

-----------------------------------------------------------------------------
(* What every step of the request is made of *)

\* fail: the first failure refuses what is awaited, and later ones change nothing.
Fails ==
  /\ failure' = TRUE
  /\ call' = IF ~failure /\ call = "pending" THEN "refused" ELSE call
  /\ completion' = IF ~failure /\ completion = "open" THEN "failed" ELSE completion
\* The request throws: the finally kills the child and waits until it is closed.
Leaves(result) ==
  /\ outcome' = result /\ call' = "none"
  /\ pc' = IF child = "none" THEN "remove" ELSE "close"
  /\ killed' = (killed \/ child # "none")
\* Mutant of Calls: a request that has failed goes on.
CallsOn(stage) ==
  /\ pc' = stage /\ call' = "pending" /\ asked' = asked \cup {stage} /\ UNCHANGED <<killed, outcome>>
\* rpc: a request that has failed sends nothing more.
Calls(stage) ==
  IF failure THEN Leaves("failed") /\ UNCHANGED asked
  ELSE pc' = stage /\ call' = "pending" /\ asked' = asked \cup {stage} /\ UNCHANGED <<killed, outcome>>

-----------------------------------------------------------------------------
(* The request *)

\* resolveCodexCliExecutable; nothing is left when it fails or the caller has cancelled.
Resolved ==
  /\ pc = "resolve"
  /\ \/ ~aborted /\ pc' = "make" /\ UNCHANGED <<outcome, failures>>
     \/ aborted /\ pc' = "done" /\ outcome' = "failed" /\ UNCHANGED failures
     \/ Fault /\ pc' = "done" /\ outcome' = "failed"
  /\ UNCHANGED <<call, completion, failure, aborted, renewal, process, directory, written>>
\* mkdtemp, the start of the child and the first request
Made ==
  /\ pc = "make"
  /\ \/ /\ directory' = "made" /\ ~aborted /\ child' = "running"
        /\ Calls("initialize") /\ UNCHANGED failures
     \/ /\ directory' = "made" /\ (aborted \/ failures < MaxFailures)
        /\ failures' = IF aborted THEN failures ELSE failures + 1
        /\ Leaves("failed") /\ UNCHANGED <<child, asked>>
     \/ /\ Fault /\ pc' = "done" /\ outcome' = "failed"
        /\ UNCHANGED <<call, directory, child, killed, asked>>
  /\ UNCHANGED <<completion, failure, aborted, renewal, lines, turn, written>>
GoesOnRest == UNCHANGED <<completion, failure, aborted, renewal, child, lines, turn, directory, written>>
\* The answer that was awaited has come: the list of models has further pages or none that will do.
Answered ==
  /\ call = "answered"
  /\ \/ /\ pc = "initialize" /\ UNCHANGED <<asked, failures>>
        /\ IF failure THEN Leaves("failed")
           ELSE pc' = "credentials" /\ call' = "none" /\ UNCHANGED <<killed, outcome>>
     \/ pc = "login" /\ Calls("list") /\ UNCHANGED failures
     \/ pc = "list" /\ Calls("thread") /\ UNCHANGED failures
     \/ pc = "list" /\ Fault /\ Calls("list")
     \/ pc \in {"list", "thread"} /\ Fault /\ Leaves("failed") /\ UNCHANGED asked
     \/ pc = "thread" /\ Calls("turn") /\ UNCHANGED failures
     \/ /\ pc = "turn" /\ pc' = "completion" /\ call' = "none"
        /\ UNCHANGED <<killed, outcome, asked, failures>>
  /\ GoesOnRest
\* getCredentials for the login
Credentials ==
  /\ pc = "credentials"
  /\ \/ Calls("login") /\ UNCHANGED failures
     \/ Fault /\ Leaves("failed") /\ UNCHANGED asked
  /\ GoesOnRest
\* What was awaited is refused, or the turn has ended without a reply.
Refused ==
  /\ call = "refused" \/ (pc = "completion" /\ completion \in {"failed", "empty"})
  /\ Leaves("failed")
  /\ UNCHANGED <<asked, failures>> /\ GoesOnRest
Replied ==
  /\ pc = "completion" /\ completion = "reply" /\ Leaves("ok")
  /\ UNCHANGED <<asked, failures>> /\ GoesOnRest

\* Mutant of Closed: the child is killed and left.
ClosedAtOnce ==
  /\ pc = "close" /\ pc' = "remove"
  /\ UNCHANGED <<call, completion, failure, outcome, aborted, renewal, process, directory, bounds>>
\* The finally waits for the child to close and removes its directory.
Closed ==
  /\ pc = "close" /\ child = "closed" /\ pc' = "remove"
  /\ UNCHANGED <<call, completion, failure, outcome, aborted, renewal, process, directory, bounds>>
Removed ==
  /\ pc = "remove" /\ pc' = "done"
  /\ \/ directory' = "removed" /\ UNCHANGED failures
     \/ directory' = "left" /\ Fault
  /\ UNCHANGED <<call, completion, failure, outcome, aborted, renewal, process, written>>

-----------------------------------------------------------------------------
(* What meets the request *)

Listening == pc \in Stages \cup {"credentials", "completion"}
\* The caller's signal, and the timeout, which starts with the child; both kill it.
Aborts ==
  /\ ~aborted /\ aborted' = TRUE
  /\ IF Listening THEN Fails /\ killed' = TRUE ELSE UNCHANGED <<call, completion, failure, killed>>
  /\ UNCHANGED <<pc, outcome, renewal, child, lines, asked, turn, directory, written>>
Cancelled == pc # "done" /\ Fault /\ Aborts
TimesOut == Listening /\ Aborts /\ UNCHANGED failures

\* Mutant of Read: the request is remembered once the credentials are there.
ReadTwice ==
  /\ child \in {"running", "exited"} /\ lines # <<>> /\ Head(lines) = "refresh" /\ lines' = Tail(lines)
  /\ renewals' = [begun |-> renewals.begun + 1, running |-> TRUE]
  /\ UNCHANGED <<flow, refreshed, aborted, child, killed, asked, turn, directory, bounds>>
\* handle, for each line: a second refresh of the credentials, or any other question, ends the request.
Read ==
  /\ child \in {"running", "exited"} /\ lines # <<>>
  /\ LET line == Head(lines) IN
     \/ /\ line = "refresh" /\ ~refreshed
        /\ refreshed' = TRUE /\ renewals' = [begun |-> renewals.begun + 1, running |-> TRUE]
        /\ UNCHANGED <<call, completion, failure>>
     \/ ((line = "refresh" /\ refreshed) \/ line \in {"question", "broken"}) /\ Fails /\ UNCHANGED renewal
     \/ /\ line \in {"answer", "error"} /\ call = "pending"
        /\ call' = (IF line = "answer" THEN "answered" ELSE "refused")
        /\ UNCHANGED <<completion, failure, renewal>>
     \/ line \in {"answer", "error"} /\ call # "pending" /\ UNCHANGED <<call, completion, failure, renewal>>
     \/ /\ line \in {"reply", "empty"}
        /\ completion' = IF completion = "open" THEN line ELSE completion
        /\ UNCHANGED <<call, failure, renewal>>
     \/ line = "unfinished" /\ Fails /\ UNCHANGED renewal
  /\ lines' = Tail(lines)
  /\ UNCHANGED <<pc, outcome, aborted, child, killed, asked, turn, directory, bounds>>
\* The refresh ends, and its answer is sent unless the request has failed, or it fails.
Renewed ==
  /\ renewals.running /\ renewals' = [renewals EXCEPT !.running = FALSE]
  /\ \/ UNCHANGED <<call, completion, failure, failures>>
     \/ Fault /\ Fails
  /\ UNCHANGED <<pc, outcome, refreshed, aborted, process, directory, written>>

-----------------------------------------------------------------------------
(* The child: an app-server that answers in order and reports the turn it was asked for *)

Writes(line) == lines' = Append(lines, line)
ChildRest == UNCHANGED <<flow, aborted, renewal, killed, directory>>
Answers ==
  /\ child = "running" /\ asked # {}
  /\ \E stage \in asked :
       /\ asked' = asked \ {stage}
       /\ turn' = IF stage = "turn" /\ turn = "none" THEN "running" ELSE turn
  /\ \/ Writes("answer") /\ UNCHANGED failures
     \/ Writes("error") /\ Fault
  /\ UNCHANGED <<child, written>> /\ ChildRest
\* The turn may end before its request is answered.
TurnEnds ==
  /\ child = "running" /\ (turn = "running" \/ (turn = "none" /\ "turn" \in asked))
  /\ \/ turn' = "completed" /\ Writes("reply") /\ UNCHANGED failures
     \/ turn' = "completed" /\ Writes("empty") /\ Fault
     \/ turn' = "failed" /\ Writes("unfinished") /\ Fault
  /\ UNCHANGED <<child, asked, written>> /\ ChildRest
Asks ==
  /\ child = "running" /\ written < MaxWritten /\ written' = written + 1
  /\ \E line \in {"refresh", "question", "broken"} : Writes(line)
  /\ UNCHANGED <<child, asked, turn, failures>> /\ ChildRest
ChildExits ==
  /\ child = "running" /\ child' = "exited"
  /\ \/ killed /\ UNCHANGED failures
     \/ ~killed /\ Fault
  /\ UNCHANGED <<lines, asked, turn, written>> /\ ChildRest
\* A write meets the closed pipe of a child that has gone.
PipeBreaks ==
  /\ child = "exited" /\ ~failure /\ Fails
  /\ UNCHANGED <<pc, outcome, aborted, renewal, process, directory, bounds>>
\* The close event comes when all it has written is read.
ChildCloses ==
  /\ child = "exited" /\ lines = <<>> /\ child' = "closed" /\ Fails
  /\ UNCHANGED <<pc, outcome, aborted, renewal, killed, lines, asked, turn, directory, bounds>>

Request == Resolved \/ Made \/ Answered \/ Credentials \/ Refused \/ Replied \/ Closed \/ Removed
Meets == Read \/ Renewed \/ ChildCloses \/ TimesOut
Next == Request \/ Meets \/ Cancelled \/ Answers \/ TurnEnds \/ Asks \/ ChildExits \/ PipeBreaks

\* Awaits settle, what is written is read, the timeout comes, and a process that is killed goes.
Dies == killed /\ ChildExits
Spec == Init /\ [][Next]_vars /\ WF_vars(Request) /\ WF_vars(Meets) /\ WF_vars(Dies)

-----------------------------------------------------------------------------
TypeOK ==
  /\ pc \in Stages \cup {"resolve", "make", "credentials", "completion", "close", "remove", "done"}
  /\ call \in {"none", "pending", "answered", "refused"} /\ completion \in {"open", "reply", "empty", "failed"}
  /\ failure \in BOOLEAN /\ aborted \in BOOLEAN /\ refreshed \in BOOLEAN
  /\ renewals \in [begun : Nat, running : BOOLEAN]
  /\ child \in {"none", "running", "exited", "closed"} /\ killed \in BOOLEAN
  /\ lines \in Seq({"refresh", "question", "broken", "answer", "error", "reply", "empty", "unfinished"})
  /\ asked \subseteq Stages /\ turn \in {"none", "running", "completed", "failed"}
  /\ directory \in {"none", "made", "removed", "left"} /\ outcome \in {"none", "ok", "failed"}
  /\ written \in 0 .. MaxWritten /\ failures \in 0 .. MaxFailures

\* A request that has ended leaves no process and no directory behind (unless the removal itself
\* failed), wherever it was when it was cancelled, and reports a reply only of a turn that completed.
NothingRemains ==
  /\ pc = "done" => child \in {"none", "closed"} /\ directory # "made"
  /\ directory \in {"removed", "left"} => child \in {"none", "closed"}
  /\ outcome = "ok" => turn = "completed"
\* The credentials are renewed once at most, however often the app-server asks.
RenewedOnce == renewals.begun <= 1
\* A request that has failed, or was cancelled, asks nothing more of the app-server.
FailureIsFinal == [][failure => asked' \subseteq asked]_vars

\* Every request ends, though the app-server may never answer.
RequestEnds == <>(pc = "done")
===============================================================================
