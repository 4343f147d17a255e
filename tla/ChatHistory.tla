------------------------------ MODULE ChatHistory ------------------------------
(***************************************************************************)
(* The exchanges of the compatibility proxy: tasks ask the models of       *)
(* platforms, each request is completed with the calls its tool results    *)
(* belong to, and an answer that was turned around is remembered           *)
(* (src/chat-compat-proxy.mjs, chat-compat-proxy/history.mjs, the          *)
(* transports of chat-transport.mjs and responses-bridge.mjs).             *)
(*                                                                         *)
(* Tasks share the history.  Each platform numbers its own responses, so   *)
(* those of two platforms may have the same id, and so may their calls.    *)
(***************************************************************************)
EXTENDS Naturals, Sequences, FiniteSets

CONSTANTS
  Talks,         \* the tasks of Codex; each asks once at a time
  Platforms,
  CallIds,       \* the calls an answer may hold
  MaxCached,     \* MAX_CACHED_RESPONSES
  MaxExchanges   \* bound: requests

HistoryConstants == MaxCached \in Nat \ {0} /\ MaxExchanges \in Nat /\ Platforms # {}

VARIABLES
  talk,     \* each task: the last response it was sent, where it came from and what it called
  x,        \* each task's exchange: its progress and what goes to the platform
  history,  \* the records of createToolCallHistory, the oldest first
  issued,   \* the responses each platform has numbered
  asked     \* the requests so far

vars == <<talk, x, history, issued, asked>>

Modes == {"plain", "bridge", "chat"}
SomePlatform == CHOOSE p \in Platforms : TRUE
Idle == [pc |-> "idle", platform |-> SomePlatform, mode |-> "plain", calls |-> {}, outputs |-> {}, tools |-> FALSE]
Init ==
  /\ talk = [t \in Talks |-> [id |-> 0, platform |-> SomePlatform, mode |-> "plain", calls |-> {}]]
  /\ x = [t \in Talks |-> Idle]
  /\ history = <<>> /\ issued = [p \in Platforms |-> 0] /\ asked = 0

-----------------------------------------------------------------------------
(* The history *)

\* Mutant of Found: an id is looked up without its platform.
FoundAnywhere(id, platform) == {i \in DOMAIN history : history[i].id = id}
\* get, getTools: the record of a platform's response
Found(id, platform) == {i \in DOMAIN history : history[i].id = id /\ history[i].platform = platform}
\* remember: the oldest records go beyond the limit.
Remembers(record) ==
  history' = IF Len(history) = MaxCached THEN Append(Tail(history), record) ELSE Append(history, record)

\* restoreToolCalls: results without their calls get them from the response the request continues, if
\* that is known with all of them.
Ids(calls) == {c.call : c \in calls}
Missing(input) == input.outputs \ Ids(input.calls)
Recalled(input, id, platform) ==
  {c \in UNION {history[i].calls : i \in Found(id, platform)} : c.call \in Missing(input)}
Restores(input, id, platform) == Missing(input) \subseteq Ids(Recalled(input, id, platform))
\* collectResponseTools: without tools of its own a request has those of the response it continues.
Equipped(declares, id, platform) == declares \/ \E i \in Found(id, platform) : history[i].tools

-----------------------------------------------------------------------------
(* A request *)

\* What Codex sends next: a new turn, or the results of its last calls, some or all, with the calls or
\* without.
Inputs(t) == [calls : {{}, talk[t].calls}, outputs : SUBSET Ids(talk[t].calls)]

\* proxyRequest: the model may not support what is asked for; one without the tool bridge is passed the
\* request as it is, and the others need the call of every result.
Ask(t) ==
  /\ x[t].pc = "idle" /\ asked < MaxExchanges /\ asked' = asked + 1
  /\ \E input \in Inputs(t), p \in Platforms, mode \in Modes, declares, fit \in BOOLEAN :
       LET id == talk[t].id
           restores == Restores(input, id, p)
           sends == fit /\ (mode = "plain" \/ restores)
           bridges == sends /\ mode # "plain"
       IN x' = [x EXCEPT ![t] =
            [pc |-> IF ~fit THEN "failed" ELSE IF sends THEN "asked" ELSE "refused",
             platform |-> p, mode |-> mode, outputs |-> input.outputs,
             calls |-> input.calls \cup (IF bridges THEN Recalled(input, id, p) ELSE {}),
             tools |-> IF bridges THEN Equipped(declares, id, p) ELSE declares]]
  /\ UNCHANGED <<talk, history, issued>>

\* The platform's response as a whole, JSON or the end of a stream (forwardChatJson, pipeChatStream,
\* forwardResponsesToolJson, pipeResponsesToolStream): it is remembered if it was turned around and has
\* an id, which one from Chat always has.
Answered(t, numbered, ids) ==
  LET p == x[t].platform
      id == IF numbered THEN issued[p] + 1 ELSE 0
  IN [id |-> id, platform |-> p, mode |-> x[t].mode,
      calls |-> [call : ids, platform : {p}, id : {issued[p] + 1}]]
Keeps(t, numbered, response) ==
  /\ issued' = [issued EXCEPT ![x[t].platform] = @ + 1]
  /\ IF x[t].mode # "plain" /\ numbered
     THEN Remembers([id |-> response.id, platform |-> response.platform, calls |-> response.calls,
                     tools |-> x[t].tools])
     ELSE UNCHANGED history
Gives(t, numbered, ids) ==
  /\ x[t].pc = "asked"
  /\ x[t].mode = "chat" => numbered
  /\ ids # {} => x[t].tools
  /\ Keeps(t, numbered, Answered(t, numbered, ids))
  /\ x' = [x EXCEPT ![t] = Idle]
Answer(t) ==
  \E numbered \in BOOLEAN, ids \in SUBSET CallIds :
    /\ Gives(t, numbered, ids)
    /\ talk' = [talk EXCEPT ![t] = Answered(t, numbered, ids)]
    /\ UNCHANGED asked

\* writeError, response.failed: an error of the platform, a broken connection, or an answer that cannot
\* be turned around is not remembered.
Fail(t) == x[t].pc = "asked" /\ x' = [x EXCEPT ![t].pc = "failed"] /\ UNCHANGED <<talk, history, issued, asked>>
\* forwardClientCancellation: Codex leaves, but an answer that had all come may still be remembered.
Leave(t) ==
  /\ x[t].pc = "asked"
  /\ \/ x' = [x EXCEPT ![t] = Idle] /\ UNCHANGED <<history, issued>>
     \/ \E numbered \in BOOLEAN, ids \in SUBSET CallIds : Gives(t, numbered, ids)
  /\ UNCHANGED <<talk, asked>>
\* Codex has read the error.
Settle(t) ==
  /\ x[t].pc \in {"refused", "failed"} /\ x' = [x EXCEPT ![t] = Idle]
  /\ UNCHANGED <<talk, history, issued, asked>>

Next == \E t \in Talks : Ask(t) \/ Answer(t) \/ Fail(t) \/ Leave(t) \/ Settle(t)
Spec == Init /\ [][Next]_vars

-----------------------------------------------------------------------------
CallRecords == [call : CallIds, platform : Platforms, id : Nat]
Progress == {"idle", "asked", "refused", "failed"}
TypeOK ==
  /\ talk \in [Talks -> [id : Nat, platform : Platforms, mode : Modes, calls : SUBSET CallRecords]]
  /\ x \in [Talks -> [pc : Progress, platform : Platforms, mode : Modes, calls : SUBSET CallRecords,
                      outputs : SUBSET CallIds, tools : BOOLEAN]]
  /\ history \in Seq([id : Nat, platform : Platforms, calls : SUBSET CallRecords, tools : BOOLEAN])
  /\ issued \in [Platforms -> Nat] /\ asked \in Nat

\* A tool result that is turned around reaches the model with a call, and with the very call of the
\* response its task continues while the task stays with its platform, whatever ids another platform
\* gave; and a request is refused for a missing call only where it must be: the response came from
\* elsewhere or was never remembered, or the history has been full since.
ResultsMeetCalls ==
  \A t \in Talks :
    /\ x[t].pc = "asked" /\ x[t].mode # "plain" =>
         /\ x[t].outputs \subseteq Ids(x[t].calls)
         /\ x[t].platform = talk[t].platform => x[t].calls \subseteq talk[t].calls
    /\ x[t].pc = "refused" =>
         \/ talk[t].id = 0 \/ talk[t].mode = "plain" \/ talk[t].platform # x[t].platform
         \/ Len(history) = MaxCached
===============================================================================
