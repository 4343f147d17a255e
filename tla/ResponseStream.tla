----------------------------- MODULE ResponseStream -----------------------------
(***************************************************************************)
(* One response of a model on its way through the router, and what the     *)
(* router observes of it: the tool calls it prepares, the phases in which  *)
(* it wrote text and tool input, and the usage.                            *)
(* src/model-router/response-observation.mjs, response-stream.mjs, the     *)
(* forwarding of src/model-router/http-transport.mjs and of                *)
(* src/model-router.mjs.                                                   *)
(*                                                                         *)
(* The model announces, fills and completes output items in a legal order, *)
(* or sends one JSON body; providers leave announcements, item ids of text *)
(* and the streaming of text out.  The stream may break at any point, and  *)
(* the client may leave.  Texts are sizes and each event has a time of its *)
(* own.                                                                    *)
(***************************************************************************)
EXTENDS Naturals, Sequences, FiniteSets, SequencesExt, FiniteSetsExt

CONSTANTS
  Items,       \* the output items, 1 .. n, in the order of the output
  MaxDeltas,   \* bound: deltas of one item
  None

VARIABLES
  forward,  \* the exchange: where it stands, whether it is an event stream, and what it resolved to
  kind,     \* each item: "message" or "tool"
  item,     \* each item: how far it is written
  obs,      \* the observation
  report,   \* what it reported: usage, tool calls and generation
  log       \* ghost: the events so far, each at its index

vars == <<forward, kind, item, obs, report, log>>

Now == Len(log) + 1
Message == [id |-> None, firstAt |-> 0, lastAt |-> 0, n |-> 0, text |-> FALSE]
Tool(t) == [prep |-> t, firstAt |-> 0, lastAt |-> 0, n |-> 0]

\* createResponseObservation: messages and tool states in the order they were made; the states
\* known by an id or a call id; the message being written.
Blank == [messages |-> <<>>, active |-> 0, tools |-> <<>>, known |-> {}, completed |-> {},
          unmeasured |-> FALSE, usage |-> None, done |-> FALSE, finished |-> FALSE]

Init ==
  /\ forward \in [pc : {"sent"}, stream : BOOLEAN, accepted : {FALSE}]
  /\ kind \in [Items -> {"message", "tool"}]
  /\ item = [k \in Items |-> [pc |-> "none", n |-> 0]]
  /\ obs = Blank
  /\ report = [usage |-> <<>>, tools |-> <<>>, generation |-> None]
  /\ log = <<>>

(***************************************************************************)
(* The observation of one event.                                           *)
(***************************************************************************)

\* ensureMessageItem: by its id, else the message being written if the ids agree or one has none.
MessageOf(o, id) ==
  LET named == {m \in DOMAIN o.messages : id # None /\ o.messages[m].id = id}
  IN IF named # {} THEN CHOOSE m \in named : TRUE
     ELSE IF o.active # 0 /\ (id = None \/ o.messages[o.active].id \in {None, id}) THEN o.active
     ELSE Len(o.messages) + 1
Ensured(o, id) ==
  LET m == MessageOf(o, id)
      ms == IF m > Len(o.messages) THEN Append(o.messages, [Message EXCEPT !.id = id]) ELSE o.messages
  IN [o EXCEPT !.active = m,
               !.messages = IF ms[m].id = None THEN [ms EXCEPT ![m].id = id] ELSE ms]

\* recordText of the message being written
Text(o, t, streamed) ==
  [o EXCEPT !.messages[o.active] =
     [@ EXCEPT !.text = TRUE, !.firstAt = IF @ = 0 THEN t ELSE @,
               !.lastAt = IF streamed THEN t ELSE @, !.n = IF streamed THEN @ + 1 ELSE @]]
\* Mutant of Whole: the whole text counts as one more piece of the stream.
WholeAgain(o, t) == Text(o, t, TRUE)
\* The whole text, at its end: it counts if none of it has been seen.
Whole(o, t) == IF o.messages[o.active].text THEN o ELSE Text(o, t, FALSE)

\* The state of a tool, by any reference it is known by
KnownBy(o, refs) == {k.tool : k \in {x \in o.known : x.ref \in refs}}
Learnt(o, refs, new) ==
  LET old == KnownBy(o, refs)
      n == IF old = {} THEN Len(o.tools) + 1 ELSE CHOOSE x \in old : TRUE
  IN [o |-> [o EXCEPT !.tools = IF old = {} THEN Append(@, new) ELSE @,
                      !.known = {x \in @ : x.ref \notin refs} \cup {[ref |-> r, tool |-> n] : r \in refs}],
      tool |-> n]
Refs(k) == {<<"item", k>>, <<"call", k>>}

\* rememberToolItem: an announced item, or a completed one, which is reported the first time
Announced(o, k, t) ==
  LET l == Learnt(o, Refs(k), Tool(t))
  IN [l.o EXCEPT !.tools[l.tool].prep = IF @ = 0 THEN t ELSE @]
Input(o, refs, t) ==
  LET l == Learnt(o, refs, Tool(t))
  IN [l.o EXCEPT !.tools[l.tool] =
        [@ EXCEPT !.prep = IF @ = 0 THEN t ELSE @, !.firstAt = IF @ = 0 THEN t ELSE @,
                  !.lastAt = t, !.n = @ + 1]]
CompletedTool(s, k, t) ==
  LET l == Learnt(s.obs, Refs(k), Tool(0))
      call == [ref |-> k, prep |-> l.o.tools[l.tool].prep, ready |-> t]
  IN IF k \in s.obs.completed THEN [s EXCEPT !.obs = l.o]
     ELSE [obs |-> [l.o EXCEPT !.completed = @ \cup {k}],
           report |-> [s.report EXCEPT !.tools = Append(@, call)]]
\* recordOutputItem of a completed item; in a whole output its text counts.
Completed(s, k, t, whole) ==
  IF kind[k] = "tool" THEN CompletedTool(s, k, t)
  ELSE LET o == Ensured(s.obs, k)
       IN [s EXCEPT !.obs = [(IF whole THEN Whole(o, t) ELSE o) EXCEPT !.active = 0]]

\* The output of a whole response: each of its items, in order
Output(s, ks, t) == FoldLeft(LAMBDA acc, k : Completed(acc, k, t, TRUE), s, SetToSortSeq(ks, <))

State == [obs |-> obs, report |-> report]
Observed(s, event) ==
  /\ obs' = s.obs /\ report' = s.report /\ log' = Append(log, event)
Flowing == forward.pc = "flowing"

(***************************************************************************)
(* What the model writes.                                                  *)
(***************************************************************************)

\* Only one message is written at a time; tools may overlap.
Writing(k) == kind[k] = "message" /\ item[k].pc = "open"
MayOpen(k) ==
  /\ item[k].pc = "none" /\ \A j \in Items : j < k => item[j].pc # "none"
  /\ kind[k] = "message" => \A j \in Items : ~Writing(j)
Streaming == Flowing /\ forward.stream

\* An item is announced; providers may leave that out for a message.
Add(k) ==
  /\ Streaming /\ MayOpen(k)
  /\ item' = [item EXCEPT ![k].pc = "open"]
  /\ \/ Observed([State EXCEPT !.obs = IF kind[k] = "tool" THEN Announced(obs, k, Now) ELSE Ensured(obs, k)],
                 [type |-> "added", item |-> k])
     \/ kind[k] = "message" /\ UNCHANGED <<obs, report, log>>
  /\ UNCHANGED <<forward, kind>>
\* A piece of text, with or without the id of its message, or of tool input, by either id
Delta(k) ==
  /\ Streaming /\ item[k].pc = "open" /\ item[k].n < MaxDeltas
  /\ item' = [item EXCEPT ![k].n = @ + 1]
  /\ \/ /\ kind[k] = "message"
        /\ \E id \in {k, None} : Observed([State EXCEPT !.obs = Text(Ensured(obs, id), Now, TRUE)],
                                          [type |-> "delta", item |-> k])
     \/ /\ kind[k] = "tool"
        /\ \E ref \in Refs(k) : Observed([State EXCEPT !.obs = Input(obs, {ref}, Now)],
                                            [type |-> "delta", item |-> k])
  /\ UNCHANGED <<forward, kind>>
\* The whole text of a message, after its pieces
TextDone(k) ==
  /\ Streaming /\ Writing(k) /\ item[k].n <= MaxDeltas
  /\ item' = [item EXCEPT ![k].n = MaxDeltas + 1]
  /\ Observed([State EXCEPT !.obs = Whole(Ensured(obs, k), Now)], [type |-> "text", item |-> k])
  /\ UNCHANGED <<forward, kind>>
\* A part that is not text
OtherPart(k) ==
  /\ Streaming /\ Writing(k)
  /\ ~obs.unmeasured
  /\ Observed([State EXCEPT !.obs.unmeasured = TRUE], [type |-> "part", item |-> k])
  /\ UNCHANGED <<forward, kind, item>>
Done(k) ==
  /\ Streaming /\ item[k].pc = "open"
  /\ item' = [item EXCEPT ![k].pc = "done"]
  /\ Observed(Completed(State, k, Now, FALSE), [type |-> "done", item |-> k])
  /\ UNCHANGED <<forward, kind>>

\* The last event: completed or failed, with the usage; the output that completed repeats
Started == {k \in Items : item[k].pc # "none"}
LastEvent(type) ==
  /\ Streaming /\ \A k \in Started : item[k].pc = "done"
  /\ LET s == IF type = "completed" THEN Output(State, Started, Now) ELSE State
     IN Observed([s EXCEPT !.obs.done = type = "completed", !.obs.usage = Now], [type |-> type, item |-> 0])
  /\ forward' = [forward EXCEPT !.pc = "ending"]
  /\ UNCHANGED <<kind, item>>
\* A JSON body, read as a whole when the response ends
Body ==
  /\ Flowing /\ ~forward.stream
  /\ \E n \in 0 .. Cardinality(Items) :
       LET ks == {k \in Items : k <= n}
       IN /\ item' = [k \in Items |-> IF k \in ks THEN [item[k] EXCEPT !.pc = "done"] ELSE item[k]]
          /\ Observed([Output(State, ks, Now) EXCEPT !.obs.usage = Now], [type |-> "body", item |-> 0])
  /\ forward' = [forward EXCEPT !.pc = "ending"]
  /\ UNCHANGED kind

(***************************************************************************)
(* The exchange.                                                           *)
(***************************************************************************)

\* forwardModelResponse: the status decides whether the response is observed.
Headers ==
  /\ forward.pc = "sent"
  /\ \E ok \in BOOLEAN :
       forward' = [forward EXCEPT !.pc = IF ok THEN "flowing" ELSE "plain", !.accepted = ok]
  /\ UNCHANGED <<kind, item, obs, report, log>>

\* finish: the phases of the texts, by their beginning, and of the tools
Lasting(x) == IF x.n > 1 /\ x.lastAt > x.firstAt THEN x.lastAt - x.firstAt ELSE 0
Phase(what, x) == [what |-> what, start |-> x.firstAt, duration |-> Lasting(x)]
Phases ==
  {Phase("text", obs.messages[m]) : m \in {j \in DOMAIN obs.messages : obs.messages[j].text}}
    \cup {Phase("tool", obs.tools[n]) : n \in DOMAIN obs.tools}
Generation ==
  [phases |-> Phases,
   complete |-> ~obs.unmeasured /\ Phases # {} /\ \A p \in Phases : p.duration > 0]
Reportable == obs.done \/ ~forward.stream
Finished ==
  /\ obs' = [obs EXCEPT !.finished = TRUE]
  /\ report' = [report EXCEPT !.usage = IF obs.usage = None THEN @ ELSE Append(@, obs.usage),
                              !.generation = IF Reportable THEN Generation ELSE @]
\* The response ends: also early, as if it were complete.
Ends ==
  /\ forward.pc \in {"flowing", "ending"}
  /\ forward.pc = "flowing" => forward.stream
  /\ Finished
  /\ forward' = [forward EXCEPT !.pc = "settled"]
  /\ UNCHANGED <<kind, item, log>>
\* It breaks, or the client leaves, which ends the request: nothing more is reported.
Breaks ==
  /\ forward.pc \in {"sent", "plain", "flowing", "ending"}
  /\ forward' = [forward EXCEPT !.pc = "settled"]
  /\ obs' = [obs EXCEPT !.finished = TRUE]
  /\ UNCHANGED <<kind, item, report, log>>

Next ==
  \/ \E k \in Items : Add(k) \/ Delta(k) \/ TextDone(k) \/ OtherPart(k) \/ Done(k)
  \/ LastEvent("completed") \/ LastEvent("failed") \/ Body
  \/ Headers \/ Ends \/ Breaks
Spec == Init /\ [][Next]_vars

(***************************************************************************)
(* Properties.                                                             *)
(***************************************************************************)
At(type, k) == {i \in DOMAIN log : log[i].type = type /\ log[i].item \in {k, 0}}
Deltas(k) == At("delta", k)
Last1(S) == CHOOSE x \in S : \A y \in S : y <= x
First1(S) == CHOOSE x \in S : \A y \in S : x <= y

\* The phases as the stream tells them: a text begins where the first of it was seen, streamed or
\* whole, and lasts from the first to the last of several pieces; a tool's input likewise.
Start(k) ==
  LET seen == Deltas(k) \cup (IF kind[k] = "tool" THEN {} ELSE At("text", k) \cup At("completed", k) \cup At("body", k))
  IN IF seen = {} THEN 0 ELSE First1(seen)
Told(k) == [what |-> IF kind[k] = "tool" THEN "tool" ELSE "text", start |-> Start(k),
            duration |-> IF Cardinality(Deltas(k)) > 1 THEN Last1(Deltas(k)) - Start(k) ELSE 0]

\* A response that ended is reported with its usage once, and with exactly the phases its stream
\* tells, although providers name, announce and stream in different ways and say the same more
\* than once; one that broke off or failed has no phases (response-observation.mjs).
GenerationIsStream ==
  LET said == {i \in DOMAIN log : log[i].type \in {"completed", "failed", "body"}}
  IN /\ Len(report.usage) = (IF report.usage # <<>> THEN 1 ELSE 0)
     /\ \A i \in DOMAIN report.usage : said = {report.usage[i]}
     /\ report.generation # None =>
          /\ said # {} /\ log[Last1(said)].type # "failed"
          /\ report.generation.phases = {Told(k) : k \in Started}

\* A tool call is reported when it is complete, once, whatever it was called before, and with the
\* moment it was first announced (response-observation.mjs rememberToolItem).
ToolsOnce ==
  /\ \A i, j \in DOMAIN report.tools : report.tools[i].ref = report.tools[j].ref => i = j
  /\ \A i \in DOMAIN report.tools :
       LET c == report.tools[i]
       IN /\ c.ready = First1(At("done", c.ref) \cup At("completed", c.ref) \cup At("body", c.ref))
          /\ c.prep = IF At("added", c.ref) = {} THEN 0 ELSE First1(At("added", c.ref))
  /\ forward.pc = "ending" /\ obs.usage # None /\ log[Len(log)].type # "failed" =>
       {c \in Items : kind[c] = "tool" /\ item[c].pc = "done"} = {report.tools[i].ref : i \in DOMAIN report.tools}
================================================================================
