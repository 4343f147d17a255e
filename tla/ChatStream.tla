------------------------------ MODULE ChatStream ------------------------------
(***************************************************************************)
(* The answer of a Chat platform on its way to Codex: the chunks of its    *)
(* stream become the events of a Responses stream                          *)
(* (src/chat-compat-proxy/response.mjs, chat-transport.mjs).               *)
(*                                                                         *)
(* A text or an argument is its number of pieces, and an argument is       *)
(* complete with Pieces of them.  The argument of a custom tool is wrapped *)
(* in JSON: without all its pieces, or when the model broke the wrapper,   *)
(* the input of the tool cannot be recovered.                              *)
(***************************************************************************)
EXTENDS Naturals, Sequences, FiniteSets, SequencesExt, FiniteSetsExt

CONSTANTS
  Texts,   \* the reasoning and the text of an answer
  Calls,   \* its tool calls
  Pieces   \* the length of a complete text or argument

StreamConstants == Pieces \in Nat \ {0} /\ Texts \cap Calls = {} /\ IsFiniteSet(Texts \cup Calls)

VARIABLES
  custom, broken, \* the calls of custom tools, and those the model broke; fixed
  keyed,    \* how the platform tells calls apart: in "each" piece, or by an id in the "first" one only
  written,  \* what the platform has written of each part
  state,    \* ChatResponseState
  tools,    \* its tools: what is known and held of each call, in the order of their coming
  out,      \* the events written to the response
  kept,     \* the calls of the response the history remembers, or None yet
  line      \* the connections: "open", "left" by the client, or "ended"

vars == <<custom, broken, keyed, written, state, tools, out, kept, line>>

Parts == Texts \cup Calls
Unsure == [id |-> FALSE, name |-> FALSE, n |-> 0, sent |-> 0]
Nothing == {"nothing"}

Init ==
  /\ custom \in SUBSET Calls /\ broken \in SUBSET custom /\ keyed \in {"each", "first"}
  /\ written = [k \in Parts |-> 0]
  /\ state = [started |-> FALSE, finished |-> FALSE, reason |-> "none", order |-> <<>>]
  /\ tools = [k \in Calls |-> Unsure] /\ out = <<>> /\ kept = Nothing /\ line = "open"

-----------------------------------------------------------------------------
(* The events *)

Event(type, k, n) == [type |-> type, item |-> k, n |-> n]
S == [state |-> state, tools |-> tools, out |-> out, kept |-> kept]
Sent(s, event) == [s EXCEPT !.out = Append(@, event)]
Took(s) == state' = s.state /\ tools' = s.tools /\ out' = s.out /\ kept' = s.kept
Fixed == UNCHANGED <<custom, broken, keyed>>

\* start
Started(s) ==
  IF s.state.started THEN s ELSE Sent([s EXCEPT !.state.started = TRUE], Event("created", "response", 0))
Announced(s, k) ==
  IF \E i \in DOMAIN s.out : s.out[i] = Event("added", k, 0) THEN s ELSE Sent(s, Event("added", k, 0))
Shown(s) == {k \in Parts : \E i \in DOMAIN s.out : s.out[i] = Event("added", k, 0)}

\* pushReasoning, pushText
Text(s, k) == Sent(Announced(s, k), Event("delta", k, 1))

Known(s, k) == s.tools[k].id /\ s.tools[k].name
\* Mutant of ToolStarted: only the newest piece is sent.
ToolStartedLate(s, k) ==
  IF ~Known(s, k) THEN s
  ELSE LET a == Announced(s, k)
       IN IF k \in custom \/ a.tools[k].sent >= a.tools[k].n THEN a
          ELSE Sent([a EXCEPT !.tools[k].sent = a.tools[k].n], Event("delta", k, 1))
\* ensureToolStarted: a call is announced once its id and its name are known, with all its input.
ToolStarted(s, k) ==
  IF ~Known(s, k) THEN s
  ELSE LET a == Announced(s, k)
       IN IF k \in custom \/ a.tools[k].sent >= a.tools[k].n THEN a
          ELSE Sent([a EXCEPT !.tools[k].sent = a.tools[k].n],
                    Event("delta", k, a.tools[k].n - a.tools[k].sent))

\* fail
Failed(s) ==
  IF s.state.finished THEN s
  ELSE Sent([Started(s) EXCEPT !.state.finished = TRUE], [type |-> "failed", item |-> <<>>, n |-> 0])

\* responseCall: the wrapper of a custom call must be complete and well-formed.
Valid(s, k) == k \in custom => s.tools[k].n = Pieces /\ k \notin broken
Held(s, k) == IF k \in Calls THEN s.tools[k].n ELSE written[k]
\* The end of one part: a custom input as a whole, and what the item says in the end
Closed(s, k) ==
  LET a == IF k \in Calls THEN ToolStarted(s, k) ELSE s
      input == IF k \in custom THEN Sent(a, Event("delta", k, Held(a, k))) ELSE a
  IN Sent(Sent(input, Event("whole", k, Held(a, k))), Event("done", k, Held(a, k)))
\* Mutant of Finished: the calls are checked one by one as they are closed.
FinishedInTurn(s) ==
  IF s.state.finished THEN s
  ELSE LET calls == SelectSeq(s.state.order, LAMBDA k : Known(s, k))
           all == FoldLeft(Closed, Started(s), SetToSeq(Shown(s) \cap Texts) \o calls)
       IN IF \E k \in ToSet(calls) : ~Valid(s, k) THEN Failed(all)
          ELSE [Sent(all, [type |-> "completed", item |-> SelectSeq(calls, LAMBDA k : TRUE), n |-> 0])
                  EXCEPT !.state.finished = TRUE, !.kept = ToSet(calls)]
\* finish: first every custom input is checked, then everything is closed and remembered.
Finished(s) ==
  IF s.state.finished THEN s
  ELSE IF \E k \in Calls : Known(s, k) /\ ~Valid(s, k) THEN Failed(s)
  ELSE LET calls == SelectSeq(s.state.order, LAMBDA k : Known(s, k))
           all == FoldLeft(Closed, Started(s), SetToSeq(Shown(s) \cap Texts) \o calls)
           shown == SelectSeq(all.out, LAMBDA e : e.type = "added")
           type == IF s.state.reason = "length" THEN "incomplete" ELSE "completed"
       IN [Sent(all, [type |-> type, item |-> [i \in DOMAIN shown |-> shown[i].item], n |-> 0])
             EXCEPT !.state.finished = TRUE, !.kept = ToSet(calls)]

-----------------------------------------------------------------------------
(* What the platform writes, and what becomes of it *)

Open == line = "open"
\* accept: nothing, once the response is finished
Accepts(s) == IF state.finished THEN UNCHANGED <<state, tools, out, kept>> ELSE Took(s)
Writes(k) == written[k] < Pieces /\ written' = [written EXCEPT ![k] = @ + 1]

TextChunk(k) ==
  /\ Open /\ Writes(k) /\ Accepts(Text(Started(S), k))
  /\ Fixed /\ UNCHANGED line

Entered(s, k, id, name, piece) ==
  [s EXCEPT !.state.order = IF k \in ToSet(@) THEN @ ELSE Append(@, k),
            !.tools[k].id = @ \/ id, !.tools[k].name = @ \/ name, !.tools[k].n = @ + piece]
\* pushTool: a piece finds its call by its index or its id.  Without either it is put down to a call of
\* its own, which has no name and is never announced.
ToolChunk(k) ==
  /\ Open /\ Fixed /\ UNCHANGED line
  /\ \E id, name, piece \in BOOLEAN :
       /\ id \/ name \/ piece
       /\ keyed = "first" => (id <=> written[k] = 0 /\ ~tools[k].id)
       /\ IF piece THEN Writes(k) ELSE UNCHANGED written
       /\ Accepts(IF keyed = "first" /\ ~id THEN Started(S)
                  ELSE ToolStarted(Entered(Started(S), k, id, name, IF piece THEN 1 ELSE 0), k))
ReasonChunk(reason) ==
  /\ Open /\ state.reason = "none" /\ Accepts([Started(S) EXCEPT !.state.reason = reason])
  /\ Fixed /\ UNCHANGED <<written, line>>

\* pipeChatStream: the last mark, an error of the platform, and the end of its stream, which counts if
\* the platform has told its reason; then the response is ended, too.
DoneMark == Open /\ Took(Finished(S)) /\ Fixed /\ UNCHANGED <<written, line>>
ErrorChunk == Open /\ Took(Failed(S)) /\ Fixed /\ UNCHANGED <<written, line>>
Ends ==
  /\ Open /\ Took(IF state.reason # "none" THEN Finished(S) ELSE Failed(S)) /\ line' = "ended"
  /\ Fixed /\ UNCHANGED written
Breaks == Open /\ Took(Failed(S)) /\ line' = "ended" /\ Fixed /\ UNCHANGED written
\* forwardClientCancellation: the request to the platform is given up with it.
ClientLeaves == Open /\ line' = "left" /\ Took(S) /\ Fixed /\ UNCHANGED written

Next ==
  \/ \E k \in Texts : TextChunk(k)
  \/ \E k \in Calls : ToolChunk(k)
  \/ \E reason \in {"stop", "length"} : ReasonChunk(reason)
  \/ DoneMark \/ ErrorChunk \/ Ends \/ Breaks \/ ClientLeaves
Spec == Init /\ [][Next]_vars

-----------------------------------------------------------------------------
Types == {"created", "added", "delta", "whole", "done", "failed", "completed", "incomplete"}
TypeOK ==
  /\ custom \subseteq Calls /\ broken \subseteq custom /\ keyed \in {"each", "first"}
  /\ written \in [Parts -> 0 .. Pieces]
  /\ state \in [started : BOOLEAN, finished : BOOLEAN, reason : {"none", "stop", "length"}, order : Seq(Calls)]
  /\ tools \in [Calls -> [id : BOOLEAN, name : BOOLEAN, n : 0 .. Pieces, sent : 0 .. Pieces]]
  /\ \A i \in DOMAIN out : out[i].type \in Types
  /\ kept = Nothing \/ kept \subseteq Calls
  /\ line \in {"open", "left", "ended"}

IsEnd(i) == out[i].type \in {"completed", "incomplete", "failed"}
Of(k) == {i \in DOMAIN out : ~IsEnd(i) /\ out[i].item = k}
Length(k) == FoldSet(LAMBDA i, n : n + out[i].n, 0, {i \in Of(k) : out[i].type = "delta"})

\* Whatever the platform tells first and whatever it leaves out, Codex is sent a legal stream: it
\* starts with the response and has one end, which is the last event and comes before the connection
\* ends; every part is announced first, its pieces make up exactly what its end says, and what the
\* response lists are the items that were finished, in the order of their announcement.
LegalStream ==
  /\ out # <<>> => out[1].type = "created"
  /\ \A i \in DOMAIN out : IsEnd(i) => i = Len(out)
  /\ line = "ended" => out # <<>> /\ IsEnd(Len(out))
  /\ \A k \in {p \in Parts : Of(p) # {}} :
       LET done == {i \in Of(k) : out[i].type = "done"}
       IN /\ out[Min(Of(k))].type = "added"
          /\ Cardinality(done) <= 1 /\ \A i \in done : i = Max(Of(k)) /\ out[i].n = Length(k)
  /\ \A i \in DOMAIN out : out[i].type \in {"completed", "incomplete"} =>
       /\ ToSet(out[i].item) = {out[j].item : j \in {h \in DOMAIN out : out[h].type = "done"}}
       /\ \A a, b \in DOMAIN out[i].item : a < b => Min(Of(out[i].item[a])) < Min(Of(out[i].item[b]))

\* A custom call whose input cannot be recovered is not executed: no item of such an answer is
\* finished, nor is the answer completed or remembered ("Validate custom input before publishing any
\* terminal items", response.mjs:141).
BrokenNeverRuns ==
  \A i \in DOMAIN out : out[i].type \in {"done", "completed", "incomplete"} =>
    \A k \in custom : Known(S, k) => k \notin broken /\ written[k] = Pieces /\ tools[k].n = Pieces

\* What the history remembers are the calls Codex was told of, once it was told of their end.
RememberedIsSent ==
  /\ kept # Nothing <=> \E i \in DOMAIN out : out[i].type \in {"completed", "incomplete"}
  /\ kept # Nothing => kept = Calls \cap ToSet(Last(out).item)
===============================================================================
