------------------------------ MODULE ToolBridge ------------------------------
(***************************************************************************)
(* The answer of a Responses platform that does not know custom or         *)
(* namespaced tools: they were declared to it as functions, and its events *)
(* are turned back on their way to Codex                                   *)
(* (src/responses-tool-adapter.mjs, chat-compat-proxy/responses-bridge.mjs).*)
(*                                                                         *)
(* The arguments of a call are the number of their pieces.  Those of a     *)
(* custom tool wrap its input in JSON: without all Pieces of them, or when *)
(* the model broke the wrapper, the input cannot be recovered.             *)
(***************************************************************************)
EXTENDS Naturals, Sequences, FiniteSets, SequencesExt

CONSTANTS
  Calls,   \* the tool calls of the answer
  Pieces   \* the length of complete arguments

VARIABLES
  tool,    \* what each call's tool is: "native", or bridged as a "function" or from a "custom" one; fixed
  broken,  \* the custom calls the model broke; fixed
  wrote,   \* what the platform has written of each call, and whether it has told the end of the answer
  held,    \* calls of the translator: the arguments of each bridged call it knows, and what was emitted
  failed,  \* a translation has failed: nothing more is accepted
  out,     \* the events written to the response
  kept,    \* the calls of the response the history remembers, or Nothing yet
  line     \* the connections: "open" or "ended"

vars == <<tool, broken, wrote, held, failed, out, kept, line>>

Nothing == {"nothing"}
Unknown == [known |-> FALSE, n |-> 0, emitted |-> FALSE]

Init ==
  /\ tool \in [Calls -> {"native", "function", "custom"}]
  /\ broken \in SUBSET {k \in Calls : tool[k] = "custom"}
  /\ wrote = [over |-> FALSE, call |-> [k \in Calls |-> [at |-> "none", announced |-> FALSE, n |-> 0]]]
  /\ held = [k \in Calls |-> Unknown]
  /\ failed = FALSE /\ out = <<>> /\ kept = Nothing /\ line = "open"

Bridged(k) == tool[k] # "native"
Custom(k) == tool[k] = "custom"

-----------------------------------------------------------------------------
(* The events: of a call in the form Codex declared ("call") or in the     *)
(* platform's ("raw")                                                      *)

Event(type, k, n) == [type |-> type, item |-> k, n |-> n]
\* customInput: the wrapper must be complete and well-formed.
Recovered(k, n) == n = Pieces /\ k \notin broken
\* customInputEvents
InputEvents(k, n) == <<Event("inputDelta", k, n), Event("inputDone", k, n)>>

\* What is made of one event: the events written and what is held of the call, or a failure
Result(ok, events, call) == [ok |-> ok, events |-> events, call |-> call]

\* translateResponsesOutputItem: an item of a custom call names its input, which must be recovered
\* unless the call has only begun without arguments.
Translates(k, n, begun) == Custom(k) => Recovered(k, n) \/ (begun /\ n = 0)

\* accept of response.output_item.added; the platform may give the arguments at once.
Added(k, n) ==
  IF Bridged(k)
  THEN Result(Translates(k, n, TRUE), <<Event("added", k, n)>>, [Unknown EXCEPT !.known = TRUE, !.n = n])
  ELSE Result(TRUE, <<Event("rawAdded", k, n)>>, held[k])
\* accept of response.function_call_arguments.delta: that of a known custom call is held back.
Delta(k) ==
  IF held[k].known /\ Custom(k) THEN Result(TRUE, <<>>, [held[k] EXCEPT !.n = @ + 1])
  ELSE Result(TRUE, <<Event("rawDelta", k, 1)>>, held[k])
\* accept of response.function_call_arguments.done, with all arguments or without
Whole(k, n, told) ==
  IF held[k].known /\ Custom(k)
  THEN LET all == IF told THEN n ELSE held[k].n
       IN Result(Recovered(k, all), InputEvents(k, all), [held[k] EXCEPT !.n = all, !.emitted = Recovered(k, all)])
  ELSE Result(TRUE, <<Event("rawDone", k, n)>>, held[k])

\* Mutant of Done: the input is told again, although it was told with the arguments.
DoneTwice(k, n, told) ==
  IF ~Bridged(k) THEN Result(TRUE, <<Event("rawItem", k, n)>>, held[k])
  ELSE LET all == IF told \/ ~held[k].known THEN n ELSE held[k].n
           input == IF Custom(k) THEN InputEvents(k, all) ELSE <<>>
       IN Result(Translates(k, IF told THEN n ELSE 0, FALSE), input \o <<Event("item", k, n)>>,
                 [known |-> TRUE, n |-> all, emitted |-> Custom(k)])
\* accept of response.output_item.done: a call that was not announced is taken up now, and the input of
\* a custom call is told unless it was.  The item itself needs its arguments.
Done(k, n, told) ==
  IF ~Bridged(k) THEN Result(TRUE, <<Event("rawItem", k, n)>>, held[k])
  ELSE LET emits == Custom(k) /\ ~held[k].emitted
           all == IF told THEN n ELSE held[k].n
       IN Result((emits => Recovered(k, all)) /\ Translates(k, IF told THEN n ELSE 0, FALSE),
                 (IF emits THEN InputEvents(k, all) ELSE <<>>) \o <<Event("item", k, n)>>,
                 [known |-> TRUE, n |-> IF emits THEN all ELSE held[k].n, emitted |-> held[k].emitted \/ (emits /\ Recovered(k, all))])

-----------------------------------------------------------------------------
(* What the platform writes, and what becomes of it                        *)

Open == line = "open" /\ ~wrote.over
Fixed == UNCHANGED <<tool, broken>>
TranslationFailed == [type |-> "translationFailed", item |-> {}, n |-> 0]

\* acceptBlock: a translation that fails is the end for Codex, whatever the platform goes on to write.
Accepts(k, result) ==
  /\ IF failed THEN UNCHANGED <<held, failed, out>>
     ELSE /\ held' = [held EXCEPT ![k] = result.call] /\ failed' = ~result.ok
          /\ out' = IF result.ok THEN out \o result.events ELSE Append(out, TranslationFailed)
  /\ Fixed /\ UNCHANGED <<kept, line>>
Writes(k, from, to) ==
  /\ Open /\ wrote.call[k].at \in from
  /\ LET call == wrote.call[k]
     IN wrote' = [wrote EXCEPT !.call[k] =
                    [at |-> to, announced |-> call.announced \/ to = "added", n |-> call.n]]

WritesAdded(k) ==
  /\ wrote.call[k].n = 0 /\ Writes(k, {"none"}, "added")
  /\ \E n \in {0, Pieces} : Accepts(k, Added(k, n))
WritesDelta(k) ==
  /\ Open /\ wrote.call[k].at \in {"none", "added"} /\ wrote.call[k].n < Pieces
  /\ wrote' = [wrote EXCEPT !.call[k].n = @ + 1]
  /\ Accepts(k, Delta(k))
\* A complete call has all its pieces; one that was cut off has those the platform has come to.
WritesWhole(k) ==
  /\ Writes(k, {"none", "added"}, "whole")
  /\ \E n \in {wrote.call[k].n, Pieces}, told \in BOOLEAN : Accepts(k, Whole(k, n, told))
WritesItem(k) ==
  /\ Writes(k, {"none", "added", "whole"}, "item")
  /\ \E n \in {wrote.call[k].n, Pieces}, told \in BOOLEAN : Accepts(k, Done(k, n, told))

\* translateResponsesPayload, and history.remember once the event is written: the output of the end may
\* name the calls the platform has come to, one that is not finished with its arguments cut off.
Begun == {k \in Calls : wrote.call[k].at # "none" \/ wrote.call[k].n > 0}
WritesEnd(type) ==
  /\ Open /\ wrote' = [wrote EXCEPT !.over = TRUE]
  /\ \E output \in {{}, Begun}, cut \in SUBSET {k \in Begun : wrote.call[k].at # "item"} :
       LET ok == \A k \in output : Translates(k, IF k \in cut THEN 0 ELSE Pieces, FALSE)
       IN /\ IF failed THEN UNCHANGED <<failed, out, kept>>
             ELSE IF ~ok THEN failed' = TRUE /\ out' = Append(out, TranslationFailed) /\ UNCHANGED kept
             ELSE /\ out' = Append(out, [type |-> type, item |-> output, n |-> 0])
                  /\ kept' = IF type = "failed" THEN kept ELSE output
                  /\ UNCHANGED failed
  /\ Fixed /\ UNCHANGED <<held, line>>

\* The platform's stream ends, or the client leaves and the request to the platform is given up with it;
\* or the stream breaks, which Codex is told.
Ends == line = "open" /\ line' = "ended" /\ Fixed /\ UNCHANGED <<wrote, held, failed, out, kept>>
Breaks ==
  /\ line = "open" /\ line' = "ended"
  /\ out' = IF failed THEN out ELSE Append(out, [type |-> "brokenOff", item |-> {}, n |-> 0])
  /\ Fixed /\ UNCHANGED <<wrote, held, failed, kept>>

Next ==
  \/ \E k \in Calls : WritesAdded(k) \/ WritesDelta(k) \/ WritesWhole(k) \/ WritesItem(k)
  \/ \E type \in {"completed", "incomplete", "failed"} : WritesEnd(type)
  \/ Ends \/ Breaks
Spec == Init /\ [][Next]_vars

-----------------------------------------------------------------------------
TypeOK ==
  /\ tool \in [Calls -> {"native", "function", "custom"}] /\ broken \subseteq {k \in Calls : Custom(k)}
  /\ wrote \in [over : BOOLEAN,
                call : [Calls -> [at : {"none", "added", "whole", "item"}, announced : BOOLEAN, n : 0 .. Pieces]]]
  /\ held \in [Calls -> [known : BOOLEAN, n : Nat, emitted : BOOLEAN]]
  /\ failed \in BOOLEAN /\ kept \in (SUBSET Calls) \cup {Nothing} /\ line \in {"open", "ended"}

Of(k, types) == {i \in DOMAIN out : out[i].type \in types /\ out[i].item = k}

\* A custom call is executed once and from what the model really wrote: its input is told at most once,
\* before its item, whole and recovered, however the platform tells of the call (with or without an
\* announcement, in pieces, at once, or without its last word); and Codex never sees the arguments of
\* a custom call that was announced in the form the platform knows.
CustomIsWhole ==
  \A k \in {c \in Calls : Custom(c)} :
    /\ \A type \in {"inputDelta", "inputDone"} : \A i, j \in Of(k, {type}) : i = j
    /\ \A i \in Of(k, {"inputDelta", "inputDone", "item"}) : k \notin broken /\ out[i].n = Pieces
    /\ \A i \in Of(k, {"item"}) : \E j \in Of(k, {"inputDone"}) : j < i
    /\ wrote.call[k].announced => Of(k, {"rawAdded", "rawDelta", "rawDone", "rawItem"}) = {}

\* A failed translation is the last Codex hears of the answer, and what the history remembers is the
\* output of an end that Codex was told, without a call whose input is lost.
FailureIsLast ==
  /\ \A i \in DOMAIN out : out[i] = TranslationFailed <=> failed /\ i = Len(out)
  /\ kept # Nothing =>
       /\ \E i \in DOMAIN out : out[i].type \in {"completed", "incomplete"} /\ out[i].item = kept
       /\ kept \cap broken = {} /\ ~failed
===============================================================================
