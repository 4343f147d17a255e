---------------------------- MODULE AuxiliarySocket ----------------------------
(***************************************************************************)
(* A WebSocket of another endpoint, passed through by the router: what the *)
(* client sends before the upstream is open waits, and each side's end is  *)
(* the end of the other.                                                   *)
(* proxyAuxiliaryWebSocket of src/model-router/websocket-transport.mjs.    *)
(*                                                                         *)
(* Messages are numbers, in flight in order on each side; a side that is   *)
(* closing still delivers what is on its way until the close arrives.      *)
(***************************************************************************)
EXTENDS Naturals, Sequences, SequencesExt

CONSTANTS
  MaxMessages,  \* bound: messages of each side
  MaxPending    \* what may wait for the upstream to open

VARIABLES
  client,    \* the client's socket: its state at the router, what is on its way in, what it got
  upstream,  \* the upstream's socket, likewise
  proxy      \* what waits and which ends are known: the variables of the function

vars == <<client, upstream, proxy>>

Init ==
  /\ client = [state |-> "open", sent |-> 0, way |-> <<>>, got |-> <<>>]
  /\ upstream = [state |-> "connecting", sent |-> 0, way |-> <<>>, got |-> <<>>]
  /\ proxy = [pending |-> <<>>, open |-> FALSE, clientClosed |-> FALSE, upstreamClosed |-> FALSE]

\* sendWebSocketData: only to an open socket, otherwise the data is dropped
SendTo(socket, data) == IF socket.state = "open" THEN [socket EXCEPT !.got = Append(@, data)] ELSE socket

\* closeUpstream and closeClient, each once; a socket that is connecting is destroyed, an open one
\* begins its close.
ClosedUpstream(u, p) ==
  IF p.upstreamClosed THEN u
  ELSE [u EXCEPT !.state = CASE @ = "connecting" -> "gone" [] @ = "open" -> "closing" [] OTHER -> @]
ClosedClient(c, p) ==
  IF p.clientClosed THEN c ELSE [c EXCEPT !.state = IF @ = "open" THEN "closing" ELSE @]

(***************************************************************************)
(* The two ends.                                                           *)
(***************************************************************************)
ClientSends ==
  /\ client.state = "open" /\ client.sent < MaxMessages
  /\ client' = [client EXCEPT !.sent = @ + 1, !.way = Append(@, client.sent + 1)]
  /\ UNCHANGED <<upstream, proxy>>
UpstreamSends ==
  /\ upstream.state = "open" /\ upstream.sent < MaxMessages
  /\ upstream' = [upstream EXCEPT !.sent = @ + 1, !.way = Append(@, upstream.sent + 1)]
  /\ UNCHANGED <<client, proxy>>
\* Either end closes or breaks off; the event is behind what is on its way.
ClientLeaves ==
  /\ client.state \in {"open", "closing"} /\ client.way = <<>>
  /\ client' = [client EXCEPT !.state = "gone"]
  /\ UNCHANGED <<upstream, proxy>>
\* So does a handshake that fails or takes longer than 15 s.
UpstreamLeaves ==
  /\ upstream.state \in {"connecting", "open", "closing"} /\ upstream.way = <<>>
  /\ upstream' = [upstream EXCEPT !.state = "gone"]
  /\ UNCHANGED <<client, proxy>>

(***************************************************************************)
(* The events the router handles.                                          *)
(***************************************************************************)

\* All that waits is sent, in its order.
Flushed(u) == FoldLeft(SendTo, u, proxy.pending)
UpstreamOpens ==
  /\ upstream.state = "connecting"
  /\ upstream' = Flushed([upstream EXCEPT !.state = "open"])
  /\ proxy' = [proxy EXCEPT !.open = TRUE, !.pending = <<>>]
  /\ UNCHANGED client

FromClient ==
  /\ client.way # <<>>
  /\ LET data == Head(client.way)
         c == [client EXCEPT !.way = Tail(@)]
     IN \/ /\ proxy.open
           /\ client' = c /\ upstream' = SendTo(upstream, data) /\ UNCHANGED proxy
        \/ /\ ~proxy.open /\ Len(proxy.pending) < MaxPending
           /\ client' = c /\ proxy' = [proxy EXCEPT !.pending = Append(@, data)] /\ UNCHANGED upstream
        \/ /\ ~proxy.open /\ Len(proxy.pending) >= MaxPending
           /\ client' = ClosedClient(c, proxy) /\ upstream' = ClosedUpstream(upstream, proxy)
           /\ proxy' = [proxy EXCEPT !.clientClosed = TRUE, !.upstreamClosed = TRUE]
FromUpstream ==
  /\ upstream.way # <<>>
  /\ upstream' = [upstream EXCEPT !.way = Tail(@)]
  /\ client' = SendTo(client, Head(upstream.way))
  /\ UNCHANGED proxy

\* Mutant of ClientClosed: an upstream that is not open yet is left to its handshake.
ClientClosedAlone ==
  /\ client.state = "gone" /\ ~proxy.clientClosed
  /\ upstream' = IF proxy.open THEN ClosedUpstream(upstream, proxy) ELSE upstream
  /\ proxy' = [proxy EXCEPT !.clientClosed = TRUE, !.upstreamClosed = TRUE]
  /\ UNCHANGED client
ClientClosed ==
  /\ client.state = "gone" /\ ~proxy.clientClosed
  /\ upstream' = ClosedUpstream(upstream, proxy)
  /\ proxy' = [proxy EXCEPT !.clientClosed = TRUE, !.upstreamClosed = TRUE]
  /\ UNCHANGED client
UpstreamClosed ==
  /\ upstream.state = "gone" /\ ~proxy.upstreamClosed
  /\ client' = ClosedClient(client, proxy)
  /\ proxy' = [proxy EXCEPT !.clientClosed = TRUE, !.upstreamClosed = TRUE]
  /\ UNCHANGED upstream

Events == UpstreamOpens \/ FromClient \/ FromUpstream \/ ClientClosed \/ UpstreamClosed
\* A close that was begun is answered or given up after a while.
Closing ==
  \/ client.state = "closing" /\ ClientLeaves
  \/ upstream.state = "closing" /\ UpstreamLeaves
Ends == ClientSends \/ UpstreamSends \/ ClientLeaves \/ UpstreamLeaves
Next == Events \/ Closing \/ Ends
Fairness == WF_vars(Events) /\ WF_vars(Closing)
Spec == Init /\ [][Next]_vars /\ Fairness

(***************************************************************************)
(* Properties.                                                             *)
(***************************************************************************)

\* What one side gets is what the other has sent, in its order and once, also across the opening:
\* all but what still waits or is on its way, as long as both are open.
PassedInOrder ==
  /\ IsPrefix(upstream.got, [i \in 1 .. client.sent |-> i])
  /\ IsPrefix(client.got, [i \in 1 .. upstream.sent |-> i])
  /\ client.state = "open" /\ upstream.state \in {"connecting", "open"} =>
       /\ upstream.got \o proxy.pending \o client.way = [i \in 1 .. client.sent |-> i]
       /\ client.got \o upstream.way = [i \in 1 .. upstream.sent |-> i]

\* One side's end is the end of both, whenever it comes.
EndsTogether ==
  client.state = "gone" \/ upstream.state = "gone" ~> client.state = "gone" /\ upstream.state = "gone"
================================================================================
