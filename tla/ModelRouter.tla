----------------------------- MODULE ModelRouter ------------------------------
(***************************************************************************)
(* The local model router (src/model-router.mjs and model-router/).    *)
(* Codex sends its model requests to it, over HTTP or over one lane of a   *)
(* WebSocket; the router passes each on to the official service or to a    *)
(* custom provider and observes the answers.  The request ledger binds a   *)
(* task (thread) to the provider of its first accepted request: a claim is *)
(* made before a request leaves, and settled by what the provider says.    *)
(*                                                                         *)
(* A model is abstracted to its provider, a payload to the request it      *)
(* belongs to, and the stream ids of a connection to a single lane.        *)
(***************************************************************************)
EXTENDS Naturals, Sequences, FiniteSets, SequencesExt

CONSTANTS
  Threads,      \* tasks of Codex
  Conns,        \* WebSocket connections of Codex at a time
  Official,     \* the official service
  Customs,      \* providers reached over HTTP only (routeKey)
  None,         \* no request, no connection
  MaxRequests,  \* bound: requests
  MaxChanges,   \* bound: configurations installed or disabled, and tasks expired
  MaxConnects,  \* bound: WebSocket connections opened
  MaxRoutes     \* MAX_THREAD_ROUTES

Providers == {Official} \cup Customs
Requests  == 1 .. MaxRequests
Phases    == {"new", "waiting", "opening", "sent", "accepted", "served", "refused", "lost"}
Asked     == [phase : Phases, thread : Threads \cup {None}, provider : Providers \cup {None},
              gen : BOOLEAN,  \* not a prewarm (generate: false)
              conn : Conns \cup {None}]
Route     == [provider : Providers, confirmed : BOOLEAN, pending : SUBSET Requests]
Conn      == [client : {"none", "open", "closing", "closed"},
              official : {"none", "connecting", "open", "closing", "closed", "failed"},
              inbox : Seq(Requests),           \* messageTail
              obs : Seq(Requests),             \* the observation queue of the lane
              wire : Seq(Requests),            \* sent upstream and not yet answered
              lane : Requests \cup {None}]     \* customRequests

RouterConstants ==
  /\ Official \notin Customs /\ None \notin Threads \cup Providers \cup Conns \cup Requests
  /\ None \notin Route
  /\ MaxRequests \in Nat /\ MaxChanges \in Nat /\ MaxConnects \in Nat
  /\ MaxRoutes \in Nat \ {0}

VARIABLES
  serving,  \* the HTTP server listens
  closed,   \* this.closed
  setup,    \* where configure() is: "idle", "listen", "proxy"
  snapshot, \* a routing snapshot is installed
  routes,   \* threadRoutes: what is known of each task
  req,      \* what became of each request
  conn,     \* the connections
  stray,    \* ghost: requests whose task's route was forgotten after their claim
  changes, connects  \* counters of the bounds

manager == <<serving, closed, setup, snapshot>>
bounds  == <<changes, connects>>
vars    == <<manager, routes, req, conn, stray, bounds>>

NoRoutes == [t \in Threads |-> None]
NoConn == [client |-> "none", official |-> "none", inbox |-> <<>>, obs |-> <<>>,
           wire |-> <<>>, lane |-> None]

Init ==
  /\ serving = FALSE /\ closed = FALSE /\ setup = "idle" /\ snapshot = FALSE
  /\ routes = NoRoutes
  /\ req = [r \in Requests |-> [phase |-> "new", thread |-> None, provider |-> None,
                                gen |-> FALSE, conn |-> None]]
  /\ conn = [c \in Conns |-> NoConn]
  /\ stray = {} /\ changes = 0 /\ connects = 0

-----------------------------------------------------------------------------
(* The request ledger *)

Known(table) == {t \in Threads : table[t] # None}

\* Requests that were claimed for a task and not refused since.
Bound(asked, t) ==
  {r \in Requests : /\ asked[r].thread = t /\ asked[r].gen
                    /\ asked[r].phase \in {"opening", "sent", "accepted", "served"}}

\* A task's route is used; #pruneState forgets the least recently used of too many, and what
\* was not used for a week, pending or not.
Used(t, route) ==
  {[u \in Threads |-> IF u = t THEN route ELSE IF u \in kept THEN routes[u] ELSE None] :
     kept \in {k \in SUBSET (Known(routes) \ {t}) : Cardinality(k) < MaxRoutes}}

\* The requests of the tasks that a table no longer knows are stray.
Remember(table, asked) ==
  stray' = stray \cup UNION {Bound(asked, t) : t \in Known(routes) \ Known(table)}

Forget(asked) == routes' = NoRoutes /\ Remember(NoRoutes, asked)

\* #reserveThreadRoute refuses another provider than the one the task has.
Refused(t, p) == routes[t] # None /\ routes[t].provider # p

\* The tables after a claim of r; a prewarm claims nothing.
Claimed(r, asked) ==
  LET t == asked[r].thread
      pending == IF routes[t] = None THEN {} ELSE routes[t].pending
  IN  IF ~asked[r].gen THEN {routes}
      ELSE Used(t, [provider |-> asked[r].provider, pending |-> pending \cup {r},
                    confirmed |-> routes[t] # None /\ routes[t].confirmed])

\* activateRequestContext
Claim(r, asked) == \E table \in Claimed(r, asked) : routes' = table /\ Remember(table, asked)

\* settleThreadRoute(claim, true)
Accepted(r, asked) ==
  LET t == asked[r].thread IN
  IF routes[t] = None \/ r \notin routes[t].pending THEN UNCHANGED <<routes, stray>>
  ELSE \E table \in Used(t, [provider |-> routes[t].provider, pending |-> routes[t].pending \ {r},
                             confirmed |-> TRUE]) :
         routes' = table /\ Remember(table, asked)

\* Broken on purpose: one refusal unlocks the task although others are on their way.
RejectedAlone(table, lost) ==
  [t \in Threads |-> IF table[t] = None \/ table[t].confirmed \/ table[t].pending \cap lost = {}
                     THEN table[t] ELSE None]

\* settleThreadRoute(claim, false) of a set of requests: a route nobody confirmed
\* goes with its last claim.
Rejected(table, lost) ==
  [t \in Threads |->
     IF table[t] = None \/ /\ ~table[t].confirmed /\ table[t].pending \cap lost # {}
                           /\ table[t].pending \subseteq lost
     THEN None ELSE [table[t] EXCEPT !.pending = @ \ lost]]

Reject(lost) == routes' = Rejected(routes, lost) /\ UNCHANGED stray

\* #pruneState, called from recordUsage too: a task that was not used for a week is forgotten.
Expire ==
  /\ changes < MaxChanges /\ changes' = changes + 1
  /\ \E t \in Known(routes) : routes' = [routes EXCEPT ![t] = None]
  /\ Remember(routes', req)
  /\ UNCHANGED <<manager, req, conn, connects>>

-----------------------------------------------------------------------------
(* Configuration *)

\* configure: the first await is the server's, the second the proxy's.
Configure ==
  /\ ~closed /\ setup = "idle" /\ changes < MaxChanges /\ changes' = changes + 1
  /\ setup' = "listen"
  /\ UNCHANGED <<serving, closed, snapshot, routes, req, conn, stray, connects>>

Listen ==
  /\ setup = "listen"
  /\ \/ serving' = TRUE /\ setup' = "proxy"
     \/ ~serving /\ setup' = "idle" /\ UNCHANGED serving  \* no port
  /\ UNCHANGED <<closed, snapshot, routes, req, conn, stray, bounds>>

\* Every client is told to close; what it sent before may still be on its way.
ClientsClosing == [c \in Conns |-> IF conn[c].client = "open"
                                   THEN [conn[c] EXCEPT !.client = "closing"] ELSE conn[c]]

\* The new snapshot forgets every binding and closes the connections of an old one.
Install ==
  /\ setup = "proxy" /\ setup' = "idle" /\ snapshot' = TRUE
  /\ Forget(req)
  /\ conn' = IF snapshot THEN ClientsClosing ELSE conn
  /\ UNCHANGED <<serving, closed, req, bounds>>

\* The same targets; another way of official authentication closes the connections.
Reinstall ==
  /\ setup = "proxy" /\ snapshot /\ setup' = "idle"
  /\ conn' \in {conn, ClientsClosing}
  /\ UNCHANGED <<serving, closed, snapshot, routes, req, stray, bounds>>

Disable ==
  /\ ~closed /\ setup = "idle" /\ changes < MaxChanges /\ changes' = changes + 1
  /\ snapshot' = FALSE /\ Forget(req) /\ conn' = ClientsClosing
  /\ UNCHANGED <<serving, closed, setup, req, connects>>

\* close: the HTTP connections are cut, and their requests end as any others.
Close ==
  /\ ~closed /\ closed' = TRUE
  /\ serving' = FALSE /\ snapshot' = FALSE /\ conn' = ClientsClosing
  /\ UNCHANGED <<setup, routes, req, stray, bounds>>

-----------------------------------------------------------------------------
(* HTTP *)

At(r, phase) == [req EXCEPT ![r].phase = phase]

\* Requests come one after another; r is the next one.
Next1(r) == req[r].phase = "new" /\ \A q \in 1 .. r - 1 : req[q].phase # "new"

NewAsked(r, t, p, gen, c, phase) ==
  [req EXCEPT ![r] = [phase |-> phase, thread |-> t, provider |-> p, gen |-> gen, conn |-> c]]

\* #routeRequest: the body has been read and its model looked up in the snapshot of now.
HttpRequest(r, t, p) ==
  /\ serving /\ Next1(r)
  /\ IF ~snapshot \/ Refused(t, p)
     THEN req' = NewAsked(r, t, p, TRUE, None, "refused") /\ UNCHANGED <<routes, stray>>
     ELSE req' = NewAsked(r, t, p, TRUE, None, "sent") /\ Claim(r, req')
  /\ UNCHANGED <<manager, conn, bounds>>

\* forwardModelResponse: a 2xx status is remembered until the response has ended.
HttpStatus(r) ==
  /\ req[r].conn = None /\ req[r].phase = "sent"
  /\ req' = At(r, "accepted")
  /\ UNCHANGED <<manager, routes, conn, stray, bounds>>

\* The response ends, the provider refuses or fails, or Codex goes away.
HttpEnds(r) ==
  /\ req[r].conn = None
  /\ \/ req[r].phase = "sent" /\ req' = At(r, "refused") /\ Reject({r})
     \/ req[r].phase = "accepted" /\ req' = At(r, "served") /\ Accepted(r, req')
  /\ UNCHANGED <<manager, conn, bounds>>

-----------------------------------------------------------------------------
(* WebSocket *)

Connect(c) ==
  /\ serving /\ snapshot /\ connects < MaxConnects /\ connects' = connects + 1
  /\ conn[c].client \in {"none", "closed"} /\ conn[c].inbox = <<>>
  /\ conn[c].official \in {"none", "closed", "failed"}
  /\ conn' = [conn EXCEPT ![c] = [NoConn EXCEPT !.client = "open"]]
  /\ UNCHANGED <<manager, routes, req, stray, changes>>

\* Codex sends response.create, perhaps before it sees the close frame of the router;
\* messages are worked on one after another.
Frame(c, r, t, p, gen) ==
  /\ conn[c].client \in {"open", "closing"}
  /\ Next1(r)
  /\ req' = NewAsked(r, t, p, gen, c, "waiting")
  /\ conn' = [conn EXCEPT ![c].inbox = Append(@, r)]
  /\ UNCHANGED <<manager, routes, stray, bounds>>

\* The first message of the inbox, once no message waits for the official socket.
Turn(c, r) == conn[c].inbox # <<>> /\ r = Head(conn[c].inbox) /\ req[r].phase = "waiting"
Unwaited(c) == [conn EXCEPT ![c].inbox = Tail(@)]

\* A failure is answered on the lane: no configuration, another provider, a busy lane.
WsRefuse(c, r) ==
  /\ Turn(c, r)
  /\ \/ ~snapshot
     \/ req[r].gen /\ req[r].provider \in Customs /\ conn[c].lane # None
     \/ req[r].gen /\ Refused(req[r].thread, req[r].provider)
  /\ req' = At(r, "refused") /\ conn' = Unwaited(c)
  /\ UNCHANGED <<manager, routes, stray, bounds>>

\* A prewarm of a custom provider is answered here.
WsPrewarm(c, r) ==
  /\ Turn(c, r) /\ snapshot /\ ~req[r].gen /\ req[r].provider \in Customs
  /\ req' = At(r, "served") /\ conn' = Unwaited(c)
  /\ UNCHANGED <<manager, routes, stray, bounds>>

\* startHttpWebSocketBridge, on a lane without a request of its own.
WsBridge(c, r) ==
  /\ Turn(c, r) /\ snapshot /\ req[r].gen /\ req[r].provider \in Customs
  /\ conn[c].lane = None /\ ~Refused(req[r].thread, req[r].provider)
  /\ req' = At(r, "sent") /\ Claim(r, req')
  /\ conn' = [Unwaited(c) EXCEPT ![c].lane = r]
  /\ UNCHANGED <<manager, bounds>>

\* Broken on purpose: a prewarm has no place in the observation queue.
ObservedIfCounted(c, r) == IF req[r].gen THEN Append(conn[c].obs, r) ELSE conn[c].obs

\* observations.add; a prewarm too, or its answer would be taken for the next one's.
Observed(c, r) == Append(conn[c].obs, r)

\* An official request is claimed and observed before it is sent.  It waits for a socket
\* that is opening; one that has failed refuses it; one that is closed drops it.
WsOfficial(c, r) ==
  /\ Turn(c, r) /\ snapshot /\ req[r].provider = Official
  /\ req[r].gen => ~Refused(req[r].thread, Official)
  /\ LET next == [conn[c] EXCEPT !.obs = Observed(c, r), !.inbox = Tail(@)]
     IN \/ /\ conn[c].official = "none"
           /\ req' = At(r, "opening") /\ Claim(r, req')
           /\ conn' = [conn EXCEPT ![c] = [next EXCEPT !.official = "connecting",
                                                      !.inbox = conn[c].inbox]]
        \/ /\ conn[c].official = "open"
           /\ req' = At(r, "sent") /\ Claim(r, req')
           /\ conn' = [conn EXCEPT ![c] = [next EXCEPT !.wire = Append(@, r)]]
        \/ /\ conn[c].official \in {"closing", "closed"}
           /\ req' = At(r, "lost") /\ Claim(r, req')
           /\ conn' = [conn EXCEPT ![c] = next]
        \/ /\ conn[c].official = "failed"
           /\ req' = At(r, "refused") /\ conn' = Unwaited(c)
           /\ \E table \in Claimed(r, req) : routes' = Rejected(table, {r}) /\ Remember(table, req')
  /\ UNCHANGED <<manager, bounds>>

\* The socket opens and the waiting message goes out.
OfficialOpens(c) ==
  /\ conn[c].official = "connecting"
  /\ LET r == Head(conn[c].inbox)
     IN  /\ req' = At(r, "sent")
         /\ conn' = [conn EXCEPT ![c].official = "open", ![c].inbox = Tail(@), ![c].wire = <<r>>]
  /\ UNCHANGED <<manager, routes, stray, bounds>>

\* What the connection's observations come to when its official socket is gone (abortAll).
Aborted(c) ==
  [r \in Requests |-> IF \E k \in DOMAIN conn[c].obs : conn[c].obs[k] = r
                      THEN [req[r] EXCEPT !.phase = IF @ = "accepted" THEN "served" ELSE "refused"]
                      ELSE req[r]]
Unsettled(c) == {conn[c].obs[k] : k \in DOMAIN conn[c].obs} \cap {r \in Requests : req[r].phase # "accepted"}


\* The connection without its official socket; a message that waited for it is done with.
Dropped(c) ==
  [conn[c] EXCEPT !.official = IF @ = "connecting" THEN "failed" ELSE "closed",
                  !.inbox = IF conn[c].official = "connecting" THEN Tail(@) ELSE @,
                  !.obs = <<>>, !.wire = <<>>]

\* The handshake fails, or the socket closes: the client's goes with it.
OfficialCloses(c) ==
  /\ conn[c].official \in {"connecting", "open", "closing"}
  /\ req' = Aborted(c) /\ Reject(Unsettled(c))
  /\ conn' = [conn EXCEPT ![c] = [Dropped(c) EXCEPT !.client = IF @ = "open" THEN "closing" ELSE @]]
  /\ UNCHANGED <<manager, bounds>>

\* The service answers its requests one after another; what it says is put down to
\* the first observation of the queue.
OfficialAnswers(c) ==
  /\ conn[c].official \in {"open", "closing"} /\ conn[c].wire # <<>> /\ conn[c].obs # <<>>
  /\ LET e == Head(conn[c].obs)
         answered == [conn EXCEPT ![c].obs = Tail(@), ![c].wire = Tail(@)]
     IN \/ /\ req[e].phase = "sent" /\ req' = At(e, "accepted") /\ Accepted(e, req')
           /\ UNCHANGED conn
        \/ /\ req' = At(e, "served") /\ conn' = answered
           /\ IF req[e].phase = "sent" THEN Accepted(e, req') ELSE UNCHANGED <<routes, stray>>
        \/ /\ req[e].phase = "sent" /\ req' = At(e, "refused") /\ conn' = answered
           /\ Reject({e})
  /\ UNCHANGED <<manager, bounds>>

Bridged(r) == req[r].conn # None /\ req[r].provider \in Customs

\* The bridge's 2xx confirms the route at once.
BridgeStatus(r) ==
  /\ Bridged(r) /\ req[r].phase = "sent"
  /\ req' = At(r, "accepted") /\ Accepted(r, req')
  /\ UNCHANGED <<manager, conn, bounds>>

\* onDone: the lane is free again, if the bridge still has it.
BridgeEnds(r) ==
  /\ Bridged(r) /\ req[r].phase \in {"sent", "accepted"}
  /\ req' = At(r, IF req[r].phase = "sent" THEN "refused" ELSE "served") /\ Reject({r})
  /\ conn' = [c \in Conns |-> IF conn[c].lane = r THEN [conn[c] EXCEPT !.lane = None] ELSE conn[c]]
  /\ UNCHANGED <<manager, bounds>>

\* closeUpstreams: the bridge is cancelled and the official socket closed.
ClientGone(c) ==
  /\ conn[c].client \in {"open", "closing"}
  /\ LET opening == conn[c].official = "connecting"
         lost == IF opening THEN Unsettled(c) ELSE {}
         bridge == Requests \cap {conn[c].lane}
         after == IF opening THEN Aborted(c) ELSE req
     IN  /\ req' = [r \in Requests |->
              IF r \in bridge
              THEN [req[r] EXCEPT !.phase = IF @ = "sent" THEN "refused" ELSE "served"] ELSE after[r]]
         /\ Reject(lost \cup bridge)
         /\ conn' = [conn EXCEPT ![c] =
              [(IF opening THEN Dropped(c) ELSE conn[c]) EXCEPT
                 !.client = "closed", !.lane = None,
                 !.official = IF @ = "open" THEN "closing" ELSE @]]
  /\ UNCHANGED <<manager, bounds>>

Http(r)   == HttpStatus(r) \/ HttpEnds(r)
Bridge(r) == BridgeStatus(r) \/ BridgeEnds(r)
Work(c)   == \E r \in Requests : WsRefuse(c, r) \/ WsPrewarm(c, r) \/ WsBridge(c, r) \/ WsOfficial(c, r)

\* Messages are worked on in microtasks: nothing else happens before them.
Calm == ~ \E c \in Conns, r \in Requests : Turn(c, r)

Next ==
  \/ \E c \in Conns : Work(c)
  \/ /\ Calm
     /\ \/ Configure \/ Listen \/ Install \/ Reinstall \/ Disable \/ Close \/ Expire
        \/ \E r \in Requests, t \in Threads, p \in Providers :
             \/ HttpRequest(r, t, p)
             \/ \E c \in Conns, gen \in BOOLEAN : Frame(c, r, t, p, gen)
        \/ \E r \in Requests : Http(r) \/ Bridge(r)
        \/ \E c \in Conns :
             Connect(c) \/ ClientGone(c) \/ OfficialOpens(c) \/ OfficialAnswers(c) \/ OfficialCloses(c)

Spec == Init /\ [][Next]_vars

-----------------------------------------------------------------------------
\* Every variable has its type.
TypeOK ==
  /\ serving \in BOOLEAN /\ closed \in BOOLEAN /\ snapshot \in BOOLEAN
  /\ setup \in {"idle", "listen", "proxy"}
  /\ routes \in [Threads -> Route \cup {None}]
  /\ req \in [Requests -> Asked] /\ conn \in [Conns -> Conn] /\ stray \subseteq Requests

InFlight == {r \in Requests : req[r].phase \in {"opening", "sent", "accepted"}}

\* A task keeps to one provider: whatever is on its way or was accepted for it, over
\* any transport, since the router last forgot the task went to the same one.
OneProviderPerTask ==
  \A t \in Threads : \A r, q \in Bound(req, t) \ stray : req[r].provider = req[q].provider

\* What keeps a task from another provider is an accepted request or one on its way,
\* over whatever transport it went and however it failed; the one exception is a
\* request that was dropped because it met a closing connection.
NoStaleLock ==
  \A t \in Known(routes) :
    routes[t].confirmed \/ \E r \in routes[t].pending : r \in InFlight \/ req[r].phase = "lost"

\* An answer of the official socket is put down to the request it answers: prewarms,
\* failing handshakes and reconnections never shift the queue.
AnswersMeetTheirRequests ==
  \A c \in Conns : conn[c].official \in {"open", "closing"} => IsPrefix(conn[c].wire, conn[c].obs)

\* The table of owners follows the requests: the requests of a task go to one provider,
\* and no longer than there is a request or a confirmed answer of it.
RoutesFollowRequests == TypeOK /\ OneProviderPerTask /\ NoStaleLock
=============================================================================
