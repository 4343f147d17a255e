----------------------------- MODULE WidgetSession -----------------------------
(***************************************************************************)
(* How the panel in the Codex page is kept up to date:                     *)
(* src/injector/widget-session.mjs, driven by the main loop of         *)
(* src/injector.mjs over one debugging connection at a time.           *)
(*                                                                         *)
(* The view is a function from channels to values.  Channels are numbered  *)
(* in the order in which a batch applies them: the account core and its    *)
(* models, the network sample, then one channel for each turn of the token *)
(* usage, whose delta names the turns that changed.  The first batch of a  *)
(* connection, or of a page that was installed anew, carries every channel *)
(* in one update; a later one carries what differs from the snapshot that  *)
(* the page confirmed last.                                                *)
(***************************************************************************)
EXTENDS Naturals, FiniteSets

CONSTANTS
  Channels,    \* 1 .. the number of channels
  Values,      \* contents of a channel
  Blank,       \* content of a channel of a page that was never updated
  None,        \* no connection, no snapshot, nothing on the wire
  MaxChanges,  \* bound: changes of the data
  MaxLosses,   \* bound: pages reloaded, connections lost, failed evaluations
  MaxReloads   \* bound: hot reloads of the widget

ASSUME WidgetConstants ==
  /\ Channels = 1 .. Cardinality(Channels)
  /\ Blank \notin Values /\ None \notin [Channels -> Values]
  /\ MaxChanges \in Nat /\ MaxLosses \in Nat /\ MaxReloads \in Nat

\* null is not one of the session's connections.
ASSUME NoneIsNoConnection ==
  None \notin [id : Nat, cdp : Nat, widget : Nat, installed : BOOLEAN,
              snapshot : [Channels -> Values] \cup {None}, sent : Nat]

VARIABLES
  data,       \* what the managers' view models return
  revision,   \* dataRevision, counted from 1 (sentRevision = -1 is 0)
  requested,  \* updateRequested
  loop,       \* where requestWidgetUpdate's promise is; "none" is updatePromise = null
  push,       \* what the running push holds across its await
  connection, \* the session's connection, or None
  cdp,        \* dependencies.cdp: its number and whether it is connected
  widget,     \* version of the widget the injector has loaded
  poll,       \* the main loop: "idle", awaiting the promise, or reloading the widget
  page,       \* external: the page's runtime version (0: none), what it shows, and (ghost)
              \* whether part of a batch that threw is still in it
  wire,       \* external: the evaluation under way and its answer
  checkDue,   \* WIDGET_HEALTH_CHECK_MS have passed since checkedAt
  failed,     \* the running promise is going to reject
  stopped,    \* the injector was stopped
  changes, losses  \* counters of the bounds

session == <<revision, requested, loop, push, connection, failed>>
main    == <<cdp, widget, poll, checkDue, stopped>>
bounds  == <<changes, losses>>
vars    == <<data, session, main, page, wire, bounds>>

Empty  == [c \in Channels |-> Blank]
NoPage == [version |-> 0, shows |-> Empty, torn |-> FALSE]
NoPush == [id |-> 0, next |-> None, revision |-> 0]
NoWire == [kind |-> "none", answer |-> "none", next |-> None, channels |-> {}]

Init ==
  /\ data \in [Channels -> Values]
  /\ revision = 1 /\ requested = FALSE /\ loop = "none" /\ push = NoPush
  /\ connection = None /\ failed = FALSE
  /\ cdp = [id |-> 0, up |-> FALSE] /\ widget = 1 /\ poll = "idle"
  /\ checkDue = FALSE /\ stopped = FALSE
  /\ page = NoPage /\ wire = NoWire
  /\ changes = 0 /\ losses = 0

Loss == losses < MaxLosses /\ losses' = losses + 1

-----------------------------------------------------------------------------
(* The session *)

\* requestWidgetUpdate: one promise at a time; a request during it asks for
\* another round, one during a hot reload is dropped.
Request ==
  IF poll = "reloading" THEN UNCHANGED <<requested, loop>>
  ELSE requested' = TRUE /\ loop' = IF loop = "none" THEN "push" ELSE loop

\* A manager publishes something new.  Most publishers ask for an update at once,
\* the account operation leaves that to the main loop.
Change(c, v) ==
  /\ ~stopped /\ changes < MaxChanges /\ changes' = changes + 1
  /\ v # data[c] /\ data' = [data EXCEPT ![c] = v]
  /\ revision' = revision + 1
  /\ Request \/ UNCHANGED <<requested, loop>>
  /\ UNCHANGED <<push, connection, failed, main, page, wire, losses>>

\* CdpClient.evaluate: a connection that was closed takes no request.
Send(kind, next, channels) ==
  wire' = [kind |-> kind, answer |-> IF cdp.up THEN "none" ELSE "failed",
           next |-> next, channels |-> channels]

\* What a batch on top of the connection's snapshot carries.
Updates(conn) ==
  IF conn.snapshot = None THEN Channels
  ELSE {c \in Channels : data[c] # conn.snapshot[c]}

\* Broken on purpose: the revision of the answer's moment is confirmed.
ConfirmedNow(conn, next, at)   == [conn EXCEPT !.snapshot = next, !.sent = revision]
\* The page has taken a snapshot over, as far as the session knows.
Confirmed(conn, next, at) == [conn EXCEPT !.snapshot = next, !.sent = at]

\* The last part of a push: send what the page lacks, if anything.
Deliver(conn) ==
  IF conn.sent = revision \/ Updates(conn) = {}
  THEN /\ connection' = IF conn.sent = revision THEN conn ELSE Confirmed(conn, data, revision)
       /\ loop' = "check" /\ push' = NoPush /\ wire' = NoWire
  ELSE /\ connection' = conn
       /\ push' = [id |-> conn.id, next |-> data, revision |-> revision]
       /\ loop' = "update" /\ Send("update", data, Updates(conn))

Await(conn, kind) ==
  /\ connection' = conn
  /\ push' = [NoPush EXCEPT !.id = conn.id]
  /\ loop' = kind /\ Send(kind, None, {})

\* Every reset advances the revision, so it also tells connections apart.
NewConnection ==
  [id |-> revision, cdp |-> cdp.id, widget |-> widget, installed |-> FALSE,
   snapshot |-> None, sent |-> 0]

\* A round begins: pushWidgetViewModel up to its first await.
Push ==
  LET conn == IF connection # None /\ connection.cdp = cdp.id /\ connection.widget = widget
              THEN connection ELSE NewConnection
  IN
  /\ loop = "push"
  /\ requested' = FALSE
  /\ IF ~cdp.up \/ stopped
     THEN loop' = "check" /\ push' = NoPush /\ wire' = NoWire /\ UNCHANGED connection
     ELSE \/ ~conn.installed /\ Await(conn, "install")
          \/ conn.installed /\ checkDue /\ Await(conn, "health")
          \/ conn.installed /\ ~checkDue /\ Deliver(conn)
  /\ UNCHANGED <<data, revision, failed, main, page, bounds>>

\* isCurrent, looked at after every await of a push.
IsCurrent ==
  /\ connection # None /\ connection.id = push.id
  /\ cdp.id = connection.cdp /\ widget = connection.widget
  /\ ~stopped

\* An answer for a session that is gone is not used.
Outdated ==
  /\ loop \in {"health", "install", "update"} /\ wire.answer \in {"ok", "missing"}
  /\ ~IsCurrent
  /\ loop' = "check" /\ push' = NoPush /\ wire' = NoWire
  /\ UNCHANGED <<data, revision, requested, connection, failed, main, page, bounds>>

\* Broken on purpose: the runtime's answer is not looked at.
HealthIgnored ==
  /\ loop = "health" /\ wire.answer \in {"ok", "missing"} /\ IsCurrent
  /\ checkDue' = FALSE
  /\ Deliver(connection)
  /\ UNCHANGED <<data, revision, requested, failed, cdp, widget, poll, stopped, page, bounds>>

\* The runtime of the page answers the health check, or is no longer there.
HealthAnswered ==
  /\ loop = "health" /\ wire.answer \in {"ok", "missing"} /\ IsCurrent
  /\ checkDue' = FALSE
  /\ IF wire.answer = "ok" THEN Deliver(connection)
                           ELSE Await([connection EXCEPT !.installed = FALSE], "install")
  /\ UNCHANGED <<data, revision, requested, failed, cdp, widget, poll, stopped, page, bounds>>

\* Broken on purpose: the next delta builds on what the page showed before.
InstallKeepsSnapshot ==
  /\ loop = "install" /\ wire.answer = "ok" /\ IsCurrent
  /\ checkDue' = FALSE
  /\ Deliver([connection EXCEPT !.installed = TRUE, !.sent = 0])
  /\ UNCHANGED <<data, revision, requested, failed, cdp, widget, poll, stopped, page, bounds>>

\* A page that was installed anew starts from a full snapshot.
InstallAnswered ==
  /\ loop = "install" /\ wire.answer = "ok" /\ IsCurrent
  /\ checkDue' = FALSE
  /\ Deliver([connection EXCEPT !.installed = TRUE, !.snapshot = None, !.sent = 0])
  /\ UNCHANGED <<data, revision, requested, failed, cdp, widget, poll, stopped, page, bounds>>

\* Only an acknowledged batch becomes the baseline of the next one; a page that
\* has lost its runtime is installed again in another round.
UpdateAnswered ==
  /\ loop = "update" /\ wire.answer \in {"ok", "missing"} /\ IsCurrent
  /\ IF wire.answer = "ok"
     THEN /\ connection' = Confirmed(connection, push.next, push.revision)
          /\ requested' = (requested \/ revision # push.revision)
     ELSE /\ connection' = [connection EXCEPT !.installed = FALSE]
          /\ requested' = TRUE
  /\ loop' = "check" /\ push' = NoPush /\ wire' = NoWire
  /\ UNCHANGED <<data, revision, failed, main, page, bounds>>

\* The evaluation rejects: the push throws, and the rounds end with it.
PushThrows ==
  /\ loop \in {"health", "install", "update"} /\ wire.answer = "failed"
  /\ failed' = TRUE
  /\ loop' = "ending" /\ push' = NoPush /\ wire' = NoWire
  /\ UNCHANGED <<data, revision, requested, connection, main, page, bounds>>

\* while (updateRequested && ...)
CheckRound ==
  /\ loop = "check"
  /\ loop' = IF requested /\ ~stopped /\ poll # "reloading" THEN "push" ELSE "ending"
  /\ UNCHANGED <<data, revision, requested, push, connection, failed, main, page, wire, bounds>>

\* The main loop's reaction to a failed update, and whatever else drops the session.
Reset == connection' = None /\ revision' = revision + 1

\* finally: until here a request still joins the promise that has run its last
\* round.  If the main loop awaited it and it failed, the connection is closed.
PromiseEnds ==
  /\ loop = "ending"
  /\ loop' = "none" /\ failed' = FALSE
  /\ IF poll = "waiting" /\ failed
     THEN cdp' = [cdp EXCEPT !.up = FALSE] /\ Reset
     ELSE UNCHANGED <<cdp, connection, revision>>
  /\ poll' = IF poll = "waiting" THEN "idle" ELSE poll
  /\ UNCHANGED <<data, requested, push, widget, checkDue, stopped, page, wire, bounds>>

-----------------------------------------------------------------------------
(* The main loop and what happens around it *)

\* CdpClient.connect
Opened == [id |-> cdp.id + 1, up |-> TRUE]
\* connectAndInject, every TARGET_POLL_MS: a new connection starts a new session.
Connect ==
  /\ poll = "idle" /\ ~cdp.up /\ ~stopped
  /\ cdp' = Opened
  /\ Reset
  /\ UNCHANGED <<data, requested, loop, push, failed, widget, poll, checkDue, stopped, page, wire, bounds>>

Poll ==
  /\ poll = "idle" /\ cdp.up /\ ~stopped
  /\ Request /\ poll' = "waiting"
  /\ UNCHANGED <<data, revision, push, connection, failed, cdp, widget, checkDue, stopped, page, wire, bounds>>

ReloadBegins ==
  /\ poll = "idle" /\ ~stopped /\ widget <= MaxReloads
  /\ poll' = "reloading"
  /\ UNCHANGED <<data, session, cdp, widget, checkDue, stopped, page, wire, bounds>>

\* whenIdle has been awaited: the new widget, and a session without a past.
ReloadEnds ==
  /\ poll = "reloading" /\ loop = "none"
  /\ widget' = widget + 1 /\ poll' = "idle"
  /\ Reset
  /\ UNCHANGED <<data, requested, loop, push, failed, cdp, checkDue, stopped, page, wire, bounds>>

HealthCheckDue ==
  /\ checkDue' = TRUE /\ ~checkDue
  /\ UNCHANGED <<data, session, cdp, widget, poll, stopped, page, wire, bounds>>

\* A closed connection rejects the evaluation under way; an answer may have been
\* read before, it then reaches the push in a session that is gone.
Rejected ==
  {[wire EXCEPT !.answer = IF wire.kind = "none" THEN "none" ELSE "failed"]}
    \cup (IF wire.answer = "none" THEN {} ELSE {wire})

ConnectionLost ==
  /\ cdp.up /\ Loss
  /\ cdp' = [cdp EXCEPT !.up = FALSE] /\ wire' \in Rejected
  /\ UNCHANGED <<data, session, widget, poll, checkDue, stopped, page, changes>>

\* resetAfterCodexRestart, outside the main loop.
CodexRestarted ==
  /\ ~stopped /\ Loss
  /\ cdp' = [cdp EXCEPT !.up = FALSE] /\ wire' \in Rejected
  /\ page' = NoPage
  /\ Reset
  /\ UNCHANGED <<data, requested, loop, push, failed, widget, poll, checkDue, stopped, changes>>

Stop ==
  /\ ~stopped /\ stopped' = TRUE
  /\ cdp' = [cdp EXCEPT !.up = FALSE] /\ wire' \in Rejected
  /\ Reset
  /\ UNCHANGED <<data, requested, loop, push, failed, widget, poll, checkDue, page, bounds>>

-----------------------------------------------------------------------------
(* The page: widget/runtime.mjs *)

Waiting == wire.kind # "none" /\ wire.answer = "none"

Answer(text) == wire' = [wire EXCEPT !.answer = text]

Applied(channels) == [c \in Channels |-> IF c \in channels THEN wire.next[c] ELSE page.shows[c]]

PageAnswers ==
  /\ Waiting
  /\ \/ /\ wire.kind = "install"
        /\ page' = IF page.version = widget THEN page ELSE [NoPage EXCEPT !.version = widget]
        /\ Answer("ok")
     \/ /\ wire.kind # "install" /\ page.version # widget
        /\ Answer("missing") /\ UNCHANGED page
     \/ /\ wire.kind = "health" /\ page.version = widget
        /\ Answer("ok") /\ UNCHANGED page
     \/ /\ wire.kind = "update" /\ page.version = widget
        /\ page' = [page EXCEPT !.shows = Applied(wire.channels),
                                !.torn = @ /\ wire.channels # Channels]
        /\ Answer("ok")
  /\ UNCHANGED <<data, session, main, bounds>>

\* The evaluation fails before it does anything.
PageRefuses ==
  /\ Waiting /\ Loss
  /\ Answer("failed")
  /\ UNCHANGED <<data, session, main, page, changes>>

\* A batch throws after its first channels have been applied.  (A full batch is one
\* update; how much of it is applied does not matter, another full one follows.)
PageThrowsHalfWay ==
  /\ Waiting /\ wire.kind = "update" /\ page.version = widget /\ Loss
  /\ \E k \in Channels :
       page' = [page EXCEPT !.shows = Applied({c \in wire.channels : c <= k}), !.torn = TRUE]
  /\ Answer("failed")
  /\ UNCHANGED <<data, session, main, changes>>

PageReloads ==
  /\ page.version # 0 /\ Loss
  /\ page' = NoPage
  /\ UNCHANGED <<data, session, main, wire, changes>>

-----------------------------------------------------------------------------
Session == \/ Push \/ Outdated \/ HealthAnswered \/ InstallAnswered \/ UpdateAnswered
           \/ PushThrows \/ CheckRound \/ PromiseEnds

Main == Connect \/ Poll \/ ReloadEnds

Disturbance == \/ ReloadBegins \/ ConnectionLost \/ CodexRestarted \/ Stop
               \/ PageRefuses \/ PageThrowsHalfWay \/ PageReloads

Next ==
  \/ Session \/ Main \/ HealthCheckDue \/ PageAnswers \/ Disturbance
  \/ \E c \in Channels, v \in Values : Change(c, v)

Spec == Init /\ [][Next]_vars

\* Promises settle, evaluations are answered (or time out, which loses the
\* connection), the main loop keeps polling and time passes; data need not change
\* and nothing has to go wrong.
FairSpec ==
  Spec /\ WF_vars(Session) /\ WF_vars(Main) /\ WF_vars(PageAnswers) /\ WF_vars(HealthCheckDue)

-----------------------------------------------------------------------------
View == [Channels -> Values]

\* Every variable has its type.
TypeOK ==
  /\ data \in View
  /\ loop \in {"none", "push", "health", "install", "update", "check", "ending"}
  /\ connection # None => /\ connection.snapshot \in View \cup {None}
                          /\ connection.sent \in 0 .. revision
  /\ push.next \in View \cup {None} /\ (loop = "update" => push.next # None)
  /\ poll \in {"idle", "waiting", "reloading"}
  /\ page.version \in 0 .. widget /\ page.torn \in BOOLEAN /\ page.shows \in [Channels -> Values \cup {Blank}]
  /\ wire.answer \in {"none", "ok", "missing", "failed"} /\ wire.channels \subseteq Channels
  /\ {requested, failed, checkDue, stopped, cdp.up} \subseteq BOOLEAN

\* The page never shows a mixture: after an acknowledged batch it shows exactly
\* one snapshot, so no delta was built on a baseline the page does not have,
\* whatever was reloaded, reset or reconnected since; a batch that threw half-way
\* excepted, until the next full one.
PageShowsOneSnapshot ==
  [][PageAnswers /\ wire.kind = "update" /\ wire'.answer = "ok" /\ ~page'.torn
       => page'.shows = wire.next]_vars

\* A session that considers itself up to date has delivered the data of this
\* moment: a change made while a batch was on its way is not taken for sent.
NothingTakenForSent ==
  connection # None /\ connection.sent = revision => connection.snapshot = data

UpToDate == page.version = widget /\ page.shows = data

\* When changes and disturbances stop, the page shows the data as it is, also if
\* the last request of an update was dropped or joined a promise that had ended.
PageConverges == <>[](stopped \/ UpToDate \/ page.torn)

=============================================================================
