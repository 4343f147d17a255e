-------------------------- MODULE WidgetSessionProofs --------------------------
(***************************************************************************)
(* A session that considers itself up to date is, for any number of        *)
(* channels, any contents and any interleaving of changes, answers, reloads*)
(* and restarts.  The invariant follows the revision from the snapshot a   *)
(* push takes before its await to the session that confirms it after.      *)
(* The second part shows that the page shows the snapshot its connection   *)
(* confirmed, so that an acknowledged batch leaves one whole snapshot.     *)
(* The third part is about the token usage the widget shows: its manager   *)
(* loses nothing it has counted, and its client never shows the answer to  *)
(* another task.                                                            *)
(***************************************************************************)
EXTENDS WidgetSession, TLAPS

\* What pushWidgetViewModel keeps of a connection, what is on the wire, what a push holds
\* across its await, and what a page is.
Connection ==
  [id : Nat, cdp : Nat, widget : Nat, installed : BOOLEAN, snapshot : View \cup {None}, sent : Nat]

Wire ==
  [kind : {"none", "health", "install", "update"}, answer : {"none", "ok", "missing", "failed"},
   next : View \cup {None}, channels : SUBSET Channels]

Held == [id : Nat, next : View \cup {None}, revision : Nat]

Shown == [version : Nat, shows : [Channels -> Values \cup {Blank}], torn : BOOLEAN]

DataType == data \in View /\ revision \in Nat \ {0}

LoopType ==
  /\ loop \in {"none", "push", "health", "install", "update", "check", "ending"}
  /\ push \in Held
  /\ poll \in {"idle", "waiting", "reloading"}
  /\ cdp \in [id : Nat, up : BOOLEAN] /\ widget \in Nat
  /\ {requested, failed, checkDue, stopped} \subseteq BOOLEAN

PageType ==
  /\ page \in Shown
  /\ page.version <= widget
  /\ wire \in Wire
  /\ wire.kind = "update" => wire.next \in View

\* A connection never claims a revision to come, and claims the present one
\* only with the present data.
Honest(conn) ==
  /\ conn \in Connection
  /\ conn.sent <= revision
  /\ conn.sent = revision => conn.snapshot = data

\* The snapshot a push holds across its await belongs to the revision it holds.
PushIsHonest ==
  loop = "update" => /\ push.next \in View
                     /\ push.revision <= revision
                     /\ push.revision = revision => push.next = data

ConnectionIsHonest == connection # None => Honest(connection)

WInv == DataType /\ LoopType /\ PageType /\ PushIsHonest /\ ConnectionIsHonest

-----------------------------------------------------------------------------
\* What a push writes into its connection leaves it a connection.
LEMMA Rewritten ==
  ASSUME NEW conn \in Connection, NEW next \in View \cup {None}, NEW at \in Nat
  PROVE  /\ Confirmed(conn, next, at) \in Connection
         /\ Confirmed(conn, next, at).snapshot = next
         /\ Confirmed(conn, next, at).sent = at
BY DEF Connection, Confirmed

\* The last part of a push keeps the session honest, whether it sends or not.
LEMMA DeliverIsHonest ==
  ASSUME WInv, NEW conn, Honest(conn), Deliver(conn), UNCHANGED <<data, revision>>
  PROVE  /\ PushIsHonest' /\ ConnectionIsHonest'
         /\ loop' \in {"check", "update"}
         /\ push' \in Held
         /\ wire' \in Wire
         /\ wire'.kind = "update" => wire'.next \in View
<1>1. data \in View /\ revision \in Nat /\ conn \in Connection
  BY DEF WInv, DataType, Honest
<1>2. Updates(conn) \in SUBSET Channels
  BY DEF Updates
<1>3. CASE conn.sent = revision \/ Updates(conn) = {}
  <2>1. /\ connection' = IF conn.sent = revision THEN conn ELSE Confirmed(conn, data, revision)
        /\ loop' = "check" /\ push' = NoPush /\ wire' = NoWire
    BY <1>3 DEF Deliver
  <2>2. Honest(Confirmed(conn, data, revision))
    BY <1>1, Rewritten DEF Honest
  <2>3. Honest(connection)'
    BY <2>1, <2>2 DEF Honest
  <2>. QED
    BY <2>1, <2>3 DEF PushIsHonest, ConnectionIsHonest, NoPush, NoWire, Held, Wire
<1>4. CASE ~(conn.sent = revision \/ Updates(conn) = {})
  <2>1. /\ connection' = conn /\ loop' = "update"
        /\ push' = [id |-> conn.id, next |-> data, revision |-> revision]
        /\ wire' = [kind |-> "update", answer |-> IF cdp.up THEN "none" ELSE "failed",
                  next |-> data, channels |-> Updates(conn)]
    BY <1>4 DEF Deliver, Send
  <2>2. Honest(connection)'
    BY <2>1 DEF Honest
  <2>3. conn.id \in Nat
    BY <1>1 DEF Connection
  <2>. QED
    BY <1>1, <1>2, <2>1, <2>2, <2>3 DEF PushIsHonest, ConnectionIsHonest, Held, Wire
<1>. QED
  BY <1>3, <1>4

\* The same of a push that awaits something else than an update.
LEMMA AwaitIsHonest ==
  ASSUME WInv, NEW conn, Honest(conn), NEW kind \in {"health", "install"}, Await(conn, kind),
         UNCHANGED <<data, revision>>
  PROVE  /\ PushIsHonest' /\ ConnectionIsHonest'
         /\ loop' = kind
         /\ push' \in Held
         /\ wire' \in Wire
         /\ wire'.kind # "update"
<1>1. conn.id \in Nat
  BY DEF Honest, Connection
<1>2. /\ connection' = conn /\ loop' = kind
      /\ push' = [NoPush EXCEPT !.id = conn.id]
      /\ wire' = [kind |-> kind, answer |-> IF cdp.up THEN "none" ELSE "failed",
                next |-> None, channels |-> {}]
  BY DEF Await, Send
<1>3. Honest(connection)'
  BY <1>2 DEF Honest
<1>. QED
  BY <1>1, <1>2, <1>3 DEF PushIsHonest, ConnectionIsHonest, NoPush, Held, Wire

\* A new connection has sent nothing.
LEMMA NewConnectionIsHonest ==
  ASSUME WInv
  PROVE  Honest(NewConnection)
BY DEF WInv, DataType, LoopType, Honest, NewConnection, Connection

\* A reset: no connection, and what a push holds is of an earlier revision.
LEMMA ResetIsHonest ==
  ASSUME WInv, Reset, UNCHANGED data, loop' = "update" => loop = "update" /\ push' = push
  PROVE  DataType' /\ PushIsHonest' /\ ConnectionIsHonest'
<1>1. revision \in Nat /\ push.revision \in Nat /\ revision' = revision + 1
  BY DEF WInv, DataType, LoopType, Reset, Held
<1>2. DataType'
  BY <1>1 DEF WInv, DataType
<1>3. PushIsHonest'
  BY <1>1 DEF WInv, PushIsHonest
<1>4. ConnectionIsHonest'
  BY DEF Reset, ConnectionIsHonest
<1>. QED
  BY <1>2, <1>3, <1>4

\* Steps that touch neither the data nor the session's knowledge of it.
LEMMA UntouchedIsHonest ==
  ASSUME WInv, UNCHANGED <<data, revision, connection>>, loop' = "update" => loop = "update" /\ push' = push
  PROVE  DataType' /\ PushIsHonest' /\ ConnectionIsHonest'
<1>1. DataType'
  BY DEF WInv, DataType
<1>2. PushIsHonest'
  BY DEF WInv, PushIsHonest
<1>3. ConnectionIsHonest'
  BY DEF WInv, ConnectionIsHonest, Honest
<1>. QED
  BY <1>1, <1>2, <1>3

\* A rejected evaluation is still what it was, with or without an answer.
LEMMA RejectedType ==
  ASSUME WInv, wire' \in Rejected
  PROVE  /\ wire' \in Wire
         /\ wire'.kind = "update" => wire'.next \in View
BY DEF WInv, PageType, Rejected, Wire

\* A page without a runtime, and the page just after an install.
LEMMA NoPageType == NoPage \in Shown /\ NoPage.version = 0 /\ [NoPage EXCEPT !.version = widget].version = widget
BY DEF NoPage, Empty, Shown

\* A batch changes what a page shows, not its version.
LEMMA RepaintedType ==
  ASSUME NEW at \in Shown, NEW shows \in [Channels -> Values \cup {Blank}], NEW torn \in BOOLEAN
  PROVE  /\ [at EXCEPT !.shows = shows, !.torn = torn] \in Shown
         /\ [at EXCEPT !.shows = shows, !.torn = torn].version = at.version
BY Zenon DEF Shown

\* Applying channels of an update gives contents of a page.
LEMMA AppliedType ==
  ASSUME WInv, wire.kind = "update", NEW channels
  PROVE  Applied(channels) \in [Channels -> Values \cup {Blank}]
<1>1. wire.next \in [Channels -> Values] /\ page.shows \in [Channels -> Values \cup {Blank}]
  BY DEF WInv, PageType, View, Shown
<1>. QED
  BY <1>1 DEF Applied

\* Nothing is sent and nobody waits at the start.
LEMMA InitWInv == Init => WInv
<1>. SUFFICES ASSUME Init PROVE WInv
  OBVIOUS
<1>1. DataType
  BY DEF Init, DataType, View
<1>2. LoopType
  BY DEF Init, LoopType, NoPush, Held
<1>3. PageType
  BY DEF Init, PageType, NoPage, NoWire, Empty, Wire, Shown
<1>4. PushIsHonest /\ ConnectionIsHonest
  BY DEF Init, PushIsHonest, ConnectionIsHonest
<1>. QED
  BY <1>1, <1>2, <1>3, <1>4 DEF WInv

-----------------------------------------------------------------------------
\* Every step keeps the invariant.
LEMMA NextWInv == WInv /\ [Next]_vars => WInv'
<1>. SUFFICES ASSUME WInv, [Next]_vars PROVE WInv'
  OBVIOUS
<1>t. DataType /\ LoopType /\ PageType /\ PushIsHonest /\ ConnectionIsHonest
  BY DEF WInv
<1>1. ASSUME NEW c \in Channels, NEW v \in Values, Change(c, v) PROVE WInv'
  <2>1. DataType'
    BY <1>t, <1>1 DEF Change, DataType, View
  <2>2. LoopType'
    BY <1>t, <1>1 DEF Change, LoopType, Request, main
  <2>3. PageType'
    BY <1>t, <1>1 DEF Change, PageType, main
  <2>4. revision' = revision + 1 /\ UNCHANGED <<push, connection>> /\ (loop' = "update" => loop = "update")
    BY <1>1 DEF Change, Request
  <2>5. revision \in Nat /\ push.revision \in Nat
    BY <1>t DEF DataType, LoopType, Held
  <2>6. PushIsHonest'
    BY <1>t, <2>4, <2>5 DEF PushIsHonest
  <2>7. ConnectionIsHonest'
    <3>1. SUFFICES ASSUME connection # None PROVE Honest(connection)'
      BY <2>4 DEF ConnectionIsHonest
    <3>2. Honest(connection) /\ connection.sent \in Nat
      BY <1>t, <3>1 DEF ConnectionIsHonest, Honest, Connection
    <3>. QED
      BY <2>4, <2>5, <3>2 DEF Honest
  <2>. QED
    BY <2>1, <2>2, <2>3, <2>6, <2>7 DEF WInv
<1>2. ASSUME Push PROVE WInv'
  <2> DEFINE conn == IF connection # None /\ connection.cdp = cdp.id /\ connection.widget = widget
                     THEN connection ELSE NewConnection
  <2>1. Honest(conn)
    BY <1>t, NewConnectionIsHonest DEF ConnectionIsHonest
  <2>2. /\ loop = "push" /\ requested' = FALSE
        /\ UNCHANGED <<data, revision, failed, main, page>>
        /\ \/ loop' = "check" /\ push' = NoPush /\ wire' = NoWire /\ UNCHANGED connection
           \/ Await(conn, "install")
           \/ Await(conn, "health")
           \/ Deliver(conn)
    BY <1>2 DEF Push
  <2> HIDE DEF conn
  <2>3. DataType'
    BY <1>t, <2>2 DEF DataType
  <2>4. CASE loop' = "check" /\ push' = NoPush /\ wire' = NoWire /\ UNCHANGED connection
    <3>1. LoopType' /\ PageType'
      BY <1>t, <2>2, <2>4 DEF LoopType, PageType, NoPush, NoWire, main, Held, Wire
    <3>2. PushIsHonest' /\ ConnectionIsHonest'
      BY <1>t, <2>2, <2>4 DEF PushIsHonest, ConnectionIsHonest, Honest
    <3>. QED
      BY <2>3, <3>1, <3>2 DEF WInv
  <2>5. CASE Await(conn, "install") \/ Await(conn, "health")
    <3>1. PICK kind \in {"health", "install"} : Await(conn, kind)
      BY <2>5
    <3>2. /\ PushIsHonest' /\ ConnectionIsHonest'
          /\ loop' = kind
          /\ push' \in Held
          /\ wire' \in Wire /\ wire'.kind # "update"
      BY <2>1, <2>2, <3>1, AwaitIsHonest
    <3>3. LoopType' /\ PageType'
      BY <1>t, <2>2, <3>2 DEF LoopType, PageType, main
    <3>. QED
      BY <2>3, <3>2, <3>3 DEF WInv
  <2>6. CASE Deliver(conn)
    <3>1. /\ PushIsHonest' /\ ConnectionIsHonest'
          /\ LoopType' /\ PageType'
      BY <1>t, <2>1, <2>2, <2>6, DeliverIsHonest DEF LoopType, PageType, main
    <3>. QED
      BY <2>3, <3>1 DEF WInv
  <2>. QED
    BY <2>2, <2>4, <2>5, <2>6
<1>3. ASSUME Outdated PROVE WInv'
  <2>1. /\ loop' = "check" /\ push' = NoPush /\ wire' = NoWire
        /\ UNCHANGED <<data, revision, requested, connection, failed, main, page>>
    BY <1>3 DEF Outdated
  <2>2. LoopType' /\ PageType'
    BY <1>t, <2>1 DEF LoopType, PageType, NoPush, NoWire, main, Held, Wire
  <2>3. DataType' /\ PushIsHonest' /\ ConnectionIsHonest'
    BY <1>t, <2>1 DEF DataType, PushIsHonest, ConnectionIsHonest, Honest
  <2>. QED
    BY <2>2, <2>3 DEF WInv
<1>4. ASSUME HealthAnswered PROVE WInv'
  <2>1. /\ checkDue' = FALSE
        /\ UNCHANGED <<data, revision, requested, failed, cdp, widget, poll, stopped, page>>
        /\ Deliver(connection) \/ Await([connection EXCEPT !.installed = FALSE], "install")
        /\ Honest(connection)
    BY <1>t, <1>4 DEF HealthAnswered, IsCurrent, ConnectionIsHonest
  <2>2. Honest([connection EXCEPT !.installed = FALSE])
    BY <2>1 DEF Honest, Connection
  <2>3. DataType'
    BY <1>t, <2>1 DEF DataType
  <2>4. CASE Deliver(connection)
    BY <1>t, <2>1, <2>3, <2>4, DeliverIsHonest DEF WInv, LoopType, PageType
  <2>5. CASE Await([connection EXCEPT !.installed = FALSE], "install")
    BY <1>t, <2>1, <2>2, <2>3, <2>5, AwaitIsHonest DEF WInv, LoopType, PageType
  <2>. QED
    BY <2>1, <2>4, <2>5
<1>5. ASSUME InstallAnswered PROVE WInv'
  <2> DEFINE conn == [connection EXCEPT !.installed = TRUE, !.snapshot = None, !.sent = 0]
  <2>1. /\ checkDue' = FALSE /\ Deliver(conn)
        /\ UNCHANGED <<data, revision, requested, failed, cdp, widget, poll, stopped, page>>
        /\ Honest(connection)
    BY <1>t, <1>5 DEF InstallAnswered, IsCurrent, ConnectionIsHonest
  <2>2. Honest(conn)
    <3> DEFINE at == [connection EXCEPT !.installed = TRUE]
    <3>1. at \in Connection
      BY <2>1 DEF Honest, Connection
    <3>2. conn = Confirmed(at, None, 0)
      BY Zenon DEF Confirmed
    <3> HIDE DEF at, conn
    <3>3. conn \in Connection /\ conn.sent = 0
      BY <3>1, <3>2, Rewritten
    <3>. QED
      BY <1>t, <3>3 DEF Honest, DataType
  <2> HIDE DEF conn
  <2>3. DataType'
    BY <1>t, <2>1 DEF DataType
  <2>. QED
    BY <1>t, <2>1, <2>2, <2>3, DeliverIsHonest DEF WInv, LoopType, PageType
<1>6. ASSUME UpdateAnswered PROVE WInv'
  <2>1. /\ loop = "update" /\ Honest(connection)
        /\ loop' = "check" /\ push' = NoPush /\ wire' = NoWire
        /\ UNCHANGED <<data, revision, failed, main, page>>
        /\ \/ connection' = Confirmed(connection, push.next, push.revision)
           \/ connection' = [connection EXCEPT !.installed = FALSE]
        /\ requested' \in BOOLEAN
    BY <1>t, <1>6 DEF UpdateAnswered, IsCurrent, ConnectionIsHonest
  <2>2. DataType' /\ LoopType' /\ PageType' /\ PushIsHonest'
    BY <1>t, <2>1 DEF DataType, LoopType, PageType, PushIsHonest, NoPush, NoWire, main, Held, Wire
  <2>3. Honest(connection)'
    <3>1. push.revision \in Nat /\ push.next \in View /\ push.revision <= revision
          /\ (push.revision = revision => push.next = data)
      BY <1>t, <2>1 DEF PushIsHonest, LoopType, Held
    <3>2. CASE connection' = Confirmed(connection, push.next, push.revision)
      <4>1. connection' \in Connection /\ connection'.snapshot = push.next /\ connection'.sent = push.revision
        BY <2>1, <3>1, <3>2, Rewritten DEF Honest
      <4>. QED
        BY <2>1, <3>1, <4>1 DEF Honest
    <3>3. CASE connection' = [connection EXCEPT !.installed = FALSE]
      BY <2>1, <3>3 DEF Honest, Connection
    <3>. QED
      BY <2>1, <3>2, <3>3
  <2>. QED
    BY <2>2, <2>3 DEF WInv, ConnectionIsHonest
<1>7. ASSUME PushThrows PROVE WInv'
  <2>1. DataType' /\ PushIsHonest' /\ ConnectionIsHonest'
    BY <1>7, UntouchedIsHonest DEF PushThrows
  <2>2. LoopType'
    BY <1>t, <1>7 DEF PushThrows, LoopType, main, NoPush, Held
  <2>3. PageType'
    BY <1>t, <1>7 DEF PushThrows, PageType, main, NoWire, Wire
  <2>. QED
    BY <2>1, <2>2, <2>3 DEF WInv
<1>8. ASSUME CheckRound PROVE WInv'
  <2>1. DataType' /\ PushIsHonest' /\ ConnectionIsHonest'
    BY <1>8, UntouchedIsHonest DEF CheckRound
  <2>2. LoopType'
    BY <1>t, <1>8 DEF CheckRound, LoopType, main
  <2>3. PageType'
    BY <1>t, <1>8 DEF CheckRound, PageType, main
  <2>. QED
    BY <2>1, <2>2, <2>3 DEF WInv
<1>9. ASSUME PromiseEnds PROVE WInv'
  <2>1. /\ loop' = "none" /\ UNCHANGED <<data, push, widget, checkDue, stopped, requested, page, wire>>
        /\ failed' = FALSE /\ poll' \in {poll, "idle"}
        /\ \/ Reset /\ cdp' = [cdp EXCEPT !.up = FALSE]
           \/ UNCHANGED <<cdp, connection, revision>>
    BY <1>9 DEF PromiseEnds
  <2>2. DataType' /\ PushIsHonest' /\ ConnectionIsHonest'
    BY <2>1, ResetIsHonest, UntouchedIsHonest
  <2>3. LoopType' /\ PageType'
    BY <1>t, <2>1 DEF LoopType, PageType
  <2>. QED
    BY <2>2, <2>3 DEF WInv
<1>10. ASSUME Connect PROVE WInv'
  <2>1. DataType' /\ PushIsHonest' /\ ConnectionIsHonest'
    BY <1>10, ResetIsHonest DEF Connect, Opened
  <2>2. LoopType'
    BY <1>t, <1>10 DEF Connect, Opened, LoopType
  <2>3. PageType'
    BY <1>t, <1>10 DEF Connect, Opened, PageType
  <2>. QED
    BY <2>1, <2>2, <2>3 DEF WInv
<1>11. ASSUME Poll PROVE WInv'
  <2>1. DataType' /\ PushIsHonest' /\ ConnectionIsHonest'
    <3>1. UNCHANGED <<data, revision, push, connection>> /\ (loop' = "update" => loop = "update")
      BY <1>11 DEF Poll, Request
    <3>. QED
      BY <3>1, UntouchedIsHonest
  <2>2. LoopType'
    BY <1>t, <1>11 DEF Poll, LoopType, Request
  <2>3. PageType'
    BY <1>t, <1>11 DEF Poll, PageType
  <2>. QED
    BY <2>1, <2>2, <2>3 DEF WInv
<1>12. ASSUME ReloadBegins PROVE WInv'
  <2>1. DataType' /\ PushIsHonest' /\ ConnectionIsHonest'
    BY <1>12, UntouchedIsHonest DEF ReloadBegins, session
  <2>2. LoopType'
    BY <1>t, <1>12 DEF ReloadBegins, LoopType, session
  <2>3. PageType'
    BY <1>t, <1>12 DEF ReloadBegins, PageType
  <2>. QED
    BY <2>1, <2>2, <2>3 DEF WInv
<1>13. ASSUME ReloadEnds PROVE WInv'
  <2>1. DataType' /\ PushIsHonest' /\ ConnectionIsHonest'
    BY <1>13, ResetIsHonest DEF ReloadEnds
  <2>2. LoopType'
    BY <1>t, <1>13 DEF ReloadEnds, LoopType
  <2>3. PageType'
    <3>1. widget' = widget + 1 /\ UNCHANGED <<page, wire>> /\ widget \in Nat /\ page.version \in Nat
      BY <1>t, <1>13 DEF ReloadEnds, LoopType, PageType, Shown
    <3>. QED
      BY <1>t, <3>1 DEF PageType
  <2>. QED
    BY <2>1, <2>2, <2>3 DEF WInv
<1>14. ASSUME HealthCheckDue PROVE WInv'
  <2>1. DataType' /\ PushIsHonest' /\ ConnectionIsHonest'
    BY <1>14, UntouchedIsHonest DEF HealthCheckDue, session
  <2>2. LoopType'
    BY <1>t, <1>14 DEF HealthCheckDue, LoopType, session
  <2>3. PageType'
    BY <1>t, <1>14 DEF HealthCheckDue, PageType
  <2>. QED
    BY <2>1, <2>2, <2>3 DEF WInv
<1>15. ASSUME ConnectionLost PROVE WInv'
  <2>1. DataType' /\ PushIsHonest' /\ ConnectionIsHonest'
    BY <1>15, UntouchedIsHonest DEF ConnectionLost, session
  <2>2. LoopType'
    BY <1>t, <1>15 DEF ConnectionLost, LoopType, session
  <2>3. PageType'
    BY <1>t, <1>15, RejectedType DEF ConnectionLost, PageType
  <2>. QED
    BY <2>1, <2>2, <2>3 DEF WInv
<1>16. ASSUME CodexRestarted PROVE WInv'
  <2>1. DataType' /\ PushIsHonest' /\ ConnectionIsHonest'
    BY <1>16, ResetIsHonest DEF CodexRestarted
  <2>2. LoopType'
    BY <1>t, <1>16 DEF CodexRestarted, LoopType
  <2>3. PageType'
    <3>1. page' = NoPage /\ widget' = widget /\ wire' \in Rejected /\ widget \in Nat
      BY <1>t, <1>16 DEF CodexRestarted, LoopType
    <3>2. wire' \in Wire /\ (wire'.kind = "update" => wire'.next \in View)
      BY <3>1, RejectedType
    <3>. QED
      BY <3>1, <3>2, NoPageType DEF PageType
  <2>. QED
    BY <2>1, <2>2, <2>3 DEF WInv
<1>17. ASSUME Stop PROVE WInv'
  <2>1. DataType' /\ PushIsHonest' /\ ConnectionIsHonest'
    BY <1>17, ResetIsHonest DEF Stop
  <2>2. LoopType'
    BY <1>t, <1>17 DEF Stop, LoopType
  <2>3. PageType'
    BY <1>t, <1>17, RejectedType DEF Stop, PageType
  <2>. QED
    BY <2>1, <2>2, <2>3 DEF WInv
<1>18. ASSUME PageAnswers PROVE WInv'
  <2>1. DataType' /\ PushIsHonest' /\ ConnectionIsHonest'
    BY <1>18, UntouchedIsHonest DEF PageAnswers, session
  <2>2. LoopType'
    BY <1>t, <1>18 DEF PageAnswers, LoopType, session, main
  <2>3. PageType'
    <3>1. /\ UNCHANGED widget /\ widget \in Nat
          /\ wire' \in {[wire EXCEPT !.answer = "ok"], [wire EXCEPT !.answer = "missing"]}
          /\ \/ page' = page
             \/ page' = [NoPage EXCEPT !.version = widget]
             \/ /\ wire.kind = "update" /\ page.version = widget
                /\ page' = [page EXCEPT !.shows = Applied(wire.channels),
                                        !.torn = @ /\ wire.channels # Channels]
      BY <1>t, <1>18 DEF PageAnswers, Answer, main, LoopType
    <3>2. wire' \in Wire /\ (wire'.kind = "update" => wire'.next \in View)
      BY <1>t, <3>1 DEF PageType, Wire
    <3>3. page' \in Shown /\ page'.version <= widget
      <4>1. CASE page' = page
        BY <1>t, <4>1 DEF PageType
      <4>2. CASE page' = [NoPage EXCEPT !.version = widget]
        BY <3>1, <4>2, NoPageType DEF Shown
      <4>3. CASE wire.kind = "update" /\ page.version = widget
                 /\ page' = [page EXCEPT !.shows = Applied(wire.channels),
                                         !.torn = @ /\ wire.channels # Channels]
        <5>1. Applied(wire.channels) \in [Channels -> Values \cup {Blank}]
          BY <4>3, AppliedType
        <5>2. page' \in Shown /\ page'.version = page.version
          BY <1>t, <4>3, <5>1, RepaintedType DEF PageType, Shown
        <5>. QED
          BY <1>t, <4>3, <5>2 DEF PageType
      <4>. QED
        BY <3>1, <4>1, <4>2, <4>3
    <3>. QED
      BY <3>1, <3>2, <3>3 DEF PageType
  <2>. QED
    BY <2>1, <2>2, <2>3 DEF WInv
<1>19. ASSUME PageRefuses PROVE WInv'
  <2>1. DataType' /\ PushIsHonest' /\ ConnectionIsHonest'
    BY <1>19, UntouchedIsHonest DEF PageRefuses, session
  <2>2. LoopType'
    BY <1>t, <1>19 DEF PageRefuses, LoopType, session, main
  <2>3. PageType'
    <3>1. wire' = [wire EXCEPT !.answer = "failed"] /\ UNCHANGED <<widget, page>>
      BY <1>19 DEF PageRefuses, Answer, main
    <3>. QED
      BY <1>t, <3>1 DEF PageType, Wire
  <2>. QED
    BY <2>1, <2>2, <2>3 DEF WInv
<1>20. ASSUME PageThrowsHalfWay PROVE WInv'
  <2>1. DataType' /\ PushIsHonest' /\ ConnectionIsHonest'
    BY <1>20, UntouchedIsHonest DEF PageThrowsHalfWay, session
  <2>2. LoopType'
    BY <1>t, <1>20 DEF PageThrowsHalfWay, LoopType, session, main
  <2>3. PageType'
    <3>1. /\ UNCHANGED widget /\ wire.kind = "update"
          /\ wire' = [wire EXCEPT !.answer = "failed"]
      BY <1>20 DEF PageThrowsHalfWay, Answer, main
    <3>2. PICK k \in Channels :
            page' = [page EXCEPT !.shows = Applied({c \in wire.channels : c <= k}), !.torn = TRUE]
      BY <1>20 DEF PageThrowsHalfWay
    <3>3. wire' \in Wire /\ (wire'.kind = "update" => wire'.next \in View)
      BY <1>t, <3>1 DEF PageType, Wire
    <3>4. Applied({c \in wire.channels : c <= k}) \in [Channels -> Values \cup {Blank}]
      BY <3>1, AppliedType
    <3>5. page' \in Shown /\ page'.version = page.version
      BY <1>t, <3>2, <3>4, RepaintedType DEF PageType, Shown
    <3>. QED
      BY <1>t, <3>1, <3>3, <3>5 DEF PageType
  <2>. QED
    BY <2>1, <2>2, <2>3 DEF WInv
<1>21. ASSUME PageReloads PROVE WInv'
  <2>1. DataType' /\ PushIsHonest' /\ ConnectionIsHonest'
    BY <1>21, UntouchedIsHonest DEF PageReloads, session
  <2>2. LoopType'
    BY <1>t, <1>21 DEF PageReloads, LoopType, session, main
  <2>3. PageType'
    <3>1. page' = NoPage /\ UNCHANGED <<widget, wire>> /\ widget \in Nat
      BY <1>t, <1>21 DEF PageReloads, main, LoopType
    <3>. QED
      BY <1>t, <3>1, NoPageType DEF PageType
  <2>. QED
    BY <2>1, <2>2, <2>3 DEF WInv
<1>22. CASE UNCHANGED vars
  <2>1. UNCHANGED <<data, session, main, page, wire>>
    BY <1>22 DEF vars
  <2>2. DataType' /\ PushIsHonest' /\ ConnectionIsHonest'
    BY <2>1, UntouchedIsHonest DEF session
  <2>3. LoopType' /\ PageType'
    BY <1>t, <2>1 DEF LoopType, PageType, session, main
  <2>. QED
    BY <2>2, <2>3 DEF WInv
<1>. QED
  BY <1>1, <1>2, <1>3, <1>4, <1>5, <1>6, <1>7, <1>8, <1>9, <1>10, <1>11, <1>12, <1>13, <1>14, <1>15, <1>16, <1>17, <1>18, <1>19, <1>20, <1>21, <1>22 DEF Next, Session, Main, Disturbance

-----------------------------------------------------------------------------
\* The strengthened invariant of the session: for any channels, contents, losses and reloads.
THEOREM SessionInvariant == Spec => []WInv
<1>1. Init => WInv
  BY InitWInv
<1>2. WInv /\ [Next]_vars => WInv'
  BY NextWInv
<1>. QED
  BY <1>1, <1>2, PTL DEF Spec

\* A session that considers itself up to date has delivered the data of this moment:
\* pushWidgetViewModel confirms the revision it took before its await, never a later one.
THEOREM NothingIsTakenForSent == Spec => []NothingTakenForSent
<1>1. WInv => NothingTakenForSent
  BY DEF WInv, ConnectionIsHonest, Honest, NothingTakenForSent
<1>. QED
  BY <1>1, SessionInvariant, PTL

\* Every variable of the session has its type, and no connection claims a revision to come.
THEOREM SessionTypeCorrect == Spec => []TypeOK
<1>1. ASSUME WInv PROVE TypeOK
  <2>1. connection # None => connection.snapshot \in View \cup {None} /\ connection.sent \in 0 .. revision
    BY <1>1 DEF WInv, DataType, ConnectionIsHonest, Honest, Connection
  <2>2. page.version \in 0 .. widget
    BY <1>1 DEF WInv, PageType, Shown
  <2>3. push.next \in View \cup {None}
    BY <1>1 DEF WInv, LoopType, Held
  <2>4. {requested, failed, checkDue, stopped, cdp.up} \subseteq BOOLEAN
    BY <1>1 DEF WInv, LoopType
  <2>5. loop = "update" => push.next # None
    BY <1>1, WidgetConstants DEF WInv, PushIsHonest, View
  <2>6. /\ page.torn \in BOOLEAN /\ page.shows \in [Channels -> Values \cup {Blank}]
        /\ wire.answer \in {"none", "ok", "missing", "failed"} /\ wire.channels \subseteq Channels
    BY <1>1 DEF WInv, PageType, Shown, Wire
  <2>. QED
    BY <1>1, <2>1, <2>2, <2>3, <2>4, <2>5, <2>6 DEF TypeOK, WInv, DataType, LoopType
<1>. QED
  BY <1>1, SessionInvariant, PTL
-----------------------------------------------------------------------------
(* What the page shows.  Between two batches it shows the snapshot that the   *)
(* connection confirmed last, and a batch that was taken and not confirmed yet *)
(* is on the wire: the next delta fits what the page has.                      *)

\* The evaluation under way is the one the push awaits, and an open one belongs
\* to a connection that is open.
WireFollowsLoop ==
  /\ wire.kind = (IF loop \in {"health", "install", "update"} THEN loop ELSE "none")
  /\ Waiting => cdp.up /\ connection # None

\* A session exists for the connection and the widget of the moment only, and the
\* running push is its own.
ConnectionFollowsMain ==
  /\ widget # 0
  /\ cdp.up => ~stopped
  /\ connection # None =>
       /\ connection.cdp = cdp.id /\ connection.widget = widget
       /\ loop \in {"health", "install", "update"} => connection.id = push.id

\* A delta carries whatever differs from the confirmed snapshot.
BatchFitsBaseline ==
  connection # None =>
    /\ wire.kind = "install" => ~connection.installed
    /\ wire.kind = "health" => connection.installed
    /\ wire.kind = "update" =>
         /\ connection.installed /\ wire.next = push.next
         /\ \A c \in Channels \ wire.channels :
              connection.snapshot # None /\ wire.next[c] = connection.snapshot[c]

\* The page has taken the batch of the wire over.
Taken == wire.kind = "update" /\ wire.answer = "ok"

\* A page shows what an installed connection believes it to show.
ShowsBaseline(conn) ==
  cdp.up /\ page.version = widget /\ ~page.torn /\ conn.installed /\ conn.snapshot # None
    => page.shows = conn.snapshot

PageHasBaseline ==
  connection # None =>
    IF Taken THEN cdp.up /\ page.version = widget /\ ~page.torn => page.shows = wire.next
             ELSE ShowsBaseline(connection)

PageInv == WireFollowsLoop /\ ConnectionFollowsMain /\ BatchFitsBaseline /\ PageHasBaseline

\* A connection that a push may go on with.
Usable(conn) ==
  conn \in Connection /\ conn.cdp = cdp.id /\ conn.widget = widget

\* Nothing is connected at the start.
LEMMA InitPageInv == Init => PageInv
BY DEF Init, PageInv, WireFollowsLoop, ConnectionFollowsMain, BatchFitsBaseline, PageHasBaseline,
       NoWire, Waiting

\* Steps that leave the wire, the page and the session alone.
LEMMA QuietKeepsPage ==
  ASSUME PageInv, UNCHANGED <<wire, page, connection, push, cdp, widget, stopped>>,
         loop' = loop \/ {loop, loop'} \cap {"health", "install", "update"} = {}
  PROVE  PageInv'
<1>1. WireFollowsLoop'
  BY DEF PageInv, WireFollowsLoop, Waiting
<1>2. ConnectionFollowsMain'
  BY DEF PageInv, ConnectionFollowsMain
<1>3. BatchFitsBaseline'
  BY DEF PageInv, BatchFitsBaseline
<1>4. PageHasBaseline'
  BY DEF PageInv, PageHasBaseline, ShowsBaseline, Taken
<1>. QED
  BY <1>1, <1>2, <1>3, <1>4 DEF PageInv

\* Without a session there is nothing to be shown.
LEMMA DroppedKeepsPage ==
  ASSUME connection' = None, WireFollowsLoop', widget' # 0, cdp'.up => ~stopped'
  PROVE  PageInv'
BY DEF PageInv, ConnectionFollowsMain, BatchFitsBaseline, PageHasBaseline

\* A push that is over has nothing on the wire.
LEMMA OverIsQuiet ==
  ASSUME wire' = NoWire, loop' \notin {"health", "install", "update"}
  PROVE  WireFollowsLoop' /\ wire'.kind = "none" /\ ~Taken'
BY DEF WireFollowsLoop, NoWire, Waiting, Taken

\* What is under way when the connection closes has an answer.
LEMMA RejectedAnswer ==
  ASSUME WInv, wire' \in Rejected
  PROVE  /\ ~Waiting'
         /\ wire'.kind = wire.kind /\ wire'.next = wire.next /\ wire'.channels = wire.channels
<1>1. wire \in Wire
  BY DEF WInv, PageType
<1>. QED
  BY <1>1 DEF Rejected, Wire, Waiting

\* The last part of a push: what it sends is what its baseline lacks.
LEMMA DeliverFits ==
  ASSUME WInv, PageInv, NEW conn, Usable(conn), conn # None, conn.installed, ShowsBaseline(conn),
         Deliver(conn), UNCHANGED <<data, page, cdp, widget, stopped>>
  PROVE  PageInv'
<1>1. data \in View /\ page \in Shown /\ revision \in Nat /\ widget # 0 /\ (cdp.up => ~stopped)
  BY DEF WInv, DataType, PageType, PageInv, ConnectionFollowsMain
<1>2. CASE conn.sent = revision \/ Updates(conn) = {}
  <2>1. /\ connection' = IF conn.sent = revision THEN conn ELSE Confirmed(conn, data, revision)
        /\ loop' = "check" /\ push' = NoPush /\ wire' = NoWire
    BY <1>2 DEF Deliver
  <2>2. WireFollowsLoop' /\ wire'.kind = "none" /\ ~Taken'
    BY <2>1, OverIsQuiet
  <2>3. CASE conn.sent = revision
    BY <1>1, <2>1, <2>2, <2>3 DEF PageInv, ConnectionFollowsMain, BatchFitsBaseline, PageHasBaseline,
                                  ShowsBaseline, Usable
  <2>4. CASE conn.sent # revision
    <3>1. Updates(conn) = {} /\ connection' = Confirmed(conn, data, revision)
      BY <1>2, <2>1, <2>4
    <3>2. /\ connection' \in Connection /\ connection'.snapshot = data
          /\ connection'.cdp = conn.cdp /\ connection'.widget = conn.widget
      BY <1>1, <3>1, Rewritten DEF Usable, Confirmed, Connection
    <3>3. cdp.up /\ page.version = widget /\ ~page.torn => page.shows = data
      <4>1. CASE conn.snapshot = None
        <5>1. Channels = {}
          BY <3>1, <4>1 DEF Updates
        <5>. QED
          BY <1>1, <5>1 DEF View, Shown
      <4>2. CASE conn.snapshot # None
        <5>1. conn.snapshot \in View /\ \A c \in Channels : data[c] = conn.snapshot[c]
          BY <3>1, <4>2 DEF Updates, Usable, Connection
        <5>2. conn.snapshot = data
          BY <1>1, <5>1 DEF View
        <5>. QED
          BY <4>2, <5>2 DEF ShowsBaseline
      <4>. QED
        BY <4>1, <4>2
    <3>. QED
      BY <1>1, <2>1, <2>2, <3>2, <3>3
         DEF PageInv, ConnectionFollowsMain, BatchFitsBaseline, PageHasBaseline, ShowsBaseline, Usable
  <2>. QED
    BY <2>3, <2>4
<1>3. CASE ~(conn.sent = revision \/ Updates(conn) = {})
  <2>1. /\ connection' = conn /\ loop' = "update"
        /\ push' = [id |-> conn.id, next |-> data, revision |-> revision]
        /\ wire' = [kind |-> "update", answer |-> IF cdp.up THEN "none" ELSE "failed",
                    next |-> data, channels |-> Updates(conn)]
    BY <1>3 DEF Deliver, Send
  <2>2. WireFollowsLoop' /\ ~Taken'
    BY <2>1 DEF WireFollowsLoop, Waiting, Taken
  <2>3. ConnectionFollowsMain'
    BY <1>1, <2>1 DEF ConnectionFollowsMain, Usable
  <2>4. BatchFitsBaseline'
    <3>1. \A c \in Channels \ Updates(conn) : conn.snapshot # None /\ data[c] = conn.snapshot[c]
      BY DEF Updates
    <3>. QED
      BY <2>1, <3>1 DEF BatchFitsBaseline
  <2>5. PageHasBaseline'
    BY <2>1, <2>2 DEF PageHasBaseline, ShowsBaseline
  <2>. QED
    BY <2>2, <2>3, <2>4, <2>5 DEF PageInv
<1>. QED
  BY <1>2, <1>3

\* A push that awaits a check or an install changes nothing on the page.
LEMMA AwaitFits ==
  ASSUME WInv, PageInv, NEW conn, Usable(conn), conn # None, ShowsBaseline(conn),
         NEW kind \in {"health", "install"}, Await(conn, kind),
         IF kind = "install" THEN ~conn.installed ELSE conn.installed,
         UNCHANGED <<data, page, cdp, widget, stopped>>
  PROVE  PageInv'
<1>1. /\ connection' = conn /\ loop' = kind
      /\ push' = [NoPush EXCEPT !.id = conn.id]
      /\ wire' = [kind |-> kind, answer |-> IF cdp.up THEN "none" ELSE "failed",
                  next |-> None, channels |-> {}]
  BY DEF Await, Send
<1>2. push'.id = conn.id
  BY <1>1 DEF NoPush
<1>3. WireFollowsLoop' /\ ~Taken'
  BY <1>1 DEF WireFollowsLoop, Waiting, Taken
<1>4. ConnectionFollowsMain'
  BY <1>1, <1>2 DEF PageInv, ConnectionFollowsMain, Usable
<1>5. BatchFitsBaseline' /\ PageHasBaseline'
  BY <1>1, <1>3 DEF BatchFitsBaseline, PageHasBaseline, ShowsBaseline
<1>. QED
  BY <1>3, <1>4, <1>5 DEF PageInv

\* A connection of the session is a usable one.
LEMMA SessionIsUsable ==
  ASSUME WInv, PageInv, connection # None
  PROVE  Usable(connection)
BY DEF WInv, PageInv, ConnectionIsHonest, Honest, ConnectionFollowsMain, Usable

\* A connection that is not None stays one when a field is rewritten.
LEMMA ConnectionIsSome == ASSUME NEW conn \in Connection PROVE conn # None
BY NoneIsNoConnection DEF Connection, View


\* A batch that the page takes whole leaves the page with the snapshot it was made from.
LEMMA BatchLands ==
  ASSUME WInv, PageInv, wire.kind = "update", Waiting, page.version = widget,
         page' = [page EXCEPT !.shows = Applied(wire.channels), !.torn = @ /\ wire.channels # Channels],
         ~page'.torn
  PROVE  page'.shows = wire.next
<1>1. /\ page \in Shown /\ wire.next \in [Channels -> Values] /\ wire.channels \subseteq Channels
      /\ cdp.up /\ connection # None
  BY DEF WInv, PageInv, PageType, WireFollowsLoop, View, Wire
<1>2. /\ page'.shows = Applied(wire.channels)
      /\ page'.torn = (page.torn /\ wire.channels # Channels)
  BY <1>1 DEF Shown
<1>3. \A c \in Channels : Applied(wire.channels)[c] = wire.next[c]
  <2>1. SUFFICES ASSUME NEW c \in Channels \ wire.channels PROVE page.shows[c] = wire.next[c]
    BY DEF Applied
  <2>2. ~page.torn
    BY <1>2, <2>1
  <2>3. connection.installed /\ connection.snapshot # None /\ wire.next[c] = connection.snapshot[c]
    BY <1>1, <2>1 DEF PageInv, BatchFitsBaseline
  <2>4. page.shows = connection.snapshot
    BY <1>1, <2>2, <2>3 DEF PageInv, PageHasBaseline, ShowsBaseline, Taken, Waiting
  <2>. QED
    BY <2>3, <2>4
<1>4. Applied(wire.channels) = wire.next
  BY <1>1, <1>3 DEF Applied
<1>. QED
  BY <1>2, <1>4

\* Every step keeps what the page shows and what the session believes of it together.
LEMMA NextPageInv == WInv /\ PageInv /\ [Next]_vars => PageInv'
<1>. SUFFICES ASSUME WInv, PageInv, [Next]_vars PROVE PageInv'
  OBVIOUS
<1>t. /\ WireFollowsLoop /\ ConnectionFollowsMain /\ BatchFitsBaseline /\ PageHasBaseline
      /\ LoopType /\ PageType /\ widget \in Nat /\ page \in Shown /\ wire \in Wire
  BY DEF WInv, PageInv, LoopType, PageType
<1>1. ASSUME NEW c \in Channels, NEW v \in Values, Change(c, v) PROVE PageInv'
  BY <1>1, QuietKeepsPage DEF Change, Request, main
<1>2. ASSUME Push PROVE PageInv'
  <2> DEFINE conn == IF connection # None /\ connection.cdp = cdp.id /\ connection.widget = widget
                     THEN connection ELSE NewConnection
  <2>1. /\ loop = "push"
        /\ UNCHANGED <<data, page, cdp, widget, stopped>>
        /\ \/ loop' = "check" /\ push' = NoPush /\ wire' = NoWire /\ UNCHANGED connection
           \/ ~conn.installed /\ Await(conn, "install")
           \/ conn.installed /\ Await(conn, "health")
           \/ conn.installed /\ Deliver(conn)
    BY <1>2 DEF Push, main
  <2>2. /\ Usable(conn) /\ conn # None /\ ShowsBaseline(conn)
    <3>1. CASE connection # None
      <4>1. conn = connection
        BY <1>t, <3>1 DEF ConnectionFollowsMain
      <4>2. Usable(connection) /\ ShowsBaseline(connection)
        BY <1>t, <2>1, <3>1, SessionIsUsable DEF PageHasBaseline, WireFollowsLoop, Taken
      <4> HIDE DEF conn
      <4>. QED
        BY <3>1, <4>1, <4>2
    <3>2. CASE connection = None
      <4>1. conn = NewConnection
        BY <3>2
      <4>2. NewConnection \in Connection
        BY NewConnectionIsHonest DEF Honest
      <4>3. Usable(NewConnection) /\ ShowsBaseline(NewConnection)
        BY <4>2 DEF NewConnection, Usable, ShowsBaseline
      <4> HIDE DEF conn
      <4>. QED
        BY <4>1, <4>2, <4>3, ConnectionIsSome
    <3>. QED
      BY <3>1, <3>2
  <2> HIDE DEF conn
  <2>3. CASE loop' = "check" /\ push' = NoPush /\ wire' = NoWire /\ UNCHANGED connection
    <3>1. WireFollowsLoop' /\ wire'.kind = "none" /\ ~Taken' /\ ~Taken
      BY <1>t, <2>1, <2>3, OverIsQuiet DEF WireFollowsLoop, Taken
    <3>. QED
      BY <1>t, <2>1, <2>3, <3>1
         DEF PageInv, ConnectionFollowsMain, BatchFitsBaseline, PageHasBaseline, ShowsBaseline
  <2>4. CASE ~conn.installed /\ Await(conn, "install")
    BY <2>1, <2>2, <2>4, AwaitFits
  <2>5. CASE conn.installed /\ Await(conn, "health")
    BY <2>1, <2>2, <2>5, AwaitFits
  <2>6. CASE conn.installed /\ Deliver(conn)
    BY <2>1, <2>2, <2>6, DeliverFits
  <2>. QED
    BY <2>1, <2>3, <2>4, <2>5, <2>6
<1>3. ASSUME Outdated PROVE PageInv'
  <2>1. /\ loop \in {"health", "install", "update"} /\ ~IsCurrent
        /\ loop' = "check" /\ push' = NoPush /\ wire' = NoWire
        /\ UNCHANGED <<connection, page, cdp, widget, stopped>>
    BY <1>3 DEF Outdated, main
  <2>2. WireFollowsLoop' /\ wire'.kind = "none" /\ ~Taken'
    BY <2>1, OverIsQuiet
  <2>3. connection = None \/ ~cdp.up
    BY <1>t, <2>1 DEF ConnectionFollowsMain, IsCurrent
  <2>. QED
    BY <1>t, <2>1, <2>2, <2>3
       DEF PageInv, ConnectionFollowsMain, BatchFitsBaseline, PageHasBaseline, ShowsBaseline
<1>4. ASSUME HealthAnswered PROVE PageInv'
  <2>1. /\ loop = "health" /\ connection # None
        /\ UNCHANGED <<data, page, cdp, widget, stopped>>
        /\ IF wire.answer = "ok" THEN Deliver(connection)
                                 ELSE Await([connection EXCEPT !.installed = FALSE], "install")
    BY <1>4 DEF HealthAnswered, IsCurrent
  <2>2. Usable(connection) /\ ShowsBaseline(connection) /\ connection.installed
    BY <1>t, <2>1, SessionIsUsable DEF PageHasBaseline, WireFollowsLoop, BatchFitsBaseline, Taken
  <2>3. CASE wire.answer = "ok"
    BY <2>1, <2>2, <2>3, DeliverFits
  <2>4. CASE wire.answer # "ok"
    <3> DEFINE conn == [connection EXCEPT !.installed = FALSE]
    <3>1. Usable(conn) /\ ~conn.installed
      BY <2>2 DEF Usable, Connection
    <3>2. conn # None /\ ShowsBaseline(conn)
      BY <3>1, ConnectionIsSome DEF Usable, ShowsBaseline
    <3> HIDE DEF conn
    <3>3. Await(conn, "install")
      BY <2>1, <2>4 DEF conn
    <3>. QED
      BY <2>1, <3>1, <3>2, <3>3, AwaitFits
  <2>. QED
    BY <2>3, <2>4
<1>5. ASSUME InstallAnswered PROVE PageInv'
  <2> DEFINE conn == [connection EXCEPT !.installed = TRUE, !.snapshot = None, !.sent = 0]
  <2>1. /\ loop = "install" /\ connection # None /\ Deliver(conn)
        /\ UNCHANGED <<data, page, cdp, widget, stopped>>
    BY <1>5 DEF InstallAnswered, IsCurrent
  <2>2. Usable(connection)
    BY <2>1, SessionIsUsable
  <2>3. Usable(conn) /\ conn.installed /\ conn.snapshot = None
    <3> DEFINE at == [connection EXCEPT !.installed = TRUE]
    <3>1. at \in Connection /\ at.installed /\ at.cdp = cdp.id /\ at.widget = widget
      BY <2>2 DEF Usable, Connection
    <3>2. conn = Confirmed(at, None, 0)
      BY Zenon DEF Confirmed
    <3> HIDE DEF at, conn
    <3>3. conn \in Connection /\ conn.snapshot = None
      BY <3>1, <3>2, Rewritten
    <3>4. conn.installed = at.installed /\ conn.cdp = at.cdp /\ conn.widget = at.widget
      BY <3>1, <3>2 DEF Confirmed, Connection
    <3>. QED
      BY <3>1, <3>3, <3>4 DEF Usable
  <2> HIDE DEF conn
  <2>4. conn # None /\ ShowsBaseline(conn)
    BY <2>3, ConnectionIsSome DEF Usable, ShowsBaseline
  <2>. QED
    BY <2>1, <2>3, <2>4, DeliverFits
<1>6. ASSUME UpdateAnswered PROVE PageInv'
  <2>1. /\ loop = "update" /\ wire.answer \in {"ok", "missing"} /\ connection # None
        /\ loop' = "check" /\ push' = NoPush /\ wire' = NoWire
        /\ UNCHANGED <<page, cdp, widget, stopped>>
        /\ connection' = IF wire.answer = "ok" THEN Confirmed(connection, push.next, push.revision)
                                               ELSE [connection EXCEPT !.installed = FALSE]
    BY <1>6 DEF UpdateAnswered, IsCurrent, main
  <2>2. WireFollowsLoop' /\ wire'.kind = "none" /\ ~Taken'
    BY <2>1, OverIsQuiet
  <2>3. Usable(connection)
    BY <2>1, SessionIsUsable
  <2>4. CASE wire.answer = "ok"
    <3>1. Taken /\ wire.next = push.next
      BY <1>t, <2>1, <2>4 DEF WireFollowsLoop, BatchFitsBaseline, Taken
    <3>2. push.next \in View \cup {None} /\ push.revision \in Nat
      BY <1>t DEF LoopType, Held
    <3>3. /\ connection'.snapshot = push.next
          /\ connection'.cdp = cdp.id /\ connection'.widget = widget
      BY <2>1, <2>3, <2>4, <3>2, Rewritten DEF Usable, Confirmed, Connection
    <3>. QED
      BY <1>t, <2>1, <2>2, <3>1, <3>3
         DEF PageInv, ConnectionFollowsMain, BatchFitsBaseline, PageHasBaseline, ShowsBaseline
  <2>5. CASE wire.answer = "missing"
    <3>1. connection' = [connection EXCEPT !.installed = FALSE]
      BY <2>1, <2>5
    <3>2. ~connection'.installed /\ connection'.cdp = cdp.id /\ connection'.widget = widget
      BY <2>3, <3>1 DEF Usable, Connection
    <3>. QED
      BY <1>t, <2>1, <2>2, <3>2
         DEF PageInv, ConnectionFollowsMain, BatchFitsBaseline, PageHasBaseline, ShowsBaseline
  <2>. QED
    BY <2>1, <2>4, <2>5
<1>7. ASSUME PushThrows PROVE PageInv'
  <2>1. /\ wire.answer = "failed" /\ loop' = "ending" /\ push' = NoPush /\ wire' = NoWire
        /\ UNCHANGED <<connection, page, cdp, widget, stopped>>
    BY <1>7 DEF PushThrows, main
  <2>2. WireFollowsLoop' /\ wire'.kind = "none" /\ ~Taken' /\ ~Taken
    BY <2>1, OverIsQuiet DEF Taken
  <2>. QED
    BY <1>t, <2>1, <2>2
       DEF PageInv, ConnectionFollowsMain, BatchFitsBaseline, PageHasBaseline, ShowsBaseline
<1>8. ASSUME CheckRound PROVE PageInv'
  BY <1>8, QuietKeepsPage DEF CheckRound, main
<1>9. ASSUME PromiseEnds PROVE PageInv'
  <2>1. /\ loop = "ending" /\ loop' = "none" /\ UNCHANGED <<push, widget, stopped, page, wire>>
        /\ \/ cdp' = [cdp EXCEPT !.up = FALSE] /\ connection' = None
           \/ UNCHANGED <<cdp, connection>>
    BY <1>9 DEF PromiseEnds, Reset
  <2>2. CASE UNCHANGED <<cdp, connection>>
    BY <2>1, <2>2, QuietKeepsPage
  <2>3. CASE cdp' = [cdp EXCEPT !.up = FALSE] /\ connection' = None
    <3>1. wire.kind = "none"
      BY <1>t, <2>1 DEF WireFollowsLoop
    <3>2. WireFollowsLoop'
      BY <2>1, <3>1 DEF WireFollowsLoop, Waiting
    <3>3. ~cdp'.up
      BY <1>t, <2>3 DEF LoopType
    <3>. QED
      BY <1>t, <2>1, <2>3, <3>2, <3>3, DroppedKeepsPage DEF ConnectionFollowsMain
  <2>. QED
    BY <2>1, <2>2, <2>3
<1>10. ASSUME Connect PROVE PageInv'
  <2>1. /\ ~cdp.up /\ ~stopped /\ connection' = None
        /\ UNCHANGED <<loop, push, widget, stopped, page, wire>>
    BY <1>10 DEF Connect, Reset
  <2>2. WireFollowsLoop'
    BY <1>t, <2>1 DEF WireFollowsLoop, Waiting
  <2>. QED
    BY <1>t, <2>1, <2>2, DroppedKeepsPage DEF ConnectionFollowsMain
<1>11. ASSUME Poll PROVE PageInv'
  BY <1>11, QuietKeepsPage DEF Poll, Request
<1>12. ASSUME ReloadBegins PROVE PageInv'
  BY <1>12, QuietKeepsPage DEF ReloadBegins, session
<1>13. ASSUME ReloadEnds PROVE PageInv'
  <2>1. /\ loop = "none" /\ connection' = None /\ widget' = widget + 1
        /\ UNCHANGED <<loop, push, cdp, stopped, page, wire>>
    BY <1>13 DEF ReloadEnds, Reset
  <2>2. WireFollowsLoop'
    BY <1>t, <2>1 DEF WireFollowsLoop, Waiting
  <2>3. widget' # 0
    BY <1>t, <2>1
  <2>. QED
    BY <1>t, <2>1, <2>2, <2>3, DroppedKeepsPage DEF ConnectionFollowsMain
<1>14. ASSUME HealthCheckDue PROVE PageInv'
  BY <1>14, QuietKeepsPage DEF HealthCheckDue, session
<1>15. ASSUME ConnectionLost PROVE PageInv'
  <2>1. /\ cdp' = [cdp EXCEPT !.up = FALSE] /\ wire' \in Rejected
        /\ UNCHANGED <<loop, push, connection, widget, stopped, page>>
    BY <1>15 DEF ConnectionLost, session
  <2>2. ~cdp'.up /\ cdp'.id = cdp.id
    BY <1>t, <2>1 DEF LoopType
  <2>3. ~Waiting' /\ wire'.kind = wire.kind /\ wire'.next = wire.next /\ wire'.channels = wire.channels
    BY <2>1, RejectedAnswer
  <2>4. WireFollowsLoop' /\ ConnectionFollowsMain'
    BY <1>t, <2>1, <2>2, <2>3 DEF WireFollowsLoop, ConnectionFollowsMain
  <2>5. BatchFitsBaseline' /\ PageHasBaseline'
    BY <1>t, <2>1, <2>2, <2>3 DEF BatchFitsBaseline, PageHasBaseline, ShowsBaseline
  <2>. QED
    BY <2>4, <2>5 DEF PageInv
<1>16. ASSUME CodexRestarted \/ Stop PROVE PageInv'
  <2>1. /\ cdp' = [cdp EXCEPT !.up = FALSE] /\ wire' \in Rejected /\ connection' = None
        /\ UNCHANGED <<loop, widget>>
    BY <1>16 DEF CodexRestarted, Stop, Reset
  <2>2. ~cdp'.up
    BY <1>t, <2>1 DEF LoopType
  <2>3. WireFollowsLoop'
    BY <1>t, <2>1, RejectedAnswer DEF WireFollowsLoop
  <2>. QED
    BY <1>t, <2>1, <2>2, <2>3, DroppedKeepsPage DEF ConnectionFollowsMain
<1>17. ASSUME PageAnswers PROVE PageInv'
  <2>1. /\ Waiting /\ UNCHANGED <<loop, push, connection, cdp, widget, stopped>>
        /\ wire' \in {[wire EXCEPT !.answer = "ok"], [wire EXCEPT !.answer = "missing"]}
    BY <1>17 DEF PageAnswers, Answer, session, main
  <2>2. /\ ~Waiting' /\ cdp.up /\ connection # None
        /\ wire'.kind = wire.kind /\ wire'.next = wire.next /\ wire'.channels = wire.channels
    BY <1>t, <2>1 DEF WireFollowsLoop, Waiting, Wire
  <2>3. WireFollowsLoop' /\ ConnectionFollowsMain' /\ BatchFitsBaseline'
    BY <1>t, <2>1, <2>2 DEF WireFollowsLoop, ConnectionFollowsMain, BatchFitsBaseline
  <2>4. ShowsBaseline(connection)
    BY <1>t, <2>1, <2>2 DEF PageHasBaseline, Taken, Waiting
  <2>5. PageHasBaseline'
    <3>1. CASE wire.kind = "install"
      BY <1>t, <2>1, <2>2, <3>1 DEF BatchFitsBaseline, PageHasBaseline, ShowsBaseline, Taken
    <3>2. CASE wire.kind # "install" /\ page' = page /\ (wire.kind = "health" \/ page.version # widget)
      BY <2>1, <2>2, <2>4, <3>2 DEF PageHasBaseline, ShowsBaseline, Taken
    <3>3. CASE /\ wire.kind = "update" /\ page.version = widget
               /\ page' = [page EXCEPT !.shows = Applied(wire.channels),
                                       !.torn = @ /\ wire.channels # Channels]
               /\ wire' = [wire EXCEPT !.answer = "ok"]
      <4>1. Taken'
        BY <1>t, <3>3 DEF Taken, Wire
      <4>2. ~page'.torn => page'.shows = wire.next
        BY <2>1, <3>3, BatchLands
      <4>. QED
        BY <2>1, <2>2, <4>1, <4>2 DEF PageHasBaseline
    <3>. QED
      BY <1>17, <3>1, <3>2, <3>3 DEF PageAnswers, Answer
  <2>. QED
    BY <2>3, <2>5 DEF PageInv
<1>18. ASSUME PageRefuses \/ PageThrowsHalfWay PROVE PageInv'
  <2>1. /\ Waiting /\ UNCHANGED <<loop, push, connection, cdp, widget, stopped>>
        /\ wire' = [wire EXCEPT !.answer = "failed"]
    BY <1>18 DEF PageRefuses, PageThrowsHalfWay, Answer, session, main
  <2>2. /\ ~Waiting' /\ ~Taken' /\ ~Taken
        /\ wire'.kind = wire.kind /\ wire'.next = wire.next /\ wire'.channels = wire.channels
    BY <1>t, <2>1 DEF Waiting, Wire, Taken
  <2>3. WireFollowsLoop' /\ ConnectionFollowsMain' /\ BatchFitsBaseline'
    BY <1>t, <2>1, <2>2 DEF WireFollowsLoop, ConnectionFollowsMain, BatchFitsBaseline
  <2>4. page' = page \/ page'.torn
    <3>1. ASSUME NEW shows PROVE [page EXCEPT !.shows = shows, !.torn = TRUE].torn
      BY <1>t DEF Shown
    <3>. QED
      BY <1>18, <3>1 DEF PageRefuses, PageThrowsHalfWay
  <2>5. PageHasBaseline'
    BY <1>t, <2>1, <2>2, <2>4 DEF PageHasBaseline, ShowsBaseline
  <2>. QED
    BY <2>3, <2>5 DEF PageInv
<1>19. ASSUME PageReloads PROVE PageInv'
  <2>1. page' = NoPage /\ UNCHANGED <<wire, loop, push, connection, cdp, widget, stopped>>
    BY <1>19 DEF PageReloads, session, main
  <2>2. page'.version # widget
    BY <1>t, <2>1, NoPageType DEF ConnectionFollowsMain
  <2>3. WireFollowsLoop' /\ ConnectionFollowsMain' /\ BatchFitsBaseline'
    BY <1>t, <2>1 DEF WireFollowsLoop, ConnectionFollowsMain, BatchFitsBaseline, Waiting
  <2>4. PageHasBaseline'
    BY <2>1, <2>2 DEF PageHasBaseline, ShowsBaseline
  <2>. QED
    BY <2>3, <2>4 DEF PageInv
<1>20. CASE UNCHANGED vars
  BY <1>20, QuietKeepsPage DEF vars, session, main
<1>. QED
  BY <1>1, <1>2, <1>3, <1>4, <1>5, <1>6, <1>7, <1>8, <1>9, <1>10, <1>11, <1>12, <1>13, <1>14, <1>15,
     <1>16, <1>17, <1>18, <1>19, <1>20 DEF Next, Session, Main, Disturbance

\* The session and the page agree, in every reachable state.
THEOREM PageInvariant == Spec => [](WInv /\ PageInv)
<1>1. Init => WInv /\ PageInv
  BY InitWInv, InitPageInv
<1>2. (WInv /\ PageInv) /\ [Next]_vars => (WInv /\ PageInv)'
  BY NextWInv, NextPageInv
<1>. QED
  BY <1>1, <1>2, PTL DEF Spec

\* An acknowledged batch leaves exactly its snapshot on the page, whatever was reloaded, reset,
\* reconnected or rejected before: no delta is built on a baseline that the page does not have.
THEOREM PageShowsASnapshot == Spec => PageShowsOneSnapshot
<1>1. WInv /\ PageInv /\ [Next]_vars
        => [PageAnswers /\ wire.kind = "update" /\ wire'.answer = "ok" /\ ~page'.torn
              => page'.shows = wire.next]_vars
  <2>. SUFFICES ASSUME WInv, PageInv, PageAnswers, wire.kind = "update", wire'.answer = "ok", ~page'.torn
                PROVE  page'.shows = wire.next
    OBVIOUS
  <2>1. wire \in Wire
    BY DEF WInv, PageType
  <2>2. /\ Waiting /\ page.version = widget
        /\ page' = [page EXCEPT !.shows = Applied(wire.channels), !.torn = @ /\ wire.channels # Channels]
    BY <2>1 DEF PageAnswers, Answer, Wire
  <2>. QED
    BY <2>2, BatchLands
<1>. QED
  BY <1>1, PageInvariant, PTL DEF Spec, PageShowsOneSnapshot

(***************************************************************************)
(* The third part follows the token usage: what its manager has counted is *)
(* in the cache file or will be, and what its client shows is of the task  *)
(* in view.  Parameters and state are those of TokenUsage and              *)
(* TokenUsageService.                                                      *)
(***************************************************************************)
CONSTANTS
  NoUsage, Threads, Turns, Responses, Root, ThreadOf, RolloutScript, EventScript, Cuts, EventCuts,
  After, MaxTurns, MaxFaults, Views, MaxViews

VARIABLES
  size, logged, mem, found, waiting, inView, views, pc, todo, dirty, saving, newer, disk, failures

U == INSTANCE TokenUsage WITH None <- NoUsage, known <- found, view <- inView, faults <- failures

\* What is in the cache file or on its way there is a snapshot.
SnapshotsOnly ==
  /\ disk # NoUsage => disk = U!Snapshot(disk)
  /\ saving # NoUsage => saving = U!Snapshot(saving)

\* A manager that does not run has nothing to save.
NothingLeftBehind == pc = "off" => ~dirty /\ saving = NoUsage

\* A clean manager's knowledge is on disk; what a write under way leaves is its knowledge unless
\* that has changed since, and then the manager stays dirty.
SavedOrDirty ==
  /\ (pc # "off" /\ ~dirty) => disk = U!Snapshot(mem)
  /\ saving # NoUsage => dirty /\ (~newer => saving = U!Snapshot(mem))

CacheInv ==
  /\ dirty \in BOOLEAN /\ newer \in BOOLEAN
  /\ SnapshotsOnly /\ NothingLeftBehind /\ SavedOrDirty

\* A snapshot holds no turn without usage, so it is its own snapshot.
LEMMA SnapshotAgain == ASSUME NEW m PROVE U!Snapshot(U!Snapshot(m)) = U!Snapshot(m)
<1> DEFINE T(x) == IF m.turns[x] # NoUsage /\ U!Tokens(m.turns[x]) = 0 THEN NoUsage ELSE m.turns[x]
           F == [x \in Turns |-> T(x)]
           s == [m EXCEPT !.turns = F]
           G == [x \in Turns |-> IF s.turns[x] # NoUsage /\ U!Tokens(s.turns[x]) = 0
                                 THEN NoUsage ELSE s.turns[x]]
<1>1. U!Snapshot(m) = s BY DEF U!Snapshot
<1>2. U!Snapshot(s) = [s EXCEPT !.turns = G] BY DEF U!Snapshot
<1>3. CASE "turns" \in DOMAIN m
  <2>1. s.turns = F BY <1>3
  <2>2. G = F
    <3>1. ASSUME NEW x \in Turns PROVE G[x] = F[x]
      <4>1. s.turns[x] = T(x) BY <2>1
      <4>2. T(x) = NoUsage \/ U!Tokens(T(x)) # 0 OBVIOUS
      <4> HIDE DEF T, s
      <4> QED BY <4>1, <4>2
    <3> HIDE DEF T, s
    <3> QED BY <3>1
  <2>3. [s EXCEPT !.turns = F] = s BY <2>1
  <2> QED BY <1>1, <1>2, <2>2, <2>3
<1>4. CASE "turns" \notin DOMAIN m
  <2> HIDE DEF F, G
  <2>1. s = [y \in DOMAIN m |-> m[y]] BY <1>4
  <2>2. [s EXCEPT !.turns = G] = [y \in DOMAIN s |-> s[y]] BY <1>4, <2>1
  <2> QED BY <1>1, <1>2, <2>1, <2>2
<1> QED BY <1>3, <1>4

\* The snapshot is a matter of its argument alone.
LEMMA SnapshotFollows ==
  /\ disk' = disk => (U!Snapshot(disk))' = U!Snapshot(disk)
  /\ saving' = saving => (U!Snapshot(saving))' = U!Snapshot(saving)
  /\ mem' = mem => (U!Snapshot(mem))' = U!Snapshot(mem)
  OBVIOUS

\* A step that writes nothing keeps the invariant if it notes every change of what the manager
\* knows.
LEMMA NotedChange ==
  ASSUME CacheInv, NEW changed \in BOOLEAN, U!MarkDirty(changed), UNCHANGED <<saving, disk>>,
         pc' # "off",
         ~changed => pc # "off" /\ mem' = mem
  PROVE  CacheInv'
<1>1. dirty' \in BOOLEAN /\ newer' \in BOOLEAN /\ (~dirty' <=> ~dirty /\ ~changed)
      /\ (~newer' <=> ~newer /\ ~changed)
  BY Zenon DEF U!MarkDirty, CacheInv
<1>2. SnapshotsOnly' BY SnapshotFollows, Zenon DEF CacheInv, SnapshotsOnly
<1>3. NothingLeftBehind' BY DEF NothingLeftBehind
<1>4. SavedOrDirty'
  <2>1. ASSUME ~dirty' PROVE disk' = (U!Snapshot(mem))'
    BY <1>1, <2>1, SnapshotFollows DEF CacheInv, SavedOrDirty
  <2>2. ASSUME saving' # NoUsage PROVE dirty' /\ (~newer' => saving' = (U!Snapshot(mem))')
    BY <1>1, <2>2, SnapshotFollows DEF CacheInv, SavedOrDirty
  <2> QED BY <2>1, <2>2 DEF SavedOrDirty
<1> QED BY <1>1, <1>2, <1>3, <1>4 DEF CacheInv

\* A step that leaves cache and memory alone.
LEMMA CacheUntouched ==
  ASSUME CacheInv, UNCHANGED <<mem, dirty, saving, newer, disk>>, (pc' = "off") <=> (pc = "off")
  PROVE  CacheInv'
  BY SnapshotFollows DEF CacheInv, SnapshotsOnly, NothingLeftBehind, SavedOrDirty

\* The beginning of a request: what a new manager takes up is on disk, or the change is noted.
LEMMA BegunIsNoted ==
  ASSUME CacheInv, NEW v, NEW catalog \in BOOLEAN, NEW fresh \in BOOLEAN, NEW m,
         fresh \/ m = U!Content,
         U!Begin(m, v, catalog, fresh), UNCHANGED <<saving, disk>>
  PROVE  CacheInv'
<1> DEFINE changed == fresh \/ mem' # m \/ ~m.indexed
<1>1. pc' = "read" /\ U!MarkDirty(changed) BY Zenon DEF U!Begin
<1>2. CASE pc # "off"
  <2>1. ~changed => mem' = mem BY <1>2 DEF U!Content
  <2> QED BY <1>1, <1>2, <2>1, NotedChange
<1>3. CASE pc = "off"
  <2>1. saving = NoUsage /\ ~dirty BY <1>3 DEF CacheInv, NothingLeftBehind
  <2>2. dirty' \in BOOLEAN /\ newer' \in BOOLEAN /\ (~dirty' => ~changed)
    BY <1>1, Zenon DEF U!MarkDirty, CacheInv
  <2>3. ASSUME ~changed PROVE disk = U!Snapshot(disk) /\ mem' = disk
    <3>1. m = U!Content /\ mem' = m /\ m.indexed BY <2>3
    <3>2. ~U!Empty.indexed BY DEF U!Empty
    <3>3. disk # NoUsage /\ m = disk BY <1>3, <3>1, <3>2 DEF U!Content
    <3> QED BY <3>1, <3>3 DEF CacheInv, SnapshotsOnly
  <2>4. ASSUME ~dirty' PROVE disk' = (U!Snapshot(mem))'
    BY <2>2, <2>3, <2>4
  <2>5. SnapshotsOnly' BY SnapshotFollows, Zenon DEF CacheInv, SnapshotsOnly
  <2> QED BY <1>1, <2>1, <2>2, <2>4, <2>5 DEF CacheInv, NothingLeftBehind, SavedOrDirty
<1> QED BY <1>2, <1>3

\* Reading a rollout, archiving turns and filling in models note what they change.
LEMMA ReaderNotes ==
  ASSUME CacheInv,
         (U!ReadRollout \/ U!WorkerFails \/ U!Settle \/ U!Fill)
  PROVE  CacheInv'
<1>1. ASSUME NEW t, NEW fails, U!ReadThread(t, fails) PROVE CacheInv'
  <2>1. pc = "read" /\ pc' = pc /\ UNCHANGED <<saving, disk>> BY <1>1 DEF U!ReadThread
  <2>2. \E m : mem' = m /\ U!MarkDirty(m # mem)
    <3>1. CASE t \in U!Found BY <1>1, <3>1, Zenon DEF U!ReadThread
    <3>2. CASE t \notin U!Found BY <1>1, <3>2, Zenon DEF U!ReadThread
    <3> QED BY <3>1, <3>2
  <2>3. U!MarkDirty(mem' # mem) BY <2>2
  <2> QED BY <2>1, <2>3, NotedChange
<1>2. CASE U!ReadRollout BY <1>1, <1>2, Zenon DEF U!ReadRollout
<1>3. CASE U!WorkerFails BY <1>1, <1>3, Zenon DEF U!WorkerFails
<1>4. CASE U!Settle
  <2>1. pc = "read" /\ pc' \in {"idle", "fill"} /\ UNCHANGED <<saving, disk>>
    BY <1>4 DEF U!Settle
  <2>2. \E m : mem' = m /\ U!MarkDirty(m # mem) BY <1>4, Zenon DEF U!Settle
  <2>3. U!MarkDirty(mem' # mem) BY <2>2
  <2> QED BY <2>1, <2>3, NotedChange
<1>5. CASE U!Fill
  <2>1. pc = "fill" /\ pc' \in {"idle", "fill"} /\ UNCHANGED <<saving, disk>>
    BY <1>5 DEF U!Fill
  <2>2. \E m : mem' = m /\ U!MarkDirty(m # mem) BY <1>5, Zenon DEF U!Fill
  <2>3. U!MarkDirty(mem' # mem) BY <2>2
  <2> QED BY <2>1, <2>3, NotedChange
<1> QED BY <1>2, <1>3, <1>4, <1>5

\* A write takes a snapshot, and what it leaves on disk is the manager's knowledge of that time.
LEMMA WriterKeeps ==
  ASSUME CacheInv, U!Save \/ U!Saved \/ U!SaveFails
  PROVE  CacheInv'
<1>1. CASE U!Save
  <2>1. /\ pc # "off" /\ dirty /\ pc' = pc /\ dirty' = dirty /\ mem' = mem /\ disk' = disk
        /\ saving' = U!Snapshot(mem) /\ newer' = FALSE
    BY <1>1 DEF U!Save, U!manager
  <2>2. SnapshotsOnly'
    BY <2>1, SnapshotAgain, SnapshotFollows DEF CacheInv, SnapshotsOnly
  <2> QED BY <2>1, <2>2, SnapshotFollows DEF CacheInv, NothingLeftBehind, SavedOrDirty
<1>2. CASE U!Saved
  <2>1. /\ saving # NoUsage /\ pc' = pc /\ dirty' = newer /\ newer' = newer /\ mem' = mem
        /\ disk' = saving /\ saving' = NoUsage
    BY <1>2 DEF U!Saved, U!manager, U!StillDirty
  <2>2. pc # "off" BY <2>1 DEF CacheInv, NothingLeftBehind
  <2>3. SnapshotsOnly' BY <2>1, SnapshotFollows DEF CacheInv, SnapshotsOnly
  <2> QED BY <2>1, <2>2, <2>3, SnapshotFollows DEF CacheInv, NothingLeftBehind, SavedOrDirty
<1>3. CASE U!SaveFails
  <2>1. /\ pc' = pc /\ dirty' = dirty /\ newer' = newer /\ mem' = mem /\ disk' = disk
        /\ saving' = NoUsage
    BY <1>3 DEF U!SaveFails, U!manager
  <2> QED
    BY <2>1, SnapshotFollows DEF CacheInv, SnapshotsOnly, NothingLeftBehind, SavedOrDirty
<1> QED BY <1>1, <1>2, <1>3

LEMMA NextCacheInv == CacheInv /\ [U!Next]_(U!vars) => CacheInv'
<1> SUFFICES ASSUME CacheInv, [U!Next]_(U!vars) PROVE CacheInv'
  OBVIOUS
<1>1. CASE U!Request
  <2>1. PICK v \in Views \cup {inView}, catalog \in BOOLEAN :
               U!Begin(U!Content, v, catalog, FALSE)
    BY <1>1, Zenon DEF U!Request
  <2>2. UNCHANGED <<saving, disk>> BY <1>1 DEF U!Request
  <2> QED BY <2>1, <2>2, BegunIsNoted, Zenon
<1>2. CASE U!RequestWithoutCache
  <2>1. U!Begin(U!Empty, inView, TRUE, TRUE) /\ UNCHANGED <<saving, disk>>
    BY <1>2, Zenon DEF U!RequestWithoutCache
  <2> QED BY <2>1, BegunIsNoted, Zenon
<1>3. CASE U!ReadRollout \/ U!WorkerFails \/ U!Settle \/ U!Fill BY <1>3, ReaderNotes, Zenon
<1>4. CASE U!Save \/ U!Saved \/ U!SaveFails BY <1>4, WriterKeeps, Zenon
<1>5. CASE U!RefreshFails
  <2>1. pc = "read" /\ pc' = "idle" /\ UNCHANGED <<mem, dirty, saving, newer, disk>>
    BY <1>5 DEF U!RefreshFails, U!cache
  <2> QED BY <2>1, CacheUntouched
<1>6. CASE U!Exit \/ U!Kill
  <2>1. pc' = "off" /\ dirty' = FALSE /\ newer' = FALSE /\ saving' = NoUsage /\ disk' = disk
    BY <1>6 DEF U!Exit, U!Kill, U!Gone
  <2> QED BY <2>1, SnapshotFollows DEF CacheInv, SnapshotsOnly, NothingLeftBehind, SavedOrDirty
<1>7. CASE U!Environment \/ UNCHANGED U!vars
  <2>1. UNCHANGED <<mem, dirty, saving, newer, disk, pc>>
    BY <1>7 DEF U!Environment, U!Grow, U!Log, U!Replace, U!manager, U!cache, U!vars
  <2> QED BY <2>1, CacheUntouched
<1> QED
  BY <1>1, <1>2, <1>3, <1>4, <1>5, <1>6, <1>7, Zenon DEF U!Next, U!Work, U!Faults

\* The cache never misses what a manager at rest knows, whatever was read, archived, written or
\* lost before (#persistCache and #markCacheDirty of token-usage.mjs).
THEOREM CacheIsCurrent == U!Spec => []U!DiskIsCurrent
<1>1. U!Init => CacheInv
  BY DEF U!Init, CacheInv, SnapshotsOnly, NothingLeftBehind, SavedOrDirty
<1>2. CacheInv => U!DiskIsCurrent BY DEF CacheInv, SavedOrDirty, U!DiskIsCurrent
<1> QED BY <1>1, NextCacheInv, <1>2, PTL DEF U!Spec

(***************************************************************************)
(* The client of the usage service.                                        *)
(***************************************************************************)
CONSTANTS Shows, MaxGrowths, MaxEvents

VARIABLES
  source, growths, price, read, service, children, viewThread, switches, view, cached, known,
  snapshot, fullDue, appliedPrice, initialized, init, asking, pending, scheduled, parked, closing,
  faults

S == INSTANCE TokenUsageService WITH None <- NoUsage, loop <- asking

Wishes == [discover : BOOLEAN, process : BOOLEAN]
Timers == [wish : Wishes \cup {NoUsage}, restart : BOOLEAN]
Contents == [Turns -> S!Content]
ViewsOfClient ==
  [thread : Threads \cup {NoUsage}, turns : Contents, status : {"loading", "ready", "error"}]
Initialisations ==
  [pc : {"idle", "begin", "exit", "wait"}, thread : Threads \cup {NoUsage}, rev : Nat, price : Nat]
Passes ==
  [pc : {"idle", "init", "probe", "retire", "exit", "wait"}, wish : Wishes \cup {NoUsage},
   due : BOOLEAN, changed : BOOLEAN, priced : BOOLEAN, thread : Threads \cup {NoUsage}, rev : Nat,
   price : Nat]

\* The files and the environment's counters.
FilesType ==
  /\ source \in [Turns -> S!Versions] /\ read \in [Turns -> S!Versions]
  /\ growths \in 0..MaxGrowths /\ \A x \in Turns : source[x] <= growths + 1
  /\ price \in Nat /\ switches \in Nat /\ faults \in Nat /\ price + switches + faults <= MaxEvents

\* There is one child at most, the one the client speaks to.
ProcessType ==
  /\ service \in S!Processes \cup {NoUsage}
  /\ children = IF service = NoUsage THEN 0 ELSE 1

ShownType ==
  /\ viewThread \in Threads /\ view \in ViewsOfClient /\ known \in Contents
  /\ cached \in [Threads -> Contents \cup {NoUsage}]

FlagsType == fullDue \in BOOLEAN /\ initialized \in BOOLEAN

WorkType ==
  /\ init \in Initialisations /\ asking \in Passes
  /\ pending \in Wishes \cup {NoUsage} /\ parked \in Wishes \cup {NoUsage}
  /\ scheduled \in Timers \cup {NoUsage}

ClosingType == closing \in {"open", "waiting", "flush", "exit", "done"}

\* A request is that of the process that waits for it; only one of initialisation, refresh and
\* shut-down is under way.
Asks(what) == service # NoUsage /\ service.req # NoUsage /\ service.req.what = what

OneAtATime ==
  /\ (init.pc = "wait") <=> Asks("init")
  /\ (asking.pc = "wait") <=> Asks("refresh")
  /\ Asks("flush") => closing = "flush"
  /\ initialized => init.pc = "idle"
  /\ asking.pc \in {"probe", "retire", "exit", "wait"} => initialized
  /\ closing \in {"flush", "exit", "done"} => init.pc = "idle" /\ asking.pc = "idle"

\* What is asked is asked for the task that was in view, and answered for it.
ForTheTask(p) ==
  p.pc \in {"exit", "wait"} =>
    p.rev <= switches /\ (p.rev = switches => p.thread = viewThread)

AskedForTheTask ==
  /\ ForTheTask(init) /\ ForTheTask(asking)
  /\ Asks("init") => service.req.thread = init.thread
  /\ Asks("refresh") => service.req.thread = asking.thread
  /\ (service # NoUsage /\ service.req # NoUsage /\ service.req.answer # NoUsage)
       => service.req.answer.thread = service.req.thread

ServiceInv ==
  /\ FilesType /\ ProcessType /\ ShownType /\ FlagsType /\ WorkType /\ ClosingType
  /\ OneAtATime /\ AskedForTheTask

LEMMA ChildFits ==
  ASSUME S!ServiceConstants, NEW s \in S!Processes
  PROVE  /\ s # NoUsage
         /\ S!Retired(s) \in S!Processes /\ S!Retired(s).req = s.req
         /\ S!Answered(s) \in S!Processes /\ S!Answered(s).req = NoUsage
         /\ [s EXCEPT !.req = NoUsage, !.killed = TRUE] \in S!Processes
         /\ [s EXCEPT !.req = NoUsage, !.killed = TRUE].req = NoUsage
<1>1. s # NoUsage BY DEF S!ServiceConstants
<1> HIDE DEF S!Requests, S!Prices
<1>2. ASSUME NEW r \in S!Processes
      PROVE  /\ S!Retired(r) \in S!Processes /\ S!Retired(r).req = r.req
             /\ [r EXCEPT !.req = NoUsage] \in S!Processes
             /\ [r EXCEPT !.req = NoUsage].req = NoUsage
             /\ [r EXCEPT !.req = NoUsage].retire = r.retire
  BY <1>2 DEF S!Retired, S!Processes, S!ServiceConstants
<1>3. S!Answered(s) \in S!Processes /\ S!Answered(s).req = NoUsage
  <2> DEFINE t == [s EXCEPT !.req = NoUsage]
  <2>1. t \in S!Processes /\ t.req = NoUsage BY <1>2
  <2>2. S!Answered(s) = IF s.retire THEN S!Retired(t) ELSE t BY DEF S!Answered
  <2> HIDE DEF t
  <2> QED BY <1>2, <2>1, <2>2
<1>4. /\ [s EXCEPT !.req = NoUsage, !.killed = TRUE] \in S!Processes
      /\ [s EXCEPT !.req = NoUsage, !.killed = TRUE].req = NoUsage
  BY DEF S!Processes
<1> QED BY <1>1, <1>2, <1>3, <1>4

\* A question goes to the running child or to a new one.
LEMMA AskedFits ==
  ASSUME S!ServiceConstants, ProcessType,
         NEW what \in {"init", "refresh", "flush"}, NEW t \in Threads \cup {NoUsage},
         NEW d \in BOOLEAN, S!Ask(what, t, d)
  PROVE  /\ ProcessType' /\ service' # NoUsage /\ service'.req # NoUsage
         /\ service'.req.what = what /\ service'.req.thread = t /\ service'.req.answer = NoUsage
<1> DEFINE r == [what |-> what, thread |-> t, discover |-> d, state |-> "sent", answer |-> NoUsage]
<1>1. r \in S!Requests /\ r # NoUsage BY DEF S!Requests, S!ServiceConstants
<1>2. r.what = what /\ r.thread = t /\ r.answer = NoUsage OBVIOUS
<1>3. service' = IF service = NoUsage
                 THEN [req |-> r, ending |-> FALSE, retire |-> FALSE, killed |-> FALSE,
                       price |-> NoUsage]
                 ELSE [service EXCEPT !.req = r]
  BY DEF S!Ask, S!Asked
<1> HIDE DEF r
<1>4. service' \in S!Processes /\ service'.req = r
  BY <1>1, <1>3 DEF S!Processes, ProcessType
<1>5. service' # NoUsage BY <1>4 DEF S!ServiceConstants
<1>6. children' = 1 BY DEF S!Ask, ProcessType
<1> QED BY <1>1, <1>2, <1>4, <1>5, <1>6 DEF ProcessType

LEMMA MergedFits ==
  ASSUME NEW a \in Wishes \cup {NoUsage}, NEW b \in Wishes \cup {NoUsage}
  PROVE  S!Merged(a, b) \in Wishes \cup {NoUsage}
  BY DEF S!Merged, S!Wish, Wishes

LEMMA WishFits ==
  ASSUME NEW d \in BOOLEAN, NEW p \in BOOLEAN PROVE S!Wish(d, p) \in Wishes
  BY DEF S!Wish, Wishes

LEMMA ScheduledFits ==
  ASSUME NEW s \in Timers \cup {NoUsage}, NEW w \in Wishes, NEW restart \in BOOLEAN
  PROVE  S!Scheduled(s, w, restart) \in Timers \cup {NoUsage}
<1>1. CASE s = NoUsage
  <2>1. S!Merged(NoUsage, w) \in Wishes \cup {NoUsage} BY MergedFits
  <2> QED BY <1>1, <2>1 DEF S!Scheduled, Timers
<1>2. CASE s # NoUsage
  <2>1. s.wish \in Wishes \cup {NoUsage} /\ s.restart \in BOOLEAN BY <1>2 DEF Timers
  <2>2. S!Merged(s.wish, w) \in Wishes \cup {NoUsage} BY <2>1, MergedFits
  <2> QED BY <1>2, <2>1, <2>2 DEF S!Scheduled, Timers
<1> QED BY <1>1, <1>2

\* What the end of a pass or a wish may do to the loop and the initialisation.
Moved ==
  /\ asking' \in Passes /\ init' \in Initialisations
  /\ asking'.pc \in {"idle", "init", "probe"}
  /\ asking'.pc = "probe" => initialized
  /\ init' = init \/ (init.pc = "idle" /\ init'.pc = "begin" /\ ~initialized)
  /\ closing # "open" => asking'.pc = "idle" /\ init' = init

LEMMA PassMoves ==
  ASSUME WorkType, fullDue' \in BOOLEAN, NEW w \in Wishes \cup {NoUsage}, closing = "open",
         S!Pass(w)
  PROVE  Moved
<1>1. CASE initialized
  <2>1. asking' = S!Probing(w) /\ init' = init BY <1>1 DEF S!Pass
  <2>2. S!Probing(w) \in Passes /\ S!Probing(w).pc = "probe"
    BY DEF S!Probing, S!Idle, Passes
  <2> QED BY <1>1, <2>1, <2>2 DEF Moved, WorkType
<1>2. CASE ~initialized
  <2>1. /\ asking' = S!Joining(w)
        /\ init' = IF init.pc = "idle" THEN [S!Resting EXCEPT !.pc = "begin"] ELSE init
    BY <1>2 DEF S!Pass
  <2>2. S!Joining(w) \in Passes /\ S!Joining(w).pc = "init"
    BY DEF S!Joining, S!Idle, Passes
  <2>3. /\ [S!Resting EXCEPT !.pc = "begin"] \in Initialisations
        /\ [S!Resting EXCEPT !.pc = "begin"].pc = "begin"
    BY DEF S!Resting, Initialisations
  <2> QED BY <1>2, <2>1, <2>2, <2>3 DEF Moved, WorkType
<1> QED BY <1>1, <1>2

LEMMA IdleFits ==
  /\ S!Idle \in Passes /\ S!Idle.pc = "idle"
  /\ S!Resting \in Initialisations /\ S!Resting.pc = "idle"
  BY DEF S!Idle, S!Resting, Passes, Initialisations

LEMMA NextPassMoves ==
  ASSUME WorkType, fullDue' \in BOOLEAN, NEW w \in Wishes \cup {NoUsage}, S!NextPass(w)
  PROVE  Moved /\ pending' = NoUsage
<1> DEFINE p == S!Taken(S!Merged(pending, w))
<1>1. p \in Wishes \cup {NoUsage} BY MergedFits DEF S!Taken, WorkType
<1>2. CASE p = NoUsage
  <2>1. asking' = S!Idle /\ init' = init /\ pending' = NoUsage BY <1>2 DEF S!NextPass
  <2> QED BY <2>1, IdleFits DEF Moved, WorkType
<1>3. CASE p # NoUsage
  <2>1. closing = "open" BY <1>3 DEF S!Taken
  <2>2. S!Pass(p) /\ pending' = NoUsage BY <1>3 DEF S!NextPass
  <2> HIDE DEF p
  <2> QED BY <1>1, <2>1, <2>2, PassMoves
<1> QED BY <1>2, <1>3

LEMMA RefreshMoves ==
  ASSUME WorkType, fullDue' \in BOOLEAN, NEW w \in Wishes \cup {NoUsage}, S!Refresh(w)
  PROVE  /\ (Moved /\ asking.pc = "idle") \/ (asking' = asking /\ init' = init)
         /\ pending' \in Wishes \cup {NoUsage}
<1>1. CASE S!Taken(w) = NoUsage BY <1>1 DEF S!Refresh, WorkType
<1>2. CASE S!Taken(w) # NoUsage /\ asking.pc = "idle"
  <2>1. closing = "open" BY <1>2 DEF S!Taken
  <2>2. S!Pass(w) /\ pending' = pending BY <1>2 DEF S!Refresh
  <2> QED BY <1>2, <2>1, <2>2, PassMoves DEF WorkType
<1>3. CASE S!Taken(w) # NoUsage /\ asking.pc # "idle"
  <2>1. pending' = S!Merged(pending, w) /\ asking' = asking /\ init' = init
    BY <1>3 DEF S!Refresh
  <2> QED BY <2>1, MergedFits DEF WorkType
<1> QED BY <1>1, <1>2, <1>3

\* After a request has ended nobody waits for an answer, and who waits for the exit of a child
\* does so still.
Ended ==
  /\ asking' \in Passes /\ init' \in Initialisations /\ pending' \in Wishes \cup {NoUsage}
  /\ init'.pc # "wait" /\ asking'.pc # "wait"
  /\ init'.pc = "exit" => init' = init
  /\ asking'.pc = "exit" => asking' = asking
  /\ asking'.pc \in {"probe", "retire", "exit"} => initialized'
  /\ initialized' => init'.pc = "idle"
  /\ closing \in {"flush", "exit", "done"} => init'.pc = "idle" /\ asking'.pc = "idle"

LEMMA EndedFits ==
  ASSUME ServiceInv, Ended, UNCHANGED <<viewThread, switches>>,
         service' = NoUsage \/ service'.req = NoUsage,
         closing' \in {"flush", "exit", "done"} => closing \in {"flush", "exit", "done"}
  PROVE  OneAtATime' /\ AskedForTheTask'
<1>1. OneAtATime' BY DEF OneAtATime, Ended, Asks
<1>2. ForTheTask(init)' BY DEF Ended, ForTheTask, ServiceInv, AskedForTheTask
<1>3. ForTheTask(asking)' BY DEF Ended, ForTheTask, ServiceInv, AskedForTheTask
<1>4. AskedForTheTask' BY <1>2, <1>3 DEF AskedForTheTask, Asks
<1> QED BY <1>1, <1>4

\* Where the request was the loop's, the next pass begins; where it was that of the
\* initialisation, the loop still waits for it.
LEMMA MovedEnds ==
  ASSUME ServiceInv, Moved, pending' \in Wishes \cup {NoUsage}, initialized' = initialized,
         asking.pc = "wait" \/ (asking.pc = "idle" /\ ~Asks("init"))
  PROVE  Ended
  BY DEF Moved, Ended, ServiceInv, OneAtATime, WorkType

LEMMA RejectedEnds ==
  ASSUME ServiceInv, service # NoUsage, NEW w \in Wishes \cup {NoUsage},
         fullDue' = fullDue, initialized' = initialized,
         S!Rejected(service, w)
  PROVE  Ended
<1>1. fullDue' \in BOOLEAN /\ WorkType BY DEF ServiceInv, FlagsType
<1>2. CASE service.req = NoUsage
  <2>1. S!Refresh(w) BY <1>2 DEF S!Rejected
  <2>2. pending' \in Wishes \cup {NoUsage} BY <1>1, <2>1, RefreshMoves
  <2>3. CASE Moved /\ asking.pc = "idle"
    <3>1. ~Asks("init") BY <1>2 DEF Asks
    <3> QED BY <2>2, <2>3, <3>1, MovedEnds
  <2>4. CASE asking' = asking /\ init' = init
    BY <1>2, <2>2, <2>4 DEF Ended, ServiceInv, OneAtATime, WorkType, Asks
  <2> QED BY <1>1, <2>1, <2>3, <2>4, RefreshMoves
<1>3. CASE service.req # NoUsage /\ service.req.what = "init"
  <2>1. /\ init' = S!Resting
        /\ asking' = IF asking.pc = "idle" /\ S!Taken(w) # NoUsage THEN S!Joining(w) ELSE asking
        /\ pending' = IF asking.pc = "idle" THEN pending ELSE S!Merged(pending, S!Taken(w))
    BY <1>3 DEF S!Rejected
  <2>2. pending' \in Wishes \cup {NoUsage} BY <2>1, MergedFits DEF S!Taken, ServiceInv, WorkType
  <2>3. S!Joining(w) \in Passes /\ S!Joining(w).pc = "init" BY DEF S!Joining, S!Idle, Passes
  <2>4. Asks("init") /\ init.pc = "wait" /\ ~Asks("refresh")
    BY <1>3 DEF Asks, ServiceInv, OneAtATime
  <2> QED
    BY <2>1, <2>2, <2>3, <2>4, IdleFits DEF Ended, ServiceInv, OneAtATime, WorkType, S!Taken
<1>4. CASE service.req # NoUsage /\ service.req.what = "refresh"
  <2>1. S!NextPass(w) BY <1>4, Zenon DEF S!Rejected
  <2>2. Asks("refresh") /\ asking.pc = "wait" BY <1>4 DEF Asks, ServiceInv, OneAtATime
  <2> QED BY <1>1, <2>1, <2>2, NextPassMoves, MovedEnds
<1>5. CASE service.req # NoUsage /\ service.req.what \notin {"init", "refresh"}
  <2>1. asking' = asking /\ init' = init /\ pending' = pending BY <1>5 DEF S!Rejected
  <2>2. ~Asks("init") /\ ~Asks("refresh") BY <1>5 DEF Asks
  <2> QED BY <2>1, <2>2 DEF Ended, ServiceInv, OneAtATime, WorkType
<1> QED BY <1>2, <1>3, <1>4, <1>5

\* What a rejection shows: the error, or what was shown before.
LEMMA RejectedShows ==
  ASSUME ServiceInv, NEW w, S!Rejected(service, w)
  PROVE  /\ view' = view \/ view' = [view EXCEPT !.status = "error"]
         /\ UNCHANGED <<cached, known, fullDue, initialized>>
         /\ scheduled' \in Timers \cup {NoUsage}
<1>1. S!Wish(FALSE, TRUE) \in Wishes BY WishFits
<1>2. S!Scheduled(scheduled, S!Wish(FALSE, TRUE), FALSE) \in Timers \cup {NoUsage}
  BY <1>1, ScheduledFits DEF ServiceInv, WorkType
<1>3. /\ view' = view \/ S!Failed
      /\ UNCHANGED <<cached, known, snapshot, S!settings>>
      /\ scheduled' = scheduled \/ scheduled' = S!Scheduled(scheduled, S!Wish(FALSE, TRUE), FALSE)
  BY Zenon DEF S!Rejected, S!LoopRejected
<1> QED BY <1>2, <1>3 DEF S!Failed, S!settings, ServiceInv, WorkType

LEMMA ListedFits ==
  ASSUME S!ServiceConstants, NEW t, NEW r \in [Turns -> S!Versions], NEW p \in S!Prices
  PROVE  S!Listed(t, r, p) \in Contents
<1>1. <<0, 0>> \in S!Content BY DEF S!Content, S!Versions, S!Prices, S!ServiceConstants
<1>2. ASSUME NEW x \in Turns PROVE <<r[x], p>> \in S!Content BY DEF S!Content
<1> HIDE DEF S!Content
<1> QED BY <1>1, <1>2 DEF S!Listed, Contents, S!Nothing

LEMMA AppliedFits ==
  ASSUME S!ServiceConstants, ShownType, NEW a \in S!Answers,
         NEW base \in [Threads -> Contents \cup {NoUsage}],
         S!Apply(a, base), viewThread' = viewThread, a.thread = viewThread
  PROVE  ShownType' /\ view'.thread = viewThread'
<1>1. /\ a.read \in [Turns -> S!Versions] /\ a.price \in S!Prices /\ a.status \in {"ready", "error"}
  BY DEF S!Answers
<1>2. S!Delta(a).known \in Contents BY <1>1, ListedFits DEF S!Delta
<1>3. known' \in Contents BY <1>2 DEF S!Apply
<1>4. /\ S!Rebuilt(a) \in ViewsOfClient /\ S!Rebuilt(a).thread = viewThread
      /\ S!Rebuilt(a).turns \in Contents
  BY <1>1, <1>2 DEF S!Rebuilt, ViewsOfClient, ShownType
<1>5. view' = S!Rebuilt(a) BY DEF S!Apply
<1>6. cached' \in [Threads -> Contents \cup {NoUsage}] BY <1>4 DEF S!Apply
<1> QED BY <1>3, <1>4, <1>5, <1>6 DEF ShownType

\* The answer of a request is for the task in view, if the page has not gone to another since.
LEMMA AnswerIsForTheTask ==
  ASSUME ServiceInv, service # NoUsage, service.req # NoUsage, service.req.answer # NoUsage
  PROVE  /\ service.req.answer \in S!Answers
         /\ service.req.what = "init" /\ init.rev = switches
              => service.req.answer.thread = viewThread
         /\ service.req.what = "refresh" /\ asking.rev = switches
              => service.req.answer.thread = viewThread
<1>1. service \in S!Processes BY DEF ServiceInv, ProcessType
<1>2. service.req \in S!Requests BY <1>1 DEF S!Processes
<1>3. service.req.answer \in S!Answers BY <1>2 DEF S!Requests
<1>4. service.req.what = "init" => Asks("init") /\ init.pc = "wait"
  BY DEF Asks, ServiceInv, OneAtATime
<1>5. service.req.what = "refresh" => Asks("refresh") /\ asking.pc = "wait"
  BY DEF Asks, ServiceInv, OneAtATime
<1> QED BY <1>3, <1>4, <1>5 DEF ServiceInv, AskedForTheTask, ForTheTask

\* An initialisation that is answered or has failed.
LEMMA InitEnds ==
  ASSUME ServiceInv, S!ServiceConstants, Asks("init"), viewThread' = viewThread,
         IF service.req.answer = NoUsage THEN S!InitRejected ELSE S!InitAnswered(service.req.answer)
  PROVE  /\ ShownType' /\ FlagsType' /\ scheduled' \in Timers \cup {NoUsage} /\ Ended
         /\ view'.thread # view.thread => view'.thread = viewThread'
<1>1. init.pc = "wait" /\ ~Asks("refresh") /\ asking.pc # "wait"
  BY DEF Asks, ServiceInv, OneAtATime
<1>2. CASE service.req.answer = NoUsage
  <2>1. /\ init' = S!Resting /\ view' = [view EXCEPT !.status = "error"]
        /\ UNCHANGED <<cached, known, fullDue, initialized, asking, pending, scheduled>>
    BY <1>2 DEF S!InitRejected, S!Failed, S!settings
  <2>2. view' \in ViewsOfClient /\ view'.thread = view.thread
    BY <2>1 DEF ServiceInv, ShownType, ViewsOfClient
  <2> QED
    BY <1>1, <2>1, <2>2, IdleFits
    DEF ServiceInv, ShownType, FlagsType, WorkType, OneAtATime, Ended
<1>3. CASE service.req.answer # NoUsage
  <2> DEFINE a == service.req.answer
  <2>1. a \in S!Answers /\ (init.rev = switches => a.thread = viewThread)
    BY <1>3, AnswerIsForTheTask DEF Asks
  <2>2. S!InitAnswered(a) BY <1>3
  <2> HIDE DEF a
  <2>3. /\ initialized' = TRUE /\ init' = S!Resting /\ fullDue' = S!Discovered(a)
        /\ asking' = asking /\ pending' = pending
    BY <2>2 DEF S!InitAnswered
  <2>4. Ended /\ FlagsType'
    BY <1>1, <2>3, <2>1, IdleFits
    DEF ServiceInv, FlagsType, WorkType, OneAtATime, Ended, S!Discovered, S!Answers
  <2>5. ShownType' /\ (view'.thread # view.thread => view'.thread = viewThread')
    <3>1. CASE init.rev # switches
      <4>1. UNCHANGED <<view, cached, known>> BY <2>2, <3>1 DEF S!InitAnswered
      <4> QED BY <4>1 DEF ServiceInv, ShownType
    <3>2. CASE init.rev = switches
      <4>1. S!Apply(a, cached) BY <2>2, <3>2 DEF S!InitAnswered
      <4>2. cached \in [Threads -> Contents \cup {NoUsage}] BY DEF ServiceInv, ShownType
      <4> QED BY <2>1, <3>2, <4>1, <4>2, AppliedFits DEF ServiceInv
    <3> QED BY <3>1, <3>2
  <2>6. scheduled' \in Timers \cup {NoUsage}
    <3>1. scheduled' = scheduled
            \/ scheduled' = S!Scheduled(scheduled, S!Wish(FALSE, TRUE), price # init.price)
      BY <2>2 DEF S!InitAnswered
    <3>2. S!Wish(FALSE, TRUE) \in Wishes BY WishFits
    <3>3. S!Scheduled(scheduled, S!Wish(FALSE, TRUE), price # init.price) \in Timers \cup {NoUsage}
      BY <3>2, ScheduledFits DEF ServiceInv, WorkType
    <3> QED BY <3>1, <3>3 DEF ServiceInv, WorkType
  <2> QED BY <2>4, <2>5, <2>6
<1> QED BY <1>2, <1>3

\* A refresh that is answered or has failed; the loop goes on.
LEMMA RefreshEnds ==
  ASSUME ServiceInv, S!ServiceConstants, Asks("refresh"), viewThread' = viewThread,
         IF service.req.answer = NoUsage THEN S!LoopRejected
         ELSE S!LoopAnswered(service.req.answer),
         S!NextPass(NoUsage)
  PROVE  /\ ShownType' /\ FlagsType' /\ scheduled' \in Timers \cup {NoUsage} /\ Ended
         /\ view'.thread # view.thread => view'.thread = viewThread'
<1>1. asking.pc = "wait" BY DEF ServiceInv, OneAtATime
<1>2. S!Wish(FALSE, TRUE) \in Wishes BY WishFits
<1>3. ASSUME NEW restart \in BOOLEAN
      PROVE  S!Scheduled(scheduled, S!Wish(FALSE, TRUE), restart) \in Timers \cup {NoUsage}
  BY <1>2, ScheduledFits DEF ServiceInv, WorkType
<1>4. ASSUME FlagsType', initialized' = initialized PROVE Ended
  BY <1>1, <1>4, NextPassMoves, MovedEnds DEF ServiceInv, FlagsType
<1>5. CASE service.req.answer = NoUsage
  <2>1. /\ view' = view \/ view' = [view EXCEPT !.status = "error"]
        /\ UNCHANGED <<cached, known, fullDue, initialized>>
        /\ scheduled' = scheduled \/ scheduled' = S!Scheduled(scheduled, S!Wish(FALSE, TRUE), FALSE)
    BY <1>5 DEF S!LoopRejected, S!Failed, S!settings
  <2>2. view' \in ViewsOfClient /\ view'.thread = view.thread
    BY <2>1 DEF ServiceInv, ShownType, ViewsOfClient
  <2>3. scheduled' \in Timers \cup {NoUsage} BY <1>3, <2>1 DEF ServiceInv, WorkType
  <2> QED BY <1>4, <2>1, <2>2, <2>3 DEF ServiceInv, ShownType, FlagsType
<1>6. CASE service.req.answer # NoUsage
  <2> DEFINE a == service.req.answer
  <2>1. a \in S!Answers /\ (asking.rev = switches => a.thread = viewThread)
    BY <1>6, AnswerIsForTheTask DEF Asks
  <2>2. S!LoopAnswered(a) BY <1>6
  <2> HIDE DEF a
  <2>3. S!Base \in [Threads -> Contents \cup {NoUsage}] BY DEF S!Base, ServiceInv, ShownType
  <2>4. initialized' = initialized BY <2>2 DEF S!LoopAnswered
  <2>5. CASE asking.rev # switches
    <3>1. /\ scheduled' = S!Scheduled(scheduled, S!Wish(FALSE, TRUE), FALSE)
          /\ cached' = S!Base /\ UNCHANGED <<view, known, fullDue>>
      BY <2>2, <2>5 DEF S!LoopAnswered
    <3> QED BY <1>3, <1>4, <2>3, <2>4, <3>1 DEF ServiceInv, ShownType, FlagsType
  <2>6. CASE asking.rev = switches
    <3>1. /\ S!Apply(a, S!Base) /\ fullDue' = S!Discovered(a)
          /\ scheduled' = scheduled
               \/ scheduled' = S!Scheduled(scheduled, S!Wish(FALSE, TRUE), TRUE)
      BY <2>2, <2>6 DEF S!LoopAnswered
    <3>2. ShownType' /\ view'.thread = viewThread'
      BY <2>1, <2>3, <2>6, <3>1, AppliedFits DEF ServiceInv
    <3>3. FlagsType' BY <2>4, <3>1 DEF ServiceInv, FlagsType, S!Discovered
    <3>4. scheduled' \in Timers \cup {NoUsage} BY <1>3, <3>1 DEF ServiceInv, WorkType
    <3> QED BY <1>4, <2>4, <3>2, <3>3, <3>4
  <2> QED BY <2>5, <2>6
<1> QED BY <1>5, <1>6

\* A step that leaves the question that is asked alone, and moves only those who wait for none.
SameQuestion ==
  \/ service = NoUsage /\ service' = NoUsage
  \/ service # NoUsage /\ service' # NoUsage /\ service'.req = service.req

LEMMA QuestionStands ==
  ASSUME ServiceInv, SameQuestion, UNCHANGED <<viewThread, switches, initialized>>,
         init' = init \/ (init.pc = "idle" /\ init'.pc = "begin" /\ ~initialized),
         \/ asking' = asking
         \/ /\ asking.pc # "wait" /\ asking'.pc \in {"idle", "init", "probe", "retire"}
            /\ asking'.pc \in {"probe", "retire"} => initialized,
         closing' = closing \/ (closing = "open" /\ closing' = "waiting"),
         closing # "open" => init' = init /\ (asking' = asking \/ asking'.pc = "idle")
  PROVE  OneAtATime' /\ AskedForTheTask'
<1>1. ASSUME NEW what PROVE Asks(what)' <=> Asks(what) BY DEF SameQuestion, Asks
<1>2. OneAtATime'
  <2>1. (init'.pc = "wait") <=> (init.pc = "wait") OBVIOUS
  <2>2. (asking'.pc = "wait") <=> (asking.pc = "wait") OBVIOUS
  <2> QED BY <1>1, <2>1, <2>2 DEF ServiceInv, OneAtATime
<1>3. ForTheTask(init)' /\ ForTheTask(asking)'
  BY DEF ServiceInv, AskedForTheTask, ForTheTask
<1>4. Asks("init")' => service'.req.thread = init'.thread
  BY <1>1 DEF SameQuestion, Asks, ServiceInv, AskedForTheTask, OneAtATime
<1>5. Asks("refresh")' => service'.req.thread = asking'.thread
  BY <1>1 DEF SameQuestion, Asks, ServiceInv, AskedForTheTask, OneAtATime
<1>6. (service' # NoUsage /\ service'.req # NoUsage /\ service'.req.answer # NoUsage)
        => service'.req.answer.thread = service'.req.thread
  BY DEF SameQuestion, ServiceInv, AskedForTheTask
<1> QED BY <1>2, <1>3, <1>4, <1>5, <1>6 DEF AskedForTheTask

\* A step of the client or of a timer that touches neither files nor what is shown.
LEMMA FilesStand ==
  ASSUME FilesType, UNCHANGED <<source, growths, price, read, switches, faults>>
  PROVE  FilesType'
  BY DEF FilesType

LEMMA ErrorFits ==
  ASSUME ShownType, UNCHANGED <<viewThread, cached, known>>,
         view' = view \/ view' = [view EXCEPT !.status = "error"]
  PROVE  ShownType' /\ view'.thread = view.thread
  BY DEF ShownType, ViewsOfClient

\* The page changes to another task only by showing the one in view.
InView == view'.thread # view.thread => view'.thread = viewThread'

LEMMA InitAsksFits ==
  ASSUME S!ServiceConstants, ServiceInv, S!InitAsks PROVE ServiceInv' /\ InView
<1>1. /\ init.pc = "begin" /\ ~initialized /\ asking.pc \in {"idle", "init"}
      /\ ~Asks("init") /\ ~Asks("refresh") /\ (Asks("flush") => closing = "flush")
  BY DEF S!InitAsks, ServiceInv, OneAtATime, WorkType, Passes
<1>2. /\ UNCHANGED <<source, growths, price, read, viewThread, switches, cached, known, fullDue,
                     initialized, asking, pending, scheduled, parked, closing, faults>>
  BY DEF S!InitAsks, S!files, S!settings
<1>3. FilesType' BY <1>2, FilesStand DEF ServiceInv
<1>4. CASE closing # "open"
  <2>1. init' = S!Resting /\ S!Failed /\ UNCHANGED <<service, children>>
    BY <1>4 DEF S!InitAsks
  <2>2. ShownType' /\ InView BY <1>2, <2>1, ErrorFits DEF S!Failed, InView, ServiceInv
  <2>3. OneAtATime' BY <1>1, <1>2, <2>1, IdleFits DEF ServiceInv, OneAtATime, Asks
  <2>4. AskedForTheTask'
    BY <1>1, <1>2, <2>1, IdleFits DEF ServiceInv, AskedForTheTask, Asks, ForTheTask
  <2> QED
    BY <1>2, <1>3, <2>1, <2>2, <2>3, <2>4, IdleFits
    DEF ServiceInv, ProcessType, FlagsType, WorkType, ClosingType
<1>5. CASE closing = "open"
  <2>1. /\ init' = [pc |-> IF S!Ending THEN "exit" ELSE "wait", thread |-> viewThread,
                    rev |-> switches, price |-> price]
        /\ view' = view
    BY <1>5 DEF S!InitAsks
  <2>2. /\ init' \in Initialisations /\ init'.rev = switches /\ init'.thread = viewThread
        /\ init'.pc = IF S!Ending THEN "exit" ELSE "wait"
    BY <2>1 DEF Initialisations, ServiceInv, FilesType, ShownType
  <2>3. ShownType' /\ InView BY <1>2, <2>1 DEF ServiceInv, ShownType, InView
  <2>4. ForTheTask(init)' BY <1>2, <2>2 DEF ForTheTask, ServiceInv, FilesType
  <2>5. ForTheTask(asking)' BY <1>2 DEF ForTheTask, ServiceInv, AskedForTheTask
  <2>6. ProcessType' /\ OneAtATime' /\ AskedForTheTask'
    <3>1. CASE S!Ending
      <4>1. UNCHANGED <<service, children>> BY <1>5, <3>1 DEF S!InitAsks
      <4> QED
        BY <1>1, <1>2, <1>5, <2>2, <2>4, <2>5, <3>1, <4>1
        DEF ServiceInv, ProcessType, OneAtATime, AskedForTheTask, Asks
    <3>2. CASE ~S!Ending
      <4>1. S!Ask("init", viewThread, TRUE) BY <1>5, <3>2 DEF S!InitAsks
      <4>2. /\ ProcessType' /\ service' # NoUsage /\ service'.req # NoUsage
            /\ service'.req.what = "init" /\ service'.req.thread = viewThread
            /\ service'.req.answer = NoUsage
        BY <4>1, AskedFits DEF ServiceInv, ShownType
      <4>3. OneAtATime'
        BY <1>1, <1>2, <1>5, <2>2, <3>2, <4>2 DEF ServiceInv, OneAtATime, Asks
      <4>4. AskedForTheTask' BY <2>2, <2>4, <2>5, <4>2 DEF AskedForTheTask, Asks
      <4> QED BY <4>2, <4>3, <4>4
    <3> QED BY <3>1, <3>2
  <2> QED
    BY <1>2, <1>3, <2>2, <2>3, <2>6 DEF ServiceInv, FlagsType, WorkType, ClosingType
<1> QED BY <1>4, <1>5

\* The request of a refresh.
LEMMA AskRefreshFits ==
  ASSUME S!ServiceConstants, ServiceInv, NEW changed \in BOOLEAN,
         asking.pc \in {"probe", "retire"}, S!AskRefresh(changed),
         UNCHANGED <<source, growths, price, read, viewThread, switches, cached, known, fullDue,
                     initialized, scheduled, parked, closing, faults>>
  PROVE  ServiceInv' /\ InView
<1>1. /\ initialized /\ init.pc = "idle"
      /\ ~Asks("init") /\ ~Asks("refresh") /\ (Asks("flush") => closing = "flush")
  BY DEF ServiceInv, OneAtATime
<1>2. FilesType' BY FilesStand DEF ServiceInv
<1>3. CASE closing # "open"
  <2>1. S!Failed /\ S!NextPass(NoUsage) /\ UNCHANGED <<service, children>>
    BY <1>3 DEF S!AskRefresh
  <2>2. ShownType' /\ InView BY <2>1, ErrorFits DEF S!Failed, InView, ServiceInv
  <2>3. Moved /\ pending' = NoUsage
    BY <2>1, NextPassMoves DEF ServiceInv, FlagsType
  <2>4. OneAtATime' /\ AskedForTheTask'
    BY <1>1, <1>3, <2>1, <2>3, QuestionStands DEF Moved, SameQuestion, ServiceInv, OneAtATime
  <2> QED
    BY <1>2, <2>1, <2>2, <2>3, <2>4
    DEF ServiceInv, ProcessType, FlagsType, WorkType, ClosingType, Moved
<1>4. CASE closing = "open"
  <2>1. /\ asking' = [S!Ready(changed) EXCEPT !.pc = IF S!Ending THEN "exit" ELSE "wait"]
        /\ UNCHANGED <<view, init, pending>>
    BY <1>4 DEF S!AskRefresh
  <2>2. /\ S!Ready(changed) \in Passes /\ S!Ready(changed).rev = switches
        /\ S!Ready(changed).thread = viewThread
    BY DEF S!Ready, Passes, ServiceInv, WorkType, FilesType, ShownType
  <2>3. /\ asking' \in Passes /\ asking'.rev = switches /\ asking'.thread = viewThread
        /\ asking'.pc = IF S!Ending THEN "exit" ELSE "wait"
    BY <2>1, <2>2 DEF Passes
  <2>4. ShownType' /\ InView BY <2>1 DEF ServiceInv, ShownType, InView
  <2>5. ForTheTask(asking)' BY <2>3 DEF ForTheTask, ServiceInv, FilesType
  <2>6. ForTheTask(init)' BY <2>1 DEF ForTheTask, ServiceInv, AskedForTheTask
  <2>7. ProcessType' /\ OneAtATime' /\ AskedForTheTask'
    <3>1. CASE S!Ending
      <4>1. UNCHANGED <<service, children>> BY <1>4, <3>1 DEF S!AskRefresh
      <4> QED
        BY <1>1, <1>4, <2>1, <2>3, <2>5, <2>6, <3>1, <4>1
        DEF ServiceInv, ProcessType, OneAtATime, AskedForTheTask, Asks
    <3>2. CASE ~S!Ending
      <4>1. S!Ask("refresh", viewThread, asking.wish.discover \/ asking.due)
        BY <1>4, <3>2 DEF S!AskRefresh
      <4>2. (asking.wish.discover \/ asking.due) \in BOOLEAN OBVIOUS
      <4>3. /\ ProcessType' /\ service' # NoUsage /\ service'.req # NoUsage
            /\ service'.req.what = "refresh" /\ service'.req.thread = viewThread
            /\ service'.req.answer = NoUsage
        BY <4>1, <4>2, AskedFits DEF ServiceInv, ShownType
      <4>4. OneAtATime'
        BY <1>1, <1>4, <2>1, <2>3, <3>2, <4>3 DEF ServiceInv, OneAtATime, Asks
      <4>5. AskedForTheTask' BY <2>3, <2>5, <2>6, <4>3 DEF AskedForTheTask, Asks
      <4> QED BY <4>3, <4>4, <4>5
    <3> QED BY <3>1, <3>2
  <2> QED
    BY <1>2, <2>1, <2>3, <2>4, <2>7 DEF ServiceInv, FlagsType, WorkType, ClosingType
<1> QED BY <1>3, <1>4

LEMMA ProbesFit ==
  ASSUME S!ServiceConstants, ServiceInv, S!LoopInitialized \/ S!Probed \/ S!LoopRetired
  PROVE  ServiceInv' /\ InView
<1>1. CASE S!LoopInitialized
  <2>1. /\ asking.pc = "init" /\ init.pc = "idle"
        /\ UNCHANGED <<source, growths, price, read, service, children, viewThread, switches, view,
                       cached, known, fullDue, initialized, scheduled, parked, closing, faults>>
    BY <1>1 DEF S!LoopInitialized, S!files, S!process, S!shown, S!settings
  <2>2. FilesType' BY <2>1, FilesStand DEF ServiceInv
  <2>3. /\ asking' \in Passes /\ init' \in Initialisations /\ pending' \in Wishes \cup {NoUsage}
        /\ asking'.pc \in {"idle", "init", "probe"} /\ (asking'.pc = "probe" => initialized)
        /\ init' = init \/ (init.pc = "idle" /\ init'.pc = "begin" /\ ~initialized)
        /\ closing # "open" => init' = init /\ asking'.pc = "idle"
    <3>1. CASE initialized /\ closing = "open"
      <4>1. asking' = S!Probing(asking.wish) /\ init' = init /\ pending' = pending
        BY <1>1, <3>1 DEF S!LoopInitialized
      <4>2. fullDue' \in BOOLEAN /\ asking.wish \in Wishes \cup {NoUsage}
        BY <2>1 DEF ServiceInv, FlagsType, WorkType, Passes
      <4>3. S!Probing(asking.wish) \in Passes /\ S!Probing(asking.wish).pc = "probe"
        BY <4>2 DEF S!Probing, S!Idle, Passes
      <4> QED BY <3>1, <4>1, <4>3 DEF ServiceInv, WorkType
    <3>2. CASE ~(initialized /\ closing = "open")
      <4>1. S!NextPass(NoUsage) BY <1>1, <3>2 DEF S!LoopInitialized
      <4> QED BY <2>1, <4>1, NextPassMoves DEF Moved, ServiceInv, FlagsType
    <3> QED BY <3>1, <3>2
  <2>4. SameQuestion BY <2>1 DEF SameQuestion
  <2>5. OneAtATime' /\ AskedForTheTask' BY <2>1, <2>3, <2>4, QuestionStands
  <2> QED
    BY <2>1, <2>2, <2>3, <2>5
    DEF ServiceInv, ProcessType, ShownType, FlagsType, WorkType, ClosingType, InView
<1>2. CASE S!Probed
  <2>1. /\ asking.pc = "probe"
        /\ UNCHANGED <<source, growths, price, read, viewThread, switches, cached, known, fullDue,
                       initialized, scheduled, parked, closing, faults>>
    BY <1>2 DEF S!Probed, S!files, S!settings
  <2>2. FilesType' BY <2>1, FilesStand DEF ServiceInv
  <2>3. initialized /\ init.pc = "idle" BY <2>1 DEF ServiceInv, OneAtATime
  <2>4. S!Changed \in BOOLEAN BY DEF S!Changed
  <2>5. \/ S!NextPass(NoUsage) /\ UNCHANGED <<service, children, view>>
        \/ /\ service # NoUsage
           /\ asking' = [asking EXCEPT !.pc = "retire", !.changed = S!Changed]
           /\ service' = S!Retired(service) /\ UNCHANGED <<children, view, init, pending>>
        \/ S!AskRefresh(S!Changed)
    BY <1>2, Zenon DEF S!Probed
  <2>6. CASE S!NextPass(NoUsage) /\ UNCHANGED <<service, children, view>>
    <3>1. Moved /\ pending' = NoUsage
      BY <2>1, <2>6, NextPassMoves DEF ServiceInv, FlagsType
    <3>2. OneAtATime' /\ AskedForTheTask'
      BY <2>1, <2>3, <2>6, <3>1, QuestionStands DEF Moved, SameQuestion
    <3> QED
      BY <2>1, <2>2, <2>6, <3>1, <3>2
      DEF ServiceInv, ProcessType, ShownType, FlagsType, WorkType, ClosingType, Moved, InView
  <2>7. CASE /\ service # NoUsage
             /\ asking' = [asking EXCEPT !.pc = "retire", !.changed = S!Changed]
             /\ service' = S!Retired(service) /\ UNCHANGED <<children, view, init, pending>>
    <3>1. asking' \in Passes /\ asking'.pc = "retire"
      BY <2>4, <2>7 DEF ServiceInv, WorkType, Passes
    <3>2. service' \in S!Processes /\ service' # NoUsage /\ service'.req = service.req
      BY <2>7, ChildFits DEF ServiceInv, ProcessType
    <3>3. SameQuestion BY <2>7, <3>2 DEF SameQuestion
    <3>4. OneAtATime' /\ AskedForTheTask'
      <4>1. ASSUME NEW what PROVE Asks(what)' <=> Asks(what) BY <3>3 DEF SameQuestion, Asks
      <4>2. closing \notin {"flush", "exit", "done"} BY <2>1 DEF ServiceInv, OneAtATime
      <4>3. OneAtATime'
        BY <2>1, <2>3, <2>7, <3>1, <4>1, <4>2 DEF ServiceInv, OneAtATime
      <4>4. AskedForTheTask'
        BY <2>1, <2>3, <2>7, <3>1, <3>2, <4>1
        DEF ServiceInv, OneAtATime, AskedForTheTask, ForTheTask, Asks
      <4> QED BY <4>3, <4>4
    <3> QED
      BY <2>1, <2>2, <2>7, <3>1, <3>2, <3>4
      DEF ServiceInv, ProcessType, ShownType, FlagsType, WorkType, ClosingType, InView
  <2>8. CASE S!AskRefresh(S!Changed) BY <2>1, <2>4, <2>8, AskRefreshFits
  <2> QED BY <2>5, <2>6, <2>7, <2>8
<1>3. CASE S!LoopRetired
  <2>1. /\ asking.pc = "retire" /\ S!AskRefresh(asking.changed)
        /\ UNCHANGED <<source, growths, price, read, viewThread, switches, cached, known, fullDue,
                       initialized, scheduled, parked, closing, faults>>
    BY <1>3 DEF S!LoopRetired, S!files, S!settings
  <2>2. asking.changed \in BOOLEAN BY DEF ServiceInv, WorkType, Passes
  <2> QED BY <2>1, <2>2, AskRefreshFits
<1> QED BY <1>1, <1>2, <1>3

\* The end of the wait for a child that was ending: the question of that time is asked.
LEMMA ExitAwaitedFits ==
  ASSUME S!ServiceConstants, ServiceInv, S!ExitAwaited PROVE ServiceInv' /\ InView
<1>1. UNCHANGED <<source, growths, price, read, viewThread, switches, view, cached, known, fullDue,
                  initialized, pending, scheduled, parked, closing, faults>>
  BY DEF S!ExitAwaited, S!files, S!shown, S!settings
<1>2. FilesType' BY <1>1, FilesStand DEF ServiceInv
<1>3. ShownType' /\ InView BY <1>1 DEF ServiceInv, ShownType, InView
<1>4. CASE /\ init.pc = "exit" /\ init' = [init EXCEPT !.pc = "wait"]
           /\ S!Ask("init", init.thread, TRUE) /\ asking' = asking
  <2>1. /\ init' \in Initialisations /\ init'.pc = "wait" /\ init'.rev = init.rev
        /\ init'.thread = init.thread /\ init.thread \in Threads \cup {NoUsage}
    BY <1>4 DEF ServiceInv, WorkType, Initialisations
  <2>2. /\ ProcessType' /\ service' # NoUsage /\ service'.req # NoUsage
        /\ service'.req.what = "init" /\ service'.req.thread = init.thread
        /\ service'.req.answer = NoUsage
    BY <1>4, <2>1, AskedFits DEF ServiceInv
  <2>3. ~initialized /\ closing \notin {"flush", "exit", "done"} /\ asking.pc \in {"idle", "init"}
    BY <1>4 DEF ServiceInv, OneAtATime, WorkType, Passes
  <2>4. OneAtATime' BY <1>1, <1>4, <2>1, <2>2, <2>3 DEF ServiceInv, OneAtATime, Asks
  <2>5. ForTheTask(init)' BY <1>1, <1>4, <2>1 DEF ServiceInv, AskedForTheTask, ForTheTask
  <2>6. ForTheTask(asking)' BY <1>1, <1>4 DEF ServiceInv, AskedForTheTask, ForTheTask
  <2>7. AskedForTheTask' BY <2>1, <2>2, <2>5, <2>6 DEF AskedForTheTask, Asks
  <2> QED
    BY <1>1, <1>2, <1>3, <1>4, <2>1, <2>2, <2>4, <2>7
    DEF ServiceInv, FlagsType, WorkType, ClosingType
<1>5. CASE /\ asking.pc = "exit" /\ asking' = [asking EXCEPT !.pc = "wait"]
           /\ S!Ask("refresh", asking.thread, asking.wish.discover \/ asking.due) /\ init' = init
  <2>1. /\ asking' \in Passes /\ asking'.pc = "wait" /\ asking'.rev = asking.rev
        /\ asking'.thread = asking.thread /\ asking.thread \in Threads \cup {NoUsage}
    BY <1>5 DEF ServiceInv, WorkType, Passes
  <2>2. (asking.wish.discover \/ asking.due) \in BOOLEAN OBVIOUS
  <2>3. /\ ProcessType' /\ service' # NoUsage /\ service'.req # NoUsage
        /\ service'.req.what = "refresh" /\ service'.req.thread = asking.thread
        /\ service'.req.answer = NoUsage
    BY <1>5, <2>1, <2>2, AskedFits DEF ServiceInv
  <2>4. initialized /\ closing \notin {"flush", "exit", "done"} /\ init.pc = "idle"
    BY <1>5 DEF ServiceInv, OneAtATime
  <2>5. OneAtATime' BY <1>1, <1>5, <2>1, <2>3, <2>4 DEF ServiceInv, OneAtATime, Asks
  <2>6. ForTheTask(asking)' BY <1>1, <1>5, <2>1 DEF ServiceInv, AskedForTheTask, ForTheTask
  <2>7. ForTheTask(init)' BY <1>1, <1>5 DEF ServiceInv, AskedForTheTask, ForTheTask
  <2>8. AskedForTheTask' BY <2>1, <2>3, <2>6, <2>7 DEF AskedForTheTask, Asks
  <2> QED
    BY <1>1, <1>2, <1>3, <1>5, <2>1, <2>3, <2>5, <2>8
    DEF ServiceInv, FlagsType, WorkType, ClosingType
<1> QED BY <1>4, <1>5 DEF S!ExitAwaited

\* An answer, or the failure that came in its place.
LEMMA ResponseFits ==
  ASSUME S!ServiceConstants, ServiceInv, S!Response PROVE ServiceInv' /\ InView
<1> DEFINE r == service.req
<1>1. /\ service # NoUsage /\ r # NoUsage /\ service \in S!Processes
      /\ UNCHANGED <<source, growths, price, read, children, viewThread, switches, parked, faults>>
  BY DEF S!Response, ServiceInv, ProcessType, S!files
<1>2. r.what \in {"init", "refresh", "flush"} BY <1>1 DEF S!Processes, S!Requests
<1>3. FilesType' BY <1>1, FilesStand DEF ServiceInv
<1>4. /\ S!Answered(service) \in S!Processes /\ S!Answered(service).req = NoUsage
      /\ S!Answered(service) # NoUsage
  BY <1>1, ChildFits
<1>5. CASE r.what \in {"init", "refresh"}
  <2>1. service' = S!Answered(service) /\ closing' = closing
    <3>1. CASE r.what = "init" BY <3>1, Zenon DEF S!Response
    <3>2. CASE r.what = "refresh" BY <3>2 DEF S!Response
    <3> QED BY <1>5, <3>1, <3>2
  <2>2. /\ ShownType' /\ FlagsType' /\ scheduled' \in Timers \cup {NoUsage} /\ Ended /\ InView
    <3>1. CASE r.what = "init"
      <4>1. IF r.answer = NoUsage THEN S!InitRejected ELSE S!InitAnswered(r.answer)
        BY <3>1, Zenon DEF S!Response
      <4>2. Asks("init") BY <1>1, <3>1 DEF Asks
      <4> QED BY <1>1, <4>1, <4>2, InitEnds DEF InView
    <3>2. CASE r.what = "refresh"
      <4>1. (IF r.answer = NoUsage THEN S!LoopRejected ELSE S!LoopAnswered(r.answer))
              /\ S!NextPass(NoUsage)
        BY <3>2 DEF S!Response
      <4>2. Asks("refresh") BY <1>1, <3>2 DEF Asks
      <4> QED BY <1>1, <4>1, <4>2, RefreshEnds DEF InView
    <3> QED BY <1>5, <3>1, <3>2
  <2>3. OneAtATime' /\ AskedForTheTask' BY <1>1, <1>4, <2>1, <2>2, EndedFits
  <2> QED
    BY <1>1, <1>3, <1>4, <2>1, <2>2, <2>3
    DEF ServiceInv, ProcessType, WorkType, ClosingType, Ended
<1>6. CASE r.what = "flush"
  <2>1. /\ service' = S!Retired(S!Answered(service)) /\ closing' = "exit"
        /\ UNCHANGED <<view, cached, known, fullDue, initialized, init, asking, pending, scheduled>>
    BY <1>6 DEF S!Response, S!settings
  <2>2. service' \in S!Processes /\ service'.req = NoUsage /\ service' # NoUsage
    BY <1>4, <2>1, ChildFits
  <2>3. Asks("flush") /\ closing = "flush" BY <1>1, <1>6 DEF Asks, ServiceInv, OneAtATime
  <2>4. Ended BY <2>1, <2>3 DEF ServiceInv, Ended, OneAtATime, WorkType
  <2>5. OneAtATime' /\ AskedForTheTask' BY <1>1, <2>2, <2>3, <2>4, EndedFits
  <2> QED
    BY <1>1, <1>3, <2>1, <2>2, <2>5
    DEF ServiceInv, ProcessType, ShownType, FlagsType, WorkType, ClosingType, InView
<1> QED BY <1>2, <1>5, <1>6

\* The service reads and answers the question it has, for the task that was asked about.
LEMMA ServiceReadsFits ==
  ASSUME S!ServiceConstants, ServiceInv, S!ServiceReads PROVE ServiceInv' /\ InView
<1> DEFINE r == service.req
           p == IF service.price = NoUsage THEN price ELSE service.price
<1>1. /\ service # NoUsage /\ r # NoUsage /\ service \in S!Processes
      /\ UNCHANGED <<source, growths, price, children, viewThread, switches, view, cached, known,
                     fullDue, initialized, init, asking, pending, scheduled, parked, closing>>
  BY DEF S!ServiceReads, ServiceInv, ProcessType, S!shown, S!settings, S!work
<1>2. r \in S!Requests BY <1>1 DEF S!Processes
<1>3. p \in S!Prices
  BY <1>1 DEF S!Processes, S!Prices, ServiceInv, FilesType, S!ServiceConstants
<1>4. ASSUME NEW now \in [Turns -> S!Versions], NEW status \in {"ready", "error"},
             NEW found1 \in BOOLEAN
      PROVE  /\ [thread |-> r.thread, read |-> now, price |-> p, status |-> status,
                 found |-> found1] \in S!Answers
             /\ [thread |-> r.thread, read |-> now, price |-> p, status |-> status,
                 found |-> found1].thread = r.thread
  BY <1>2, <1>3 DEF S!Answers, S!Requests
<1>5. ASSUME NEW all \in BOOLEAN PROVE S!Reading(all) \in [Turns -> S!Versions]
  <2>1. 0 \in S!Versions BY DEF S!Versions, S!ServiceConstants
  <2> QED BY <2>1 DEF S!Reading, ServiceInv, FilesType
<1>6. r.discover \in BOOLEAN BY <1>2 DEF S!Requests
<1>7. /\ read' \in [Turns -> S!Versions]
      /\ faults' = faults \/ (S!Eventful /\ faults' = faults + 1)
  <2>1. read' = read \/ \E all \in {TRUE, r.discover} : read' = S!Reading(all)
    BY Zenon DEF S!ServiceReads
  <2>2. faults' = faults \/ (S!Eventful /\ faults' = faults + 1)
    BY Zenon DEF S!ServiceReads
  <2> QED BY <1>5, <1>6, <2>1, <2>2 DEF ServiceInv, FilesType
<1> DEFINE Done(a) == [r EXCEPT !.state = "done", !.answer = a]
<1>8. \/ service' = [service EXCEPT !.req = [r EXCEPT !.state = "done"]] /\ r.what = "flush"
      \/ /\ r.what # "flush"
         /\ \E a \in S!Answers \cup {NoUsage} :
              /\ a # NoUsage => a.thread = r.thread
              /\ service' = [service EXCEPT !.price = p, !.req = Done(a)]
  <2>1. CASE r.what = "flush" BY <2>1, Zenon DEF S!ServiceReads
  <2>2. CASE r.what # "flush"
    <3>1. \/ \E all \in {TRUE, r.discover} :
               service' = [service EXCEPT !.price = p, !.req =
                             Done([thread |-> r.thread, read |-> S!Reading(all), price |-> p,
                                   status |-> "ready", found |-> r.discover /\ "ready" = "ready"])]
          \/ service' = [service EXCEPT !.price = p, !.req =
                           Done([thread |-> r.thread, read |-> read, price |-> p,
                                 status |-> "error", found |-> r.discover /\ "error" = "ready"])]
          \/ service' = [service EXCEPT !.price = p, !.req = Done(NoUsage)]
      BY <2>2, Zenon DEF S!ServiceReads
    <3> HIDE DEF Done, p
    <3>2. read \in [Turns -> S!Versions] BY DEF ServiceInv, FilesType
    <3>3. \A all \in {TRUE, r.discover} : S!Reading(all) \in [Turns -> S!Versions] BY <1>5, <1>6
    <3> QED BY <1>4, <1>6, <2>2, <3>1, <3>2, <3>3
  <2> QED BY <2>1, <2>2
<1>9. PICK q \in S!Requests, pp \in S!Prices \cup {NoUsage} :
        /\ service' = [service EXCEPT !.price = pp, !.req = q]
        /\ q.what = r.what /\ q.thread = r.thread /\ q # NoUsage
        /\ q.answer # NoUsage => q.answer.thread = q.thread
  <2>1. CASE service' = [service EXCEPT !.req = [r EXCEPT !.state = "done"]]
    <3> DEFINE q == [r EXCEPT !.state = "done"]
    <3>1. /\ q \in S!Requests /\ q.what = r.what /\ q.thread = r.thread /\ q.answer = r.answer
      BY <1>2 DEF S!Requests
    <3>2. q # NoUsage BY <3>1 DEF S!ServiceConstants
    <3>3. service.price \in S!Prices \cup {NoUsage} BY <1>1 DEF S!Processes
    <3>4. service' = [service EXCEPT !.price = service.price, !.req = q]
      <4> HIDE DEF q
      <4> QED BY <1>1, <2>1 DEF S!Processes, q
    <3>5. r.answer # NoUsage => r.answer.thread = r.thread
      BY <1>1 DEF ServiceInv, AskedForTheTask
    <3> HIDE DEF q
    <3> QED BY <3>1, <3>2, <3>3, <3>4, <3>5
  <2>2. ASSUME NEW a \in S!Answers \cup {NoUsage}, a # NoUsage => a.thread = r.thread,
               service' = [service EXCEPT !.price = p, !.req = Done(a)]
        PROVE  \E q \in S!Requests, pp \in S!Prices \cup {NoUsage} :
                 /\ service' = [service EXCEPT !.price = pp, !.req = q]
                 /\ q.what = r.what /\ q.thread = r.thread /\ q # NoUsage
                 /\ q.answer # NoUsage => q.answer.thread = q.thread
    <3> HIDE DEF p
    <3>1. /\ Done(a) \in S!Requests /\ Done(a).what = r.what /\ Done(a).thread = r.thread
          /\ Done(a).answer = a
      <4> HIDE DEF r
      <4> QED BY <1>2 DEF S!Requests
    <3>2. Done(a) # NoUsage BY <3>1 DEF S!ServiceConstants
    <3> HIDE DEF Done
    <3> QED BY <1>3, <2>2, <3>1, <3>2
  <2> QED BY <1>8, <2>1, <2>2
<1>10. service' \in S!Processes /\ service' # NoUsage /\ service'.req = q
  BY <1>1, <1>9 DEF S!Processes, S!ServiceConstants
<1>11. ProcessType' BY <1>1, <1>10 DEF ServiceInv, ProcessType
<1>12. ASSUME NEW what PROVE Asks(what)' <=> Asks(what) BY <1>1, <1>9, <1>10 DEF Asks
<1>13. OneAtATime' BY <1>1, <1>12 DEF ServiceInv, OneAtATime
<1>14. ForTheTask(init)' /\ ForTheTask(asking)'
  BY <1>1 DEF ServiceInv, AskedForTheTask, ForTheTask
<1>15. AskedForTheTask'
  BY <1>1, <1>9, <1>10, <1>12, <1>14 DEF ServiceInv, AskedForTheTask, Asks
<1>16. FilesType'
  <2>1. faults' \in Nat /\ price + switches + faults' <= MaxEvents
    BY <1>7 DEF ServiceInv, FilesType, S!Eventful, S!ServiceConstants
  <2> QED BY <1>1, <1>7, <2>1 DEF ServiceInv, FilesType
<1> QED
  BY <1>1, <1>11, <1>13, <1>15, <1>16
  DEF ServiceInv, ShownType, FlagsType, WorkType, ClosingType, InView

\* A wish for a refresh, of a timer or of the poll.
LEMMA RefreshFits ==
  ASSUME S!ServiceConstants, ServiceInv, NEW w \in Wishes \cup {NoUsage}, S!Refresh(w),
         UNCHANGED <<source, growths, price, read, service, children, viewThread, switches, view,
                     cached, known, fullDue, initialized, parked, closing, faults>>,
         scheduled' \in Timers \cup {NoUsage}
  PROVE  ServiceInv' /\ InView
<1>1. FilesType' BY FilesStand DEF ServiceInv
<1>2. /\ (Moved /\ asking.pc = "idle") \/ (asking' = asking /\ init' = init)
      /\ pending' \in Wishes \cup {NoUsage}
  BY RefreshMoves DEF ServiceInv, FlagsType
<1>3. asking' \in Passes /\ init' \in Initialisations
  BY <1>2 DEF Moved, ServiceInv, WorkType
<1>4. SameQuestion BY DEF SameQuestion
<1>5. OneAtATime' /\ AskedForTheTask' BY <1>2, <1>4, QuestionStands DEF Moved
<1> QED
  BY <1>1, <1>2, <1>3, <1>5
  DEF ServiceInv, ProcessType, ShownType, FlagsType, WorkType, ClosingType, InView

LEMMA TimersFit ==
  ASSUME S!ServiceConstants, ServiceInv, S!Fires \/ S!Poll \/ S!DiscoveryDue \/ S!ServiceIdles
  PROVE  ServiceInv' /\ InView
<1>1. CASE S!Fires
  <2>1. /\ scheduled # NoUsage /\ scheduled' = NoUsage
        /\ UNCHANGED <<source, growths, price, read, children, viewThread, switches, view, cached,
                       known, fullDue, initialized, closing, faults>>
    BY <1>1 DEF S!Fires, S!files, S!shown, S!settings
  <2>2. scheduled.wish \in Wishes \cup {NoUsage} BY <2>1 DEF ServiceInv, WorkType, Timers
  <2>3. CASE scheduled.restart /\ service # NoUsage
    <3>1. /\ service' = S!Retired(service) /\ parked' = S!Merged(parked, scheduled.wish)
          /\ UNCHANGED <<asking, pending, init>>
      BY <1>1, <2>3 DEF S!Fires
    <3>2. service' \in S!Processes /\ service' # NoUsage /\ service'.req = service.req
      BY <2>3, <3>1, ChildFits DEF ServiceInv, ProcessType
    <3>3. parked' \in Wishes \cup {NoUsage} BY <2>2, <3>1, MergedFits DEF ServiceInv, WorkType
    <3>4. SameQuestion BY <2>3, <3>2 DEF SameQuestion
    <3>5. OneAtATime' /\ AskedForTheTask' BY <2>1, <3>1, <3>4, QuestionStands
    <3>6. FilesType' BY <2>1, FilesStand DEF ServiceInv
    <3> QED
      BY <2>1, <2>3, <3>1, <3>2, <3>3, <3>5, <3>6
      DEF ServiceInv, ProcessType, ShownType, FlagsType, WorkType, ClosingType, InView
  <2>4. CASE ~(scheduled.restart /\ service # NoUsage)
    <3>1. S!Refresh(scheduled.wish) /\ UNCHANGED <<service, parked>> BY <1>1, <2>4 DEF S!Fires
    <3> QED BY <2>1, <2>2, <3>1, RefreshFits
  <2> QED BY <2>3, <2>4
<1>2. CASE S!Poll
  <2>1. /\ S!Refresh(S!Wish(FALSE, FALSE))
        /\ UNCHANGED <<source, growths, price, read, service, children, viewThread, switches, view,
                       cached, known, fullDue, initialized, scheduled, parked, closing, faults>>
    BY <1>2 DEF S!Poll, S!files, S!process, S!shown, S!settings
  <2>2. S!Wish(FALSE, FALSE) \in Wishes BY WishFits
  <2>3. scheduled' \in Timers \cup {NoUsage} BY <2>1 DEF ServiceInv, WorkType
  <2> QED BY <2>1, <2>2, <2>3, RefreshFits
<1>3. CASE S!DiscoveryDue
  <2>1. /\ fullDue' = TRUE
        /\ UNCHANGED <<source, growths, price, read, service, children, viewThread, switches, view,
                       cached, known, initialized, init, asking, pending, scheduled, parked,
                       closing, faults>>
    BY <1>3 DEF S!DiscoveryDue, S!files, S!process, S!shown, S!work
  <2>2. FilesType' BY <2>1, FilesStand DEF ServiceInv
  <2>3. SameQuestion BY <2>1 DEF SameQuestion
  <2>4. OneAtATime' /\ AskedForTheTask' BY <2>1, <2>3, QuestionStands
  <2> QED
    BY <2>1, <2>2, <2>4
    DEF ServiceInv, ProcessType, ShownType, FlagsType, WorkType, ClosingType, InView
<1>4. CASE S!ServiceIdles
  <2>1. /\ service # NoUsage /\ service' = S!Retired(service)
        /\ UNCHANGED <<source, growths, price, read, children, viewThread, switches, view, cached,
                       known, fullDue, initialized, init, asking, pending, scheduled, parked,
                       closing, faults>>
    BY <1>4 DEF S!ServiceIdles, S!files, S!shown, S!settings, S!work
  <2>2. FilesType' BY <2>1, FilesStand DEF ServiceInv
  <2>3. service' \in S!Processes /\ service' # NoUsage /\ service'.req = service.req
    BY <2>1, ChildFits DEF ServiceInv, ProcessType
  <2>4. SameQuestion BY <2>1, <2>3 DEF SameQuestion
  <2>5. OneAtATime' /\ AskedForTheTask' BY <2>1, <2>4, QuestionStands
  <2> QED
    BY <2>1, <2>2, <2>3, <2>5
    DEF ServiceInv, ProcessType, ShownType, FlagsType, WorkType, ClosingType, InView
<1> QED BY <1>1, <1>2, <1>3, <1>4

\* The end of the child rejects what it was asked.
LEMMA GoneFits ==
  ASSUME S!ServiceConstants, ServiceInv, service # NoUsage, S!Gone, FilesType'
  PROVE  ServiceInv' /\ InView
<1>1. /\ service' = NoUsage /\ children' = children - 1 /\ S!Rejected(service, parked)
      /\ parked' = NoUsage
      /\ closing' = IF closing \in {"flush", "exit"} THEN "done" ELSE closing
      /\ UNCHANGED <<viewThread, switches>>
  BY DEF S!Gone
<1>2. parked \in Wishes \cup {NoUsage} BY DEF ServiceInv, WorkType
<1>3. /\ view' = view \/ view' = [view EXCEPT !.status = "error"]
      /\ UNCHANGED <<cached, known, fullDue, initialized>>
      /\ scheduled' \in Timers \cup {NoUsage}
  BY <1>1, RejectedShows
<1>4. Ended BY <1>1, <1>2, <1>3, RejectedEnds
<1>5. ShownType' /\ view'.thread = view.thread BY <1>1, <1>3, ErrorFits DEF ServiceInv
<1>6. OneAtATime' /\ AskedForTheTask'
  <2>1. closing' \in {"flush", "exit", "done"} => closing \in {"flush", "exit", "done"} BY <1>1
  <2> QED BY <1>1, <1>4, <2>1, EndedFits
<1>7. ProcessType' BY <1>1 DEF ServiceInv, ProcessType
<1>8. ClosingType' BY <1>1 DEF ServiceInv, ClosingType
<1> QED
  BY <1>1, <1>3, <1>4, <1>5, <1>6, <1>7, <1>8 DEF ServiceInv, FlagsType, WorkType, Ended, InView

\* One of the counted events happens.
LEMMA FaultFits ==
  ASSUME S!ServiceConstants, FilesType, S!Eventful, faults' = faults + 1,
         UNCHANGED <<source, growths, price, switches>>, read' \in [Turns -> S!Versions]
  PROVE  FilesType'
<1>1. faults' \in Nat /\ price + switches + faults' <= MaxEvents
  BY DEF FilesType, S!Eventful, S!ServiceConstants
<1> QED BY <1>1 DEF FilesType

LEMMA EndsFit ==
  ASSUME S!ServiceConstants, ServiceInv, S!ServiceExits \/ S!ServiceCrashes
  PROVE  ServiceInv' /\ InView
<1>1. CASE S!ServiceExits
  <2>1. /\ service # NoUsage /\ S!Gone
        /\ UNCHANGED <<source, growths, price, switches, read, faults>>
    BY <1>1 DEF S!ServiceExits, S!Gone
  <2>2. FilesType' BY <2>1, FilesStand DEF ServiceInv
  <2> QED BY <2>1, <2>2, GoneFits
<1>2. CASE S!ServiceCrashes
  <2>1. /\ service # NoUsage /\ S!Gone /\ S!Eventful /\ faults' = faults + 1
        /\ read' \in {read, [x \in Turns |-> 0]}
        /\ UNCHANGED <<source, growths, price, switches>>
    BY <1>2 DEF S!ServiceCrashes, S!Gone
  <2>2. 0 \in S!Versions BY DEF S!Versions, S!ServiceConstants
  <2>3. read' \in [Turns -> S!Versions] BY <2>1, <2>2 DEF ServiceInv, FilesType
  <2>4. FilesType' BY <2>1, <2>3, FaultFits DEF ServiceInv
  <2> QED BY <2>1, <2>4, GoneFits
<1> QED BY <1>1, <1>2

LEMMA RequestFailsFits ==
  ASSUME S!ServiceConstants, ServiceInv, S!RequestFails PROVE ServiceInv' /\ InView
<1> DEFINE s == [service EXCEPT !.req = NoUsage, !.killed = TRUE]
<1>1. /\ service # NoUsage /\ service.req # NoUsage /\ S!Eventful /\ faults' = faults + 1
      /\ S!Rejected(service, NoUsage)
      /\ IF service.req.what = "flush"
         THEN service' = S!Retired(s) /\ closing' = "exit"
         ELSE service' = s /\ closing' = closing
      /\ UNCHANGED <<source, growths, price, read, children, viewThread, switches, parked>>
  BY DEF S!RequestFails, S!files
<1>2. s \in S!Processes /\ s.req = NoUsage BY <1>1, ChildFits DEF ServiceInv, ProcessType
<1> HIDE DEF s
<1>3. service' \in S!Processes /\ service'.req = NoUsage BY <1>1, <1>2, ChildFits
<1>4. service' # NoUsage BY <1>3, ChildFits
<1>5. /\ view' = view \/ view' = [view EXCEPT !.status = "error"]
      /\ UNCHANGED <<cached, known, fullDue, initialized>>
      /\ scheduled' \in Timers \cup {NoUsage}
  BY <1>1, RejectedShows
<1>6. Ended BY <1>1, <1>5, RejectedEnds
<1>7. ShownType' /\ view'.thread = view.thread BY <1>1, <1>5, ErrorFits DEF ServiceInv
<1>8. service.req.what = "flush" => closing = "flush"
  BY <1>1 DEF Asks, ServiceInv, OneAtATime
<1>9. OneAtATime' /\ AskedForTheTask'
  <2>1. closing' \in {"flush", "exit", "done"} => closing \in {"flush", "exit", "done"}
    BY <1>1, <1>8
  <2> QED BY <1>1, <1>3, <1>6, <2>1, EndedFits
<1>10. ProcessType' BY <1>1, <1>3, <1>4 DEF ServiceInv, ProcessType
<1>11. ClosingType' BY <1>1 DEF ServiceInv, ClosingType
<1>12. FilesType'
  <2>1. read' \in [Turns -> S!Versions] BY <1>1 DEF ServiceInv, FilesType
  <2> QED BY <1>1, <2>1, FaultFits DEF ServiceInv
<1> QED
  BY <1>1, <1>5, <1>6, <1>7, <1>9, <1>10, <1>11, <1>12
  DEF ServiceInv, FlagsType, WorkType, Ended, InView

LEMMA ClosingFits ==
  ASSUME S!ServiceConstants, ServiceInv, S!Close \/ S!ShutsDown PROVE ServiceInv' /\ InView
<1>1. CASE S!Close
  <2>1. /\ closing = "open" /\ closing' = "waiting" /\ pending' = NoUsage /\ scheduled' = NoUsage
        /\ UNCHANGED <<source, growths, price, read, service, children, viewThread, switches, view,
                       cached, known, fullDue, initialized, init, asking, parked, faults>>
    BY <1>1 DEF S!Close, S!files, S!process, S!shown, S!settings
  <2>2. FilesType' BY <2>1, FilesStand DEF ServiceInv
  <2>3. SameQuestion BY <2>1 DEF SameQuestion
  <2>4. OneAtATime' /\ AskedForTheTask' BY <2>1, <2>3, QuestionStands
  <2> QED
    BY <2>1, <2>2, <2>4
    DEF ServiceInv, ProcessType, ShownType, FlagsType, WorkType, ClosingType, InView
<1>2. CASE S!ShutsDown
  <2>1. /\ closing = "waiting" /\ init.pc = "idle" /\ asking.pc = "idle"
        /\ UNCHANGED <<source, growths, price, read, viewThread, switches, view, cached, known,
                       fullDue, initialized, init, asking, pending, scheduled, parked, faults>>
    BY <1>2 DEF S!ShutsDown, S!files, S!shown, S!settings, S!work
  <2>2. ~Asks("init") /\ ~Asks("refresh") /\ ~Asks("flush")
    BY <2>1 DEF ServiceInv, OneAtATime
  <2>3. FilesType' BY <2>1, FilesStand DEF ServiceInv
  <2>4. ForTheTask(init)' /\ ForTheTask(asking)' BY <2>1 DEF ForTheTask
  <2>5. CASE closing' \in {"done", "exit"} /\ UNCHANGED <<service, children>>
    <3>1. OneAtATime' BY <2>1, <2>2, <2>5 DEF ServiceInv, OneAtATime, Asks
    <3>2. AskedForTheTask' BY <2>2, <2>4, <2>5 DEF ServiceInv, AskedForTheTask, Asks
    <3> QED
      BY <2>1, <2>3, <2>5, <3>1, <3>2
      DEF ServiceInv, ProcessType, ShownType, FlagsType, WorkType, ClosingType, InView
  <2>6. CASE closing' = "flush" /\ S!Ask("flush", NoUsage, FALSE)
    <3>1. /\ ProcessType' /\ service' # NoUsage /\ service'.req # NoUsage
          /\ service'.req.what = "flush" /\ service'.req.thread = NoUsage
          /\ service'.req.answer = NoUsage
      BY <2>6, AskedFits DEF ServiceInv
    <3>2. OneAtATime' BY <2>1, <2>6, <3>1 DEF ServiceInv, OneAtATime, Asks
    <3>3. AskedForTheTask' BY <2>4, <3>1 DEF AskedForTheTask, Asks
    <3> QED
      BY <2>1, <2>3, <2>6, <3>1, <3>2, <3>3
      DEF ServiceInv, ShownType, FlagsType, WorkType, ClosingType, InView
  <2> QED BY <1>2, <2>5, <2>6 DEF S!ShutsDown
<1> QED BY <1>1, <1>2

\* A task seen before is shown at once; what was asked for another one is answered late.
LEMMA SwitchFits ==
  ASSUME S!ServiceConstants, ServiceInv, NEW t \in Threads, S!SwitchTo(t)
  PROVE  ServiceInv' /\ InView
<1>1. /\ viewThread' = t /\ switches' = switches + 1 /\ S!Eventful
      /\ view' = IF cached[t] = NoUsage THEN view
                 ELSE [thread |-> t, turns |-> cached[t], status |-> "ready"]
      /\ UNCHANGED <<source, growths, price, read, service, children, cached, known, fullDue,
                     initialized, init, asking, pending, parked, closing, faults>>
  BY DEF S!SwitchTo, S!files, S!process, S!settings
<1>2. scheduled' \in Timers \cup {NoUsage}
  <2>1. S!Wish(FALSE, cached[t] = NoUsage) \in Wishes BY WishFits
  <2>2. S!Scheduled(scheduled, S!Wish(FALSE, cached[t] = NoUsage), FALSE)
          \in Timers \cup {NoUsage}
    BY <2>1, ScheduledFits DEF ServiceInv, WorkType
  <2>3. \/ scheduled' = S!Scheduled(scheduled, S!Wish(FALSE, cached[t] = NoUsage), FALSE)
        \/ scheduled' = scheduled
    BY DEF S!SwitchTo
  <2> QED BY <2>2, <2>3 DEF ServiceInv, WorkType
<1>3. FilesType'
  <2>1. switches' \in Nat /\ price + switches' + faults <= MaxEvents
    BY <1>1 DEF ServiceInv, FilesType, S!Eventful, S!ServiceConstants
  <2> QED BY <1>1, <2>1 DEF ServiceInv, FilesType
<1>4. view' \in ViewsOfClient /\ InView
  BY <1>1 DEF ServiceInv, ShownType, ViewsOfClient, InView
<1>5. OneAtATime' BY <1>1 DEF ServiceInv, OneAtATime, Asks
<1>6. AskedForTheTask'
  <2>1. ASSUME NEW p \in {init, asking}, p.pc \in {"exit", "wait"}
        PROVE  p.rev <= switches' /\ p.rev # switches'
    <3>1. p.rev \in Nat /\ switches \in Nat /\ p.rev <= switches
      BY <2>1 DEF ServiceInv, WorkType, FilesType, Initialisations, Passes, AskedForTheTask,
                  ForTheTask
    <3> QED BY <1>1, <3>1
  <2>2. ForTheTask(init)' /\ ForTheTask(asking)' BY <1>1, <2>1 DEF ForTheTask
  <2> QED BY <1>1, <2>2 DEF ServiceInv, AskedForTheTask, Asks
<1> QED
  BY <1>1, <1>2, <1>3, <1>4, <1>5, <1>6
  DEF ServiceInv, ProcessType, ShownType, FlagsType, WorkType, ClosingType

\* The environment changes a file or the exchange rate.
LEMMA ChangesFit ==
  ASSUME S!ServiceConstants, ServiceInv, (\E x \in Turns : S!Grows(x)) \/ S!PriceChanges
  PROVE  ServiceInv' /\ InView
<1>1. ASSUME NEW d \in BOOLEAN, NEW p \in BOOLEAN, NEW r \in BOOLEAN
      PROVE  S!Scheduled(scheduled, S!Wish(d, p), r) \in Timers \cup {NoUsage}
  BY WishFits, ScheduledFits DEF ServiceInv, WorkType
<1>2. ASSUME NEW x \in Turns, S!Grows(x) PROVE ServiceInv' /\ InView
  <2>1. /\ growths < MaxGrowths /\ growths' = growths + 1
        /\ source' = [source EXCEPT ![x] = source[x] + 1]
        /\ UNCHANGED <<price, read, service, children, viewThread, switches, view, cached, known,
                       fullDue, initialized, init, asking, pending, parked, closing, faults>>
    BY <1>2 DEF S!Grows, S!process, S!shown, S!settings
  <2>2. scheduled' \in Timers \cup {NoUsage}
    <3>1. \/ scheduled' = scheduled
          \/ scheduled' = S!Scheduled(scheduled, S!Wish(source[x] = 0, FALSE), FALSE)
      BY <1>2 DEF S!Grows
    <3> QED BY <1>1, <3>1 DEF ServiceInv, WorkType
  <2>3. FilesType'
    <3>1. /\ growths \in Nat /\ MaxGrowths \in Nat /\ growths' \in 0..MaxGrowths
          /\ growths' = growths + 1
      BY <2>1 DEF ServiceInv, FilesType, S!ServiceConstants
    <3>2. \A y \in Turns : source[y] \in Nat /\ source[y] <= growths + 1
      BY DEF ServiceInv, FilesType, S!Versions
    <3>3. \A y \in Turns : source'[y] \in Nat /\ source'[y] <= growths' + 1
      BY <2>1, <3>1, <3>2 DEF ServiceInv, FilesType
    <3>4. \A y \in Turns : source'[y] \in S!Versions
      BY <2>1, <3>1, <3>3 DEF S!Versions
    <3>5. source' \in [Turns -> S!Versions]
      BY <2>1, <3>4 DEF ServiceInv, FilesType
    <3> QED BY <2>1, <3>1, <3>3, <3>5 DEF ServiceInv, FilesType
  <2>4. SameQuestion BY <2>1 DEF SameQuestion
  <2>5. OneAtATime' /\ AskedForTheTask' BY <2>1, <2>4, QuestionStands
  <2> QED
    BY <2>1, <2>2, <2>3, <2>5
    DEF ServiceInv, ProcessType, ShownType, FlagsType, WorkType, ClosingType, InView
<1>3. CASE S!PriceChanges
  <2>1. /\ S!Eventful /\ price' = price + 1 /\ cached' = [t \in Threads |-> NoUsage]
        /\ UNCHANGED <<source, growths, read, service, children, viewThread, switches, view, known,
                       fullDue, initialized, init, asking, pending, parked, closing, faults>>
    BY <1>3 DEF S!PriceChanges, S!process, S!settings
  <2>2. scheduled' \in Timers \cup {NoUsage}
    <3>1. \/ scheduled' = scheduled
          \/ scheduled' = S!Scheduled(scheduled, S!Wish(FALSE, TRUE), TRUE)
      BY <1>3 DEF S!PriceChanges
    <3> QED BY <1>1, <3>1 DEF ServiceInv, WorkType
  <2>3. FilesType'
    <3>1. price' \in Nat /\ price' + switches + faults <= MaxEvents
      BY <2>1 DEF ServiceInv, FilesType, S!Eventful, S!ServiceConstants
    <3> QED BY <2>1, <3>1 DEF ServiceInv, FilesType
  <2>4. SameQuestion BY <2>1 DEF SameQuestion
  <2>5. OneAtATime' /\ AskedForTheTask' BY <2>1, <2>4, QuestionStands
  <2>6. cached' \in [Threads -> Contents \cup {NoUsage}] BY <2>1
  <2> QED
    BY <2>1, <2>2, <2>3, <2>5, <2>6
    DEF ServiceInv, ProcessType, ShownType, FlagsType, WorkType, ClosingType, InView
<1> QED BY <1>2, <1>3

LEMMA NextServiceInv ==
  ASSUME S!ServiceConstants, ServiceInv, [S!Next]_(S!vars) PROVE ServiceInv' /\ InView
<1>1. CASE S!InitAsks BY <1>1, InitAsksFits
<1>2. CASE S!LoopInitialized \/ S!Probed \/ S!LoopRetired BY <1>2, ProbesFit
<1>3. CASE S!ExitAwaited BY <1>3, ExitAwaitedFits
<1>4. CASE S!Response BY <1>4, ResponseFits
<1>5. CASE S!Fires \/ S!Poll \/ S!DiscoveryDue \/ S!ServiceIdles BY <1>5, TimersFit
<1>6. CASE S!ShutsDown \/ S!Close BY <1>6, ClosingFits
<1>7. CASE S!ServiceReads BY <1>7, ServiceReadsFits
<1>8. CASE S!ServiceExits \/ S!ServiceCrashes BY <1>8, EndsFit
<1>9. CASE S!RequestFails BY <1>9, RequestFailsFits
<1>10. CASE \E t \in Threads : S!SwitchTo(t) BY <1>10, SwitchFits
<1>11. CASE (\E x \in Turns : S!Grows(x)) \/ S!PriceChanges BY <1>11, ChangesFit
<1>12. CASE UNCHANGED S!vars
  <2>1. UNCHANGED <<source, growths, price, read, service, children, viewThread, switches, view,
                    cached, known, fullDue, initialized, init, asking, pending, scheduled, parked,
                    closing, faults>>
    BY <1>12 DEF S!vars, S!files, S!process, S!shown, S!settings, S!work
  <2>2. FilesType' BY <2>1, FilesStand DEF ServiceInv
  <2>3. SameQuestion BY <2>1 DEF SameQuestion
  <2>4. OneAtATime' /\ AskedForTheTask' BY <2>1, <2>3, QuestionStands
  <2> QED
    BY <2>1, <2>2, <2>4
    DEF ServiceInv, ProcessType, ShownType, FlagsType, WorkType, ClosingType, InView
<1> QED
  BY <1>1, <1>2, <1>3, <1>4, <1>5, <1>6, <1>7, <1>8, <1>9, <1>10, <1>11, <1>12
  DEF S!Next, S!ClientStep, S!Environment

\* The page starts with an empty view, and no child is there.
LEMMA ServiceBegins == ASSUME S!ServiceConstants, S!Init PROVE ServiceInv
<1>1. 0 \in S!Versions /\ 1 \in S!Versions /\ 0 \in S!Prices
  BY DEF S!Versions, S!Prices, S!ServiceConstants
<1>2. S!Blank \in Contents BY <1>1 DEF S!Blank, S!Nothing, S!Content, Contents
<1>3. FilesType
  <2>1. source \in [Turns -> {0, 1}] /\ growths = 0 /\ price = 0 /\ switches = 0 /\ faults = 0
        /\ read = [x \in Turns |-> 0]
    BY DEF S!Init
  <2>2. source \in [Turns -> S!Versions] /\ read \in [Turns -> S!Versions] BY <1>1, <2>1
  <2>3. growths \in 0..MaxGrowths /\ price + switches + faults <= MaxEvents
    BY <2>1 DEF S!ServiceConstants
  <2>4. \A x \in Turns : source[x] <= growths + 1 BY <2>1
  <2> QED BY <2>1, <2>2, <2>3, <2>4 DEF FilesType
<1>4. ProcessType BY DEF S!Init, ProcessType
<1>5. ShownType
  <2>1. view = [thread |-> NoUsage, turns |-> S!Blank, status |-> "loading"] BY DEF S!Init
  <2>2. view \in ViewsOfClient BY <1>2, <2>1 DEF ViewsOfClient
  <2> QED BY <1>2, <2>2 DEF S!Init, ShownType
<1>6. FlagsType /\ ClosingType BY DEF S!Init, FlagsType, ClosingType
<1>7. init \in Initialisations /\ init.pc = "begin"
  BY DEF S!Init, S!Resting, Initialisations
<1>8. asking \in Passes /\ asking.pc = "idle" BY IdleFits DEF S!Init
<1>9. WorkType BY <1>7, <1>8 DEF S!Init, WorkType
<1>10. service = NoUsage /\ closing = "open" /\ initialized = FALSE BY DEF S!Init
<1>11. OneAtATime BY <1>7, <1>8, <1>10 DEF OneAtATime, Asks
<1>12. AskedForTheTask BY <1>7, <1>8, <1>10 DEF AskedForTheTask, ForTheTask, Asks
<1> QED BY <1>3, <1>4, <1>5, <1>6, <1>9, <1>11, <1>12 DEF ServiceInv

LEMMA ServiceTypes == ServiceInv => S!TypeOK
<1> SUFFICES ASSUME ServiceInv PROVE S!TypeOK OBVIOUS
<1>1. /\ source \in [Turns -> S!Versions] /\ read \in [Turns -> S!Versions]
      /\ known \in [Turns -> S!Content] /\ view.turns \in [Turns -> S!Content]
      /\ view.status \in {"loading", "ready", "error"}
  BY DEF ServiceInv, FilesType, ShownType, ViewsOfClient, Contents
<1>2. children \in Nat BY DEF ServiceInv, ProcessType
<1>3. /\ init.pc \in {"idle", "begin", "exit", "wait"}
      /\ asking.pc \in {"idle", "init", "probe", "retire", "exit", "wait"}
  BY DEF ServiceInv, WorkType, Initialisations, Passes
<1>4. closing \in {"open", "waiting", "flush", "exit", "done"} BY DEF ServiceInv, ClosingType
<1>5. /\ (init.pc = "wait") <=> Asks("init")
      /\ (asking.pc = "wait") <=> Asks("refresh")
  BY DEF ServiceInv, OneAtATime
<1> QED BY <1>1, <1>2, <1>3, <1>4, <1>5 DEF S!TypeOK, Asks

\* Of any number of tasks, turns, changes of the files and the rate, timeouts and crashes: an
\* answer that was asked for another task never replaces the view of the task the page shows,
\* and there is a request only while the one that asked waits for it
\* (requestedViewRevision in #refreshOnce and initialize).
THEOREM ViewIsOfTheTask ==
  ASSUME S!ServiceConstants
  PROVE  S!Spec => []S!TypeOK /\ S!NoLateView
<1>1. S!Init => ServiceInv BY ServiceBegins
<1>2. ServiceInv /\ [S!Next]_(S!vars) => ServiceInv'
  BY NextServiceInv
<1>3. ServiceInv /\ [S!Next]_(S!vars)
        => [view'.thread # view.thread => view'.thread = viewThread']_(S!vars)
  BY NextServiceInv DEF InView
<1> QED BY <1>1, <1>2, <1>3, ServiceTypes, PTL DEF S!Spec, S!NoLateView
=============================================================================
