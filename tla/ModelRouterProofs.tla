--------------------------- MODULE ModelRouterProofs ---------------------------
(***************************************************************************)
(* A task keeps to one provider, no task stays locked without a reason,    *)
(* and answers of the official socket meet their requests: proofs for      *)
(* ModelRouter, for any tasks, connections, providers and bounds.          *)
(***************************************************************************)
EXTENDS MCRouter, TLAPS

(***************************************************************************)
(* The inductive invariant.                                                *)
(***************************************************************************)
Live(a) == a.gen /\ a.phase \in {"opening", "sent", "accepted", "served"}

\* A claim that is not settled yet: of an HTTP request until it has ended, else until its acceptance.
Claims(a, t, p) ==
  /\ a.thread = t /\ a.provider = p /\ a.gen
  /\ a.phase \in {"opening", "sent", "lost"} \/ (a.phase = "accepted" /\ a.conn = None)

\* The table of routes fits the requests: a route is confirmed or holds a claim, and every live
\* request that is not stray has a route of its provider that does.
Ledger(table, asked, strays) ==
  /\ \A t \in Threads : table[t] # None =>
       /\ \A r \in table[t].pending : Claims(asked[r], t, table[t].provider)
       /\ table[t].confirmed \/ table[t].pending # {}
  /\ \A r \in Requests : r \notin strays /\ Live(asked[r]) =>
       /\ asked[r].thread \in Threads /\ table[asked[r].thread] # None
       /\ table[asked[r].thread].provider = asked[r].provider
       /\ table[asked[r].thread].confirmed \/ r \in table[asked[r].thread].pending

\* The queues of a connection k: what it holds is its own, what waits for an answer was sent, and
\* the observations are those of the wire, in its order.
Holds(k, asked, c) ==
  /\ \A i \in DOMAIN k.inbox : asked[k.inbox[i]].conn = c /\ asked[k.inbox[i]].phase # "new"
  /\ \A i \in DOMAIN k.obs :
       asked[k.obs[i]].conn = c /\ asked[k.obs[i]].phase # "new" /\ asked[k.obs[i]].provider = Official
  /\ \A i \in DOMAIN k.wire : asked[k.wire[i]].phase \in {"sent", "accepted"}
  /\ \A i, j \in DOMAIN k.wire : k.wire[i] = k.wire[j] => i = j
  /\ k.lane # None => /\ asked[k.lane].conn = c /\ asked[k.lane].provider \in Customs
                      /\ asked[k.lane].phase \in {"sent", "accepted"}
Ordered(k, asked) ==
  /\ k.official = "none" => k.obs = <<>> /\ k.wire = <<>>
  /\ k.official = "connecting" => /\ k.inbox # <<>> /\ k.obs = <<Head(k.inbox)>> /\ k.wire = <<>>
                                  /\ asked[Head(k.inbox)].phase = "opening"
  /\ k.official = "open" => k.wire = k.obs
  /\ k.official = "closing" => /\ Len(k.wire) <= Len(k.obs)
                               /\ \A i \in DOMAIN k.wire : k.wire[i] = k.obs[i]
  /\ k.official \in {"closed", "failed"} => k.wire = <<>>
Queues(k, asked, c) == Holds(k, asked, c) /\ Ordered(k, asked)

Started == \A r \in Requests : req[r].phase # "new" => req[r].thread \in Threads /\ req[r].provider \in Providers
ManagerType == /\ serving \in BOOLEAN /\ closed \in BOOLEAN /\ snapshot \in BOOLEAN
               /\ setup \in {"idle", "listen", "proxy"}
RoutesType == routes \in [Threads -> Route \cup {None}] /\ stray \subseteq Requests
ReqType    == req \in [Requests -> Asked]
ConnType   == conn \in [Conns -> Conn]

IInv ==
  /\ ManagerType /\ RoutesType /\ ReqType /\ ConnType /\ Started
  /\ Ledger(routes, req, stray)
  /\ \A c \in Conns : Queues(conn[c], req, c)

(***************************************************************************)
(* The table of routes.                                                    *)
(***************************************************************************)
\* A request whose claim is settled or was never made.
Settled(a, b) == b.phase # "new" /\ ~Live(b) /\ a.phase \in {"new", "waiting"}
\* A request that goes on: it is sent, its HTTP status comes, or an accepted one ends.
GoesOn(a, b) ==
  /\ b.thread = a.thread /\ b.provider = a.provider /\ b.gen = a.gen /\ b.conn = a.conn
  /\ \/ a.phase = "opening" /\ b.phase = "sent"
     \/ a.phase = "sent" /\ b.phase = "accepted" /\ a.conn = None
     \/ a.phase = "accepted" /\ b.phase = "served" /\ a.conn # None

\* Requests that go on, or never had a claim, leave the table as it fits.
LEMMA LedgerStands ==
  ASSUME NEW table \in [Threads -> Route \cup {None}], NEW asked \in [Requests -> Asked],
         NEW next \in [Requests -> Asked], NEW strays, NEW more, strays \subseteq more,
         RouterConstants, Ledger(table, asked, strays),
         \A r \in Requests : \/ next[r] = asked[r] \/ GoesOn(asked[r], next[r]) \/ Settled(asked[r], next[r])
  PROVE  Ledger(table, next, more)
<1>1. ASSUME NEW t \in Threads, table[t] # None
      PROVE  /\ \A r \in table[t].pending : Claims(next[r], t, table[t].provider)
             /\ table[t].confirmed \/ table[t].pending # {}
  <2>1. table[t].pending \subseteq Requests
    BY <1>1 DEF Route
  <2>2. ASSUME NEW r \in table[t].pending PROVE Claims(next[r], t, table[t].provider)
    <3>1. Claims(asked[r], t, table[t].provider) /\ r \in Requests
      BY <1>1, <2>1 DEF Ledger
    <3> QED BY <3>1 DEF Claims, GoesOn, Settled, RouterConstants
  <2> QED BY <2>2, <1>1 DEF Ledger
<1>2. ASSUME NEW r \in Requests, r \notin more, Live(next[r])
      PROVE  /\ next[r].thread \in Threads /\ table[next[r].thread] # None
             /\ table[next[r].thread].provider = next[r].provider
             /\ table[next[r].thread].confirmed \/ r \in table[next[r].thread].pending
  <2>1. next[r].thread = asked[r].thread /\ next[r].provider = asked[r].provider /\ Live(asked[r])
    BY <1>2 DEF GoesOn, Settled, Live
  <2> QED BY <1>2, <2>1 DEF Ledger
<1> QED BY <1>1, <1>2 DEF Ledger

\* Claims that are rejected leave the table, and unlock their task when no other is left.
LEMMA LedgerRejects ==
  ASSUME NEW table \in [Threads -> Route \cup {None}], NEW asked \in [Requests -> Asked],
         NEW next \in [Requests -> Asked], NEW strays, NEW lost \in SUBSET Requests,
         RouterConstants, Ledger(table, asked, strays),
         \A r \in Requests \ lost : next[r] = asked[r] \/ GoesOn(asked[r], next[r]),
         \A r \in lost : ~Live(next[r]) \/ (GoesOn(asked[r], next[r]) /\ asked[r].phase = "accepted")
  PROVE  /\ Ledger(Rejected(table, lost), next, strays)
         /\ Rejected(table, lost) \in [Threads -> Route \cup {None}]
<1>. DEFINE new == Rejected(table, lost)
<1>1. ASSUME NEW t \in Threads, new[t] # None
      PROVE  /\ table[t] # None /\ table[t] \in Route
             /\ new[t].provider = table[t].provider /\ new[t].confirmed = table[t].confirmed
             /\ new[t].pending = table[t].pending \ lost /\ new[t] \in Route
             /\ table[t].confirmed \/ table[t].pending \cap lost = {} \/ ~(table[t].pending \subseteq lost)
  <2>1. table[t] # None /\ table[t] \in Route
    BY <1>1 DEF Rejected
  <2>2. new[t] = [table[t] EXCEPT !.pending = @ \ lost]
    BY <1>1 DEF Rejected
  <2>3. table[t].confirmed \/ table[t].pending \cap lost = {} \/ ~(table[t].pending \subseteq lost)
    BY <1>1 DEF Rejected
  <2> QED BY <2>1, <2>2, <2>3 DEF Route
<1>2. ASSUME NEW t \in Threads, new[t] = None, table[t] # None
      PROVE  ~table[t].confirmed /\ table[t].pending \subseteq lost
  <2>1. table[t] \in Route
    BY <1>2
  <2>2. [table[t] EXCEPT !.pending = @ \ lost] \in Route
    BY <2>1 DEF Route
  <2> QED BY <1>2, <2>2 DEF Rejected, RouterConstants
<1>3. new \in [Threads -> Route \cup {None}]
  BY <1>1 DEF Rejected
<1> HIDE DEF new
<1>4. ASSUME NEW t \in Threads, new[t] # None
      PROVE  /\ \A r \in new[t].pending : Claims(next[r], t, new[t].provider)
             /\ new[t].confirmed \/ new[t].pending # {}
  <2>1. table[t] # None /\ table[t].pending \subseteq Requests
    BY <1>1, <1>4 DEF Route
  <2>2. ASSUME NEW r \in new[t].pending PROVE Claims(next[r], t, new[t].provider)
    <3>1. Claims(asked[r], t, table[t].provider) /\ r \in Requests \ lost
      BY <2>1, <1>4, <1>1 DEF Ledger
    <3> QED BY <3>1, <1>1, <1>4 DEF Claims, GoesOn, RouterConstants
  <2>3. table[t].confirmed \/ table[t].pending # {}
    BY <2>1 DEF Ledger
  <2> QED BY <2>2, <2>3, <1>1, <1>4
<1>5. ASSUME NEW r \in Requests, r \notin strays, Live(next[r])
      PROVE  /\ next[r].thread \in Threads /\ new[next[r].thread] # None
             /\ new[next[r].thread].provider = next[r].provider
             /\ new[next[r].thread].confirmed \/ r \in new[next[r].thread].pending
  <2>1. /\ next[r].thread = asked[r].thread /\ next[r].provider = asked[r].provider /\ Live(asked[r])
        /\ r \in lost => asked[r].phase = "accepted" /\ asked[r].conn # None
    BY <1>5 DEF GoesOn, Live
  <2>. DEFINE t == asked[r].thread
  <2>2. /\ table[t] # None /\ table[t].provider = asked[r].provider
        /\ table[t].confirmed \/ r \in table[t].pending
    BY <1>5, <2>1 DEF Ledger
  <2>3. t \in Threads
    BY <1>5, <2>1 DEF Ledger
  <2>4. table[t].confirmed \/ r \notin lost
    BY <2>1, <2>2, <2>3 DEF Ledger, Claims
  <2> QED BY <2>1, <2>2, <2>3, <2>4, <1>1, <1>2
<1> QED BY <1>3, <1>4, <1>5 DEF Ledger, new

\* A task's route is used by its request r: others may be forgotten, and their requests are stray.
LEMMA LedgerUses ==
  ASSUME RouterConstants, RoutesType, ReqType, Ledger(routes, req, stray),
         NEW r \in Requests, NEW next \in [Requests -> Asked], NEW t \in Threads, NEW route \in Route,
         NEW new \in Used(t, route), NEW more,
         more = stray \cup UNION {Bound(next, u) : u \in Known(routes) \ Known(new)},
         \A q \in Requests : q # r => next[q] = req[q],
         next[r].thread = t, req[r].thread = t \/ req[r].phase = "new",
         \A q \in route.pending : q # r => routes[t] # None /\ q \in routes[t].pending,
         r \in route.pending => Claims(next[r], t, route.provider),
         route.confirmed \/ route.pending # {},
         routes[t] # None => /\ route.provider = routes[t].provider
                             /\ routes[t].confirmed => route.confirmed
                             /\ routes[t].pending \ {r} \subseteq route.pending,
         r \notin stray /\ Live(next[r]) => /\ next[r].provider = route.provider
                                            /\ route.confirmed \/ r \in route.pending
  PROVE  Ledger(new, next, more) /\ new \in [Threads -> Route \cup {None}] /\ more \subseteq Requests
<1>1. /\ new[t] = route
      /\ \A u \in Threads \ {t} : new[u] = routes[u] \/ new[u] = None
      /\ new \in [Threads -> Route \cup {None}]
  BY DEF Used, RoutesType
<1>2. route # None
  BY DEF RouterConstants
<1>3. ASSUME NEW u \in Threads, new[u] # None
      PROVE  /\ \A q \in new[u].pending : Claims(next[q], u, new[u].provider)
             /\ new[u].confirmed \/ new[u].pending # {}
  <2>1. CASE u = t
    <3>1. ASSUME NEW q \in route.pending PROVE Claims(next[q], t, route.provider)
      <4>1. q \in Requests
        BY DEF Route
      <4>2. CASE q # r
        <5>1. routes[t] # None /\ q \in routes[t].pending /\ route.provider = routes[t].provider
          BY <4>2
        <5> QED BY <5>1, <4>1, <4>2 DEF Ledger
      <4> QED BY <4>2
    <3> QED BY <2>1, <3>1, <1>1
  <2>2. CASE u # t
    <3>1. new[u] = routes[u] /\ routes[u] # None /\ routes[u].pending \subseteq Requests
      BY <2>2, <1>1, <1>3 DEF RoutesType, Route
    <3>2. ASSUME NEW q \in routes[u].pending PROVE Claims(next[q], u, routes[u].provider)
      <4>1. Claims(req[q], u, routes[u].provider) /\ q \in Requests
        BY <3>1 DEF Ledger
      <4>2. q # r
        BY <4>1, <2>2 DEF Claims
      <4> QED BY <4>1, <4>2
    <3> QED BY <3>1, <3>2 DEF Ledger
  <2> QED BY <2>1, <2>2
<1>4. ASSUME NEW q \in Requests, q \notin more, Live(next[q])
      PROVE  /\ next[q].thread \in Threads /\ new[next[q].thread] # None
             /\ new[next[q].thread].provider = next[q].provider
             /\ new[next[q].thread].confirmed \/ q \in new[next[q].thread].pending
  <2>1. CASE q = r
    BY <2>1, <1>1, <1>2, <1>4
  <2>2. CASE q # r
    <3>. DEFINE u == req[q].thread
    <3>1. /\ next[q] = req[q] /\ u \in Threads /\ routes[u] # None /\ routes[u].provider = req[q].provider
          /\ routes[u].confirmed \/ q \in routes[u].pending
      BY <2>2, <1>4 DEF Ledger
    <3>2. CASE u = t
      BY <3>1, <3>2, <2>2, <1>1, <1>2
    <3>3. CASE u # t
      <4>1. q \in Bound(next, u)
        BY <3>1, <1>4 DEF Bound, Live
      <4>2. u \in Known(new)
        BY <4>1, <3>1, <1>4 DEF Known
      <4> QED BY <4>2, <3>1, <3>3, <1>1 DEF Known
    <3> QED BY <3>2, <3>3
  <2> QED BY <2>1, <2>2
<1>5. more \subseteq Requests
  BY DEF RoutesType, Bound
<1> QED BY <1>1, <1>3, <1>4, <1>5 DEF Ledger

\* The table is forgotten, as a whole or for some tasks.
LEMMA LedgerForgets ==
  ASSUME RouterConstants, RoutesType, ReqType, Ledger(routes, req, stray),
         NEW new \in [Threads -> Route \cup {None}], NEW more,
         \A t \in Threads : new[t] = routes[t] \/ new[t] = None,
         more = stray \cup UNION {Bound(req, u) : u \in Known(routes) \ Known(new)}
  PROVE  Ledger(new, req, more) /\ more \subseteq Requests
<1>1. \A t \in Threads : new[t] # None =>
        /\ \A r \in new[t].pending : Claims(req[r], t, new[t].provider)
        /\ new[t].confirmed \/ new[t].pending # {}
  BY DEF Ledger
<1>2. ASSUME NEW q \in Requests, q \notin more, Live(req[q])
      PROVE  /\ req[q].thread \in Threads /\ new[req[q].thread] # None
             /\ new[req[q].thread].provider = req[q].provider
             /\ new[req[q].thread].confirmed \/ q \in new[req[q].thread].pending
  <2>1. /\ req[q].thread \in Threads /\ routes[req[q].thread] # None
        /\ routes[req[q].thread].provider = req[q].provider
        /\ routes[req[q].thread].confirmed \/ q \in routes[req[q].thread].pending
    BY <1>2 DEF Ledger
  <2>2. q \in Bound(req, req[q].thread)
    BY <1>2 DEF Bound, Live
  <2>3. req[q].thread \in Known(new)
    BY <2>1, <2>2, <1>2 DEF Known
  <2> QED BY <2>1, <2>3 DEF Known
<1>3. more \subseteq Requests
  BY DEF RoutesType, Bound
<1> QED BY <1>1, <1>2, <1>3 DEF Ledger

\* A new claim, of a task that has no route or one of the same provider.
LEMMA LedgerClaims ==
  ASSUME RouterConstants, RoutesType, ReqType, Ledger(routes, req, stray),
         NEW r \in Requests, NEW next \in [Requests -> Asked],
         \A q \in Requests : q # r => next[q] = req[q],
         req[r].phase \in {"new", "waiting"}, next[r].phase \in {"opening", "sent", "lost"},
         next[r].thread \in Threads, next[r].provider \in Providers,
         req[r].thread = next[r].thread \/ req[r].phase = "new",
         next[r].gen => ~Refused(next[r].thread, next[r].provider),
         NEW new \in Claimed(r, next), NEW more,
         more = stray \cup UNION {Bound(next, u) : u \in Known(routes) \ Known(new)}
  PROVE  Ledger(new, next, more) /\ new \in [Threads -> Route \cup {None}] /\ more \subseteq Requests
<1>1. next[r].gen \in BOOLEAN /\ req[r].gen \in BOOLEAN
  BY DEF ReqType, Asked
<1>2. CASE ~next[r].gen
  <2>1. new = routes
    BY <1>2 DEF Claimed
  <2>2. more = stray
    BY <2>1
  <2>3. \A q \in Requests : next[q] = req[q] \/ Settled(req[q], next[q])
    BY <1>2 DEF Settled, Live
  <2> QED BY <2>1, <2>2, <2>3, LedgerStands DEF RoutesType, ReqType
<1>3. CASE next[r].gen
  <2>. DEFINE t == next[r].thread
              old == IF routes[t] = None THEN {} ELSE routes[t].pending
              sure == routes[t] # None /\ routes[t].confirmed
              route == [provider |-> next[r].provider, pending |-> old \cup {r}, confirmed |-> sure]
  <2>1. new \in Used(t, route)
    BY <1>3 DEF Claimed
  <2>2. routes[t] # None => routes[t] \in Route
    BY DEF RoutesType
  <2>3. old \subseteq Requests /\ sure \in BOOLEAN
    BY <2>2 DEF Route
  <2>4. /\ sure => routes[t] # None /\ routes[t].confirmed
        /\ routes[t] # None /\ routes[t].confirmed => sure
        /\ routes[t] = None => old = {}
        /\ routes[t] # None => old = routes[t].pending
    OBVIOUS
  <2> HIDE DEF old, sure
  <2>5. route \in Route
    BY <2>3 DEF Route
  <2>6. route.pending = old \cup {r} /\ route.provider = next[r].provider /\ route.confirmed = sure
    OBVIOUS
  <2> HIDE DEF route
  <2>7. routes[t] # None => route.provider = routes[t].provider
    BY <1>3, <2>6 DEF Refused
  <2>8. Claims(next[r], t, route.provider)
    BY <1>1, <1>3, <2>6 DEF Claims
  <2>9. /\ \A q \in route.pending : q # r => routes[t] # None /\ q \in routes[t].pending
        /\ routes[t] # None => /\ routes[t].confirmed => route.confirmed
                               /\ routes[t].pending \ {r} \subseteq route.pending
        /\ r \in route.pending
    BY <2>4, <2>6
  <2>10. req[r].thread = t \/ req[r].phase = "new"
    OBVIOUS
  <2> HIDE DEF t
  <2>11. next[r].thread = t /\ t \in Threads
    BY DEF t
  <2> QED BY <2>1, <2>5, <2>6, <2>7, <2>8, <2>9, <2>10, <2>11, LedgerUses
<1> QED BY <1>2, <1>3

\* A claim is confirmed, or had been forgotten or settled before.
LEMMA LedgerAccepts ==
  ASSUME RouterConstants, RoutesType, ReqType, ReqType', Ledger(routes, req, stray),
         NEW r \in Requests, req[r].thread \in Threads,
         req[r].phase = "sent" \/ (req[r].phase = "accepted" /\ req[r].conn = None),
         NEW phase \in {"accepted", "served"}, req' = At(r, phase), Accepted(r, req')
  PROVE  Ledger(routes, req, stray)' /\ RoutesType'
<1>. DEFINE t == req[r].thread
<1>1. /\ \A q \in Requests : q # r => req'[q] = req[q]
      /\ req'[r].phase = phase /\ req'[r].thread = t /\ req'[r].gen = req[r].gen
      /\ req'[r].provider = req[r].provider
  BY DEF At, ReqType, Asked
<1>2. req[r].gen \in BOOLEAN
  BY DEF ReqType, Asked
<1>3. CASE routes[t] = None \/ r \notin routes[t].pending
  <2>1. UNCHANGED <<routes, stray>>
    BY <1>1, <1>3 DEF Accepted
  <2>2. ASSUME NEW u \in Threads, routes[u] # None
        PROVE  /\ \A q \in routes[u].pending : Claims(req'[q], u, routes[u].provider)
               /\ routes[u].confirmed \/ routes[u].pending # {}
    <3>1. ASSUME NEW q \in routes[u].pending PROVE Claims(req'[q], u, routes[u].provider)
      <4>1. Claims(req[q], u, routes[u].provider) /\ q \in Requests
        BY <2>2 DEF Ledger, RoutesType, Route
      <4>2. q # r
        BY <4>1, <2>2, <1>3 DEF Claims
      <4> QED BY <4>1, <4>2, <1>1
    <3> QED BY <3>1, <2>2 DEF Ledger
  <2>3. ASSUME NEW q \in Requests, q \notin stray, Live(req'[q])
        PROVE  /\ req'[q].thread \in Threads /\ routes[req'[q].thread] # None
               /\ routes[req'[q].thread].provider = req'[q].provider
               /\ routes[req'[q].thread].confirmed \/ q \in routes[req'[q].thread].pending
    <3>1. Live(req[q]) /\ req'[q].thread = req[q].thread /\ req'[q].provider = req[q].provider
      BY <1>1, <2>3 DEF Live
    <3> QED BY <3>1, <2>3 DEF Ledger
  <2> QED BY <2>1, <2>2, <2>3 DEF Ledger, RoutesType
<1>4. CASE routes[t] # None /\ r \in routes[t].pending
  <2>. DEFINE yes == TRUE
              route == [provider |-> routes[t].provider, pending |-> routes[t].pending \ {r}, confirmed |-> yes]
  <2>1. PICK table \in Used(t, route) : routes' = table /\ Remember(table, req')
    BY <1>1, <1>4 DEF Accepted
  <2>2. yes \in BOOLEAN /\ yes
    OBVIOUS
  <2> HIDE DEF yes
  <2>3. routes[t] \in Route
    BY <1>4 DEF RoutesType
  <2>4. route \in Route
    BY <2>2, <2>3 DEF Route
  <2>5. /\ route.provider = routes[t].provider /\ route.pending = routes[t].pending \ {r}
        /\ route.confirmed
    BY <2>2
  <2>6. Claims(req[r], t, routes[t].provider)
    BY <1>4 DEF Ledger
  <2>7. req[r].provider = routes[t].provider
    BY <2>6 DEF Claims
  <2> HIDE DEF route
  <2>8. stray' = stray \cup UNION {Bound(req', u) : u \in Known(routes) \ Known(table)}
    BY <2>1 DEF Remember
  <2>9. req' \in [Requests -> Asked]
    BY DEF ReqType
  <2>10. Ledger(table, req', stray') /\ table \in [Threads -> Route \cup {None}] /\ stray' \subseteq Requests
    <3>0. PICK next, more : next = req' /\ more = stray' /\ next \in [Requests -> Asked]
      BY <2>9
    <3>1. /\ \A q \in route.pending : q # r => routes[t] # None /\ q \in routes[t].pending
          /\ r \in route.pending => Claims(next[r], t, route.provider)
          /\ route.confirmed \/ route.pending # {}
          /\ routes[t] # None => /\ route.provider = routes[t].provider
                                 /\ routes[t].confirmed => route.confirmed
                                 /\ routes[t].pending \ {r} \subseteq route.pending
          /\ r \notin stray /\ Live(next[r]) =>
               /\ next[r].provider = route.provider
               /\ route.confirmed \/ r \in route.pending
      BY <2>5, <2>7, <1>1, <1>4, <3>0
    <3>2. next[r].thread = t /\ (req[r].thread = t \/ req[r].phase = "new") /\ t \in Threads
      BY <1>1, <3>0
    <3>3. /\ \A q \in Requests : q # r => next[q] = req[q]
          /\ more = stray \cup UNION {Bound(next, u) : u \in Known(routes) \ Known(table)}
      BY <1>1, <2>8, <3>0
    <3> HIDE DEF t
    <3>4. Ledger(table, next, more) /\ table \in [Threads -> Route \cup {None}] /\ more \subseteq Requests
      BY <2>1, <2>4, <3>0, <3>1, <3>2, <3>3, LedgerUses
    <3> QED BY <3>0, <3>4
  <2> QED BY <2>1, <2>10 DEF Ledger, RoutesType
<1> QED BY <1>3, <1>4

(***************************************************************************)
(* The queues of a connection.                                             *)
(***************************************************************************)
\* What happens to requests of other connections, to a bridge of this one, or to a sent request
\* whose acceptance comes, leaves the queues of a connection as they fit.
LEMMA QueuesStand ==
  ASSUME RouterConstants, NEW k \in Conn, NEW c \in Conns,
         NEW asked \in [Requests -> Asked], NEW next \in [Requests -> Asked], Queues(k, asked, c),
         \A r \in Requests : asked[r].conn = c /\ asked[r].phase # "new" =>
           /\ next[r].conn = c /\ next[r].provider = asked[r].provider /\ next[r].phase # "new"
           /\ \/ next[r].phase = asked[r].phase
              \/ asked[r].phase = "sent" /\ next[r].phase = "accepted"
              \/ asked[r].provider \in Customs /\ r # k.lane /\ asked[r].phase # "opening"
              \/ asked[r].phase = "waiting"
  PROVE  Queues(k, next, c)
<1>1. /\ k.inbox \in Seq(Requests) /\ k.obs \in Seq(Requests) /\ k.wire \in Seq(Requests)
      /\ k.lane \in Requests \cup {None}
      /\ k.official \in {"none", "connecting", "open", "closing", "closed", "failed"}
  BY DEF Conn
<1>2. /\ \A i \in DOMAIN k.inbox : k.inbox[i] \in Requests
      /\ \A i \in DOMAIN k.obs : k.obs[i] \in Requests
      /\ \A i \in DOMAIN k.wire : k.wire[i] \in Requests
  BY <1>1
<1>3. ASSUME NEW i \in DOMAIN k.wire
      PROVE  asked[k.wire[i]].conn = c /\ asked[k.wire[i]].provider = Official
  <2>1. i \in DOMAIN k.obs /\ k.wire[i] = k.obs[i]
    BY <1>1, <1>3 DEF Queues, Ordered
  <2> QED BY <2>1 DEF Queues, Holds
<1>4. Holds(k, next, c)
  <2>1. \A i \in DOMAIN k.inbox : next[k.inbox[i]].conn = c /\ next[k.inbox[i]].phase # "new"
    BY <1>2 DEF Queues, Holds
  <2>2. \A i \in DOMAIN k.obs :
          next[k.obs[i]].conn = c /\ next[k.obs[i]].phase # "new" /\ next[k.obs[i]].provider = Official
    BY <1>2 DEF Queues, Holds
  <2>3. \A i \in DOMAIN k.wire : next[k.wire[i]].phase \in {"sent", "accepted"}
    BY <1>2, <1>3 DEF Queues, Holds, RouterConstants
  <2>4. k.lane # None => /\ next[k.lane].conn = c /\ next[k.lane].provider \in Customs
                         /\ next[k.lane].phase \in {"sent", "accepted"}
    BY <1>1 DEF Queues, Holds
  <2> QED BY <2>1, <2>2, <2>3, <2>4 DEF Queues, Holds
<1>5. Ordered(k, next)
  <2>1. ASSUME k.official = "connecting" PROVE next[Head(k.inbox)].phase = "opening"
    <3>1. k.inbox # <<>> /\ Head(k.inbox) = k.inbox[1] /\ 1 \in DOMAIN k.inbox
      BY <2>1, <1>1 DEF Queues, Ordered
    <3>2. asked[Head(k.inbox)].phase = "opening" /\ asked[Head(k.inbox)].conn = c
      BY <2>1, <3>1 DEF Queues, Ordered, Holds
    <3> QED BY <3>1, <3>2, <1>2
  <2> QED BY <2>1 DEF Queues, Ordered
<1> QED BY <1>4, <1>5 DEF Queues

\* The queues of a connection are lists of requests; what is next is in front of its rest.
LEMMA Lists ==
  ASSUME NEW q \in Seq(Requests)
  PROVE  /\ \A i \in DOMAIN q : q[i] \in Requests
         /\ q # <<>> => /\ Head(q) = q[1] /\ 1 \in DOMAIN q /\ Tail(q) \in Seq(Requests)
                        /\ Len(Tail(q)) = Len(q) - 1
                        /\ \A i \in DOMAIN Tail(q) : i + 1 \in DOMAIN q /\ i + 1 # 1 /\ Tail(q)[i] = q[i + 1]
                        /\ \A i \in DOMAIN Tail(q) : i \in Nat
         /\ \A r \in Requests : /\ Append(q, r) \in Seq(Requests) /\ Append(q, r) # <<>>
                                /\ Len(Append(q, r)) = Len(q) + 1
                                /\ DOMAIN Append(q, r) = DOMAIN q \cup {Len(q) + 1} /\ Len(q) + 1 \notin DOMAIN q
                                /\ Append(q, r)[Len(q) + 1] = r
                                /\ \A i \in DOMAIN q : Append(q, r)[i] = q[i]
                                /\ q # <<>> => Head(Append(q, r)) = Head(q)
OBVIOUS

(***************************************************************************)
(* The steps.                                                              *)
(***************************************************************************)
\* A step that leaves the requests alone leaves what was said of them.
LEMMA OnlyConnections ==
  ASSUME IInv, RouterConstants, ManagerType', req' = req, RoutesType', Ledger(routes, req, stray)',
         \A c \in Conns : conn'[c] = conn[c] \/ conn'[c] = [conn[c] EXCEPT !.client = "closing"],
         conn' \in [Conns -> Conn]
  PROVE  IInv'
<1>1. \A c \in Conns : Queues(conn'[c], req, c)
  <2>1. ASSUME NEW c \in Conns PROVE Queues(conn'[c], req, c)
    <3>1. /\ conn'[c].inbox = conn[c].inbox /\ conn'[c].obs = conn[c].obs /\ conn'[c].wire = conn[c].wire
          /\ conn'[c].lane = conn[c].lane /\ conn'[c].official = conn[c].official
      <4>1. conn[c] \in Conn
        BY DEF IInv, ConnType
      <4>2. CASE conn'[c] = conn[c]
        BY <4>2
      <4>3. CASE conn'[c] = [conn[c] EXCEPT !.client = "closing"]
        BY <4>1, <4>3 DEF Conn
      <4> QED BY <4>2, <4>3
    <3>2. Queues(conn[c], req, c)
      BY DEF IInv
    <3> QED BY <3>1, <3>2 DEF Queues, Holds, Ordered
  <2> QED BY <2>1
<1> QED BY <1>1 DEF IInv, ReqType, ConnType, Started

\* Configuring, closing and forgetting.
LEMMA ManagerKeeps ==
  ASSUME IInv, RouterConstants,
         Configure \/ Listen \/ Install \/ Reinstall \/ Disable \/ Close \/ Expire
  PROVE  IInv'
<1>1. ManagerType' /\ req' = req
  BY DEF IInv, ManagerType, Configure, Listen, Install, Reinstall, Disable, Close, Expire, Forget, bounds, manager
<1>2. /\ \A c \in Conns : conn'[c] = conn[c] \/ conn'[c] = [conn[c] EXCEPT !.client = "closing"]
      /\ conn' \in [Conns -> Conn]
  <2>1. conn' = conn \/ conn' = ClientsClosing
    BY DEF Configure, Listen, Install, Reinstall, Disable, Close, Expire, Forget, bounds, manager
  <2>2. conn \in [Conns -> Conn]
    BY DEF IInv, ConnType
  <2>3. \A k \in Conn : [k EXCEPT !.client = "closing"] \in Conn
    BY DEF Conn
  <2> QED BY <2>1, <2>2, <2>3 DEF ClientsClosing
<1>3. RoutesType' /\ Ledger(routes, req, stray)'
  <2>1. CASE UNCHANGED <<routes, stray>>
    BY <1>1, <2>1 DEF IInv, RoutesType, Ledger
  <2>2. CASE Install \/ Disable \/ Expire
    <3>1. /\ routes' \in [Threads -> Route \cup {None}]
          /\ \A t \in Threads : routes'[t] = routes[t] \/ routes'[t] = None
      <4>1. CASE Install \/ Disable
        BY <4>1 DEF Install, Disable, Forget, NoRoutes
      <4>2. CASE Expire
        <5>1. PICK t \in Known(routes) : routes' = [routes EXCEPT ![t] = None]
          BY <4>2 DEF Expire
        <5> QED BY <5>1 DEF IInv, RoutesType, Known
      <4> QED BY <2>2, <4>1, <4>2
    <3>2. stray' = stray \cup UNION {Bound(req, u) : u \in Known(routes) \ Known(routes')}
      BY <2>2 DEF Install, Disable, Expire, Forget, Remember
    <3>3. PICK new, more : new = routes' /\ more = stray' /\ new \in [Threads -> Route \cup {None}]
      BY <3>1
    <3>4. Ledger(new, req, more) /\ more \subseteq Requests
      BY <3>1, <3>2, <3>3, LedgerForgets DEF IInv
    <3> QED BY <1>1, <3>1, <3>3, <3>4 DEF RoutesType
  <2> QED BY <2>1, <2>2 DEF Configure, Listen, Reinstall, Close, bounds, manager
<1> QED BY <1>1, <1>2, <1>3, OnlyConnections

\* A request that comes, or whose phase changes, keeps its place in the types.
LEMMA ReqTypes ==
  ASSUME IInv, NEW r \in Requests,
         NEW a \in Asked, req' = [req EXCEPT ![r] = a], a.phase # "new" => a.thread \in Threads /\ a.provider \in Providers
  PROVE  ReqType' /\ Started' /\ req'[r] = a /\ \A q \in Requests : q # r => req'[q] = req[q]
BY DEF IInv, ReqType, Started

\* A phase that changes changes nothing else.
LEMMA Phased ==
  ASSUME IInv, NEW r \in Requests, NEW phase \in Phases, req[r].phase # "new"
  PROVE  /\ At(r, phase) = [req EXCEPT ![r] = [req[r] EXCEPT !.phase = phase]]
         /\ [req[r] EXCEPT !.phase = phase] \in Asked
         /\ [req[r] EXCEPT !.phase = phase].phase = phase
         /\ [req[r] EXCEPT !.phase = phase].thread = req[r].thread
         /\ [req[r] EXCEPT !.phase = phase].provider = req[r].provider
         /\ [req[r] EXCEPT !.phase = phase].gen = req[r].gen
         /\ [req[r] EXCEPT !.phase = phase].conn = req[r].conn
         /\ req[r].thread \in Threads /\ req[r].provider \in Providers
<1>1. req[r] \in Asked
  BY DEF IInv, ReqType
<1> QED BY <1>1 DEF At, Asked, Phases, IInv, Started

\* A step of one request: its phase changes, the rest of it stays.
LEMMA PhaseStep ==
  ASSUME IInv, NEW r \in Requests, NEW phase \in Phases \ {"new"}, req[r].phase # "new", req' = At(r, phase)
  PROVE  /\ ReqType' /\ Started' /\ \A q \in Requests : q # r => req'[q] = req[q]
         /\ req'[r].phase = phase /\ req'[r].thread = req[r].thread /\ req'[r].provider = req[r].provider
         /\ req'[r].gen = req[r].gen /\ req'[r].conn = req[r].conn
         /\ req[r].thread \in Threads /\ req[r].provider \in Providers
<1>. DEFINE a == [req[r] EXCEPT !.phase = phase]
<1>1. /\ req' = [req EXCEPT ![r] = a] /\ a \in Asked /\ a.phase = phase /\ a.thread = req[r].thread
      /\ a.provider = req[r].provider /\ a.gen = req[r].gen /\ a.conn = req[r].conn
      /\ req[r].thread \in Threads /\ req[r].provider \in Providers
  BY Phased
<1> HIDE DEF a
<1> QED BY <1>1, ReqTypes

\* What an HTTP request or its response does, no connection sees.
LEMMA NoConnectionSees ==
  ASSUME IInv, RouterConstants, ReqType', conn' = conn, NEW r \in Requests,
         \A q \in Requests : q # r => req'[q] = req[q],
         req[r].phase = "new" \/ req[r].conn = None
  PROVE  ConnType' /\ \A c \in Conns : Queues(conn[c], req, c)'
<1>1. ASSUME NEW c \in Conns PROVE Queues(conn[c], req', c)
  <2>1. PICK next : next = req' /\ next \in [Requests -> Asked]
    BY DEF ReqType
  <2>2. conn[c] \in Conn /\ Queues(conn[c], req, c) /\ req \in [Requests -> Asked]
    BY DEF IInv, ConnType, ReqType
  <2>3. \A q \in Requests : req[q].conn = c /\ req[q].phase # "new" =>
          next[q].conn = c /\ next[q].provider = req[q].provider /\ next[q].phase # "new"
          /\ next[q].phase = req[q].phase
    BY <2>1 DEF RouterConstants
  <2>4. Queues(conn[c], next, c)
    BY <2>1, <2>2, <2>3, QueuesStand
  <2> QED BY <2>1, <2>4
<1> QED BY <1>1 DEF IInv, ConnType

\* The table after a step: of requests without a claim, of a claim, and of rejections.
LEMMA StandStep ==
  ASSUME IInv, RouterConstants, ReqType', UNCHANGED <<routes, stray>>,
         \A r \in Requests : \/ req'[r] = req[r] \/ GoesOn(req[r], req'[r]) \/ Settled(req[r], req'[r])
  PROVE  Ledger(routes, req, stray)' /\ RoutesType'
<1>1. PICK next : next = req' /\ next \in [Requests -> Asked]
  BY DEF ReqType
<1>2. Ledger(routes, next, stray)
  BY <1>1, LedgerStands DEF IInv, RoutesType, ReqType
<1> QED BY <1>1, <1>2 DEF IInv, RoutesType

\* A claim is made of a request that comes or whose turn it is.
LEMMA ClaimStep ==
  ASSUME IInv, RouterConstants, ReqType', NEW r \in Requests,
         \A q \in Requests : q # r => req'[q] = req[q],
         req[r].phase \in {"new", "waiting"}, req'[r].phase \in {"opening", "sent", "lost"},
         req'[r].thread \in Threads, req'[r].provider \in Providers,
         req[r].thread = req'[r].thread \/ req[r].phase = "new",
         req'[r].gen => ~Refused(req'[r].thread, req'[r].provider),
         Claim(r, req')
  PROVE  Ledger(routes, req, stray)' /\ RoutesType'
<1>1. PICK next, new, more : next = req' /\ new = routes' /\ more = stray' /\ next \in [Requests -> Asked]
  BY DEF ReqType
<1>2. /\ new \in Claimed(r, next)
      /\ more = stray \cup UNION {Bound(next, u) : u \in Known(routes) \ Known(new)}
  BY <1>1 DEF Claim, Remember
<1>3. /\ \A q \in Requests : q # r => next[q] = req[q]
      /\ next[r].phase \in {"opening", "sent", "lost"} /\ next[r].thread \in Threads
      /\ next[r].provider \in Providers /\ (req[r].thread = next[r].thread \/ req[r].phase = "new")
      /\ next[r].gen => ~Refused(next[r].thread, next[r].provider)
  BY <1>1
<1>4. RoutesType /\ ReqType /\ Ledger(routes, req, stray)
  BY DEF IInv
<1>5. Ledger(new, next, more) /\ new \in [Threads -> Route \cup {None}] /\ more \subseteq Requests
  <2>1. next \in [Requests -> Asked] /\ req[r].phase \in {"new", "waiting"}
    BY <1>1
  <2> QED BY <1>2, <1>3, <1>4, <2>1, LedgerClaims
<1> QED BY <1>1, <1>5 DEF RoutesType

\* Claims are rejected: their requests are refused, or had been accepted and are served.
LEMMA RejectStep ==
  ASSUME IInv, RouterConstants, ReqType', NEW lost \in SUBSET Requests, Reject(lost),
         \A r \in Requests \ lost : req'[r] = req[r] \/ GoesOn(req[r], req'[r]),
         \A r \in lost : ~Live(req'[r]) \/ (GoesOn(req[r], req'[r]) /\ req[r].phase = "accepted")
  PROVE  Ledger(routes, req, stray)' /\ RoutesType'
<1>1. PICK next : next = req' /\ next \in [Requests -> Asked]
  BY DEF ReqType
<1>2. routes' = Rejected(routes, lost) /\ stray' = stray
  BY DEF Reject
<1>3. /\ \A r \in Requests \ lost : next[r] = req[r] \/ GoesOn(req[r], next[r])
      /\ \A r \in lost : ~Live(next[r]) \/ (GoesOn(req[r], next[r]) /\ req[r].phase = "accepted")
  BY <1>1
<1>4. RoutesType /\ ReqType /\ Ledger(routes, req, stray)
  BY DEF IInv
<1>5. /\ Ledger(Rejected(routes, lost), next, stray)
      /\ Rejected(routes, lost) \in [Threads -> Route \cup {None}]
  BY <1>1, <1>3, <1>4, LedgerRejects DEF RoutesType, ReqType
<1> QED BY <1>1, <1>2, <1>4, <1>5 DEF RoutesType

\* Requests over HTTP and their responses.
LEMMA HttpRequestKeeps ==
  ASSUME IInv, RouterConstants, NEW r \in Requests, NEW t \in Threads, NEW p \in Providers,
         HttpRequest(r, t, p)
  PROVE  IInv'
<1>. DEFINE yes == TRUE
            a(phase) == [phase |-> phase, thread |-> t, provider |-> p, gen |-> yes, conn |-> None]
<1>0. yes \in BOOLEAN /\ yes
  OBVIOUS
<1>1. /\ UNCHANGED <<manager, conn, bounds>> /\ req[r].phase = "new"
      /\ \/ req' = [req EXCEPT ![r] = a("refused")] /\ UNCHANGED <<routes, stray>>
         \/ /\ req' = [req EXCEPT ![r] = a("sent")] /\ ~Refused(t, p) /\ Claim(r, req')
  BY DEF HttpRequest, Next1, NewAsked
<1> HIDE DEF yes
<1>2. a("refused") \in Asked /\ a("sent") \in Asked
  BY <1>0 DEF Asked, Phases
<1>3. CASE req' = [req EXCEPT ![r] = a("refused")] /\ UNCHANGED <<routes, stray>>
  <2>1. ReqType' /\ Started' /\ req'[r] = a("refused") /\ \A q \in Requests : q # r => req'[q] = req[q]
    BY <1>2, <1>3, ReqTypes
  <2>2. Settled(req[r], req'[r])
    BY <1>1, <2>1 DEF Settled, Live
  <2>3. Ledger(routes, req, stray)' /\ RoutesType'
    BY <1>3, <2>1, <2>2, StandStep
  <2>4. ConnType' /\ \A c \in Conns : Queues(conn[c], req, c)'
    BY <1>1, <2>1, NoConnectionSees
  <2> QED BY <1>1, <2>1, <2>3, <2>4 DEF IInv, ManagerType, manager
<1>4. CASE req' = [req EXCEPT ![r] = a("sent")] /\ ~Refused(t, p) /\ Claim(r, req')
  <2>1. ReqType' /\ Started' /\ req'[r] = a("sent") /\ \A q \in Requests : q # r => req'[q] = req[q]
    BY <1>2, <1>4, ReqTypes
  <2>2. Ledger(routes, req, stray)' /\ RoutesType'
    <3>1. /\ req'[r].phase = "sent" /\ req'[r].thread = t /\ req'[r].provider = p
          /\ req'[r].gen => ~Refused(req'[r].thread, req'[r].provider)
      BY <1>4, <2>1
    <3> QED BY <1>1, <1>4, <2>1, <3>1, ClaimStep
  <2>3. ConnType' /\ \A c \in Conns : Queues(conn[c], req, c)'
    BY <1>1, <2>1, NoConnectionSees
  <2> QED BY <1>1, <2>1, <2>2, <2>3 DEF IInv, ManagerType, manager
<1> QED BY <1>1, <1>3, <1>4

\* An HTTP request is accepted, refused or served.
LEMMA HttpKeeps ==
  ASSUME IInv, RouterConstants, NEW r \in Requests, HttpStatus(r) \/ HttpEnds(r)
  PROVE  IInv'
<1>1. UNCHANGED <<manager, conn, bounds>> /\ req[r].conn = None
  BY DEF HttpStatus, HttpEnds
<1>2. CASE HttpStatus(r)
  <2>1. req[r].phase = "sent" /\ req' = At(r, "accepted") /\ UNCHANGED <<routes, stray>>
    BY <1>2 DEF HttpStatus
  <2>2. /\ ReqType' /\ Started' /\ GoesOn(req[r], req'[r]) /\ \A q \in Requests : q # r => req'[q] = req[q]
    BY <1>1, <2>1, PhaseStep DEF GoesOn, Phases
  <2>3. Ledger(routes, req, stray)' /\ RoutesType'
    BY <2>1, <2>2, StandStep
  <2> QED BY <1>1, <2>2, <2>3, NoConnectionSees DEF IInv, ManagerType, manager
<1>3. CASE req[r].phase = "sent" /\ req' = At(r, "refused") /\ Reject({r})
  <2>1. /\ ReqType' /\ Started' /\ ~Live(req'[r]) /\ \A q \in Requests : q # r => req'[q] = req[q]
    BY <1>3, PhaseStep DEF Live, Phases
  <2>2. Ledger(routes, req, stray)' /\ RoutesType'
    BY <1>3, <2>1, RejectStep
  <2> QED BY <1>1, <2>1, <2>2, NoConnectionSees DEF IInv, ManagerType, manager
<1>4. CASE req[r].phase = "accepted" /\ req' = At(r, "served") /\ Accepted(r, req')
  <2>1. /\ ReqType' /\ Started' /\ req[r].thread \in Threads /\ \A q \in Requests : q # r => req'[q] = req[q]
    BY <1>4, PhaseStep DEF Phases
  <2>2. Ledger(routes, req, stray)' /\ RoutesType'
    BY <1>1, <1>4, <2>1, LedgerAccepts DEF IInv
  <2> QED BY <1>1, <2>1, <2>2, NoConnectionSees DEF IInv, ManagerType, manager
<1> QED BY <1>2, <1>3, <1>4 DEF HttpEnds

\* One connection changes, and requests of its own only.
LEMMA ConnStep ==
  ASSUME IInv, RouterConstants, ReqType', NEW c \in Conns, NEW k \in Conn, conn' = [conn EXCEPT ![c] = k],
         Queues(k, req', c),
         \A r \in Requests : req'[r] = req[r] \/ req[r].phase = "new" \/ req[r].conn = c
  PROVE  ConnType' /\ \A d \in Conns : Queues(conn[d], req, d)'
<1>1. ConnType' /\ conn'[c] = k /\ \A d \in Conns : d # c => conn'[d] = conn[d]
  BY DEF IInv, ConnType
<1>2. ASSUME NEW d \in Conns PROVE Queues(conn'[d], req', d)
  <2>1. CASE d = c
    BY <1>1, <2>1
  <2>2. CASE d # c
    <3>1. PICK next : next = req' /\ next \in [Requests -> Asked]
      BY DEF ReqType
    <3>2. conn[d] \in Conn /\ Queues(conn[d], req, d) /\ req \in [Requests -> Asked]
      BY DEF IInv, ConnType, ReqType
    <3>3. \A q \in Requests : req[q].conn = d /\ req[q].phase # "new" => next[q] = req[q]
      BY <2>2, <3>1
    <3>4. Queues(conn[d], next, d)
      BY <3>1, <3>2, <3>3, QueuesStand
    <3> QED BY <1>1, <2>2, <3>1, <3>4
  <2> QED BY <2>1, <2>2
<1> QED BY <1>1, <1>2

\* The same of the connection that changes: first its requests, then its queues.
LEMMA QueuesGoOn ==
  ASSUME IInv, RouterConstants, ReqType', NEW c \in Conns,
         \A r \in Requests : req[r].conn = c /\ req[r].phase # "new" =>
           /\ req'[r].conn = c /\ req'[r].provider = req[r].provider /\ req'[r].phase # "new"
           /\ \/ req'[r].phase = req[r].phase
              \/ req[r].phase = "sent" /\ req'[r].phase = "accepted"
              \/ req[r].provider \in Customs /\ r # conn[c].lane /\ req[r].phase # "opening"
              \/ req[r].phase = "waiting"
  PROVE  Queues(conn[c], req', c)
<1>1. PICK next : next = req' /\ next \in [Requests -> Asked]
  BY DEF ReqType
<1>2. conn[c] \in Conn /\ Queues(conn[c], req, c) /\ req \in [Requests -> Asked]
  BY DEF IInv, ConnType, ReqType
<1>3. \A r \in Requests : req[r].conn = c /\ req[r].phase # "new" =>
        /\ next[r].conn = c /\ next[r].provider = req[r].provider /\ next[r].phase # "new"
        /\ \/ next[r].phase = req[r].phase
           \/ req[r].phase = "sent" /\ next[r].phase = "accepted"
           \/ req[r].provider \in Customs /\ r # conn[c].lane /\ req[r].phase # "opening"
           \/ req[r].phase = "waiting"
  BY <1>1
<1>4. Queues(conn[c], next, c)
  BY <1>1, <1>2, <1>3, QueuesStand
<1> QED BY <1>1, <1>4

\* A WebSocket connection opens, with empty queues.
LEMMA ConnectKeeps ==
  ASSUME IInv, RouterConstants, NEW c \in Conns, Connect(c)
  PROVE  IInv'
<1>. DEFINE k == [NoConn EXCEPT !.client = "open"]
<1>1. UNCHANGED <<manager, routes, req, stray>> /\ conn' = [conn EXCEPT ![c] = k]
  BY DEF Connect
<1>2. /\ k \in Conn /\ k.inbox = <<>> /\ k.obs = <<>> /\ k.wire = <<>> /\ k.lane = None /\ k.official = "none"
  <2>1. <<>> \in Seq(Requests)
    OBVIOUS
  <2>2. NoConn \in Conn
    BY <2>1 DEF NoConn, Conn
  <2>3. NoConn.inbox = <<>> /\ NoConn.obs = <<>> /\ NoConn.wire = <<>> /\ NoConn.lane = None /\ NoConn.official = "none"
    BY DEF NoConn
  <2>4. k \in Conn
    BY <2>2 DEF Conn
  <2>5. /\ k.inbox = NoConn.inbox /\ k.obs = NoConn.obs /\ k.wire = NoConn.wire /\ k.lane = NoConn.lane
        /\ k.official = NoConn.official
    BY <2>2 DEF Conn
  <2> QED BY <2>3, <2>4, <2>5
<1> HIDE DEF k
<1>3. Queues(k, req', c)
  BY <1>2 DEF Queues, Holds, Ordered
<1>4. ReqType' /\ Started' /\ RoutesType' /\ Ledger(routes, req, stray)' /\ ManagerType'
  BY <1>1 DEF IInv, ReqType, Started, RoutesType, Ledger, ManagerType, manager
<1> QED BY <1>1, <1>2, <1>3, <1>4, ConnStep DEF IInv

\* A message comes over a WebSocket connection and waits for its turn.
LEMMA FrameKeeps ==
  ASSUME IInv, RouterConstants, NEW c \in Conns, NEW r \in Requests, NEW t \in Threads,
         NEW p \in Providers, NEW gen \in BOOLEAN, Frame(c, r, t, p, gen)
  PROVE  IInv'
<1>. DEFINE a == [phase |-> "waiting", thread |-> t, provider |-> p, gen |-> gen, conn |-> c]
            k == [conn[c] EXCEPT !.inbox = Append(@, r)]
<1>1. /\ UNCHANGED <<manager, routes, stray, bounds>> /\ req[r].phase = "new"
      /\ req' = [req EXCEPT ![r] = a] /\ conn' = [conn EXCEPT ![c] = k]
  BY DEF Frame, Next1, NewAsked
<1>2. a \in Asked /\ a.phase = "waiting" /\ a.conn = c /\ a.thread \in Threads /\ a.provider \in Providers
  BY DEF Asked, Phases
<1>3. conn[c] \in Conn /\ conn[c].inbox \in Seq(Requests)
  BY DEF IInv, ConnType, Conn
<1>4. /\ k \in Conn /\ k.inbox = Append(conn[c].inbox, r) /\ k.obs = conn[c].obs /\ k.wire = conn[c].wire
      /\ k.lane = conn[c].lane /\ k.official = conn[c].official
  <2>1. Append(conn[c].inbox, r) \in Seq(Requests)
    BY <1>3
  <2>2. k \in Conn
    BY <1>3, <2>1 DEF Conn
  <2>3. k.inbox = Append(conn[c].inbox, r)
    BY <1>3 DEF Conn
  <2>4. /\ k.obs = conn[c].obs /\ k.wire = conn[c].wire
        /\ k.lane = conn[c].lane /\ k.official = conn[c].official
    BY <1>3 DEF Conn
  <2> QED BY <2>2, <2>3, <2>4
<1> HIDE DEF a, k
<1>5. ReqType' /\ Started' /\ req'[r] = a /\ \A q \in Requests : q # r => req'[q] = req[q]
  BY <1>1, <1>2, ReqTypes
<1>6. Ledger(routes, req, stray)' /\ RoutesType'
  <2>1. Settled(req[r], req'[r])
    BY <1>1, <1>2, <1>5 DEF Settled, Live
  <2> QED BY <1>1, <1>5, <2>1, StandStep
<1>7. Queues(conn[c], req', c)
  BY <1>1, <1>5, QueuesGoOn
<1>8. Queues(k, req', c)
  <2>1. Holds(k, req', c)
    <3>1. \A i \in DOMAIN k.inbox : req'[k.inbox[i]].conn = c /\ req'[k.inbox[i]].phase # "new"
      BY <1>2, <1>3, <1>4, <1>5, <1>7, Lists DEF Queues, Holds
    <3> QED BY <3>1, <1>4, <1>7 DEF Queues, Holds
  <2>2. Ordered(k, req')
    BY <1>3, <1>4, <1>7, Lists DEF Queues, Ordered
  <2> QED BY <2>1, <2>2 DEF Queues
<1>9. ConnType' /\ \A d \in Conns : Queues(conn[d], req, d)'
  BY <1>1, <1>4, <1>5, <1>8, ConnStep
<1> QED BY <1>1, <1>5, <1>6, <1>9 DEF IInv, ManagerType, manager

\* The message whose turn it is waits, and no message of its connection waits for the official socket.
LEMMA TurnIsWaiting ==
  ASSUME IInv, NEW c \in Conns, NEW r \in Requests, Turn(c, r)
  PROVE  /\ conn[c] \in Conn /\ conn[c].inbox \in Seq(Requests) /\ conn[c].inbox # <<>> /\ conn[c].official # "connecting"
         /\ conn[c].obs \in Seq(Requests) /\ conn[c].wire \in Seq(Requests)
         /\ conn[c].official \in {"none", "open", "closing", "closed", "failed"}
         /\ Tail(conn[c].inbox) \in Seq(Requests)
         /\ r = Head(conn[c].inbox) /\ req[r].phase = "waiting" /\ req[r].conn = c
<1>1. conn[c] \in Conn /\ conn[c].inbox \in Seq(Requests) /\ conn[c].inbox # <<>> /\ Queues(conn[c], req, c)
  BY DEF IInv, ConnType, Conn, Turn
<1>2. r = Head(conn[c].inbox) /\ req[r].phase = "waiting" /\ Head(conn[c].inbox) = conn[c].inbox[1] /\ 1 \in DOMAIN conn[c].inbox
  BY <1>1, Lists DEF Turn
<1>3. /\ conn[c].obs \in Seq(Requests) /\ conn[c].wire \in Seq(Requests)
      /\ conn[c].official \in {"none", "connecting", "open", "closing", "closed", "failed"}
  BY <1>1 DEF Conn
<1> QED BY <1>1, <1>2, <1>3, Lists DEF Queues, Holds, Ordered

\* A message that is worked on leaves the inbox.
LEMMA Dequeued ==
  ASSUME NEW k \in Conn, NEW asked, NEW c, Queues(k, asked, c), k.inbox # <<>>, k.official # "connecting",
         NEW new, new.inbox = Tail(k.inbox), new.obs = k.obs, new.wire = k.wire,
         new.lane = k.lane, new.official = k.official
  PROVE  Queues(new, asked, c)
<1>1. k.inbox \in Seq(Requests)
  BY DEF Conn
<1>2. \A i \in DOMAIN new.inbox : asked[new.inbox[i]].conn = c /\ asked[new.inbox[i]].phase # "new"
  BY <1>1, Lists DEF Queues, Holds
<1> QED BY <1>2 DEF Queues, Holds, Ordered

\* A message that is refused, or a prewarm that is answered here.
LEMMA WsAnsweredKeeps ==
  ASSUME IInv, RouterConstants, NEW c \in Conns, NEW r \in Requests, WsRefuse(c, r) \/ WsPrewarm(c, r)
  PROVE  IInv'
<1>. DEFINE k == [conn[c] EXCEPT !.inbox = Tail(@)]
<1>1. /\ UNCHANGED <<manager, routes, stray, bounds>> /\ Turn(c, r) /\ conn' = [conn EXCEPT ![c] = k]
      /\ req' = At(r, "refused") \/ (req' = At(r, "served") /\ ~req[r].gen)
  BY DEF WsRefuse, WsPrewarm, Unwaited
<1>2. /\ conn[c] \in Conn /\ conn[c].inbox # <<>> /\ conn[c].official # "connecting"
      /\ Tail(conn[c].inbox) \in Seq(Requests) /\ req[r].phase = "waiting" /\ req[r].conn = c
  BY <1>1, TurnIsWaiting
<1>3. k \in Conn
  BY <1>2 DEF Conn
<1>4. /\ k.inbox = Tail(conn[c].inbox) /\ k.obs = conn[c].obs /\ k.wire = conn[c].wire
      /\ k.lane = conn[c].lane /\ k.official = conn[c].official
  BY <1>2 DEF Conn
<1> HIDE DEF k
<1>5. /\ ReqType' /\ Started' /\ \A q \in Requests : q # r => req'[q] = req[q]
      /\ Settled(req[r], req'[r]) /\ req'[r].conn = c /\ req'[r].provider = req[r].provider /\ req'[r].phase # "new"
  BY <1>1, <1>2, PhaseStep DEF Settled, Live, Phases
<1>6. Ledger(routes, req, stray)' /\ RoutesType'
  BY <1>1, <1>5, StandStep
<1>7. Queues(conn[c], req', c)
  BY <1>2, <1>5, QueuesGoOn
<1>8. Queues(k, req', c)
  BY <1>2, <1>4, <1>7, Dequeued
<1>9. ConnType' /\ \A d \in Conns : Queues(conn[d], req, d)'
  BY <1>1, <1>2, <1>3, <1>5, <1>8, ConnStep
<1> QED BY <1>1, <1>5, <1>6, <1>9 DEF IInv, ManagerType, manager

\* A request of a custom provider takes the lane.
LEMMA WsBridgeKeeps ==
  ASSUME IInv, RouterConstants, NEW c \in Conns, NEW r \in Requests, WsBridge(c, r)
  PROVE  IInv'
<1>. DEFINE k == [conn[c] EXCEPT !.inbox = Tail(@), !.lane = r]
<1>1. /\ UNCHANGED <<manager, bounds>> /\ Turn(c, r) /\ conn[c].lane = None /\ req[r].provider \in Customs
      /\ req' = At(r, "sent") /\ Claim(r, req') /\ ~Refused(req[r].thread, req[r].provider)
  BY DEF WsBridge
<1>2. /\ conn[c] \in Conn /\ conn[c].inbox # <<>> /\ conn[c].official # "connecting"
      /\ Tail(conn[c].inbox) \in Seq(Requests) /\ req[r].phase = "waiting" /\ req[r].conn = c
  BY <1>1, TurnIsWaiting
<1>3. conn' = [conn EXCEPT ![c] = k]
  <2>1. [[conn[c] EXCEPT !.inbox = Tail(@)] EXCEPT !.lane = r] = k
    BY <1>2 DEF Conn
  <2> QED BY <2>1 DEF WsBridge, Unwaited, IInv, ConnType
<1>4. k \in Conn
  BY <1>2 DEF Conn
<1>5. /\ k.inbox = Tail(conn[c].inbox) /\ k.obs = conn[c].obs /\ k.wire = conn[c].wire
      /\ k.lane = r /\ k.official = conn[c].official
  BY <1>2 DEF Conn
<1> HIDE DEF k
<1>6. /\ ReqType' /\ Started' /\ \A q \in Requests : q # r => req'[q] = req[q]
      /\ req'[r].phase = "sent" /\ req'[r].conn = c /\ req'[r].provider = req[r].provider
      /\ req'[r].thread = req[r].thread /\ req'[r].thread \in Threads /\ req'[r].provider \in Providers
  BY <1>1, <1>2, PhaseStep DEF Phases
<1>7. Ledger(routes, req, stray)' /\ RoutesType'
  BY <1>1, <1>2, <1>6, ClaimStep
<1>8. Queues(conn[c], req', c)
  BY <1>2, <1>6, QueuesGoOn
<1>9. Queues(k, req', c)
  <2>. DEFINE l == [conn[c] EXCEPT !.inbox = Tail(@)]
  <2>1. /\ l.inbox = Tail(conn[c].inbox) /\ l.obs = conn[c].obs /\ l.wire = conn[c].wire
        /\ l.lane = conn[c].lane /\ l.official = conn[c].official
    BY <1>2 DEF Conn
  <2> HIDE DEF l
  <2>2. Queues(l, req', c)
    BY <1>2, <1>8, <2>1, Dequeued
  <2> QED BY <1>1, <1>5, <1>6, <2>1, <2>2 DEF Queues, Holds, Ordered
<1>10. ConnType' /\ \A d \in Conns : Queues(conn[d], req, d)'
  BY <1>2, <1>3, <1>4, <1>6, <1>9, ConnStep
<1> QED BY <1>1, <1>6, <1>7, <1>10 DEF IInv, ManagerType, manager

\* A request is observed: the observation is its connection's, and of the official service.
LEMMA ObservedHolds ==
  ASSUME NEW k \in Conn, NEW asked, NEW c, Holds(k, asked, c), NEW r \in Requests,
         asked[r].conn = c, asked[r].phase # "new", asked[r].provider = Official,
         NEW new, new.obs = Append(k.obs, r), new.wire = k.wire, new.lane = k.lane,
         new.inbox = k.inbox \/ (k.inbox # <<>> /\ new.inbox = Tail(k.inbox))
  PROVE  Holds(new, asked, c)
<1>1. k.inbox \in Seq(Requests) /\ k.obs \in Seq(Requests)
  BY DEF Conn
<1>2. \A i \in DOMAIN new.inbox : asked[new.inbox[i]].conn = c /\ asked[new.inbox[i]].phase # "new"
  <2>1. CASE new.inbox = k.inbox
    BY <2>1 DEF Holds
  <2>2. CASE k.inbox # <<>> /\ new.inbox = Tail(k.inbox)
    BY <1>1, <2>2, Lists DEF Holds
  <2> QED BY <2>1, <2>2
<1>3. \A i \in DOMAIN new.obs :
        asked[new.obs[i]].conn = c /\ asked[new.obs[i]].phase # "new" /\ asked[new.obs[i]].provider = Official
  BY <1>1, Lists DEF Holds
<1> QED BY <1>2, <1>3 DEF Holds

\* A claim leaves its task with a route.
LEMMA ClaimedIsKnown ==
  ASSUME RouterConstants, RoutesType, NEW r \in Requests, NEW asked, asked[r].gen,
         asked[r].thread \in Threads, asked[r].provider \in Providers, NEW new \in Claimed(r, asked)
  PROVE  new[asked[r].thread] # None
<1>. DEFINE t == asked[r].thread
            old == IF routes[t] = None THEN {} ELSE routes[t].pending
            sure == routes[t] # None /\ routes[t].confirmed
            route == [provider |-> asked[r].provider, pending |-> old \cup {r}, confirmed |-> sure]
<1>1. new \in Used(t, route)
  BY DEF Claimed
<1>2. routes[t] # None => routes[t] \in Route
  BY DEF RoutesType
<1>3. old \subseteq Requests /\ sure \in BOOLEAN
  BY <1>2 DEF Route
<1> HIDE DEF old, sure
<1>4. route \in Route
  BY <1>3 DEF Route
<1> HIDE DEF route
<1>5. new[t] = route
  BY <1>1 DEF Used
<1> QED BY <1>4, <1>5 DEF RouterConstants

\* An official request waits for the socket, is sent, meets a closing one, or finds a failed one.
LEMMA WsOfficialKeeps ==
  ASSUME IInv, RouterConstants, NEW c \in Conns, NEW r \in Requests, WsOfficial(c, r)
  PROVE  IInv'
<1>. DEFINE next == [conn[c] EXCEPT !.obs = Observed(c, r), !.inbox = Tail(@)]
<1>1. /\ UNCHANGED <<manager, bounds>> /\ Turn(c, r) /\ req[r].provider = Official
      /\ req[r].gen => ~Refused(req[r].thread, Official)
  BY DEF WsOfficial
<1>2. /\ conn[c] \in Conn /\ conn[c].inbox \in Seq(Requests) /\ conn[c].inbox # <<>>
      /\ conn[c].obs \in Seq(Requests) /\ conn[c].wire \in Seq(Requests) /\ conn[c].official # "connecting"
      /\ Tail(conn[c].inbox) \in Seq(Requests) /\ r = Head(conn[c].inbox)
      /\ req[r].phase = "waiting" /\ req[r].conn = c
  BY <1>1, TurnIsWaiting
<1>3. Append(conn[c].obs, r) \in Seq(Requests) /\ Append(conn[c].wire, r) \in Seq(Requests)
  BY <1>2
<1>4. next \in Conn
  BY <1>2, <1>3 DEF Conn, Observed
<1>5. /\ next.inbox = Tail(conn[c].inbox) /\ next.obs = Append(conn[c].obs, r) /\ next.wire = conn[c].wire
      /\ next.lane = conn[c].lane /\ next.official = conn[c].official
  BY <1>2 DEF Conn, Observed
<1> HIDE DEF next
<1>6. ASSUME NEW phase \in {"opening", "sent", "lost"}, req' = At(r, phase), Claim(r, req')
      PROVE  /\ ReqType' /\ Started' /\ Ledger(routes, req, stray)' /\ RoutesType'
             /\ \A q \in Requests : q # r => req'[q] = req[q]
             /\ req'[r].phase = phase /\ req'[r].conn = c /\ req'[r].provider = Official
             /\ Queues(conn[c], req', c)
  <2>1. /\ ReqType' /\ Started' /\ \A q \in Requests : q # r => req'[q] = req[q]
        /\ req'[r].phase = phase /\ req'[r].conn = c /\ req'[r].provider = Official /\ req'[r].gen = req[r].gen
        /\ req'[r].thread = req[r].thread /\ req'[r].thread \in Threads /\ req'[r].provider \in Providers
    BY <1>1, <1>2, <1>6, PhaseStep DEF Phases
  <2>2. Ledger(routes, req, stray)' /\ RoutesType'
    BY <1>1, <1>2, <1>6, <2>1, ClaimStep
  <2>3. Queues(conn[c], req', c)
    BY <1>1, <1>2, <2>1, QueuesGoOn
  <2> QED BY <2>1, <2>2, <2>3
<1>7. CASE /\ conn[c].official = "none" /\ req' = At(r, "opening") /\ Claim(r, req')
           /\ conn' = [conn EXCEPT ![c] = [next EXCEPT !.official = "connecting", !.inbox = conn[c].inbox]]
  <2>. DEFINE k == [next EXCEPT !.official = "connecting", !.inbox = conn[c].inbox]
  <2>1. k \in Conn
    BY <1>2, <1>4 DEF Conn
  <2>2. /\ k.inbox = conn[c].inbox /\ k.obs = Append(conn[c].obs, r) /\ k.wire = conn[c].wire
        /\ k.lane = conn[c].lane /\ k.official = "connecting"
    BY <1>4, <1>5 DEF Conn
  <2> HIDE DEF k
  <2>3. Holds(k, req', c)
    BY <1>2, <1>6, <1>7, <2>2, ObservedHolds DEF Queues
  <2>4. conn[c].obs = <<>> /\ conn[c].wire = <<>>
    BY <1>6, <1>7 DEF Queues, Ordered
  <2>5. Append(conn[c].obs, r) = <<r>>
    BY <2>4
  <2>6. Queues(k, req', c)
    BY <1>2, <1>6, <1>7, <2>2, <2>3, <2>4, <2>5 DEF Queues, Ordered
  <2>7. ConnType' /\ \A d \in Conns : Queues(conn[d], req, d)'
    BY <1>2, <1>6, <1>7, <2>1, <2>6, ConnStep DEF k
  <2> QED BY <1>1, <1>6, <1>7, <2>7 DEF IInv, ManagerType, manager
<1>8. CASE /\ conn[c].official = "open" /\ req' = At(r, "sent") /\ Claim(r, req')
           /\ conn' = [conn EXCEPT ![c] = [next EXCEPT !.wire = Append(@, r)]]
  <2>. DEFINE k == [next EXCEPT !.wire = Append(@, r)]
              l == conn[c]
  <2>1. k \in Conn
    BY <1>3, <1>4, <1>5 DEF Conn
  <2>2. /\ k.inbox = Tail(l.inbox) /\ k.obs = Append(l.obs, r) /\ k.wire = Append(l.wire, r)
        /\ k.lane = l.lane /\ k.official = "open"
    BY <1>4, <1>5, <1>8 DEF Conn
  <2>3. Holds(next, req', c)
    BY <1>2, <1>5, <1>6, <1>8, ObservedHolds DEF Queues
  <2> HIDE DEF k
  <2>4. \A i \in DOMAIN l.wire : l.wire[i] # r
    <3>1. \A i \in DOMAIN l.wire : req[l.wire[i]].phase \in {"sent", "accepted"}
      BY DEF IInv, Queues, Holds
    <3> QED BY <1>2, <3>1
  <2>5. \A i \in DOMAIN k.wire : req'[k.wire[i]].phase \in {"sent", "accepted"}
    <3>1. ASSUME NEW i \in DOMAIN k.wire PROVE req'[k.wire[i]].phase \in {"sent", "accepted"}
      <4>1. i \in DOMAIN l.wire => k.wire[i] = l.wire[i] /\ i \in DOMAIN next.wire /\ next.wire[i] = l.wire[i]
        BY <1>2, <1>5, <2>2, Lists
      <4>2. i \notin DOMAIN l.wire => k.wire[i] = r
        BY <1>2, <2>2, <3>1, Lists
      <4> QED BY <1>6, <1>8, <2>3, <4>1, <4>2 DEF Holds
    <3> QED BY <3>1
  <2>6. \A i, j \in DOMAIN k.wire : k.wire[i] = k.wire[j] => i = j
    <3>1. ASSUME NEW i \in DOMAIN k.wire
          PROVE  \/ i \in DOMAIN l.wire /\ k.wire[i] = l.wire[i] /\ k.wire[i] # r
                 \/ i = Len(l.wire) + 1 /\ k.wire[i] = r
      BY <1>2, <2>2, <2>4, <3>1, Lists
    <3>2. \A i, j \in DOMAIN l.wire : l.wire[i] = l.wire[j] => i = j
      BY <1>5, <2>3 DEF Holds
    <3> QED BY <3>1, <3>2
  <2>7. Holds(k, req', c)
    BY <1>5, <2>2, <2>3, <2>5, <2>6 DEF Holds
  <2>8. Queues(k, req', c)
    BY <1>6, <1>8, <2>2, <2>7 DEF Queues, Ordered
  <2>9. ConnType' /\ \A d \in Conns : Queues(conn[d], req, d)'
    BY <1>2, <1>6, <1>8, <2>1, <2>8, ConnStep DEF k
  <2> QED BY <1>1, <1>6, <1>8, <2>9 DEF IInv, ManagerType, manager
<1>9. CASE /\ conn[c].official \in {"closing", "closed"} /\ req' = At(r, "lost") /\ Claim(r, req')
           /\ conn' = [conn EXCEPT ![c] = next]
  <2>1. Holds(next, req', c)
    BY <1>2, <1>5, <1>6, <1>9, ObservedHolds DEF Queues
  <2>2. Ordered(next, req')
    <3>1. conn[c].official = "closing" => /\ Len(next.wire) <= Len(next.obs)
                                          /\ \A i \in DOMAIN next.wire : next.wire[i] = next.obs[i]
      <4>. SUFFICES ASSUME conn[c].official = "closing"
                    PROVE  /\ Len(next.wire) <= Len(next.obs)
                           /\ \A i \in DOMAIN next.wire : next.wire[i] = next.obs[i]
        OBVIOUS
      <4>1. /\ Len(conn[c].wire) <= Len(conn[c].obs)
            /\ \A i \in DOMAIN conn[c].wire : conn[c].wire[i] = conn[c].obs[i]
        BY <1>6, <1>9 DEF Queues, Ordered
      <4>2. \A i \in DOMAIN conn[c].wire : i \in DOMAIN conn[c].obs
        BY <1>2, <4>1
      <4> QED BY <1>2, <1>5, <4>1, <4>2, Lists
    <3> QED BY <1>5, <1>6, <1>9, <3>1 DEF Queues, Ordered
  <2>3. ConnType' /\ \A d \in Conns : Queues(conn[d], req, d)'
    BY <1>2, <1>4, <1>6, <1>9, <2>1, <2>2, ConnStep DEF Queues
  <2> QED BY <1>1, <1>6, <1>9, <2>3 DEF IInv, ManagerType, manager
<1>10. CASE /\ conn[c].official = "failed" /\ req' = At(r, "refused") /\ conn' = Unwaited(c)
            /\ \E table \in Claimed(r, req) : routes' = Rejected(table, {r}) /\ Remember(table, req')
  <2>. DEFINE t == req[r].thread
              mid == At(r, "sent")
              k == [conn[c] EXCEPT !.inbox = Tail(@)]
  <2>1. /\ ReqType' /\ Started' /\ \A q \in Requests : q # r => req'[q] = req[q]
        /\ req'[r].phase = "refused" /\ req'[r].conn = c /\ req'[r].provider = Official
        /\ req'[r].thread = t /\ t \in Threads
    BY <1>1, <1>2, <1>10, PhaseStep DEF Phases
  <2>2. /\ mid \in [Requests -> Asked] /\ \A q \in Requests : q # r => mid[q] = req[q]
        /\ mid[r].phase = "sent" /\ mid[r].thread = t /\ mid[r].provider = Official /\ mid[r].gen = req[r].gen
    <3>1. req[r] \in Asked /\ req \in [Requests -> Asked]
      BY DEF IInv, ReqType
    <3>2. "sent" \in Phases
      BY DEF Phases
    <3>3. [req[r] EXCEPT !.phase = "sent"] \in Asked
      BY <3>1, <3>2 DEF Asked
    <3>4. /\ [req[r] EXCEPT !.phase = "sent"].phase = "sent" /\ [req[r] EXCEPT !.phase = "sent"].thread = t
          /\ [req[r] EXCEPT !.phase = "sent"].provider = req[r].provider
          /\ [req[r] EXCEPT !.phase = "sent"].gen = req[r].gen
      BY <3>1 DEF Asked
    <3> QED BY <1>1, <3>1, <3>3, <3>4 DEF At
  <2> HIDE DEF mid
  <2>3. PICK table \in Claimed(r, req) : routes' = Rejected(table, {r}) /\ Remember(table, req')
    BY <1>10
  <2>4. table \in Claimed(r, mid)
    <3>1. mid[r].thread = req[r].thread /\ mid[r].provider = req[r].provider
      BY <1>1, <2>2
    <3>2. CASE req[r].gen
      BY <2>2, <2>3, <3>1, <3>2 DEF Claimed
    <3>3. CASE ~req[r].gen
      BY <2>2, <2>3, <3>3 DEF Claimed
    <3> QED BY <3>2, <3>3
  <2>. DEFINE more == stray \cup UNION {Bound(mid, u) : u \in Known(routes) \ Known(table)}
  <2>5. /\ Ledger(table, mid, more) /\ table \in [Threads -> Route \cup {None}] /\ more \subseteq Requests
    <3>1. RoutesType /\ ReqType /\ Ledger(routes, req, stray)
      BY DEF IInv
    <3>2. Official \in Providers /\ mid[r].thread \in Threads /\ req[r].thread = mid[r].thread
      BY <2>1, <2>2 DEF Providers
    <3>3. mid[r].gen => ~Refused(mid[r].thread, mid[r].provider)
      BY <1>1, <2>2
    <3>4. PICK x : x = more
      OBVIOUS
    <3>5. x = stray \cup UNION {Bound(mid, u) : u \in Known(routes) \ Known(table)}
      BY <3>4
    <3> HIDE DEF more
    <3>6. Ledger(table, mid, x) /\ table \in [Threads -> Route \cup {None}] /\ x \subseteq Requests
      BY <1>2, <2>2, <2>4, <3>1, <3>2, <3>3, <3>5, LedgerClaims
    <3> QED BY <3>4, <3>6
  <2>6. \A u \in Known(routes) \ Known(table) : Bound(mid, u) = Bound(req', u)
    <3>1. t \in Known(routes) => t \in Known(table)
      <4>1. CASE req[r].gen
        <5>1. RoutesType /\ Official \in Providers
          BY DEF IInv, Providers
        <5>2. table[req[r].thread] # None
          BY <1>1, <2>1, <2>3, <4>1, <5>1, ClaimedIsKnown
        <5> QED BY <5>2, <2>1 DEF Known
      <4>2. CASE ~req[r].gen
        BY <2>3, <4>2 DEF Claimed
      <4> QED BY <4>1, <4>2
    <3>2. ASSUME NEW u \in Known(routes) \ Known(table) PROVE Bound(mid, u) = Bound(req', u)
      <4>1. u # t
        BY <3>1
      <4> QED BY <2>1, <2>2, <4>1 DEF Bound
    <3> QED BY <3>2
  <2>7. stray' = more
    BY <2>3, <2>6 DEF Remember
  <2> HIDE DEF more
  <2>8. Ledger(routes, req, stray)' /\ RoutesType'
    <3>1. PICK next2 : next2 = req' /\ next2 \in [Requests -> Asked]
      BY <2>1 DEF ReqType
    <3>2. /\ \A q \in Requests \ {r} : next2[q] = mid[q]
          /\ \A q \in {r} : ~Live(next2[q])
      BY <2>1, <2>2, <3>1 DEF Live
    <3>3. /\ Ledger(Rejected(table, {r}), next2, more)
          /\ Rejected(table, {r}) \in [Threads -> Route \cup {None}]
      BY <2>2, <2>5, <3>1, <3>2, LedgerRejects
    <3> QED BY <2>3, <2>5, <2>7, <3>1, <3>3 DEF RoutesType
  <2>9. conn' = [conn EXCEPT ![c] = k] /\ k \in Conn
    BY <1>2, <1>10 DEF Conn, Unwaited
  <2>10. /\ k.inbox = Tail(conn[c].inbox) /\ k.obs = conn[c].obs /\ k.wire = conn[c].wire
         /\ k.lane = conn[c].lane /\ k.official = conn[c].official
    BY <1>2 DEF Conn
  <2> HIDE DEF k
  <2>11. Queues(conn[c], req', c)
    BY <1>1, <1>2, <2>1, QueuesGoOn
  <2>12. Queues(k, req', c)
    BY <1>2, <2>10, <2>11, Dequeued
  <2>13. ConnType' /\ \A d \in Conns : Queues(conn[d], req, d)'
    BY <1>2, <2>1, <2>9, <2>12, ConnStep
  <2> QED BY <1>1, <2>1, <2>8, <2>13 DEF IInv, ManagerType, manager
<1> QED BY <1>7, <1>8, <1>9, <1>10 DEF WsOfficial, next

\* The waiting message goes out over the socket that has opened.
LEMMA OfficialOpensKeeps ==
  ASSUME IInv, RouterConstants, NEW c \in Conns, OfficialOpens(c)
  PROVE  IInv'
<1>. DEFINE r == Head(conn[c].inbox)
            k == [conn[c] EXCEPT !.official = "open", !.inbox = Tail(@), !.wire = <<r>>]
<1>1. /\ UNCHANGED <<manager, routes, stray, bounds>> /\ conn[c].official = "connecting"
      /\ req' = At(r, "sent") /\ conn[c] \in Conn /\ conn[c].inbox \in Seq(Requests)
      /\ conn[c].obs \in Seq(Requests) /\ Queues(conn[c], req, c)
  BY DEF OfficialOpens, IInv, ConnType, Conn
<1>2. /\ conn[c].inbox # <<>> /\ conn[c].obs = <<r>> /\ req[r].phase = "opening"
  BY <1>1 DEF Queues, Ordered
<1>3. /\ r \in Requests /\ r = conn[c].inbox[1] /\ 1 \in DOMAIN conn[c].inbox
      /\ Tail(conn[c].inbox) \in Seq(Requests)
  BY <1>1, <1>2, Lists
<1>4. <<r>> \in Seq(Requests) /\ Len(<<r>>) = 1 /\ DOMAIN <<r>> = {1} /\ <<r>>[1] = r
  BY <1>3
<1>5. req[r].conn = c /\ req[r].provider = Official
  BY <1>1, <1>2, <1>4 DEF Queues, Holds
<1>6. conn' = [conn EXCEPT ![c] = k] /\ k \in Conn
  <2>1. conn' = [conn EXCEPT ![c] = k]
    BY <1>1 DEF OfficialOpens, IInv, ConnType
  <2>2. k \in Conn
    BY <1>1, <1>3, <1>4 DEF Conn
  <2> QED BY <2>1, <2>2
<1>7. /\ k.inbox = Tail(conn[c].inbox) /\ k.obs = <<r>> /\ k.wire = <<r>>
      /\ k.lane = conn[c].lane /\ k.official = "open"
  BY <1>1, <1>2 DEF Conn
<1> HIDE DEF k, r
<1>8. /\ ReqType' /\ Started' /\ \A q \in Requests : q # r => req'[q] = req[q]
      /\ req'[r].phase = "sent" /\ GoesOn(req[r], req'[r])
      /\ req'[r].conn = c /\ req'[r].provider = Official
  BY <1>1, <1>2, <1>3, <1>5, PhaseStep DEF GoesOn, Phases
<1>9. Ledger(routes, req, stray)' /\ RoutesType'
  BY <1>1, <1>8, StandStep
<1>10. Queues(k, req', c)
  <2>1. \A i \in DOMAIN k.inbox : req'[k.inbox[i]].conn = c /\ req'[k.inbox[i]].phase # "new"
    <3>1. ASSUME NEW i \in DOMAIN k.inbox PROVE req'[k.inbox[i]].conn = c /\ req'[k.inbox[i]].phase # "new"
      <4>1. /\ i + 1 \in DOMAIN conn[c].inbox /\ k.inbox[i] = conn[c].inbox[i + 1]
            /\ conn[c].inbox[i + 1] \in Requests
        BY <1>1, <1>2, <1>7, <3>1, Lists
      <4>2. req[k.inbox[i]].conn = c /\ req[k.inbox[i]].phase # "new"
        BY <1>1, <4>1 DEF Queues, Holds
      <4> QED BY <1>8, <4>1, <4>2
    <3> QED BY <3>1
  <2>2. k.lane # None => /\ req'[k.lane].conn = c /\ req'[k.lane].provider \in Customs
                         /\ req'[k.lane].phase \in {"sent", "accepted"}
    <3>1. k.lane # None => /\ req[k.lane].conn = c /\ req[k.lane].provider \in Customs
                           /\ req[k.lane].phase \in {"sent", "accepted"} /\ k.lane \in Requests
      BY <1>1, <1>7 DEF Queues, Holds, Conn
    <3> QED BY <1>2, <1>8, <3>1
  <2> QED BY <1>4, <1>7, <1>8, <2>1, <2>2 DEF Queues, Holds, Ordered
<1>11. ConnType' /\ \A d \in Conns : Queues(conn[d], req, d)'
  BY <1>5, <1>6, <1>8, <1>10, ConnStep
<1> QED BY <1>1, <1>8, <1>9, <1>11 DEF IInv, ManagerType, manager

\* The first observation of an open or closing socket is of the request answered first.
LEMMA FirstObserved ==
  ASSUME IInv, RouterConstants, NEW c \in Conns, conn[c].official \in {"open", "closing"},
         conn[c].wire # <<>>, conn[c].obs # <<>>
  PROVE  /\ conn[c] \in Conn /\ conn[c].wire \in Seq(Requests) /\ conn[c].obs \in Seq(Requests)
         /\ conn[c].inbox \in Seq(Requests)
         /\ Head(conn[c].obs) \in Requests /\ Head(conn[c].obs) = conn[c].wire[1] /\ 1 \in DOMAIN conn[c].wire
         /\ req[Head(conn[c].obs)].conn = c /\ req[Head(conn[c].obs)].provider = Official
         /\ req[Head(conn[c].obs)].phase \in {"sent", "accepted"}
<1>1. /\ conn[c] \in Conn /\ conn[c].wire \in Seq(Requests) /\ conn[c].obs \in Seq(Requests)
      /\ conn[c].inbox \in Seq(Requests) /\ Queues(conn[c], req, c)
  BY DEF IInv, ConnType, Conn
<1>2. /\ Head(conn[c].obs) = conn[c].obs[1] /\ 1 \in DOMAIN conn[c].obs /\ conn[c].obs[1] \in Requests
      /\ 1 \in DOMAIN conn[c].wire
  BY <1>1, Lists
<1>3. conn[c].wire[1] = conn[c].obs[1]
  BY <1>1, <1>2 DEF Queues, Ordered
<1> QED BY <1>1, <1>2, <1>3 DEF Queues, Holds

\* A request whose answer has come to its end leaves the wire and the observations.
LEMMA AnsweredQueues ==
  ASSUME IInv, RouterConstants, ReqType', NEW c \in Conns, conn[c].official \in {"open", "closing"},
         conn[c].wire # <<>>, conn[c].obs # <<>>,
         \A q \in Requests : q # Head(conn[c].obs) => req'[q] = req[q],
         req'[Head(conn[c].obs)].conn = c, req'[Head(conn[c].obs)].phase # "new",
         req'[Head(conn[c].obs)].provider = Official,
         NEW k, k.inbox = conn[c].inbox, k.obs = Tail(conn[c].obs), k.wire = Tail(conn[c].wire),
         k.lane = conn[c].lane, k.official = conn[c].official
  PROVE  Queues(k, req', c)
<1>. DEFINE e == Head(conn[c].obs)
            l == conn[c]
<1>1. /\ l \in Conn /\ l.wire \in Seq(Requests) /\ l.obs \in Seq(Requests) /\ l.inbox \in Seq(Requests)
      /\ e \in Requests /\ e = l.wire[1] /\ 1 \in DOMAIN l.wire
      /\ req[e].conn = c /\ req[e].provider = Official /\ Queues(l, req, c)
  BY FirstObserved DEF IInv
<1>2. \A q \in Requests : req[q].conn = c /\ req[q].phase # "new" => req'[q].conn = c /\ req'[q].phase # "new"
  OBVIOUS
<1>3. \A i \in DOMAIN k.inbox : req'[k.inbox[i]].conn = c /\ req'[k.inbox[i]].phase # "new"
  <2>1. ASSUME NEW i \in DOMAIN k.inbox
        PROVE  req'[k.inbox[i]].conn = c /\ req'[k.inbox[i]].phase # "new"
    <3>1. k.inbox[i] \in Requests
      BY <1>1, Lists
    <3>2. req[k.inbox[i]].conn = c /\ req[k.inbox[i]].phase # "new"
      BY <1>1 DEF Queues, Holds
    <3> QED BY <1>2, <3>1, <3>2
  <2> QED BY <2>1
<1>4. \A i \in DOMAIN k.obs :
        req'[k.obs[i]].conn = c /\ req'[k.obs[i]].phase # "new" /\ req'[k.obs[i]].provider = Official
  <2>1. ASSUME NEW i \in DOMAIN k.obs
        PROVE  req'[k.obs[i]].conn = c /\ req'[k.obs[i]].phase # "new" /\ req'[k.obs[i]].provider = Official
    <3>1. i + 1 \in DOMAIN l.obs /\ k.obs[i] = l.obs[i + 1] /\ l.obs[i + 1] \in Requests
      BY <1>1, <2>1, Lists
    <3>2. req[k.obs[i]].conn = c /\ req[k.obs[i]].phase # "new" /\ req[k.obs[i]].provider = Official
      BY <1>1, <3>1 DEF Queues, Holds
    <3> QED BY <3>1, <3>2
  <2> QED BY <2>1
<1>5. ASSUME NEW i \in DOMAIN k.wire
      PROVE  /\ i \in Nat /\ i + 1 \in DOMAIN l.wire /\ k.wire[i] = l.wire[i + 1] /\ k.wire[i] \in Requests
             /\ k.wire[i] # e
  <2>1. /\ i \in Nat /\ i + 1 \in DOMAIN l.wire /\ k.wire[i] = l.wire[i + 1] /\ l.wire[i + 1] \in Requests
        /\ i + 1 # 1
    BY <1>1, <1>5, Lists
  <2>2. l.wire[i + 1] # l.wire[1]
    BY <1>1, <2>1 DEF Queues, Holds
  <2> QED BY <1>1, <2>1, <2>2
<1>6. \A i \in DOMAIN k.wire : req'[k.wire[i]].phase \in {"sent", "accepted"}
  BY <1>1, <1>5 DEF Queues, Holds
<1>7. \A i, j \in DOMAIN k.wire : k.wire[i] = k.wire[j] => i = j
  <2>1. \A i, j \in DOMAIN l.wire : l.wire[i] = l.wire[j] => i = j
    BY <1>1 DEF Queues, Holds
  <2>2. ASSUME NEW i \in DOMAIN k.wire, NEW j \in DOMAIN k.wire, k.wire[i] = k.wire[j] PROVE i = j
    <3>1. i \in Nat /\ j \in Nat /\ i + 1 = j + 1
      BY <1>5, <2>1, <2>2
    <3> QED BY <3>1
  <2> QED BY <2>2
<1>8. k.lane # None => /\ req'[k.lane].conn = c /\ req'[k.lane].provider \in Customs
                       /\ req'[k.lane].phase \in {"sent", "accepted"}
  <2>1. k.lane # None => /\ req[k.lane].conn = c /\ req[k.lane].provider \in Customs
                         /\ req[k.lane].phase \in {"sent", "accepted"} /\ k.lane \in Requests
    BY <1>1 DEF Queues, Holds, Conn
  <2> QED BY <1>1, <2>1 DEF RouterConstants
<1>9. Ordered(k, req')
  <2>1. CASE l.official = "open"
    <3>1. l.wire = l.obs
      BY <1>1, <2>1 DEF Queues, Ordered
    <3> QED BY <2>1, <3>1 DEF Ordered
  <2>2. CASE l.official = "closing"
    <3>1. Len(l.wire) <= Len(l.obs) /\ \A i \in DOMAIN l.wire : l.wire[i] = l.obs[i]
      BY <1>1, <2>2 DEF Queues, Ordered
    <3>2. Len(k.wire) = Len(l.wire) - 1 /\ Len(k.obs) = Len(l.obs) - 1
      BY <1>1, Lists
    <3>3. Len(k.wire) <= Len(k.obs)
      BY <1>1, <3>1, <3>2
    <3>4. \A i \in DOMAIN k.wire : k.wire[i] = k.obs[i]
      <4>1. ASSUME NEW i \in DOMAIN k.wire PROVE k.wire[i] = k.obs[i]
        <5>1. k.wire[i] = l.obs[i + 1]
          BY <1>5, <3>1
        <5>2. i \in DOMAIN k.obs
          BY <1>1, <3>3
        <5> QED BY <1>1, <5>1, <5>2, Lists
      <4> QED BY <4>1
    <3> QED BY <2>2, <3>3, <3>4 DEF Ordered
  <2> QED BY <2>1, <2>2
<1> QED BY <1>3, <1>4, <1>6, <1>7, <1>8, <1>9 DEF Queues, Holds

\* The official service accepts, ends or refuses the request it answers.
LEMMA OfficialAnswersKeeps ==
  ASSUME IInv, RouterConstants, NEW c \in Conns, OfficialAnswers(c)
  PROVE  IInv'
<1>. DEFINE e == Head(conn[c].obs)
            k == [conn[c] EXCEPT !.obs = Tail(@), !.wire = Tail(@)]
<1>1. /\ UNCHANGED <<manager, bounds>> /\ conn[c].official \in {"open", "closing"}
      /\ conn[c].wire # <<>> /\ conn[c].obs # <<>>
  BY DEF OfficialAnswers
<1>2. /\ conn[c] \in Conn /\ conn[c].wire \in Seq(Requests) /\ conn[c].obs \in Seq(Requests)
      /\ e \in Requests /\ req[e].conn = c /\ req[e].provider = Official /\ req[e].phase \in {"sent", "accepted"}
      /\ Tail(conn[c].obs) \in Seq(Requests) /\ Tail(conn[c].wire) \in Seq(Requests)
  BY <1>1, FirstObserved, Lists
<1>3. c # None /\ req[e].thread \in Threads
  BY <1>2 DEF IInv, Started, RouterConstants
<1>4. k \in Conn
  BY <1>2 DEF Conn
<1>5. /\ k.inbox = conn[c].inbox /\ k.obs = Tail(conn[c].obs) /\ k.wire = Tail(conn[c].wire)
      /\ k.lane = conn[c].lane /\ k.official = conn[c].official
  BY <1>2 DEF Conn
<1>6. \/ req[e].phase = "sent" /\ req' = At(e, "accepted") /\ Accepted(e, req') /\ UNCHANGED conn
      \/ /\ req' = At(e, "served") /\ conn' = [conn EXCEPT ![c] = k]
         /\ IF req[e].phase = "sent" THEN Accepted(e, req') ELSE UNCHANGED <<routes, stray>>
      \/ /\ req[e].phase = "sent" /\ req' = At(e, "refused") /\ conn' = [conn EXCEPT ![c] = k]
         /\ Reject({e})
  <2>1. [conn EXCEPT ![c].obs = Tail(@), ![c].wire = Tail(@)] = [conn EXCEPT ![c] = k]
    BY DEF IInv, ConnType
  <2> QED BY <2>1 DEF OfficialAnswers
<1> HIDE DEF k, e
<1>7. ASSUME NEW phase \in {"accepted", "served", "refused"}, req' = At(e, phase)
      PROVE  /\ ReqType' /\ Started' /\ \A q \in Requests : q # e => req'[q] = req[q]
             /\ req'[e].phase = phase /\ req'[e].conn = c /\ req'[e].provider = Official
             /\ req'[e].thread = req[e].thread /\ req'[e].gen = req[e].gen
  BY <1>2, <1>7, PhaseStep DEF Phases
<1>8. ASSUME NEW phase \in {"served", "refused"}, req' = At(e, phase), conn' = [conn EXCEPT ![c] = k]
      PROVE  ConnType' /\ \A d \in Conns : Queues(conn[d], req, d)'
  <2>1. Queues(k, req', c)
    BY <1>1, <1>5, <1>7, <1>8, AnsweredQueues DEF e
  <2> QED BY <1>2, <1>4, <1>7, <1>8, <2>1, ConnStep
<1>9. CASE req[e].phase = "sent" /\ req' = At(e, "accepted") /\ Accepted(e, req') /\ UNCHANGED conn
  <2>1. Ledger(routes, req, stray)' /\ RoutesType'
    BY <1>2, <1>3, <1>7, <1>9, LedgerAccepts DEF IInv
  <2>2. Queues(conn[c], req', c)
    BY <1>2, <1>7, <1>9, QueuesGoOn
  <2>3. conn' = [conn EXCEPT ![c] = conn[c]]
    BY <1>9 DEF IInv, ConnType
  <2>4. ConnType' /\ \A d \in Conns : Queues(conn[d], req, d)'
    BY <1>2, <1>7, <1>9, <2>2, <2>3, ConnStep
  <2> QED BY <1>1, <1>7, <1>9, <2>1, <2>4 DEF IInv, ManagerType, manager
<1>10. CASE /\ req' = At(e, "served") /\ conn' = [conn EXCEPT ![c] = k]
            /\ IF req[e].phase = "sent" THEN Accepted(e, req') ELSE UNCHANGED <<routes, stray>>
  <2>1. Ledger(routes, req, stray)' /\ RoutesType'
    <3>1. CASE req[e].phase = "sent"
      BY <1>2, <1>3, <1>7, <1>10, <3>1, LedgerAccepts DEF IInv
    <3>2. CASE req[e].phase # "sent"
      <4>1. GoesOn(req[e], req'[e])
        BY <1>2, <1>3, <1>7, <1>10, <3>2 DEF GoesOn
      <4> QED BY <1>7, <1>10, <3>2, <4>1, StandStep
    <3> QED BY <3>1, <3>2
  <2> QED BY <1>1, <1>7, <1>8, <1>10, <2>1 DEF IInv, ManagerType, manager
<1>11. CASE /\ req[e].phase = "sent" /\ req' = At(e, "refused") /\ conn' = [conn EXCEPT ![c] = k]
            /\ Reject({e})
  <2>1. Ledger(routes, req, stray)' /\ RoutesType'
    <3>1. ~Live(req'[e])
      BY <1>7, <1>11 DEF Live
    <3> QED BY <1>2, <1>7, <1>11, <3>1, RejectStep
  <2> QED BY <1>1, <1>7, <1>8, <1>11, <2>1 DEF IInv, ManagerType, manager
<1> QED BY <1>6, <1>9, <1>10, <1>11

\* The requests of a connection that are observed.
Watched(c) == {r \in Requests : \E i \in DOMAIN conn[c].obs : conn[c].obs[i] = r}

\* The observations of a lost socket come to an end: accepted requests are served, others refused.
LEMMA AbortedEnds ==
  ASSUME IInv, RouterConstants, NEW c \in Conns
  PROVE  /\ Aborted(c) \in [Requests -> Asked]
         /\ \A r \in Requests \ Watched(c) : Aborted(c)[r] = req[r]
         /\ \A r \in Watched(c) :
              /\ req[r].conn = c /\ req[r].provider = Official /\ req[r].phase # "new"
              /\ Aborted(c)[r].conn = c /\ Aborted(c)[r].provider = Official
              /\ Aborted(c)[r].thread = req[r].thread /\ Aborted(c)[r].gen = req[r].gen
              /\ Aborted(c)[r].phase = IF req[r].phase = "accepted" THEN "served" ELSE "refused"
         /\ Unsettled(c) = {r \in Watched(c) : req[r].phase # "accepted"}
<1>1. /\ conn[c].obs \in Seq(Requests) /\ Queues(conn[c], req, c) /\ req \in [Requests -> Asked]
  BY DEF IInv, ConnType, Conn, ReqType
<1>2. \A r \in Watched(c) : req[r].conn = c /\ req[r].provider = Official /\ req[r].phase # "new"
  BY <1>1 DEF Watched, Queues, Holds
<1>3. \A r \in Requests : Aborted(c)[r] = IF r \in Watched(c)
        THEN [req[r] EXCEPT !.phase = IF req[r].phase = "accepted" THEN "served" ELSE "refused"] ELSE req[r]
  BY DEF Aborted, Watched
<1>4. ASSUME NEW r \in Requests, NEW phase \in {"served", "refused"}
      PROVE  /\ [req[r] EXCEPT !.phase = phase] \in Asked
             /\ [req[r] EXCEPT !.phase = phase].phase = phase
             /\ [req[r] EXCEPT !.phase = phase].conn = req[r].conn
             /\ [req[r] EXCEPT !.phase = phase].provider = req[r].provider
             /\ [req[r] EXCEPT !.phase = phase].thread = req[r].thread
             /\ [req[r] EXCEPT !.phase = phase].gen = req[r].gen
  <2>1. req[r] \in Asked
    BY <1>1
  <2> QED BY <2>1 DEF Asked, Phases
<1>5. ASSUME NEW r \in Watched(c)
      PROVE  /\ Aborted(c)[r] \in Asked /\ Aborted(c)[r].conn = c /\ Aborted(c)[r].provider = Official
             /\ Aborted(c)[r].thread = req[r].thread /\ Aborted(c)[r].gen = req[r].gen
             /\ Aborted(c)[r].phase = IF req[r].phase = "accepted" THEN "served" ELSE "refused"
  <2>1. r \in Requests
    BY DEF Watched
  <2>2. PICK phase \in {"served", "refused"} : phase = IF req[r].phase = "accepted" THEN "served" ELSE "refused"
    OBVIOUS
  <2>3. Aborted(c)[r] = [req[r] EXCEPT !.phase = phase]
    BY <1>3, <2>1, <2>2
  <2>4. /\ Aborted(c)[r] \in Asked /\ Aborted(c)[r].phase = phase /\ Aborted(c)[r].conn = req[r].conn
        /\ Aborted(c)[r].provider = req[r].provider /\ Aborted(c)[r].thread = req[r].thread
        /\ Aborted(c)[r].gen = req[r].gen
    <3>. DEFINE x == [req[r] EXCEPT !.phase = phase]
    <3>1. /\ x \in Asked /\ x.phase = phase /\ x.conn = req[r].conn /\ x.provider = req[r].provider
          /\ x.thread = req[r].thread /\ x.gen = req[r].gen
      BY <1>4, <2>1
    <3> HIDE DEF x
    <3>2. Aborted(c)[r] = x
      BY <2>3 DEF x
    <3> QED BY <3>1, <3>2
  <2> QED BY <1>2, <2>2, <2>4
<1>6. Aborted(c) \in [Requests -> Asked]
  <2>1. \A r \in Requests : Aborted(c)[r] \in Asked
    BY <1>1, <1>3, <1>5
  <2>2. DOMAIN Aborted(c) = Requests
    BY DEF Aborted
  <2>3. Aborted(c) = [r \in Requests |-> Aborted(c)[r]]
    BY DEF Aborted
  <2> QED BY <2>1, <2>3
<1>7. Unsettled(c) = {r \in Watched(c) : req[r].phase # "accepted"}
  BY DEF Unsettled, Watched
<1> QED BY <1>2, <1>3, <1>5, <1>6, <1>7

\* The fields of a connection that has lost its official socket.
LEMMA DroppedFields ==
  ASSUME IInv, NEW c \in Conns
  PROVE  /\ conn[c] \in Conn /\ Dropped(c) \in Conn
         /\ Dropped(c).obs = <<>> /\ Dropped(c).wire = <<>> /\ Dropped(c).lane = conn[c].lane
         /\ Dropped(c).official \in {"failed", "closed"}
         /\ \/ Dropped(c).inbox = conn[c].inbox
            \/ conn[c].inbox # <<>> /\ Dropped(c).inbox = Tail(conn[c].inbox)
<1>1. /\ conn[c] \in Conn /\ conn[c].inbox \in Seq(Requests) /\ Queues(conn[c], req, c)
      /\ <<>> \in Seq(Requests)
  BY DEF IInv, ConnType, Conn
<1>2. conn[c].official = "connecting" => conn[c].inbox # <<>>
  BY <1>1 DEF Queues, Ordered
<1>3. PICK inbox, official :
        /\ inbox = (IF conn[c].official = "connecting" THEN Tail(conn[c].inbox) ELSE conn[c].inbox)
        /\ official = IF conn[c].official = "connecting" THEN "failed" ELSE "closed"
  OBVIOUS
<1>4. inbox \in Seq(Requests)
  BY <1>1, <1>2, <1>3, Lists
<1>5. Dropped(c) = [conn[c] EXCEPT !.official = official, !.inbox = inbox, !.obs = <<>>, !.wire = <<>>]
  BY <1>1, <1>3 DEF Dropped, Conn
<1>6. Dropped(c) \in Conn
  BY <1>1, <1>3, <1>4, <1>5 DEF Conn
<1>7. /\ Dropped(c).obs = <<>> /\ Dropped(c).wire = <<>> /\ Dropped(c).lane = conn[c].lane
      /\ Dropped(c).official = official /\ Dropped(c).inbox = inbox
  BY <1>1, <1>5 DEF Conn
<1> QED BY <1>1, <1>2, <1>3, <1>6, <1>7

\* The queues of a connection without its official socket, with its bridge or without it.
LEMMA DroppedQueues ==
  ASSUME IInv, RouterConstants, NEW c \in Conns, NEW asked, NEW k,
         \A r \in Requests : req[r].conn = c /\ req[r].phase # "new" =>
           /\ asked[r].conn = c /\ asked[r].phase # "new"
           /\ (req[r].provider \in Customs /\ k.lane # None) => asked[r] = req[r],
         k.inbox = Dropped(c).inbox, k.obs = <<>>, k.wire = <<>>,
         k.lane \in {conn[c].lane, None}, k.official \in {"failed", "closed"}
  PROVE  Queues(k, asked, c)
<1>1. /\ conn[c] \in Conn /\ conn[c].inbox \in Seq(Requests) /\ Queues(conn[c], req, c)
      /\ conn[c].lane \in Requests \cup {None}
  BY DEF IInv, ConnType, Conn
<1>2. \A i \in DOMAIN k.inbox : asked[k.inbox[i]].conn = c /\ asked[k.inbox[i]].phase # "new"
  <2>1. \A i \in DOMAIN conn[c].inbox :
          asked[conn[c].inbox[i]].conn = c /\ asked[conn[c].inbox[i]].phase # "new"
    BY <1>1, Lists DEF Queues, Holds
  <2>2. k.inbox = conn[c].inbox \/ (conn[c].inbox # <<>> /\ k.inbox = Tail(conn[c].inbox))
    BY DroppedFields
  <2>3. CASE k.inbox = conn[c].inbox
    BY <2>1, <2>3
  <2>4. CASE conn[c].inbox # <<>> /\ k.inbox = Tail(conn[c].inbox)
    BY <1>1, <2>1, <2>4, Lists
  <2> QED BY <2>2, <2>3, <2>4
<1>3. k.lane # None => /\ asked[k.lane].conn = c /\ asked[k.lane].provider \in Customs
                       /\ asked[k.lane].phase \in {"sent", "accepted"}
  BY <1>1 DEF Queues, Holds
<1>4. DOMAIN <<>> = {}
  OBVIOUS
<1> QED BY <1>2, <1>3, <1>4 DEF Queues, Holds, Ordered

\* The official socket fails to open, or closes.
LEMMA OfficialClosesKeeps ==
  ASSUME IInv, RouterConstants, NEW c \in Conns, OfficialCloses(c)
  PROVE  IInv'
<1>. DEFINE k == [Dropped(c) EXCEPT !.client = IF @ = "open" THEN "closing" ELSE @]
<1>1. /\ UNCHANGED <<manager, bounds>> /\ req' = Aborted(c) /\ Reject(Unsettled(c))
      /\ conn' = [conn EXCEPT ![c] = k]
  BY DEF OfficialCloses
<1>2. k \in Conn
  BY DroppedFields DEF Conn
<1>3. /\ k.inbox = Dropped(c).inbox /\ k.obs = <<>> /\ k.wire = <<>> /\ k.lane = conn[c].lane
      /\ k.official \in {"failed", "closed"}
  BY DroppedFields DEF Conn
<1> HIDE DEF k
<1>4. /\ ReqType' /\ \A r \in Requests \ Watched(c) : req'[r] = req[r]
      /\ \A r \in Watched(c) :
           /\ req[r].conn = c /\ req[r].provider = Official /\ req[r].phase # "new"
           /\ req'[r].conn = c /\ req'[r].provider = Official
           /\ req'[r].thread = req[r].thread /\ req'[r].gen = req[r].gen
           /\ req'[r].phase = IF req[r].phase = "accepted" THEN "served" ELSE "refused"
      /\ Unsettled(c) = {r \in Watched(c) : req[r].phase # "accepted"}
  BY <1>1, AbortedEnds DEF ReqType
<1>5. c # None /\ Watched(c) \subseteq Requests /\ Unsettled(c) \in SUBSET Requests
  BY <1>4 DEF RouterConstants, Watched
<1>6. Started'
  BY <1>4, <1>5 DEF IInv, Started
<1>7. Ledger(routes, req, stray)' /\ RoutesType'
  <2>1. \A r \in Requests \ Unsettled(c) : req'[r] = req[r] \/ GoesOn(req[r], req'[r])
    BY <1>4, <1>5 DEF GoesOn
  <2>2. \A r \in Unsettled(c) : ~Live(req'[r])
    BY <1>4 DEF Live
  <2> QED BY <1>1, <1>4, <1>5, <2>1, <2>2, RejectStep
<1>8. Queues(k, req', c)
  <2>1. \A r \in Requests : req[r].conn = c /\ req[r].phase # "new" =>
          /\ req'[r].conn = c /\ req'[r].phase # "new"
          /\ (req[r].provider \in Customs /\ k.lane # None) => req'[r] = req[r]
    BY <1>4 DEF RouterConstants
  <2> QED BY <1>3, <2>1, DroppedQueues
<1>9. ConnType' /\ \A d \in Conns : Queues(conn[d], req, d)'
  BY <1>1, <1>2, <1>4, <1>8, ConnStep
<1> QED BY <1>1, <1>4, <1>6, <1>7, <1>9 DEF IInv, ManagerType, manager

\* The bridge's provider accepts.
LEMMA BridgeStatusKeeps ==
  ASSUME IInv, RouterConstants, NEW r \in Requests, BridgeStatus(r)
  PROVE  IInv'
<1>1. /\ UNCHANGED <<manager, conn, bounds>> /\ req[r].phase = "sent"
      /\ req' = At(r, "accepted") /\ Accepted(r, req')
  BY DEF BridgeStatus
<1>2. /\ ReqType' /\ Started' /\ req[r].thread \in Threads /\ \A q \in Requests : q # r => req'[q] = req[q]
      /\ req'[r].phase = "accepted" /\ req'[r].conn = req[r].conn /\ req'[r].provider = req[r].provider
  BY <1>1, PhaseStep DEF Phases
<1>3. Ledger(routes, req, stray)' /\ RoutesType'
  BY <1>1, <1>2, LedgerAccepts DEF IInv
<1>4. \A c \in Conns : Queues(conn[c], req', c)
  <2>1. ASSUME NEW c \in Conns PROVE Queues(conn[c], req', c)
    BY <1>1, <1>2, QueuesGoOn
  <2> QED BY <2>1
<1> QED BY <1>1, <1>2, <1>3, <1>4 DEF IInv, ManagerType, ConnType, manager

\* A bridge ends, and its lane is free.
LEMMA BridgeEndsKeeps ==
  ASSUME IInv, RouterConstants, NEW r \in Requests, BridgeEnds(r)
  PROVE  IInv'
<1>. DEFINE phase == IF req[r].phase = "sent" THEN "refused" ELSE "served"
<1>1. /\ UNCHANGED <<manager, bounds>> /\ req[r].conn # None /\ req[r].provider \in Customs
      /\ req[r].phase \in {"sent", "accepted"} /\ req' = At(r, phase) /\ Reject({r})
      /\ conn' = [c \in Conns |-> IF conn[c].lane = r THEN [conn[c] EXCEPT !.lane = None] ELSE conn[c]]
  BY DEF BridgeEnds, Bridged
<1>2. /\ ReqType' /\ Started' /\ \A q \in Requests : q # r => req'[q] = req[q]
      /\ req'[r].phase = phase /\ req'[r].conn = req[r].conn /\ req'[r].provider = req[r].provider
      /\ req'[r].thread = req[r].thread /\ req'[r].gen = req[r].gen
  BY <1>1, PhaseStep DEF Phases
<1>3. Ledger(routes, req, stray)' /\ RoutesType'
  <2>1. ~Live(req'[r]) \/ (GoesOn(req[r], req'[r]) /\ req[r].phase = "accepted")
    BY <1>1, <1>2 DEF Live, GoesOn
  <2> QED BY <1>1, <1>2, <2>1, RejectStep
<1>4. ASSUME NEW c \in Conns PROVE conn'[c] \in Conn /\ Queues(conn'[c], req', c)
  <2>1. conn[c] \in Conn /\ Queues(conn[c], req, c)
    BY DEF IInv, ConnType
  <2>2. PICK k : /\ k = conn'[c] /\ k \in Conn /\ k.inbox = conn[c].inbox /\ k.obs = conn[c].obs
                 /\ k.wire = conn[c].wire /\ k.official = conn[c].official
                 /\ k.lane # r /\ k.lane \in {conn[c].lane, None}
    <3>1. CASE conn[c].lane = r
      <4>. DEFINE l == [conn[c] EXCEPT !.lane = None]
      <4>1. l \in Conn
        BY <2>1 DEF Conn
      <4>2. /\ l.inbox = conn[c].inbox /\ l.obs = conn[c].obs /\ l.wire = conn[c].wire
            /\ l.official = conn[c].official /\ l.lane = None
        BY <2>1 DEF Conn
      <4>3. conn'[c] = l /\ None # r
        BY <1>1, <3>1 DEF RouterConstants
      <4> HIDE DEF l
      <4> QED BY <4>1, <4>2, <4>3
    <3>2. CASE conn[c].lane # r
      BY <1>1, <2>1, <3>2
    <3> QED BY <3>1, <3>2
  <2>3. Queues(k, req, c)
    BY <2>1, <2>2 DEF Queues, Holds, Ordered
  <2>4. PICK next : next = req' /\ next \in [Requests -> Asked] /\ req \in [Requests -> Asked]
    BY <1>2 DEF ReqType, IInv
  <2>5. \A q \in Requests : req[q].conn = c /\ req[q].phase # "new" =>
          /\ next[q].conn = c /\ next[q].provider = req[q].provider /\ next[q].phase # "new"
          /\ \/ next[q].phase = req[q].phase
             \/ req[q].provider \in Customs /\ q # k.lane /\ req[q].phase # "opening"
    BY <1>1, <1>2, <2>2, <2>4
  <2>6. Queues(k, next, c)
    BY <2>2, <2>3, <2>4, <2>5, QueuesStand
  <2> QED BY <2>2, <2>4, <2>6
<1>5. ConnType'
  BY <1>1, <1>4 DEF ConnType
<1> QED BY <1>1, <1>2, <1>3, <1>4, <1>5 DEF IInv, ManagerType, manager

\* Codex goes away: the bridge is cancelled, and a handshake on its way is given up.
LEMMA ClientGoneKeeps ==
  ASSUME IInv, RouterConstants, NEW c \in Conns, ClientGone(c)
  PROVE  IInv'
<1>. DEFINE opening == conn[c].official = "connecting"
            lost == IF opening THEN Unsettled(c) ELSE {}
            bridge == Requests \cap {conn[c].lane}
            watched == IF opening THEN Watched(c) ELSE {}
            after == IF opening THEN Aborted(c) ELSE req
            rest == IF opening THEN Dropped(c) ELSE conn[c]
            k == [rest EXCEPT !.client = "closed", !.lane = None,
                              !.official = IF @ = "open" THEN "closing" ELSE @]
<1>1. /\ UNCHANGED <<manager, bounds>> /\ Reject(lost \cup bridge) /\ conn' = [conn EXCEPT ![c] = k]
      /\ req' = [r \in Requests |-> IF r \in bridge
                   THEN [req[r] EXCEPT !.phase = IF @ = "sent" THEN "refused" ELSE "served"] ELSE after[r]]
  BY DEF ClientGone
<1>2. /\ conn[c] \in Conn /\ Queues(conn[c], req, c) /\ req \in [Requests -> Asked] /\ c # None
      /\ conn[c].wire \in Seq(Requests) /\ conn[c].obs \in Seq(Requests)
  BY DEF IInv, ConnType, ReqType, RouterConstants, Conn
<1>3. /\ k \in Conn /\ k.inbox = rest.inbox /\ k.obs = rest.obs /\ k.wire = rest.wire /\ k.lane = None
      /\ k.official = IF rest.official = "open" THEN "closing" ELSE rest.official
  <2>1. rest \in Conn
    BY <1>2, DroppedFields
  <2> HIDE DEF rest
  <2> QED BY <2>1 DEF Conn
<1>4. /\ after \in [Requests -> Asked] /\ watched \subseteq Requests /\ lost \subseteq watched
      /\ \A r \in Requests \ watched : after[r] = req[r]
      /\ \A r \in watched :
           /\ req[r].conn = c /\ req[r].provider = Official /\ req[r].phase # "new"
           /\ after[r].conn = c /\ after[r].provider = Official
           /\ after[r].thread = req[r].thread /\ after[r].gen = req[r].gen
           /\ after[r].phase = IF req[r].phase = "accepted" THEN "served" ELSE "refused"
      /\ lost = {r \in watched : req[r].phase # "accepted"}
  <2>1. Watched(c) \subseteq Requests
    BY DEF Watched
  <2> QED BY <1>2, <2>1, AbortedEnds
<1>5. \A r \in bridge : /\ r \in Requests /\ r = conn[c].lane /\ r \notin watched /\ req[r].conn = c
                        /\ req[r].provider \in Customs /\ req[r].phase \in {"sent", "accepted"}
  BY <1>2, <1>4 DEF Queues, Holds, RouterConstants
<1> HIDE DEF lost, watched, after
<1>6. \A r \in Requests \ bridge : req'[r] = after[r]
  BY <1>1
<1>7. ASSUME NEW r \in bridge
      PROVE  /\ req'[r] \in Asked /\ req'[r].conn = c /\ req'[r].provider = req[r].provider
             /\ req'[r].thread = req[r].thread /\ req'[r].gen = req[r].gen
             /\ req'[r].phase = IF req[r].phase = "sent" THEN "refused" ELSE "served"
  <2>1. PICK phase \in {"served", "refused"} : phase = IF req[r].phase = "sent" THEN "refused" ELSE "served"
    OBVIOUS
  <2>. DEFINE x == [req[r] EXCEPT !.phase = phase]
  <2>2. req'[r] = x /\ r \in Requests /\ req[r] \in Asked /\ req[r].conn = c
    BY <1>1, <1>2, <1>5, <2>1
  <2>3. x \in Asked
    BY <2>2 DEF Asked, Phases
  <2>4. /\ x.phase = phase /\ x.conn = req[r].conn /\ x.provider = req[r].provider
        /\ x.thread = req[r].thread /\ x.gen = req[r].gen
    BY <2>2 DEF Asked
  <2> HIDE DEF x
  <2> QED BY <2>1, <2>2, <2>3, <2>4
<1>8. ReqType'
  <2>1. DOMAIN req' = Requests /\ \A r \in Requests : req'[r] \in Asked
    BY <1>1, <1>4, <1>6, <1>7
  <2>2. req' = [r \in Requests |-> req'[r]]
    BY <1>1
  <2> QED BY <2>1, <2>2 DEF ReqType
<1>9. /\ \A r \in Requests \ (bridge \cup watched) : req'[r] = req[r]
      /\ \A r \in watched :
           /\ r \in Requests /\ r \notin bridge /\ req'[r].conn = c /\ req'[r].provider = Official
           /\ req'[r].thread = req[r].thread /\ req'[r].gen = req[r].gen
           /\ req'[r].phase = IF req[r].phase = "accepted" THEN "served" ELSE "refused"
  BY <1>4, <1>5, <1>6
<1>10. Started'
  BY <1>4, <1>5, <1>7, <1>9 DEF IInv, Started
<1>11. Ledger(routes, req, stray)' /\ RoutesType'
  <2>1. \A r \in Requests \ (lost \cup bridge) : req'[r] = req[r] \/ GoesOn(req[r], req'[r])
    BY <1>2, <1>4, <1>9 DEF GoesOn
  <2>2. \A r \in lost : ~Live(req'[r])
    BY <1>4, <1>9 DEF Live
  <2>3. \A r \in bridge : ~Live(req'[r]) \/ (GoesOn(req[r], req'[r]) /\ req[r].phase = "accepted")
    BY <1>2, <1>5, <1>7 DEF Live, GoesOn
  <2>4. lost \cup bridge \in SUBSET Requests
    BY <1>4
  <2> HIDE DEF bridge
  <2>5. PICK gone : gone = lost \cup bridge
    OBVIOUS
  <2> QED BY <1>1, <1>8, <2>1, <2>2, <2>3, <2>4, <2>5, RejectStep
<1>12. \A r \in Requests : req[r].conn = c /\ req[r].phase # "new" => req'[r].conn = c /\ req'[r].phase # "new"
  BY <1>5, <1>7, <1>9
<1>13. Queues(k, req', c)
  <2>1. CASE opening
    BY <1>3, <1>12, <2>1, DroppedFields, DroppedQueues
  <2>2. CASE ~opening
    <3>1. /\ k.inbox = conn[c].inbox /\ k.obs = conn[c].obs /\ k.wire = conn[c].wire
          /\ k.official = IF conn[c].official = "open" THEN "closing" ELSE conn[c].official
      BY <1>3, <2>2
    <3>. DEFINE old == [conn[c] EXCEPT !.lane = None]
    <3>2. old \in Conn
      BY <1>2 DEF Conn
    <3>3. /\ old.inbox = conn[c].inbox /\ old.obs = conn[c].obs /\ old.wire = conn[c].wire
          /\ old.official = conn[c].official /\ old.lane = None
      BY <1>2 DEF Conn
    <3> HIDE DEF old
    <3>4. Queues(old, req, c)
      BY <1>2, <3>3 DEF Queues, Holds, Ordered
    <3>5. watched = {}
      BY <2>2 DEF watched
    <3>6. PICK next : next = req' /\ next \in [Requests -> Asked]
      BY <1>8 DEF ReqType
    <3>7. \A r \in Requests : req[r].conn = c /\ req[r].phase # "new" =>
            /\ next[r].conn = c /\ next[r].provider = req[r].provider /\ next[r].phase # "new"
            /\ \/ next[r].phase = req[r].phase
               \/ req[r].provider \in Customs /\ r # old.lane /\ req[r].phase # "opening"
      <4>1. ASSUME NEW r \in Requests, req[r].conn = c, req[r].phase # "new"
            PROVE  /\ next[r].conn = c /\ next[r].provider = req[r].provider /\ next[r].phase # "new"
                   /\ \/ next[r].phase = req[r].phase
                      \/ req[r].provider \in Customs /\ r # old.lane /\ req[r].phase # "opening"
        <5>1. CASE r \in bridge
          BY <1>5, <1>7, <3>3, <3>6, <4>1, <5>1 DEF RouterConstants
        <5>2. CASE r \notin bridge
          BY <1>9, <3>5, <3>6, <4>1, <5>2
        <5> QED BY <5>1, <5>2
      <4> QED BY <4>1
    <3>8. Queues(old, next, c)
      BY <1>2, <3>2, <3>4, <3>6, <3>7, QueuesStand
    <3>9. old.official = "open" => k.wire = k.obs
      BY <3>1, <3>3, <3>8 DEF Queues, Ordered
    <3>10. Holds(k, req', c)
      <4>1. k.inbox = old.inbox /\ k.obs = old.obs /\ k.wire = old.wire /\ k.lane = None
        BY <1>3, <2>2, <3>1, <3>3
      <4>2. Holds(old, req', c)
        BY <3>6, <3>8 DEF Queues
      <4> QED BY <4>1, <4>2 DEF Holds
    <3>11. Ordered(k, req')
      BY <1>2, <1>3, <2>2, <3>1, <3>3, <3>6, <3>8, <3>9 DEF Queues, Ordered
    <3> QED BY <3>10, <3>11 DEF Queues
  <2> QED BY <2>1, <2>2
<1>14. ConnType' /\ \A d \in Conns : Queues(conn[d], req, d)'
  <2>1. \A r \in Requests : req'[r] = req[r] \/ req[r].phase = "new" \/ req[r].conn = c
    BY <1>4, <1>5, <1>9
  <2> HIDE DEF k
  <2> QED BY <1>1, <1>3, <1>8, <1>13, <2>1, ConnStep
<1> QED BY <1>1, <1>8, <1>10, <1>11, <1>14 DEF IInv, ManagerType, manager

(***************************************************************************)
(* The specification.                                                      *)
(***************************************************************************)
\* At the start no task is known and nothing has been asked.
LEMMA InitIInv == ASSUME Init, RouterConstants PROVE IInv
<1>1. ManagerType /\ RoutesType
  BY DEF Init, ManagerType, RoutesType, NoRoutes
<1>2. ReqType /\ \A r \in Requests : req[r].phase = "new" /\ ~req[r].gen
  <2>. DEFINE no == FALSE
              a == [phase |-> "new", thread |-> None, provider |-> None, gen |-> no, conn |-> None]
  <2>1. no \in BOOLEAN /\ ~no
    OBVIOUS
  <2>2. \A r \in Requests : req[r] = a
    BY DEF Init
  <2>3. req = [r \in Requests |-> a]
    BY DEF Init
  <2> HIDE DEF no
  <2>4. a \in Asked /\ a.phase = "new" /\ ~a.gen
    BY <2>1 DEF Asked, Phases
  <2> HIDE DEF a
  <2> QED BY <2>2, <2>3, <2>4 DEF ReqType
<1>3. /\ NoConn \in Conn /\ NoConn.inbox = <<>> /\ NoConn.obs = <<>> /\ NoConn.wire = <<>>
      /\ NoConn.lane = None /\ NoConn.official = "none"
  <2>1. <<>> \in Seq(Requests)
    OBVIOUS
  <2> QED BY <2>1 DEF NoConn, Conn
<1>4. ConnType /\ \A c \in Conns : conn[c] = NoConn
  BY <1>3 DEF Init, ConnType
<1>5. \A c \in Conns : Queues(conn[c], req, c)
  BY <1>3, <1>4 DEF Queues, Holds, Ordered
<1>6. Ledger(routes, req, stray)
  BY <1>2 DEF Init, NoRoutes, Ledger, Live
<1> QED BY <1>1, <1>2, <1>4, <1>5, <1>6 DEF IInv, Started

\* Every step of the router keeps the invariant.
LEMMA NextIInv == ASSUME IInv, RouterConstants, [Next]_vars PROVE IInv'
<1>1. CASE UNCHANGED vars
  BY <1>1 DEF IInv, vars, manager, bounds, ManagerType, RoutesType, ReqType, ConnType, Started,
              Ledger, Queues, Holds, Ordered
<1>2. ASSUME NEW c \in Conns, Work(c) PROVE IInv'
  BY <1>2, WsAnsweredKeeps, WsBridgeKeeps, WsOfficialKeeps DEF Work
<1>3. CASE Configure \/ Listen \/ Install \/ Reinstall \/ Disable \/ Close \/ Expire
  BY <1>3, ManagerKeeps
<1>4. ASSUME NEW r \in Requests, NEW t \in Threads, NEW p \in Providers, HttpRequest(r, t, p) PROVE IInv'
  BY <1>4, HttpRequestKeeps
<1>5. ASSUME NEW r \in Requests, NEW t \in Threads, NEW p \in Providers, NEW c \in Conns,
             NEW gen \in BOOLEAN, Frame(c, r, t, p, gen)
      PROVE  IInv'
  BY <1>5, FrameKeeps
<1>6. ASSUME NEW r \in Requests, Http(r) \/ Bridge(r) PROVE IInv'
  BY <1>6, HttpKeeps, BridgeStatusKeeps, BridgeEndsKeeps DEF Http, Bridge
<1>7. ASSUME NEW c \in Conns,
             Connect(c) \/ ClientGone(c) \/ OfficialOpens(c) \/ OfficialAnswers(c) \/ OfficialCloses(c)
      PROVE  IInv'
  BY <1>7, ConnectKeeps, ClientGoneKeeps, OfficialOpensKeeps, OfficialAnswersKeeps, OfficialClosesKeeps
<1> QED BY <1>1, <1>2, <1>3, <1>4, <1>5, <1>6, <1>7 DEF Next

\* The ledger fits the requests and the queues their answers, for any number of tasks, connections,
\* requests and providers, in any order of configurations, failures and closings.
THEOREM ModelRouterInvariant == ASSUME RouterConstants PROVE Spec => []IInv
<1>1. Init => IInv
  BY InitIInv
<1>2. IInv /\ [Next]_vars => IInv'
  BY NextIInv
<1> QED BY <1>1, <1>2, PTL DEF Spec

\* Every variable of the router has its type.
THEOREM ModelRouterTypeCorrect == ASSUME RouterConstants PROVE Spec => []TypeOK
<1>1. IInv => TypeOK
  BY DEF IInv, TypeOK, ManagerType, RoutesType, ReqType, ConnType
<1> QED BY <1>1, ModelRouterInvariant, PTL

\* #reserveThreadRoute: all requests on their way or accepted for a task go to one provider, until
\* the router forgets the task.
THEOREM TasksKeepTheirProvider == ASSUME RouterConstants PROVE Spec => []OneProviderPerTask
<1>1. IInv => OneProviderPerTask
  BY DEF IInv, OneProviderPerTask, Ledger, Bound, Live
<1> QED BY <1>1, ModelRouterInvariant, PTL

\* settleThreadRoute: what holds a task to its provider is an accepted request or one on its way,
\* or one dropped by a closing connection.
THEOREM NoTaskStaysLocked == ASSUME RouterConstants PROVE Spec => []NoStaleLock
<1>1. IInv => NoStaleLock
  <2>1. ASSUME IInv, NEW t \in Threads, routes[t] # None
        PROVE  routes[t].confirmed \/ \E r \in routes[t].pending : r \in InFlight \/ req[r].phase = "lost"
    <3>1. routes[t].pending \subseteq Requests
      BY <2>1 DEF IInv, RoutesType, Route
    <3>2. \A r \in routes[t].pending : Claims(req[r], t, routes[t].provider)
      BY <2>1 DEF IInv, Ledger
    <3>3. routes[t].confirmed \/ routes[t].pending # {}
      BY <2>1 DEF IInv, Ledger
    <3> QED BY <3>1, <3>2, <3>3 DEF Claims, InFlight
  <2> QED BY <2>1 DEF NoStaleLock, Known
<1> QED BY <1>1, ModelRouterInvariant, PTL

\* The table of owners follows the requests, whatever fails, closes or is forgotten.
THEOREM RoutesAreKept == ASSUME RouterConstants PROVE Spec => []RoutesFollowRequests
BY ModelRouterTypeCorrect, TasksKeepTheirProvider, NoTaskStaysLocked, PTL DEF RoutesFollowRequests

\* observations: what the official socket has sent and not been answered is the front of what is
\* observed, in its order, so an answer is put down to the request it answers.
THEOREM AnswersAreMet == ASSUME RouterConstants PROVE Spec => []AnswersMeetTheirRequests
<1>1. IInv => AnswersMeetTheirRequests
  <2>1. ASSUME IInv, NEW c \in Conns, conn[c].official \in {"open", "closing"}
        PROVE  IsPrefix(conn[c].wire, conn[c].obs)
    <3>1. conn[c].wire \in Seq(Requests) /\ conn[c].obs \in Seq(Requests)
      BY <2>1 DEF IInv, ConnType, Conn
    <3>2. /\ Len(conn[c].wire) <= Len(conn[c].obs)
          /\ \A i \in DOMAIN conn[c].wire : conn[c].wire[i] = conn[c].obs[i]
      BY <2>1, <3>1 DEF IInv, Queues, Ordered
    <3> QED BY <3>1, <3>2 DEF IsPrefix
  <2> QED BY <2>1 DEF AnswersMeetTheirRequests
<1> QED BY <1>1, ModelRouterInvariant, PTL

(***************************************************************************)
(* What the relay knows of every thread: its inductive invariant.          *)
(***************************************************************************)

LEMMA ChatConstants == T!ThreadsConstants
BY Constants

LEMMA AppendType ==
  ASSUME NEW S, NEW q \in Seq(S), NEW e \in S
  PROVE  Append(q, e) \in Seq(S)
OBVIOUS

LEMMA TailType ==
  ASSUME NEW S, NEW q \in Seq(S), q # << >>
  PROVE  Tail(q) \in Seq(S)
OBVIOUS

LEMMA HeadIn ==
  ASSUME NEW S, NEW q \in Seq(S), q # << >>
  PROVE  Head(q) \in S /\ Head(q) = q[1] /\ 1 \in DOMAIN q
OBVIOUS

LEMMA TailAt ==
  ASSUME NEW S, NEW q \in Seq(S), q # << >>
  PROVE  /\ Len(q) \in Nat /\ DOMAIN q = 1 .. Len(q) /\ Len(q) # 0 /\ DOMAIN Tail(q) = 1 .. Len(q) - 1
         /\ \A i \in 1 .. Len(q) - 1 : Tail(q)[i] = q[i + 1]
OBVIOUS

\* The requests for a fork on their way; of all that set a model they alone leave the thread they name.
ForkId(id) ==
  \/ \E i \in DOMAIN up : up[i].id = id /\ up[i].kind = "fork"
  \/ \E a \in answers : a.id = id /\ a.kind = "fork"
\* A request that has set the model of its thread
Own(p) == p.sets /\ p.thread # None /\ ~ForkId(p.id)
KindOf(kind) == IF kind \in {"start", "resume", "fork"} THEN "thread" ELSE kind

\* Requests are numbered once, and the server has come to earlier ones than those that are on their way.
Numbered ==
  /\ relay.revision <= count.requests + count.notices
  /\ \A p \in relay.pending : p.id \in 1 .. relay.revision
  /\ \A p, q \in relay.pending : p.id = q.id => p = q
  /\ \A i \in DOMAIN up : up[i].id \in 1 .. relay.revision
  /\ \A i, j \in DOMAIN up : i < j => up[i].id < up[j].id
  /\ \A a \in answers : a.id \in 1 .. relay.revision /\ \A i \in DOMAIN up : a.id < up[i].id
  /\ \A a, b \in answers : a.id = b.id => a = b
  /\ \A t \in turns : t.id \in 1 .. relay.revision /\ \A i \in DOMAIN up : t.id < up[i].id
  /\ \A t, u \in turns : t.id = u.id => t = u
\* What the relay has noted of a request is what was asked.
Linked ==
  /\ \A p \in relay.pending : (p.sets => p.model # None) /\ (p.thread = None => p.kind = "thread")
  /\ \A p \in relay.pending : \A i \in DOMAIN up :
       up[i].id = p.id => p.kind = KindOf(up[i].kind) /\ p.thread = up[i].thread /\ p.model = up[i].model
  /\ \A p \in relay.pending : \A a \in answers :
       a.id = p.id => p.kind = KindOf(a.kind) /\ (a.kind \notin {"start", "fork"} => a.thread = p.thread)
  /\ \A a \in answers : a.ok => a.thread \in Chats
  /\ \A i \in DOMAIN up : up[i].thread = None => up[i].kind = "start"
\* What a thread is known by, and what a request that fails would put back, is of this thread and not
\* older than what was asked for it before.
Remembered ==
  /\ \A t \in Chats : relay.ctx[t].by <= relay.ctx[t].rev /\ relay.ctx[t].rev <= relay.revision
  /\ \A p \in relay.pending : p.prev.by <= p.prev.rev /\ p.prev.rev < p.id
  /\ \A t \in Chats : \A p \in relay.pending :
       /\ relay.ctx[t].rev = p.id => Own(p) /\ t = p.thread
       /\ relay.ctx[t].by = p.id => t = p.thread
  /\ \A p, q \in relay.pending : Own(q) =>
       /\ q.prev.rev = p.id => Own(p) /\ p.thread = q.thread
       /\ q.prev.by = p.id => p.thread = q.thread
  /\ \A p \in relay.pending : Own(p) => relay.ctx[p.thread].by >= p.id
  /\ \A p, q \in relay.pending : Own(p) /\ Own(q) /\ p.thread = q.thread /\ p.id < q.id => q.prev.by >= p.id
Excusable == log.failed \ log.excused
\* ... and neither has failed nor is older than the newest the server took.
Followed ==
  /\ log.failed \subseteq 1 .. relay.revision /\ \A p \in relay.pending : p.id \notin log.failed
  /\ \A t \in Chats : relay.ctx[t].by \notin Excusable
  /\ \A q \in relay.pending : Own(q) => q.prev.by \notin Excusable
  /\ \A t \in Chats : relay.ctx[t].by >= log.newest[t]
  /\ \A q \in relay.pending : Own(q) => log.newest[q.thread] <= q.prev.by \/ log.newest[q.thread] > q.id
\* The relay knows the model of every turn, unless it has dropped what it needs for that.
TurnsKnown ==
  /\ \A i \in DOMAIN up : up[i].kind = "turn" /\ up[i].id \notin log.unsure =>
       \E p \in relay.pending : p.id = up[i].id
  /\ \A t \in turns : \A a \in answers : a.id = t.id => a.ok /\ a.kind = "turn" /\ ~t.answered
  /\ \A t \in turns : t.id \notin log.unsure /\ ~t.answered =>
       t.model # None /\ \E p \in relay.pending : p.id = t.id /\ p.model = t.model /\ p.kind = "turn"
  /\ \A t \in turns : t.id \notin log.unsure /\ t.answered /\ t.stage # "done" =>
       t.model # None /\ relay.turn[t.id] = t.model
ThreadsInv ==
  /\ T!TypeOK /\ Numbered /\ Linked /\ Remembered /\ Followed /\ TurnsKnown
  /\ T!UsageIsOfTurn

\* The parts of the state, taken from its type.
LEMMA ThreadTypes ==
  ASSUME T!TypeOK
  PROVE  /\ relay \in [ctx : [Chats -> T!Context], revision : Nat, pending : SUBSET T!Pending,
                       turn : [1 .. MaxAsked + MaxNotices -> T!SomeModel]]
         /\ up \in Seq([id : Nat, kind : T!Kinds, thread : Chats \cup {None}, model : T!SomeModel,
                        provider : T!SomeProvider, sure : BOOLEAN])
         /\ answers \in SUBSET [id : Nat, kind : T!Kinds, thread : Chats \cup {None}, ok : BOOLEAN]
         /\ log \in [failed : SUBSET Nat, excused : SUBSET Nat, newest : [Chats -> Nat], unsure : SUBSET Nat,
                     lost : SUBSET (Chats \cup {None})]
         /\ count \in [requests : 0 .. MaxAsked, notices : 0 .. MaxNotices, drops : 0 .. MaxDrops]
BY DEF T!TypeOK

LEMMA CountGoesOn ==
  ASSUME T!TypeOK,
         \/ count.requests < MaxAsked /\ count' = [count EXCEPT !.requests = count.requests + 1]
         \/ count.notices < MaxNotices /\ count' = [count EXCEPT !.notices = count.notices + 1]
         \/ count.drops < MaxDrops /\ count' = [count EXCEPT !.drops = count.drops + 1]
  PROVE  count' \in [requests : 0 .. MaxAsked, notices : 0 .. MaxNotices, drops : 0 .. MaxDrops]
<1>1. count \in [requests : 0 .. MaxAsked, notices : 0 .. MaxNotices, drops : 0 .. MaxDrops]
  BY ThreadTypes
<1>2. MaxAsked \in Nat /\ MaxNotices \in Nat /\ MaxDrops \in Nat
  BY ChatConstants DEF T!ThreadsConstants
<1>. QED
  BY <1>1, <1>2

\* A request is numbered, noted, and sets the contexts.
LEMMA RelaySets ==
  ASSUME T!TypeOK, NEW id \in Nat, NEW ctx \in [Chats -> T!Context], NEW pending \in SUBSET T!Pending,
         relay' = [relay EXCEPT !.revision = id, !.ctx = ctx, !.pending = pending]
  PROVE  /\ relay'.revision = id /\ relay'.ctx = ctx /\ relay'.pending = pending /\ relay'.turn = relay.turn
         /\ relay' \in [ctx : [Chats -> T!Context], revision : Nat, pending : SUBSET T!Pending,
                        turn : [1 .. MaxAsked + MaxNotices -> T!SomeModel]]
<1>1. relay \in [ctx : [Chats -> T!Context], revision : Nat, pending : SUBSET T!Pending,
                turn : [1 .. MaxAsked + MaxNotices -> T!SomeModel]]
  BY ThreadTypes
<1>. QED
  BY <1>1

LEMMA InitThreadsInv == ASSUME T!Init PROVE ThreadsInv
<1>u. USE ChatConstants DEF T!ThreadsConstants
<1>1. T!TypeOK
  <2>1. relay \in [ctx : [Chats -> T!Context], revision : Nat, pending : SUBSET T!Pending,
                   turn : [1 .. MaxAsked + MaxNotices -> T!SomeModel]]
    BY DEF T!Init, T!Nothing, T!Context, T!SomeModel, T!SomeProvider
  <2>2. server \in [Chats -> [model : T!SomeModel, provider : T!SomeProvider]]
    BY DEF T!Init, T!Absent, T!SomeModel, T!SomeProvider, T!ProviderOf, T!Models
  <2>3. /\ event \in [turn : Nat, thread : Chats, model : T!SomeModel, truth : T!SomeModel]
        /\ log \in [failed : SUBSET Nat, excused : SUBSET Nat, newest : [Chats -> Nat], unsure : SUBSET Nat,
                    lost : SUBSET (Chats \cup {None})]
        /\ count \in [requests : 0 .. MaxAsked, notices : 0 .. MaxNotices, drops : 0 .. MaxDrops]
    BY DEF T!Init, T!SomeModel
  <2>. QED
    BY <2>1, <2>2, <2>3 DEF T!Init, T!TypeOK
<1>2. Numbered /\ Linked /\ TurnsKnown
  BY DEF T!Init, Numbered, Linked, TurnsKnown
<1>3. Remembered /\ Followed
  BY DEF T!Init, T!Nothing, Remembered, Followed, Excusable
<1>. QED
  BY <1>1, <1>2, <1>3 DEF ThreadsInv, T!UsageIsOfTurn, T!Init

(***************************************************************************)
(* A request of the client.                                                *)
(***************************************************************************)
LEMMA SendKeeps ==
  ASSUME ThreadsInv, NEW p \in T!Pending, NEW w, NEW kind \in T!Kinds,
         p.id = relay.revision + 1, p.kind = KindOf(kind), kind = "start" <=> p.thread = None, p.sets => p.model # None,
         w.id = p.id, w.kind = kind, w.thread = p.thread, w.model = p.model,
         p.prev = T!Nothing \/ (p.thread # None /\ p.prev = relay.ctx[p.thread]),
         p.sets /\ p.thread # None => p.prev = relay.ctx[p.thread],
         up' = Append(up, w), relay'.revision = p.id, relay'.pending = relay.pending \cup {p}, relay'.turn = relay.turn,
         IF p.sets /\ p.thread # None /\ kind # "fork"
           THEN \E c : c.rev = p.id /\ c.by = p.id /\ relay'.ctx = [relay.ctx EXCEPT ![p.thread] = c]
           ELSE relay'.ctx = relay.ctx,
         UNCHANGED <<answers, server, turns, event, log>>,
         count'.requests = count.requests + 1, count'.notices = count.notices
  PROVE  Numbered' /\ Linked' /\ Remembered' /\ Followed' /\ TurnsKnown' /\ T!UsageIsOfTurn'
<1>t. T!TypeOK /\ Numbered /\ Linked /\ Remembered /\ Followed /\ TurnsKnown /\ T!UsageIsOfTurn
  BY DEF ThreadsInv
<1>n. /\ relay.revision \in Nat /\ p.id \in Nat /\ count.requests \in Nat /\ count.notices \in Nat
      /\ \A q \in relay.pending : q.id \in Nat /\ q.id < p.id /\ q.prev.by \in Nat /\ q.prev.rev \in Nat
      /\ \A t \in Chats : relay.ctx[t].rev \in Nat /\ relay.ctx[t].by \in Nat /\ log.newest[t] \in Nat
      /\ p.prev.rev \in Nat /\ p.prev.by \in Nat
  <2>1. relay.revision \in Nat /\ relay.ctx \in [Chats -> T!Context] /\ relay.pending \subseteq T!Pending
    BY <1>t, ThreadTypes
  <2>2. log.newest \in [Chats -> Nat] /\ count.requests \in Nat /\ count.notices \in Nat
    <3>. USE ChatConstants DEF T!ThreadsConstants
    <3>. QED
      BY <1>t, ThreadTypes
  <2>3. \A c \in T!Context : c.rev \in Nat /\ c.by \in Nat
    BY DEF T!Context
  <2>4. \A q \in T!Pending : q.id \in Nat /\ q.prev \in T!Context
    BY DEF T!Pending
  <2>5. \A q \in relay.pending : q.id \in Nat /\ q.id < p.id
    <3>1. \A q \in relay.pending : q.id \in 1 .. relay.revision
      BY <1>t DEF Numbered
    <3>. QED
      BY <2>1, <3>1
  <2>. QED
    BY <2>1, <2>2, <2>3, <2>4, <2>5
<1>a. /\ Len(up) \in Nat /\ DOMAIN up = 1 .. Len(up) /\ DOMAIN up' = 1 .. Len(up) + 1
      /\ \A i \in DOMAIN up : up'[i] = up[i]
      /\ up'[Len(up) + 1] = w
  BY <1>t DEF T!TypeOK
<1>o. /\ \A q \in relay.pending : Own(q)' <=> Own(q)
      /\ Own(p)' <=> p.sets /\ p.thread # None /\ kind # "fork"
  <2>1. \A q \in relay.pending : ForkId(q.id)' <=> ForkId(q.id)
    BY <1>a, <1>n DEF ForkId
  <2>2. ForkId(p.id)' <=> kind = "fork"
    BY <1>a, <1>n, <1>t DEF ForkId, Numbered
  <2>. QED
    BY <2>1, <2>2 DEF Own
<1>c. \A t \in Chats : relay'.ctx[t] = relay.ctx[t]
                       \/ (t = p.thread /\ Own(p)' /\ relay'.ctx[t].rev = p.id /\ relay'.ctx[t].by = p.id)
  BY <1>o, <1>t DEF T!TypeOK
<1>d. Own(p)' => p.thread \in Chats /\ relay'.ctx[p.thread].rev = p.id /\ relay'.ctx[p.thread].by = p.id
                 /\ p.prev = relay.ctx[p.thread]
  BY <1>o, <1>t DEF T!TypeOK, T!Pending
<1>v. p.prev.by <= p.prev.rev /\ p.prev.rev < p.id
  <2>1. CASE p.prev = T!Nothing
    BY <2>1, <1>n DEF T!Nothing
  <2>2. CASE p.prev = relay.ctx[p.thread] /\ p.thread \in Chats
    <3>1. relay.ctx[p.thread].by <= relay.ctx[p.thread].rev /\ relay.ctx[p.thread].rev <= relay.revision
      BY <2>2, <1>t DEF Remembered
    <3>. QED
      BY <2>2, <3>1, <1>n
  <2>. QED
    BY <2>1, <2>2 DEF T!Pending
<1>h. \A q \in relay.pending : q.thread \in Chats \cup {None}
  BY <1>t DEF T!TypeOK, T!Pending
<1>1. Numbered'
  <2>1. /\ relay'.revision <= count'.requests + count'.notices
        /\ \A q \in relay'.pending : q.id \in 1 .. relay'.revision
        /\ \A q, r \in relay'.pending : q.id = r.id => q = r
    BY <1>n, <1>t DEF Numbered
  <2>2. /\ \A i \in DOMAIN up' : up'[i].id \in 1 .. relay'.revision
        /\ \A i, j \in DOMAIN up' : i < j => up'[i].id < up'[j].id
    BY <1>a, <1>n, <1>t DEF Numbered
  <2>3. /\ \A a \in answers : a.id \in 1 .. relay'.revision /\ \A i \in DOMAIN up' : a.id < up'[i].id
        /\ \A t \in turns : t.id \in 1 .. relay'.revision /\ \A i \in DOMAIN up' : t.id < up'[i].id
    BY <1>a, <1>n, <1>t DEF Numbered
  <2>. QED
    BY <2>1, <2>2, <2>3, <1>t DEF Numbered
<1>2. Linked'
  <2>1. \A q \in relay'.pending : (q.sets => q.model # None) /\ (q.thread = None => q.kind = "thread")
    BY <1>t DEF Linked, KindOf
  <2>2. \A q \in relay'.pending : \A i \in DOMAIN up' :
          up'[i].id = q.id => q.kind = KindOf(up'[i].kind) /\ q.thread = up'[i].thread /\ q.model = up'[i].model
    BY <1>a, <1>n, <1>t DEF Linked, Numbered
  <2>3. \A q \in relay'.pending : \A a \in answers :
          a.id = q.id => q.kind = KindOf(a.kind) /\ (a.kind \notin {"start", "fork"} => a.thread = q.thread)
    BY <1>n, <1>t DEF Linked, Numbered
  <2>. QED
    BY <2>1, <2>2, <2>3, <1>t DEF Linked
<1>3. Remembered'
  <2>1. /\ \A t \in Chats : relay'.ctx[t].by <= relay'.ctx[t].rev /\ relay'.ctx[t].rev <= relay'.revision
        /\ \A q \in relay'.pending : q.prev.by <= q.prev.rev /\ q.prev.rev < q.id
    <3>1. ASSUME NEW t \in Chats
          PROVE  relay'.ctx[t].by <= relay'.ctx[t].rev /\ relay'.ctx[t].rev <= relay'.revision
      <4>1. relay.ctx[t].by <= relay.ctx[t].rev /\ relay.ctx[t].rev <= relay.revision
        BY <1>t DEF Remembered
      <4>. QED
        BY <4>1, <1>c, <1>n
    <3>2. \A q \in relay.pending : q.prev.by <= q.prev.rev /\ q.prev.rev < q.id
      BY <1>t DEF Remembered
    <3>. QED
      BY <3>1, <3>2, <1>v
  <2>2. \A t \in Chats : \A q \in relay'.pending :
          /\ relay'.ctx[t].rev = q.id => Own(q)' /\ t = q.thread
          /\ relay'.ctx[t].by = q.id => t = q.thread
    <3>1. ASSUME NEW t \in Chats, NEW q \in relay.pending
          PROVE  /\ relay'.ctx[t].rev = q.id => Own(q)' /\ t = q.thread
                 /\ relay'.ctx[t].by = q.id => t = q.thread
      <4>1. relay.ctx[t].rev = q.id => Own(q) /\ t = q.thread
        BY <1>t DEF Remembered
      <4>2. relay.ctx[t].by = q.id => t = q.thread
        BY <1>t DEF Remembered
      <4>3. q.id # p.id
        BY <1>n
      <4>. QED
        BY <4>1, <4>2, <4>3, <1>c, <1>o
    <3>2. ASSUME NEW t \in Chats
          PROVE  /\ relay'.ctx[t].rev = p.id => Own(p)' /\ t = p.thread
                 /\ relay'.ctx[t].by = p.id => t = p.thread
      <4>1. relay.ctx[t].by <= relay.ctx[t].rev /\ relay.ctx[t].rev <= relay.revision
        BY <1>t DEF Remembered
      <4>. QED
        BY <4>1, <1>c, <1>n
    <3>. QED
      BY <3>1, <3>2
  <2>3. \A q, r \in relay'.pending : Own(r)' =>
          /\ r.prev.rev = q.id => Own(q)' /\ q.thread = r.thread
          /\ r.prev.by = q.id => q.thread = r.thread
    <3>1. ASSUME NEW q \in relay.pending, Own(p)'
          PROVE  /\ p.prev.rev = q.id => Own(q)' /\ q.thread = p.thread
                 /\ p.prev.by = q.id => q.thread = p.thread
      BY <3>1, <1>d, <1>o, <1>t DEF Remembered
    <3>2. ASSUME NEW r \in relay'.pending, Own(r)' PROVE r.prev.rev < p.id /\ r.prev.by < p.id
      <4>1. r.prev.by <= r.prev.rev /\ r.prev.rev < r.id
        BY <2>1
      <4>2. r.prev.by \in Nat /\ r.prev.rev \in Nat /\ r.id \in Nat /\ p.id \in Nat /\ r.id <= p.id
        BY <1>n
      <4>. QED
        BY <4>1, <4>2
    <3>. QED
      BY <3>1, <3>2, <1>n, <1>o, <1>t DEF Remembered
  <2>4. \A q \in relay'.pending : Own(q)' => relay'.ctx[q.thread].by >= q.id
    <3>1. ASSUME NEW q \in relay.pending, Own(q) PROVE relay'.ctx[q.thread].by >= q.id
      <4>1. q.thread \in Chats /\ relay.ctx[q.thread].by >= q.id
        BY <3>1, <1>h, <1>t DEF Remembered, Own
      <4>2. relay'.ctx[q.thread].by = relay.ctx[q.thread].by \/ relay'.ctx[q.thread].by = p.id
        BY <4>1, <1>c
      <4>. QED
        BY <4>1, <4>2, <1>n
    <3>2. Own(p)' => relay'.ctx[p.thread].by >= p.id
      BY <1>d, <1>n
    <3>. QED
      BY <3>1, <3>2, <1>o
  <2>5. \A q, r \in relay'.pending : Own(q)' /\ Own(r)' /\ q.thread = r.thread /\ q.id < r.id => r.prev.by >= q.id
    BY <1>d, <1>n, <1>o, <1>t DEF Remembered
  <2>. QED
    BY <2>1, <2>2, <2>3, <2>4, <2>5 DEF Remembered
<1>4. Followed'
  <2>1. log.failed \subseteq 1 .. relay'.revision /\ \A q \in relay'.pending : q.id \notin log.failed
    BY <1>n, <1>t DEF Followed
  <2>2. \A t \in Chats : relay'.ctx[t].by \notin Excusable
    BY <1>c, <2>1, <1>t DEF Followed, Excusable
  <2>3. \A q \in relay'.pending : Own(q)' => q.prev.by \notin Excusable
    BY <1>d, <1>o, <1>t DEF Followed
  <2>4. \A t \in Chats : relay'.ctx[t].by >= log.newest[t]
    <3>1. ASSUME NEW t \in Chats PROVE relay'.ctx[t].by >= log.newest[t]
      <4>1. /\ relay.ctx[t].by >= log.newest[t] /\ relay.ctx[t].by <= relay.ctx[t].rev
            /\ relay.ctx[t].rev <= relay.revision
        BY <1>t DEF Followed, Remembered
      <4>2. log.newest[t] <= p.id
        BY <4>1, <1>n
      <4>. QED
        BY <4>1, <4>2, <1>c, <1>n
    <3>. QED
      BY <3>1
  <2>5. \A q \in relay'.pending : Own(q)' => log.newest[q.thread] <= q.prev.by \/ log.newest[q.thread] > q.id
    BY <1>d, <1>o, <1>t DEF Followed
  <2>. QED
    BY <2>1, <2>2, <2>3, <2>4, <2>5 DEF Followed, Excusable
<1>5. TurnsKnown'
  <2>1. \A i \in DOMAIN up' : up'[i].kind = "turn" /\ up'[i].id \notin log.unsure =>
          \E q \in relay'.pending : q.id = up'[i].id
    BY <1>a, <1>t DEF TurnsKnown
  <2>2. \A t \in turns : t.id \notin log.unsure /\ ~t.answered =>
          t.model # None /\ \E q \in relay'.pending : q.id = t.id /\ q.model = t.model /\ q.kind = "turn"
    BY <1>t DEF TurnsKnown
  <2>. QED
    BY <2>1, <2>2, <1>t DEF TurnsKnown
<1>. QED
  BY <1>1, <1>2, <1>3, <1>4, <1>5, <1>t DEF T!UsageIsOfTurn

\* A refused turn is numbered, too, and nothing else.
LEMMA NumberKeeps ==
  ASSUME ThreadsInv, relay' = [relay EXCEPT !.revision = @ + 1],
         UNCHANGED <<up, answers, server, turns, event, log>>,
         count'.requests = count.requests + 1, count'.notices = count.notices
  PROVE  Numbered' /\ Linked' /\ Remembered' /\ Followed' /\ TurnsKnown' /\ T!UsageIsOfTurn'
<1>t. T!TypeOK /\ Numbered /\ Linked /\ Remembered /\ Followed /\ TurnsKnown /\ T!UsageIsOfTurn
  BY DEF ThreadsInv
<1>r. /\ relay'.ctx = relay.ctx /\ relay'.pending = relay.pending /\ relay'.turn = relay.turn
      /\ relay'.revision = relay.revision + 1 /\ relay.revision \in Nat
      /\ count.requests \in Nat /\ count.notices \in Nat
      /\ \A t \in Chats : relay.ctx[t].rev \in Nat
  BY <1>t DEF T!TypeOK, T!Context
<1>o. \A q \in relay.pending : Own(q)' <=> Own(q)
  BY DEF Own, ForkId
<1>1. Numbered'
  BY <1>r, <1>t DEF Numbered
<1>2. Linked' /\ TurnsKnown'
  BY <1>r, <1>t DEF Linked, TurnsKnown
<1>3. Remembered'
  BY <1>r, <1>o, <1>t DEF Remembered
<1>4. Followed'
  BY <1>r, <1>o, <1>t DEF Followed, Excusable
<1>. QED
  BY <1>1, <1>2, <1>3, <1>4, <1>t DEF T!UsageIsOfTurn

LEMMA UpdatedType ==
  ASSUME NEW c \in T!Context, NEW u, u.model \in T!SomeModel, u.provider \in T!SomeProvider, u.rev \in Nat,
         u.source \in {"settings", "request", "turn", "response", "discovery"}
  PROVE  T!Updated(c, u) \in T!Context
BY DEF T!Updated, T!Context, T!Or

LEMMA SettingTaken ==
  ASSUME NEW c \in T!Context, NEW model \in T!Models, NEW source \in {"settings", "request", "turn"}, NEW rev \in Nat,
         c.rev < rev
  PROVE  LET u == T!Updated(c, T!Setting(model, source, rev)) IN u \in T!Context /\ u.rev = rev /\ u.by = rev
<1>1. /\ T!Setting(model, source, rev).model \in T!SomeModel /\ T!Setting(model, source, rev).provider \in T!SomeProvider
      /\ T!Setting(model, source, rev).rev = rev /\ T!Setting(model, source, rev).source = source
      /\ T!Setting(model, source, rev).model = model /\ model # None
  BY ChatConstants DEF T!Setting, T!SomeModel, T!SomeProvider, T!ThreadsConstants
<1>2. T!Updated(c, T!Setting(model, source, rev)) \in T!Context
  BY <1>1, UpdatedType
<1>3. c.rev \in Nat
  BY DEF T!Context
<1>. QED
  BY <1>1, <1>2, <1>3 DEF T!Updated

LEMMA ChoicesType ==
  ASSUME T!TypeOK, NEW thread \in Chats \cup {None}, NEW model \in T!SomeModel
  PROVE  /\ T!Requested(thread, model) \in T!SomeModel /\ T!ProviderFor(thread, model) \in T!SomeProvider
         /\ model # None => T!Requested(thread, model) # None
<1>1. T!Requested(thread, model) \in T!SomeModel /\ (model # None => T!Requested(thread, model) # None)
  BY DEF T!Requested, T!Or, T!TypeOK, T!Context, T!SomeModel
<1>2. \A m : T!ProviderOf(m) \in T!SomeProvider
  BY DEF T!ProviderOf, T!SomeProvider
<1>3. (IF thread = None THEN None ELSE relay.ctx[thread].provider) \in T!SomeProvider
  BY DEF T!TypeOK, T!Context, T!SomeProvider
<1>. QED
  BY <1>1, <1>2, <1>3 DEF T!ProviderFor, T!Or

\* What is sent and noted keeps its type.
LEMMA SentType ==
  ASSUME T!TypeOK, NEW kind \in T!Kinds, NEW thread \in Chats \cup {None}, NEW model \in T!SomeModel,
         NEW provider \in T!SomeProvider, NEW p \in T!Pending, NEW r, r.revision \in Nat,
         relay' \in [ctx : [Chats -> T!Context], revision : Nat, pending : SUBSET T!Pending,
                     turn : [1 .. MaxAsked + MaxNotices -> T!SomeModel]],
         UNCHANGED up \/ T!Sent(r, kind, thread, model, provider), T!Asked
  PROVE  T!TypeOK'
<1>1. T!Sure(thread) \in BOOLEAN
  BY DEF T!Sure
<1>2. up' \in Seq([id : Nat, kind : T!Kinds, thread : Chats \cup {None}, model : T!SomeModel, provider : T!SomeProvider,
                   sure : BOOLEAN])
  <2>1. CASE UNCHANGED up
    BY <2>1 DEF T!TypeOK
  <2>2. CASE T!Sent(r, kind, thread, model, provider)
    <3>1. [id |-> r.revision, kind |-> kind, thread |-> thread, model |-> model, provider |-> provider,
           sure |-> T!Sure(thread)]
            \in [id : Nat, kind : T!Kinds, thread : Chats \cup {None}, model : T!SomeModel, provider : T!SomeProvider,
                 sure : BOOLEAN]
      BY <1>1
    <3>. QED
      BY <2>2, <3>1, AppendType DEF T!TypeOK, T!Sent
  <2>. QED
    BY <2>1, <2>2
<1>3. count' \in [requests : 0 .. MaxAsked, notices : 0 .. MaxNotices, drops : 0 .. MaxDrops]
  BY CountGoesOn DEF T!Asked
<1>. QED
  BY <1>2, <1>3 DEF T!TypeOK, T!Asked

LEMMA SettingsKeep ==
  ASSUME ThreadsInv, NEW thread \in Chats, NEW model \in T!SomeModel, T!UpdateSettings(thread, model)
  PROVE  ThreadsInv'
<1> DEFINE id == relay.revision + 1
           c == relay.ctx[thread]
           new == IF model = None THEN c ELSE T!Updated(c, T!Setting(model, "settings", id))
           p == [id |-> id, kind |-> "settings", thread |-> thread, model |-> model, provider |-> None, prev |-> c,
                 sets |-> model # None]
           w == [id |-> id, kind |-> "settings", thread |-> thread, model |-> model, provider |-> None,
                 sure |-> T!Sure(thread)]
<1>t. T!TypeOK /\ Remembered /\ relay.revision \in Nat /\ c \in T!Context /\ thread # None /\ None \notin T!Models
  BY ChatConstants DEF ThreadsInv, T!TypeOK, T!ThreadsConstants
<1>c. c.rev \in Nat /\ c.rev < id
  BY <1>t DEF Remembered, T!Context
<1>n. new \in T!Context /\ (model # None => new.rev = id /\ new.by = id)
  BY <1>t, <1>c, SettingTaken DEF T!SomeModel
<1>b. (model # None) \in BOOLEAN
  OBVIOUS
<1>p. p \in T!Pending
  BY <1>b, <1>t DEF T!Pending, T!SomeProvider
<1>x. [relay.ctx EXCEPT ![thread] = new] \in [Chats -> T!Context]
  BY <1>t, <1>n DEF T!TypeOK
<1>y. relay.pending \cup {p} \in SUBSET T!Pending
  BY <1>t, <1>p DEF T!TypeOK
<1>1. relay' = [relay EXCEPT !.revision = id, !.ctx = [relay.ctx EXCEPT ![thread] = new],
                             !.pending = relay.pending \cup {p}]
  BY <1>t DEF T!UpdateSettings, T!Observed, T!Awaited, T!TypeOK
<1>2. /\ relay'.revision = id /\ relay'.pending = relay.pending \cup {p} /\ relay'.turn = relay.turn
      /\ relay'.ctx = [relay.ctx EXCEPT ![thread] = new]
      /\ relay' \in [ctx : [Chats -> T!Context], revision : Nat, pending : SUBSET T!Pending,
                     turn : [1 .. MaxAsked + MaxNotices -> T!SomeModel]]
  <2>1. id \in Nat
    BY <1>t
  <2>. HIDE DEF p, new, id
  <2>. QED
    BY <1>1, <1>t, <1>x, <1>y, <2>1, RelaySets
<1>3. up' = Append(up, w) /\ T!Sent([relay EXCEPT !.revision = id], "settings", thread, model, None)
  BY <1>t DEF T!UpdateSettings, T!Observed, T!Sent, T!TypeOK
<1>4. T!Asked
  BY DEF T!UpdateSettings
<1>5. T!TypeOK'
  <2>1. [relay EXCEPT !.revision = id].revision \in Nat
    BY <1>t DEF T!TypeOK
  <2>. QED
    BY <1>2, <1>3, <1>4, <1>p, <1>t, <2>1, SentType DEF T!Kinds, T!SomeProvider
<1>6. /\ count'.requests = count.requests + 1 /\ count'.notices = count.notices
      /\ UNCHANGED <<answers, server, turns, event, log>>
  BY <1>4, <1>t DEF T!Asked, T!TypeOK
<1>7. IF p.sets /\ p.thread # None /\ "settings" # "fork"
        THEN \E e : e.rev = p.id /\ e.by = p.id /\ relay'.ctx = [relay.ctx EXCEPT ![p.thread] = e]
        ELSE relay'.ctx = relay.ctx
  <2>1. CASE model # None
    BY <2>1, <1>2, <1>n, <1>t
  <2>2. CASE model = None
    BY <2>2, <1>2, <1>t DEF T!TypeOK
  <2>. QED
    BY <2>1, <2>2
<1>8. Numbered' /\ Linked' /\ Remembered' /\ Followed' /\ TurnsKnown' /\ T!UsageIsOfTurn'
  <2>1. /\ p.id = id /\ p.kind = KindOf("settings") /\ p.thread = thread /\ p.model = model /\ p.sets = (model # None)
        /\ p.prev = T!Nothing \/ (p.thread # None /\ p.prev = relay.ctx[p.thread])
        /\ p.sets /\ p.thread # None => p.prev = relay.ctx[p.thread]
    BY <1>t DEF KindOf
  <2>2. w.id = id /\ w.kind = "settings" /\ w.thread = thread /\ w.model = model /\ "settings" \in T!Kinds
    BY DEF T!Kinds
  <2>3. /\ p.id = relay.revision + 1 /\ w.id = p.id /\ w.thread = p.thread /\ w.model = p.model
        /\ relay'.revision = p.id /\ "settings" = "start" <=> p.thread = None /\ (p.sets => p.model # None)
        /\ up' = Append(up, w)
    BY <2>1, <2>2, <1>2, <1>3, <1>t
  <2>. HIDE DEF p, w, new, c, id
  <2>. QED
    BY <1>2, <1>6, <1>7, <1>p, <2>1, <2>2, <2>3, SendKeeps
<1>. QED
  BY <1>5, <1>8 DEF ThreadsInv

LEMMA ThreadRequestKeeps ==
  ASSUME ThreadsInv, NEW kind \in {"start", "resume", "fork"}, NEW thread \in Chats \cup {None},
         NEW model \in T!SomeModel, T!ThreadRequest(kind, thread, model)
  PROVE  ThreadsInv'
<1> DEFINE id == relay.revision + 1
           wanted == T!Requested(thread, model)
           provider == T!ProviderFor(thread, model)
           prev == IF model = None \/ thread = None THEN T!Nothing ELSE relay.ctx[thread]
           ctx == IF kind = "resume" /\ model # None
                  THEN [relay.ctx EXCEPT ![thread] = T!Updated(relay.ctx[thread], T!Setting(model, "request", id))] ELSE relay.ctx
           p == [id |-> id, kind |-> "thread", thread |-> thread, model |-> wanted, provider |-> provider, prev |-> prev,
                 sets |-> model # None]
           w == [id |-> id, kind |-> kind, thread |-> thread, model |-> wanted, provider |-> provider,
                 sure |-> T!Sure(thread)]
<1>t. T!TypeOK /\ Remembered /\ relay.revision \in Nat /\ None \notin T!Models /\ None \notin Chats
  BY ChatConstants DEF ThreadsInv, T!TypeOK, T!ThreadsConstants
<1>k. kind = "start" <=> thread = None
  BY DEF T!ThreadRequest
<1>q. wanted \in T!SomeModel /\ provider \in T!SomeProvider /\ (model # None => wanted # None)
  BY <1>t, ChoicesType
<1>v. prev \in T!Context
  BY <1>t DEF T!TypeOK, T!Context, T!Nothing, T!SomeModel, T!SomeProvider
<1>b. (model # None) \in BOOLEAN
  OBVIOUS
<1>p. p \in T!Pending
  BY <1>b, <1>q, <1>t, <1>v DEF T!Pending
<1>n. kind = "resume" /\ model # None =>
        LET c == T!Updated(relay.ctx[thread], T!Setting(model, "request", id)) IN c \in T!Context /\ c.rev = id /\ c.by = id
  <2>1. ASSUME kind = "resume", model # None
        PROVE  thread \in Chats /\ relay.ctx[thread] \in T!Context /\ relay.ctx[thread].rev < id /\ id \in Nat /\ model \in T!Models
    BY <2>1, <1>k, <1>t DEF T!TypeOK, Remembered, T!SomeModel, T!Context
  <2>. QED
    BY <2>1, SettingTaken
<1>x. ctx \in [Chats -> T!Context]
  BY <1>n, <1>k, <1>t DEF T!TypeOK
<1>1. relay' = [relay EXCEPT !.revision = id, !.ctx = ctx, !.pending = relay.pending \cup {p}]
  <2> DEFINE r == T!Observed(relay)
             set == IF kind = "resume" /\ model # None
                    THEN [r.ctx EXCEPT ![thread] = T!Updated(r.ctx[thread], T!Setting(model, "request", r.revision))] ELSE r.ctx
             awaited == T!Awaited(r, "thread", thread, wanted, provider,
                                  IF model = None \/ thread = None THEN T!Nothing ELSE r.ctx[thread], model # None)
  <2>1. r.revision = id /\ r.ctx = relay.ctx /\ r.pending = relay.pending /\ r = [relay EXCEPT !.revision = id]
    BY <1>t DEF T!TypeOK, T!Observed
  <2>2. relay' = [r EXCEPT !.ctx = set, !.pending = awaited]
    BY DEF T!ThreadRequest
  <2>3. awaited = relay.pending \cup {p}
    BY <2>1 DEF T!Awaited
  <2>4. relay' = [r EXCEPT !.ctx = ctx, !.pending = relay.pending \cup {p}]
    <3>1. set = ctx
      <4>. HIDE DEF r
      <4>. QED
        BY <2>1
    <3>. HIDE DEF r, ctx, p, set, awaited
    <3>. QED
      BY <2>2, <2>3, <3>1
  <2>5. [r EXCEPT !.ctx = ctx, !.pending = relay.pending \cup {p}]
          = [relay EXCEPT !.revision = id, !.ctx = ctx, !.pending = relay.pending \cup {p}]
    <3>. HIDE DEF ctx, p, r, id
    <3>. QED
      BY <1>t, <2>1 DEF T!TypeOK
  <2>. QED
    BY <2>4, <2>5
<1>2. /\ relay'.revision = id /\ relay'.pending = relay.pending \cup {p} /\ relay'.turn = relay.turn /\ relay'.ctx = ctx
      /\ relay' \in [ctx : [Chats -> T!Context], revision : Nat, pending : SUBSET T!Pending,
                     turn : [1 .. MaxAsked + MaxNotices -> T!SomeModel]]
  <2>1. relay.pending \cup {p} \in SUBSET T!Pending
    BY <1>t, <1>p DEF T!TypeOK
  <2>2. id \in Nat
    BY <1>t
  <2>. HIDE DEF p, ctx, id
  <2>. QED
    BY <1>1, <1>t, <1>x, <2>1, <2>2, RelaySets
<1>3. up' = Append(up, w) /\ T!Sent([relay EXCEPT !.revision = id], kind, thread, wanted, provider)
  BY <1>t DEF T!ThreadRequest, T!Observed, T!Sent, T!TypeOK
<1>4. T!Asked
  BY DEF T!ThreadRequest
<1>5. T!TypeOK'
  <2>1. [relay EXCEPT !.revision = id].revision \in Nat
    BY <1>t DEF T!TypeOK
  <2>. QED
    <3>1. kind \in T!Kinds
      BY DEF T!Kinds
    <3>. HIDE DEF p, ctx, wanted, provider
    <3>. QED
      BY <1>2, <1>3, <1>4, <1>p, <1>q, <1>t, <2>1, <3>1, SentType
<1>6. /\ count'.requests = count.requests + 1 /\ count'.notices = count.notices
      /\ UNCHANGED <<answers, server, turns, event, log>>
  BY <1>4, <1>t DEF T!Asked, T!TypeOK
<1>7. IF p.sets /\ p.thread # None /\ kind # "fork"
        THEN \E e : e.rev = p.id /\ e.by = p.id /\ relay'.ctx = [relay.ctx EXCEPT ![p.thread] = e]
        ELSE relay'.ctx = relay.ctx
  <2>1. CASE kind = "resume" /\ model # None
    BY <2>1, <1>2, <1>n, <1>k, <1>t DEF T!TypeOK
  <2>2. CASE ~(kind = "resume" /\ model # None)
    BY <2>2, <1>2, <1>k
  <2>. QED
    BY <2>1, <2>2
<1>8. Numbered' /\ Linked' /\ Remembered' /\ Followed' /\ TurnsKnown' /\ T!UsageIsOfTurn'
  <2>1. /\ p.id = id /\ p.kind = KindOf(kind) /\ p.thread = thread /\ p.model = wanted /\ p.sets = (model # None)
        /\ p.prev = T!Nothing \/ (p.thread # None /\ p.prev = relay.ctx[p.thread])
        /\ p.sets /\ p.thread # None => p.prev = relay.ctx[p.thread]
    BY DEF KindOf
  <2>2. w.id = id /\ w.kind = kind /\ w.thread = thread /\ w.model = wanted /\ kind \in T!Kinds
    BY DEF T!Kinds
  <2>3. p.sets => p.model # None
    BY <2>1, <1>q
  <2>. HIDE DEF p, w, ctx, wanted
  <2>. QED
    BY <1>2, <1>3, <1>6, <1>7, <1>k, <1>p, <1>t, <2>1, <2>2, <2>3, SendKeeps
<1>. QED
  BY <1>5, <1>8 DEF ThreadsInv

LEMMA StartTurnKeeps ==
  ASSUME ThreadsInv, NEW thread \in Chats, NEW model \in T!SomeModel, T!StartTurn(thread, model)
  PROVE  ThreadsInv'
<1> DEFINE id == relay.revision + 1
           wanted == T!Requested(thread, model)
           provider == T!ProviderFor(thread, model)
           prev == IF model = None THEN T!Nothing ELSE relay.ctx[thread]
           new == IF model = None THEN relay.ctx[thread]
                  ELSE T!Updated(relay.ctx[thread], T!Setting(model, "turn", id))
           p == [id |-> id, kind |-> "turn", thread |-> thread, model |-> wanted, provider |-> provider, prev |-> prev,
                 sets |-> model # None]
           w == [id |-> id, kind |-> "turn", thread |-> thread, model |-> wanted, provider |-> None,
                 sure |-> T!Sure(thread)]
<1>t. /\ T!TypeOK /\ Remembered /\ relay.revision \in Nat /\ None \notin T!Models /\ thread # None
      /\ relay.ctx[thread] \in T!Context
  BY ChatConstants DEF ThreadsInv, T!TypeOK, T!ThreadsConstants
<1>q. wanted \in T!SomeModel /\ provider \in T!SomeProvider /\ (model # None => wanted # None)
  BY <1>t, ChoicesType
<1>v. prev \in T!Context
  BY <1>t DEF T!Context, T!Nothing, T!SomeModel, T!SomeProvider
<1>b. (model # None) \in BOOLEAN
  OBVIOUS
<1>p. p \in T!Pending
  BY <1>b, <1>q, <1>t, <1>v DEF T!Pending
<1>c. relay.ctx[thread].rev \in Nat /\ relay.ctx[thread].rev < id
  BY <1>t DEF Remembered, T!Context
<1>n. new \in T!Context /\ (model # None => new.rev = id /\ new.by = id)
  BY <1>t, <1>c, SettingTaken DEF T!SomeModel
<1>4. T!Asked
  BY DEF T!StartTurn
<1>6. /\ count'.requests = count.requests + 1 /\ count'.notices = count.notices
      /\ UNCHANGED <<answers, server, turns, event, log>>
  BY <1>4, <1>t DEF T!Asked, T!TypeOK
<1>s. [relay EXCEPT !.revision = id].revision \in Nat
  BY <1>t DEF T!TypeOK
<1>w. \/ /\ relay' = [relay EXCEPT !.revision = id, !.ctx[thread] = new, !.pending = relay.pending \cup {p}]
         /\ up' = Append(up, w) /\ T!Sent([relay EXCEPT !.revision = id], "turn", thread, wanted, None)
      \/ relay' = [relay EXCEPT !.revision = @ + 1] /\ UNCHANGED up
  <2>1. [relay EXCEPT !.revision = @ + 1] = [relay EXCEPT !.revision = id]
    OBVIOUS
  <2>. QED
    BY <1>t, <2>1 DEF T!StartTurn, T!Observed, T!Awaited, T!Sent, T!TypeOK
<1>1. CASE relay' = [relay EXCEPT !.revision = @ + 1] /\ UNCHANGED up
  <2>1. relay' \in [ctx : [Chats -> T!Context], revision : Nat, pending : SUBSET T!Pending,
                    turn : [1 .. MaxAsked + MaxNotices -> T!SomeModel]]
    <3>1. relay \in [ctx : [Chats -> T!Context], revision : Nat, pending : SUBSET T!Pending,
                     turn : [1 .. MaxAsked + MaxNotices -> T!SomeModel]]
      BY <1>t, ThreadTypes
    <3>. QED
      BY <1>1, <3>1
  <2>2. T!TypeOK'
    <3>1. count' \in [requests : 0 .. MaxAsked, notices : 0 .. MaxNotices, drops : 0 .. MaxDrops]
      BY <1>4, <1>t, CountGoesOn DEF T!Asked
    <3>. QED
      BY <1>1, <1>6, <2>1, <3>1, <1>t DEF T!TypeOK
  <2>. QED
    BY <1>1, <1>6, <2>2, NumberKeeps DEF ThreadsInv
<1>2. CASE /\ relay' = [relay EXCEPT !.revision = id, !.ctx[thread] = new, !.pending = relay.pending \cup {p}]
           /\ up' = Append(up, w) /\ T!Sent([relay EXCEPT !.revision = id], "turn", thread, wanted, None)
  <2>2. /\ relay'.revision = id /\ relay'.pending = relay.pending \cup {p} /\ relay'.turn = relay.turn
        /\ relay'.ctx = [relay.ctx EXCEPT ![thread] = new]
        /\ relay' \in [ctx : [Chats -> T!Context], revision : Nat, pending : SUBSET T!Pending,
                       turn : [1 .. MaxAsked + MaxNotices -> T!SomeModel]]
    <3>1. [relay.ctx EXCEPT ![thread] = new] \in [Chats -> T!Context]
      BY <1>t, <1>n DEF T!TypeOK
    <3>2. relay.pending \cup {p} \in SUBSET T!Pending
      BY <1>t, <1>p DEF T!TypeOK
    <3>3. relay' = [relay EXCEPT !.revision = id, !.ctx = [relay.ctx EXCEPT ![thread] = new],
                                 !.pending = relay.pending \cup {p}]
      BY <1>2
    <3>4. id \in Nat
      BY <1>t
    <3>. HIDE DEF p, new, id
    <3>. QED
      BY <3>1, <3>2, <3>3, <3>4, <1>t, RelaySets
  <2>5. T!TypeOK'
    BY <1>2, <2>2, <1>4, <1>p, <1>q, <1>s, <1>t, SentType DEF T!Kinds, T!SomeProvider
  <2>7. IF p.sets /\ p.thread # None /\ "turn" # "fork"
          THEN \E e : e.rev = p.id /\ e.by = p.id /\ relay'.ctx = [relay.ctx EXCEPT ![p.thread] = e]
          ELSE relay'.ctx = relay.ctx
    <3>1. CASE model # None
      BY <3>1, <2>2, <1>n, <1>t
    <3>2. CASE model = None
      BY <3>2, <2>2, <1>t DEF T!TypeOK
    <3>. QED
      BY <3>1, <3>2
  <2>8. Numbered' /\ Linked' /\ Remembered' /\ Followed' /\ TurnsKnown' /\ T!UsageIsOfTurn'
    <3>1. /\ p.id = id /\ p.kind = KindOf("turn") /\ p.thread = thread /\ p.model = wanted /\ p.sets = (model # None)
          /\ p.prev = T!Nothing \/ (p.thread # None /\ p.prev = relay.ctx[p.thread])
          /\ p.sets /\ p.thread # None => p.prev = relay.ctx[p.thread]
      BY <1>t DEF KindOf
    <3>2. w.id = id /\ w.kind = "turn" /\ w.thread = thread /\ w.model = wanted /\ "turn" \in T!Kinds
      BY DEF T!Kinds
    <3>3. (p.sets => p.model # None) /\ up' = Append(up, w)
      BY <3>1, <1>q, <1>2
    <3>4. /\ p.id = relay.revision + 1 /\ "turn" = "start" <=> p.thread = None
          /\ w.id = p.id /\ w.thread = p.thread /\ w.model = p.model
          /\ relay'.revision = p.id
      BY <3>1, <3>2, <2>2, <1>t
    <3>. HIDE DEF p, w, new, wanted
    <3>. QED
      BY <2>2, <1>6, <2>7, <1>p, <1>t, <3>1, <3>2, <3>3, <3>4, SendKeeps
  <2>. QED
    BY <2>5, <2>8 DEF ThreadsInv
<1>. QED
  BY <1>w, <1>1, <1>2

LEMMA ReadKeeps ==
  ASSUME ThreadsInv, NEW thread \in Chats, T!ReadThread(thread)
  PROVE  ThreadsInv'
<1> DEFINE id == relay.revision + 1
           p == [id |-> id, kind |-> "read", thread |-> thread, model |-> None, provider |-> None, prev |-> T!Nothing,
                 sets |-> FALSE]
           w == [id |-> id, kind |-> "read", thread |-> thread, model |-> None, provider |-> None,
                 sure |-> T!Sure(thread)]
<1>t. T!TypeOK /\ relay.revision \in Nat /\ thread # None
  BY ChatConstants DEF ThreadsInv, T!TypeOK, T!ThreadsConstants
<1>p. p \in T!Pending /\ None \in T!SomeModel /\ None \in T!SomeProvider
  BY <1>t DEF T!Pending, T!SomeModel, T!SomeProvider, T!Nothing, T!Context
<1>1. relay' = [relay EXCEPT !.revision = id, !.ctx = relay.ctx, !.pending = relay.pending \cup {p}]
  BY <1>t DEF T!ReadThread, T!Observed, T!Awaited, T!TypeOK
<1>2. /\ relay'.revision = id /\ relay'.pending = relay.pending \cup {p} /\ relay'.turn = relay.turn
      /\ relay'.ctx = relay.ctx
      /\ relay' \in [ctx : [Chats -> T!Context], revision : Nat, pending : SUBSET T!Pending,
                     turn : [1 .. MaxAsked + MaxNotices -> T!SomeModel]]
  <2>1. relay.pending \cup {p} \in SUBSET T!Pending /\ relay.ctx \in [Chats -> T!Context]
    BY <1>t, <1>p DEF T!TypeOK
  <2>2. id \in Nat
    BY <1>t
  <2>. HIDE DEF p, id
  <2>. QED
    BY <1>1, <1>t, <2>1, <2>2, RelaySets
<1>3. up' = Append(up, w) /\ T!Sent([relay EXCEPT !.revision = id], "read", thread, None, None)
  BY <1>t DEF T!ReadThread, T!Observed, T!Sent, T!TypeOK
<1>4. T!Asked
  BY DEF T!ReadThread
<1>5. T!TypeOK'
  <2>1. [relay EXCEPT !.revision = id].revision \in Nat
    BY <1>t DEF T!TypeOK
  <2>. QED
    BY <1>2, <1>3, <1>4, <1>p, <1>t, <2>1, SentType DEF T!Kinds
<1>6. /\ count'.requests = count.requests + 1 /\ count'.notices = count.notices
      /\ UNCHANGED <<answers, server, turns, event, log>>
  BY <1>4, <1>t DEF T!Asked, T!TypeOK
<1>8. Numbered' /\ Linked' /\ Remembered' /\ Followed' /\ TurnsKnown' /\ T!UsageIsOfTurn'
  <2>1. p.id = id /\ p.kind = KindOf("read") /\ p.thread = thread /\ p.model = None /\ p.prev = T!Nothing /\ ~p.sets
    BY DEF KindOf
  <2>2. w.id = id /\ w.kind = "read" /\ w.thread = thread /\ w.model = None /\ "read" \in T!Kinds
    BY DEF T!Kinds
  <2>. HIDE DEF p, w
  <2>. QED
    BY <1>2, <1>3, <1>6, <1>p, <1>t, <2>1, <2>2, SendKeeps
<1>. QED
  BY <1>5, <1>8 DEF ThreadsInv

(***************************************************************************)
(* The server handles the first request, and perhaps begins a turn.        *)
(***************************************************************************)
TurnOf(u, asks) ==
  /\ u.id = asks.id /\ u.answered = FALSE /\ (asks.model # None => u.model = asks.model)

LEMMA HandledKeeps ==
  ASSUME ThreadsInv, up # << >>, NEW thread \in Chats \cup {None}, NEW ok \in BOOLEAN,
         ok => thread \in Chats, thread = Head(up).thread \/ Head(up).kind \in {"start", "fork"},
         T!Handled(Head(up), thread, ok),
         log' = [log EXCEPT !.unsure = log'.unsure], log.unsure \subseteq log'.unsure,
         \/ turns' = turns
         \/ \E u : /\ turns' = turns \cup {u} /\ TurnOf(u, Head(up)) /\ ok /\ Head(up).kind = "turn"
                   /\ Head(up).model = None => Head(up).id \in log'.unsure
  PROVE  Numbered' /\ Linked' /\ Remembered' /\ Followed' /\ TurnsKnown' /\ T!UsageIsOfTurn'
<1> DEFINE asks == Head(up)
           a == [id |-> asks.id, kind |-> asks.kind, thread |-> thread, ok |-> ok]
<1>t. T!TypeOK /\ Numbered /\ Linked /\ Remembered /\ Followed /\ TurnsKnown /\ T!UsageIsOfTurn
  BY DEF ThreadsInv
<1>r. relay' = relay /\ event' = event /\ count' = count /\ answers' = answers \cup {a} /\ up' = Tail(up)
  BY DEF T!Handled
<1>l. log'.failed = log.failed /\ log'.excused = log.excused /\ log'.newest = log.newest
  BY <1>t DEF T!TypeOK
<1>a. /\ 1 \in DOMAIN up /\ up[1] = asks /\ Len(up) \in Nat /\ DOMAIN up = 1 .. Len(up)
      /\ DOMAIN up' = 1 .. Len(up) - 1
      /\ \A i \in DOMAIN up' : i + 1 \in DOMAIN up /\ 1 < i + 1 /\ up'[i] = up[i + 1]
      /\ \A i \in DOMAIN up : i = 1 \/ (i - 1 \in DOMAIN up' /\ up'[i - 1] = up[i])
  <2> DEFINE S == [id : Nat, kind : T!Kinds, thread : Chats \cup {None}, model : T!SomeModel,
                   provider : T!SomeProvider, sure : BOOLEAN]
  <2>1. up \in Seq(S)
    BY <1>t, ThreadTypes
  <2>. HIDE DEF S
  <2>2. /\ Len(up) \in Nat /\ DOMAIN up = 1 .. Len(up) /\ Len(up) # 0 /\ up[1] = asks
        /\ DOMAIN Tail(up) = 1 .. Len(up) - 1
        /\ \A i \in 1 .. Len(up) - 1 : Tail(up)[i] = up[i + 1]
    BY <2>1, HeadIn, TailAt
  <2>. QED
    BY <2>2, <1>r
<1>n. /\ \A i \in DOMAIN up : up[i].id \in Nat
      /\ \A b \in answers : b.id \in Nat /\ b.id < asks.id
      /\ \A t \in turns : t.id \in Nat /\ t.id < asks.id
  <2>1. relay.revision \in Nat /\ 1 \in DOMAIN up
    BY <1>a, <1>t, ThreadTypes
  <2>. QED
    BY <1>a, <1>t, <2>1 DEF Numbered
<1>o. \A q : Own(q)' <=> Own(q)
  <2>1. ASSUME NEW id, ForkId(id) PROVE ForkId(id)'
    <3>1. CASE \E i \in DOMAIN up : up[i].id = id /\ up[i].kind = "fork"
      <4>1. PICK i \in DOMAIN up : up[i].id = id /\ up[i].kind = "fork"
        BY <3>1
      <4>2. CASE i = 1
        <5>1. a \in answers' /\ a.id = id /\ a.kind = "fork"
          BY <4>1, <4>2, <1>a, <1>r
        <5>. QED
          BY <5>1 DEF ForkId
      <4>3. CASE i - 1 \in DOMAIN up' /\ up'[i - 1] = up[i]
        BY <4>1, <4>3 DEF ForkId
      <4>. QED
        BY <4>2, <4>3, <1>a
    <3>2. CASE \E b \in answers : b.id = id /\ b.kind = "fork"
      BY <3>2, <1>r DEF ForkId
    <3>. QED
      BY <2>1, <3>1, <3>2 DEF ForkId
  <2>2. ASSUME NEW id, ForkId(id)' PROVE ForkId(id)
    <3>1. CASE \E i \in DOMAIN up' : up'[i].id = id /\ up'[i].kind = "fork"
      BY <3>1, <1>a DEF ForkId
    <3>2. CASE \E b \in answers' : b.id = id /\ b.kind = "fork"
      BY <3>2, <1>a, <1>r DEF ForkId
    <3>. QED
      BY <2>2, <3>1, <3>2 DEF ForkId
  <2>. QED
    BY <2>1, <2>2 DEF Own
<1>b. \A t \in turns' : t \in turns \/ (TurnOf(t, asks) /\ ok /\ asks.kind = "turn"
                                         /\ (asks.model = None => asks.id \in log'.unsure))
  OBVIOUS
<1>1. Numbered'
  <2>1. /\ \A i \in DOMAIN up' : up'[i].id \in 1 .. relay.revision
        /\ \A i, j \in DOMAIN up' : i < j => up'[i].id < up'[j].id
        /\ \A i \in DOMAIN up' : asks.id < up'[i].id
    BY <1>a, <1>t DEF Numbered
  <2>2. /\ \A b \in answers' : b.id \in 1 .. relay.revision /\ \A i \in DOMAIN up' : b.id < up'[i].id
        /\ \A b, c \in answers' : b.id = c.id => b = c
    BY <1>a, <1>n, <1>r, <1>t, <2>1 DEF Numbered
  <2>3. \A t \in turns' : t.id \in 1 .. relay.revision /\ \A i \in DOMAIN up' : t.id < up'[i].id
    BY <1>a, <1>b, <1>t, <2>1 DEF Numbered, TurnOf
  <2>4. \A t, u \in turns' : t.id = u.id => t = u
    <3>1. CASE turns' = turns
      BY <3>1, <1>t DEF Numbered
    <3>2. ASSUME NEW v, turns' = turns \cup {v}, TurnOf(v, asks) PROVE \A t, u \in turns' : t.id = u.id => t = u
      BY <3>2, <1>n, <1>t DEF Numbered, TurnOf
    <3>. QED
      BY <3>1, <3>2
  <2>. QED
    BY <2>1, <2>2, <2>3, <2>4, <1>r, <1>t DEF Numbered
<1>2. Linked'
  <2>1. \A p \in relay.pending : \A i \in DOMAIN up' :
          up'[i].id = p.id => p.kind = KindOf(up'[i].kind) /\ p.thread = up'[i].thread /\ p.model = up'[i].model
    <3>1. ASSUME NEW p \in relay.pending, NEW i \in DOMAIN up', up'[i].id = p.id
          PROVE  p.kind = KindOf(up'[i].kind) /\ p.thread = up'[i].thread /\ p.model = up'[i].model
      <4>1. i + 1 \in DOMAIN up /\ up'[i] = up[i + 1]
        BY <1>a
      <4>. QED
        BY <3>1, <4>1, <1>t DEF Linked
    <3>. QED
      BY <3>1
  <2>2. \A p \in relay.pending : \A b \in answers' :
          b.id = p.id => p.kind = KindOf(b.kind) /\ (b.kind \notin {"start", "fork"} => b.thread = p.thread)
    BY <1>a, <1>r, <1>t DEF Linked
  <2>3. \A i \in DOMAIN up' : up'[i].thread = None => up'[i].kind = "start"
    BY <1>a, <1>t DEF Linked
  <2>. QED
    BY <2>1, <2>2, <2>3, <1>r, <1>t DEF Linked
<1>3. Remembered'
  BY <1>o, <1>r, <1>t DEF Remembered
<1>4. Followed'
  BY <1>o, <1>r, <1>l, <1>t DEF Followed, Excusable
<1>5. TurnsKnown'
  <2>1. \A i \in DOMAIN up' : up'[i].kind = "turn" /\ up'[i].id \notin log'.unsure =>
          \E p \in relay.pending : p.id = up'[i].id
    BY <1>a, <1>t DEF TurnsKnown
  <2>2. \A t \in turns' : \A b \in answers' : b.id = t.id => b.ok /\ b.kind = "turn" /\ ~t.answered
    BY <1>b, <1>n, <1>r, <1>t DEF TurnsKnown, TurnOf
  <2>3. \A t \in turns' : t.id \notin log'.unsure /\ ~t.answered =>
          t.model # None /\ \E p \in relay.pending : p.id = t.id /\ p.model = t.model /\ p.kind = "turn"
    <3>1. ASSUME NEW t \in turns', t \notin turns, t.id \notin log'.unsure
          PROVE  t.model # None /\ \E p \in relay.pending : p.id = t.id /\ p.model = t.model /\ p.kind = "turn"
      <4>1. t.id = asks.id /\ asks.kind = "turn" /\ asks.model # None /\ t.model = asks.model
        BY <3>1, <1>b DEF TurnOf
      <4>2. PICK p \in relay.pending : p.id = up[1].id
        BY <4>1, <3>1, <1>a, <1>t DEF TurnsKnown
      <4>3. p.kind = KindOf(up[1].kind) /\ p.model = up[1].model
        BY <4>2, <1>a, <1>t DEF Linked
      <4>. QED
        BY <4>1, <4>2, <4>3, <1>a DEF KindOf
    <3>2. ASSUME NEW t \in turns, t.id \notin log'.unsure, ~t.answered
          PROVE  t.model # None /\ \E p \in relay.pending : p.id = t.id /\ p.model = t.model /\ p.kind = "turn"
      BY <3>2, <1>t DEF TurnsKnown
    <3>. QED
      BY <3>1, <3>2
  <2>4. \A t \in turns' : t.id \notin log'.unsure /\ t.answered /\ t.stage # "done" =>
          t.model # None /\ relay.turn[t.id] = t.model
    BY <1>b, <1>t DEF TurnsKnown, TurnOf
  <2>. QED
    BY <2>1, <2>2, <2>3, <2>4, <1>r DEF TurnsKnown
<1>6. T!UsageIsOfTurn'
  BY <1>r, <1>t DEF T!UsageIsOfTurn
<1>. QED
  BY <1>1, <1>2, <1>3, <1>4, <1>5, <1>6

LEMMA HeadType ==
  ASSUME T!TypeOK, up # << >>
  PROVE  /\ Head(up).id \in Nat /\ Head(up).kind \in T!Kinds /\ Head(up).thread \in Chats \cup {None}
         /\ Head(up).model \in T!SomeModel /\ Head(up).provider \in T!SomeProvider /\ Head(up).sure \in BOOLEAN
<1>1. Head(up) \in [id : Nat, kind : T!Kinds, thread : Chats \cup {None}, model : T!SomeModel,
                   provider : T!SomeProvider, sure : BOOLEAN]
  <2>1. up \in Seq([id : Nat, kind : T!Kinds, thread : Chats \cup {None}, model : T!SomeModel,
                   provider : T!SomeProvider, sure : BOOLEAN])
    BY ThreadTypes
  <2>. QED
    BY <2>1, HeadIn
<1>. QED
  BY <1>1

LEMMA HandledType ==
  ASSUME T!TypeOK, up # << >>, NEW thread \in Chats \cup {None}, NEW ok \in BOOLEAN, T!Handled(Head(up), thread, ok),
         server' \in [Chats -> [model : T!SomeModel, provider : T!SomeProvider]],
         turns' \in SUBSET [id : Nat, thread : Chats, model : T!SomeModel, stage : {"accepted", "running", "done"},
                            answered : BOOLEAN, sure : BOOLEAN, mixed : BOOLEAN],
         log' = log \/ log' = [log EXCEPT !.unsure = @ \cup {Head(up).id}]
  PROVE  T!TypeOK'
<1>1. Head(up).id \in Nat /\ Head(up).kind \in T!Kinds
  BY HeadType
<1>2. up' \in Seq([id : Nat, kind : T!Kinds, thread : Chats \cup {None}, model : T!SomeModel, provider : T!SomeProvider,
                   sure : BOOLEAN])
  BY TailType DEF T!TypeOK, T!Handled
<1>3. answers' \in SUBSET [id : Nat, kind : T!Kinds, thread : Chats \cup {None}, ok : BOOLEAN]
  BY <1>1 DEF T!TypeOK, T!Handled
<1>4. log' \in [failed : SUBSET Nat, excused : SUBSET Nat, newest : [Chats -> Nat], unsure : SUBSET Nat,
                lost : SUBSET (Chats \cup {None})]
  <2>1. log \in [failed : SUBSET Nat, excused : SUBSET Nat, newest : [Chats -> Nat], unsure : SUBSET Nat,
                lost : SUBSET (Chats \cup {None})]
    BY ThreadTypes
  <2>2. log.unsure \cup {Head(up).id} \in SUBSET Nat
    BY <1>1, <2>1
  <2>. QED
    BY <2>1, <2>2
<1>. QED
  BY <1>2, <1>3, <1>4 DEF T!TypeOK, T!Handled


LEMMA ServerKeeps ==
  ASSUME ThreadsInv, T!Server
  PROVE  ThreadsInv'
<1>t. T!TypeOK /\ None \notin Chats /\ up # << >>
  BY ChatConstants DEF ThreadsInv, T!ThreadsConstants, T!Server, T!Fails, T!SettingsHandled, T!TurnHandled, T!ReadHandled,
     T!ThreadHandled
<1>h. /\ Head(up).id \in Nat /\ Head(up).thread \in Chats \cup {None} /\ Head(up).model \in T!SomeModel
      /\ Head(up).provider \in T!SomeProvider /\ Head(up).sure \in BOOLEAN
  BY <1>t, HeadType
<1>g. Head(up).thread = None => Head(up).kind = "start"
  <2>1. Head(up) = up[1] /\ 1 \in DOMAIN up
    BY <1>t, ThreadTypes, HeadIn
  <2>. QED
    BY <2>1 DEF ThreadsInv, Linked
<1>l. log = [log EXCEPT !.unsure = log.unsure]
  BY <1>t DEF T!TypeOK
<1>s. /\ server \in [Chats -> [model : T!SomeModel, provider : T!SomeProvider]]
      /\ turns \in SUBSET [id : Nat, thread : Chats, model : T!SomeModel, stage : {"accepted", "running", "done"},
                           answered : BOOLEAN, sure : BOOLEAN, mixed : BOOLEAN]
  BY <1>t DEF T!TypeOK
<1>o. \A x \in T!SomeModel, y \in T!SomeModel : T!Or(x, y) \in T!SomeModel
  BY DEF T!Or
<1>p. \A x \in T!SomeProvider, y \in T!SomeProvider : T!Or(x, y) \in T!SomeProvider
  BY DEF T!Or
<1>1. CASE T!Fails
  <2>1. T!TypeOK'
    BY <1>1, <1>h, <1>s, <1>t, HandledType DEF T!Fails
  <2>. QED
    BY <1>1, <1>h, <1>l, <1>t, <2>1, HandledKeeps DEF T!Fails, ThreadsInv
<1>2. CASE T!SettingsHandled
  <2>0. Head(up).thread \in Chats
    BY <1>2, <1>h, <1>g DEF T!SettingsHandled
  <2>1. server' \in [Chats -> [model : T!SomeModel, provider : T!SomeProvider]]
    <3>1. T!Or(Head(up).model, server[Head(up).thread].model) \in T!SomeModel
      BY <1>h, <1>o, <1>s, <2>0
    <3>. QED
      BY <1>2, <1>s, <2>0, <3>1 DEF T!SettingsHandled
  <2>2. T!TypeOK'
    BY <1>2, <1>h, <1>s, <1>t, <2>1, HandledType DEF T!SettingsHandled
  <2>. QED
    BY <1>2, <1>h, <1>l, <1>t, <2>0, <2>2, HandledKeeps DEF T!SettingsHandled, ThreadsInv
<1>3. CASE T!TurnHandled
  <2> DEFINE asks == Head(up)
             model == T!Or(asks.model, server[asks.thread].model)
             u == [id |-> asks.id, thread |-> asks.thread, model |-> model, stage |-> "accepted", answered |-> FALSE,
                   sure |-> asks.sure /\ asks.thread \notin log.lost,
                   mixed |-> T!ProviderOf(model) # server[asks.thread].provider]
  <2>0. asks.thread \in Chats
    BY <1>3, <1>h, <1>g DEF T!TurnHandled
  <2>1. model \in T!SomeModel
    BY <1>h, <1>o, <1>s, <2>0
  <2>2. server' \in [Chats -> [model : T!SomeModel, provider : T!SomeProvider]]
    BY <1>3, <1>s, <2>0, <2>1 DEF T!TurnHandled
  <2>3. (asks.sure /\ asks.thread \notin log.lost) \in BOOLEAN /\ (T!ProviderOf(model) # server[asks.thread].provider) \in BOOLEAN
    BY <1>h
  <2>4. turns' = turns \cup {u}
    BY <1>3 DEF T!TurnHandled
  <2>5. u \in [id : Nat, thread : Chats, model : T!SomeModel, stage : {"accepted", "running", "done"},
               answered : BOOLEAN, sure : BOOLEAN, mixed : BOOLEAN]
    BY <1>h, <2>0, <2>1, <2>3
  <2>6. log' = [log EXCEPT !.unsure = @ \cup {asks.id}] \/ (log' = log /\ asks.model # None)
    BY <1>3, <1>l DEF T!TurnHandled
  <2>7. T!Handled(asks, asks.thread, TRUE) /\ asks.kind = "turn"
    BY <1>3 DEF T!TurnHandled
  <2>8. T!TypeOK'
    BY <1>s, <1>t, <2>0, <2>2, <2>4, <2>5, <2>6, <2>7, HandledType
  <2>9. /\ log' = [log EXCEPT !.unsure = log'.unsure] /\ log.unsure \subseteq log'.unsure
        /\ asks.model = None => asks.id \in log'.unsure
    BY <2>6, <1>t DEF T!TypeOK
  <2>10. TurnOf(u, asks)
    BY DEF TurnOf, T!Or
  <2>. HIDE DEF u, model
  <2>. QED
    BY <1>t, <2>0, <2>4, <2>7, <2>8, <2>9, <2>10, HandledKeeps DEF ThreadsInv
<1>4. CASE T!ReadHandled
  <2>0. Head(up).thread \in Chats
    BY <1>4, <1>h, <1>g DEF T!ReadHandled
  <2>1. T!TypeOK'
    BY <1>4, <1>h, <1>s, <1>t, HandledType DEF T!ReadHandled
  <2>. QED
    BY <1>4, <1>h, <1>l, <1>t, <2>0, <2>1, HandledKeeps DEF T!ReadHandled, ThreadsInv
<1>5. ASSUME NEW thread \in Chats, T!ThreadHandled(thread) PROVE ThreadsInv'
  <2> DEFINE asks == Head(up)
             old == CASE asks.kind = "start" -> [model |-> CHOOSE m \in OfficialModels : TRUE, provider |-> Openai]
                      [] asks.kind # "start" -> server[asks.thread]
  <2>1. old.model \in T!SomeModel /\ old.provider \in T!SomeProvider
    <3>1. (CHOOSE m \in OfficialModels : TRUE) \in OfficialModels
      BY ChatConstants DEF T!ThreadsConstants
    <3>2. CASE asks.kind = "start"
      BY <3>1, <3>2 DEF T!SomeModel, T!SomeProvider, T!Models
    <3>3. CASE asks.kind # "start"
      <4>1. asks.thread \in Chats
        BY <3>3, <1>h, <1>g
      <4>. QED
        BY <3>3, <4>1, <1>s
    <3>. QED
      BY <3>2, <3>3
  <2>2. server' = [server EXCEPT ![thread] =
          [model |-> T!Or(asks.model, old.model), provider |-> T!Or(asks.provider, old.provider)]]
    BY <1>5 DEF T!ThreadHandled
  <2>3. server' \in [Chats -> [model : T!SomeModel, provider : T!SomeProvider]]
    <3>1. T!Or(asks.model, old.model) \in T!SomeModel /\ T!Or(asks.provider, old.provider) \in T!SomeProvider
      BY <1>h, <1>o, <1>p, <2>1
    <3>. HIDE DEF old
    <3>. QED
      BY <1>s, <2>2, <3>1
  <2>4. T!Handled(asks, thread, TRUE) /\ turns' = turns /\ log' = log /\ (thread = asks.thread \/ asks.kind \in {"start", "fork"})
    BY <1>5 DEF T!ThreadHandled
  <2>5. T!TypeOK'
    BY <1>s, <1>t, <2>3, <2>4, HandledType
  <2>. QED
    BY <1>l, <1>t, <2>4, <2>5, HandledKeeps DEF ThreadsInv
<1>. QED
  BY <1>1, <1>2, <1>3, <1>4, <1>5 DEF T!Server

(***************************************************************************)
(* The answer to a request.                                                *)
(***************************************************************************)
Marked(id) == {IF t.id = id THEN [t EXCEPT !.answered = TRUE] ELSE t : t \in turns}

LEMMA MarkedAre ==
  ASSUME T!TypeOK, NEW id
  PROVE  /\ \A t \in Marked(id) : \E u \in turns :
              t.id = u.id /\ t.model = u.model /\ t.stage = u.stage /\ (t = u \/ (t.id = id /\ t.answered))
         /\ Marked(id) \in SUBSET [id : Nat, thread : Chats, model : T!SomeModel,
                                  stage : {"accepted", "running", "done"}, answered : BOOLEAN, sure : BOOLEAN,
                                  mixed : BOOLEAN]
         /\ \A t \in Marked(id) : t.id = id => t.answered
         /\ Numbered => \A t, u \in Marked(id) : t.id = u.id => t = u
<1> DEFINE TurnSet == [id : Nat, thread : Chats, model : T!SomeModel, stage : {"accepted", "running", "done"},
                       answered : BOOLEAN, sure : BOOLEAN, mixed : BOOLEAN]
           M(u) == IF u.id = id THEN [u EXCEPT !.answered = TRUE] ELSE u
<1>1. turns \in SUBSET TurnSet
  BY DEF T!TypeOK
<1>2. ASSUME NEW u \in turns
      PROVE  /\ M(u) \in TurnSet /\ M(u).id = u.id /\ M(u).model = u.model /\ M(u).stage = u.stage
             /\ M(u) = u \/ (u.id = id /\ M(u).answered)
             /\ u.id = id => M(u).answered
  <2>1. u \in TurnSet
    BY <1>1
  <2>. QED
    BY <2>1
<1>3. Marked(id) = {M(u) : u \in turns}
  BY DEF Marked
<1>4. ASSUME Numbered, NEW t \in Marked(id), NEW u \in Marked(id), t.id = u.id PROVE t = u
  <2>1. PICK x \in turns : t = M(x)
    BY <1>3
  <2>2. PICK y \in turns : u = M(y)
    BY <1>3
  <2>3. x.id = y.id
    BY <2>1, <2>2, <1>2, <1>4
  <2>4. x = y
    BY <2>3, <1>4 DEF Numbered
  <2>. QED
    BY <2>1, <2>2, <2>4
<1>. HIDE DEF M
<1>5. Marked(id) \in SUBSET TurnSet
  BY <1>2, <1>3
<1>. QED
  BY <1>2, <1>3, <1>4, <1>5

\* What holds of every answer
LEMMA AnsweredKeeps ==
  ASSUME ThreadsInv, NEW a \in answers, answers' = answers \ {a}, turns' = turns \/ turns' = Marked(a.id),
         relay'.revision = relay.revision, relay'.pending = {q \in relay.pending : q.id # a.id},
         UNCHANGED <<up, count>>
  PROVE  /\ Numbered' /\ Linked' /\ \A q \in relay'.pending : Own(q)' <=> Own(q)
         /\ \A t \in turns' : \E u \in turns :
              t.id = u.id /\ t.model = u.model /\ t.stage = u.stage /\ (t = u \/ (t.id = a.id /\ t.answered))
<1>t. T!TypeOK /\ Numbered /\ Linked
  BY DEF ThreadsInv
<1>m. \A t \in turns' : \E u \in turns :
        t.id = u.id /\ t.model = u.model /\ t.stage = u.stage /\ (t = u \/ (t.id = a.id /\ t.answered))
  BY <1>t, MarkedAre
<1>u. \A t, u \in turns' : t.id = u.id => t = u
  BY <1>t, MarkedAre DEF Numbered
<1>1. Numbered'
  <2>1. \A t \in turns' : t.id \in 1 .. relay'.revision /\ \A i \in DOMAIN up' : t.id < up'[i].id
    BY <1>m, <1>t DEF Numbered
  <2>. QED
    BY <2>1, <1>u, <1>t DEF Numbered
<1>2. Linked'
  BY <1>t DEF Linked
<1>3. ASSUME NEW q \in relay'.pending PROVE Own(q)' <=> Own(q)
  BY DEF Own, ForkId
<1>. QED
  BY <1>m, <1>1, <1>2, <1>3

LEMMA RefusedKeeps ==
  ASSUME ThreadsInv, NEW a \in answers, NEW p \in T!Asking(a.id), ~a.ok, T!Refused(a, p), answers' = answers \ {a},
         UNCHANGED <<up, server, event, count>>
  PROVE  ThreadsInv'
<1>t. T!TypeOK /\ Numbered /\ Linked /\ Remembered /\ Followed /\ TurnsKnown /\ T!UsageIsOfTurn /\ None \notin Chats
  BY ChatConstants DEF ThreadsInv, T!ThreadsConstants
<1>p. /\ p \in relay.pending /\ p.id = a.id /\ p.id \in Nat /\ p.thread \in Chats \cup {None} /\ p.prev \in T!Context
      /\ p.id \in 1 .. relay.revision /\ relay.revision \in Nat
  BY <1>t DEF T!Asking, T!TypeOK, T!Pending, Numbered
<1>r. /\ relay'.revision = relay.revision /\ relay'.pending = relay.pending \ {p} /\ relay'.turn = relay.turn
      /\ relay'.ctx = IF p.thread = None THEN relay.ctx
                      ELSE [relay.ctx EXCEPT ![p.thread] = T!Restored(relay.ctx[p.thread], p.prev, p.id)]
      /\ turns' = turns
  <2> DEFINE ctx == IF p.thread = None THEN relay.ctx
                    ELSE [relay.ctx EXCEPT ![p.thread] = T!Restored(relay.ctx[p.thread], p.prev, p.id)]
  <2>1. relay' = [relay EXCEPT !.pending = relay.pending \ {p}, !.ctx = ctx] /\ turns' = turns
    BY DEF T!Refused
  <2>. HIDE DEF ctx
  <2>2. relay \in [ctx : [Chats -> T!Context], revision : Nat, pending : SUBSET T!Pending,
                  turn : [1 .. MaxAsked + MaxNotices -> T!SomeModel]]
    BY <1>t, ThreadTypes
  <2>3. /\ relay'.revision = relay.revision /\ relay'.pending = relay.pending \ {p} /\ relay'.turn = relay.turn
        /\ relay'.ctx = ctx
    BY <2>1, <2>2
  <2>. QED
    BY <2>1, <2>3 DEF ctx
<1>l. /\ log'.failed = log.failed \cup {a.id} /\ log'.newest = log.newest /\ log'.unsure = log.unsure
      /\ log'.excused = IF p.thread # None => relay.ctx[p.thread].rev # a.id THEN log.excused \cup {a.id} ELSE log.excused
  BY <1>t DEF T!Refused, T!TypeOK
<1>q. relay'.pending = {q \in relay.pending : q.id # a.id}
  BY <1>p, <1>r, <1>t DEF Numbered
<1>a. Numbered' /\ Linked' /\ \A q \in relay'.pending : Own(q)' <=> Own(q)
  BY <1>q, <1>r, AnsweredKeeps
<1>n. /\ \A t \in Chats : relay.ctx[t].rev \in Nat /\ relay.ctx[t].by \in Nat /\ log.newest[t] \in Nat
      /\ \A q \in relay.pending : q.id \in Nat /\ q.prev.rev \in Nat /\ q.prev.by \in Nat /\ q.thread \in Chats \cup {None}
  BY <1>t DEF T!TypeOK, T!Context, T!Pending
<1>c. \A t \in Chats : \/ relay'.ctx[t] = relay.ctx[t] /\ (t = p.thread => relay.ctx[t].rev # p.id)
                       \/ t = p.thread /\ relay.ctx[t].rev = p.id /\ relay'.ctx[t] = p.prev /\ Own(p)
  BY <1>p, <1>r, <1>t DEF T!TypeOK, T!Restored, Remembered
<1>1. T!TypeOK'
  <2>1. relay'.ctx \in [Chats -> T!Context]
    BY <1>p, <1>r, <1>t DEF T!Restored, T!TypeOK
  <2>2. relay' \in [ctx : [Chats -> T!Context], revision : Nat, pending : SUBSET T!Pending,
                    turn : [1 .. MaxAsked + MaxNotices -> T!SomeModel]]
    BY <2>1, <1>t, <1>r DEF T!Refused, T!TypeOK
  <2>3. log' \in [failed : SUBSET Nat, excused : SUBSET Nat, newest : [Chats -> Nat], unsure : SUBSET Nat,
                  lost : SUBSET (Chats \cup {None})]
    BY <1>p, <1>t DEF T!Refused, T!TypeOK
  <2>. QED
    BY <2>2, <2>3, <1>r, <1>t DEF T!TypeOK
<1>2. Remembered'
  <2>1. /\ \A t \in Chats : relay'.ctx[t].by <= relay'.ctx[t].rev /\ relay'.ctx[t].rev <= relay'.revision
        /\ \A q \in relay'.pending : q.prev.by <= q.prev.rev /\ q.prev.rev < q.id
    BY <1>c, <1>n, <1>p, <1>r, <1>t DEF Remembered
  <2>2. \A t \in Chats : \A q \in relay'.pending :
          /\ relay'.ctx[t].rev = q.id => Own(q)' /\ t = q.thread
          /\ relay'.ctx[t].by = q.id => t = q.thread
    BY <1>a, <1>c, <1>p, <1>r, <1>t DEF Remembered
  <2>3. \A q, s \in relay'.pending : Own(s)' =>
          /\ s.prev.rev = q.id => Own(q)' /\ q.thread = s.thread
          /\ s.prev.by = q.id => q.thread = s.thread
    BY <1>a, <1>r, <1>t DEF Remembered
  <2>4. ASSUME NEW q \in relay'.pending, Own(q)' PROVE relay'.ctx[q.thread].by >= q.id
    <3>1. q \in relay.pending /\ Own(q) /\ q.thread \in Chats /\ q.id # p.id /\ relay.ctx[q.thread].by >= q.id
      BY <2>4, <1>a, <1>n, <1>p, <1>q, <1>t DEF Remembered, Own
    <3>2. CASE relay'.ctx[q.thread] = relay.ctx[q.thread]
      BY <3>1, <3>2
    <3>3. CASE q.thread = p.thread /\ relay.ctx[q.thread].rev = p.id /\ relay'.ctx[q.thread] = p.prev /\ Own(p)
      <4>1. q.id < p.id
        BY <3>1, <3>3, <1>n, <1>t DEF Remembered
      <4>. QED
        BY <3>1, <3>3, <4>1, <1>p, <1>t DEF Remembered
    <3>. QED
      BY <3>1, <3>2, <3>3, <1>c
  <2>5. \A q, s \in relay'.pending : Own(q)' /\ Own(s)' /\ q.thread = s.thread /\ q.id < s.id => s.prev.by >= q.id
    BY <1>a, <1>r, <1>t DEF Remembered
  <2>. QED
    BY <2>1, <2>2, <2>3, <2>4, <2>5 DEF Remembered
<1>3. Followed'
  <2>1. log'.failed \subseteq 1 .. relay'.revision /\ \A q \in relay'.pending : q.id \notin log'.failed
    BY <1>l, <1>p, <1>q, <1>r, <1>t DEF Followed
  <2>2. /\ Excusable' \subseteq Excusable \cup {a.id}
        /\ a.id \in Excusable' => p.thread # None /\ relay.ctx[p.thread].rev = a.id
    BY <1>l DEF Excusable
  <2>3. ASSUME NEW t \in Chats PROVE relay'.ctx[t].by \notin Excusable'
    <3>1. CASE relay'.ctx[t] = relay.ctx[t] /\ (t = p.thread => relay.ctx[t].rev # p.id)
      <4>1. relay.ctx[t].by = a.id => t = p.thread
        BY <1>p, <1>t DEF Remembered
      <4>. QED
        BY <3>1, <4>1, <2>2, <1>p, <1>t DEF Followed
    <3>2. CASE t = p.thread /\ relay.ctx[t].rev = p.id /\ relay'.ctx[t] = p.prev /\ Own(p)
      <4>1. p.prev.by # a.id /\ p.prev.by \notin Excusable
        BY <3>2, <1>n, <1>p, <1>t DEF Remembered, Followed
      <4>. QED
        BY <3>2, <4>1, <2>2
    <3>. QED
      BY <3>1, <3>2, <1>c
  <2>4. ASSUME NEW q \in relay'.pending, Own(q)' PROVE q.prev.by \notin Excusable'
    <3>1. q \in relay.pending /\ Own(q) /\ q.thread \in Chats /\ relay.ctx[q.thread].by >= q.id
      BY <2>4, <1>a, <1>n, <1>q, <1>t DEF Remembered, Own
    <3>2. q.prev.by \notin Excusable
      BY <3>1, <1>t DEF Followed
    <3>3. ASSUME q.prev.by = a.id PROVE p.thread = q.thread /\ relay.ctx[p.thread].rev # a.id
      <4>1. p.thread = q.thread /\ a.id < q.id
        BY <3>1, <3>3, <1>n, <1>p, <1>t DEF Remembered
      <4>. QED
        BY <3>1, <4>1, <1>n, <1>p, <1>t DEF Remembered
    <3>. QED
      BY <3>2, <3>3, <2>2
  <2>5. ASSUME NEW t \in Chats PROVE relay'.ctx[t].by >= log'.newest[t]
    <3>1. CASE relay'.ctx[t] = relay.ctx[t]
      BY <3>1, <1>l, <1>t DEF Followed
    <3>2. CASE t = p.thread /\ relay.ctx[t].rev = p.id /\ relay'.ctx[t] = p.prev /\ Own(p)
      <4>1. log.newest[t] <= p.id
        BY <3>2, <1>n, <1>t DEF Followed, Remembered
      <4>2. log.newest[t] <= p.prev.by
        BY <3>2, <4>1, <1>n, <1>p, <1>t DEF Followed
      <4>. QED
        BY <3>2, <4>2, <1>l, <1>n, <1>p
    <3>. QED
      BY <3>1, <3>2, <1>c
  <2>6. \A q \in relay'.pending : Own(q)' => log'.newest[q.thread] <= q.prev.by \/ log'.newest[q.thread] > q.id
    BY <1>a, <1>l, <1>r, <1>t DEF Followed
  <2>. QED
    BY <2>1, <2>3, <2>4, <2>5, <2>6 DEF Followed
<1>4. TurnsKnown'
  <2>1. \A i \in DOMAIN up : a.id # up[i].id
    BY <1>p, <1>t DEF Numbered
  <2>2. \A t \in turns : t.id # a.id
    BY <1>t DEF TurnsKnown
  <2>. QED
    BY <2>1, <2>2, <1>l, <1>q, <1>r, <1>t DEF TurnsKnown
<1>. QED
  BY <1>1, <1>2, <1>3, <1>4, <1>a, <1>l, <1>t DEF ThreadsInv, T!UsageIsOfTurn

LEMMA ReportsType ==
  ASSUME T!TypeOK, NEW a \in answers, a.ok => a.thread \in Chats, NEW report \in T!Reports(a)
  PROVE  /\ report.model \in T!SomeModel /\ report.provider \in T!SomeProvider
         /\ a.kind \notin {"start", "resume", "fork", "read"} => report = T!Absent
<1>1. T!Absent.model \in T!SomeModel /\ T!Absent.provider \in T!SomeProvider
  BY DEF T!Absent, T!SomeModel, T!SomeProvider
<1>2. CASE ~a.ok
  BY <1>1, <1>2 DEF T!Reports
<1>3. CASE a.ok
  <2>1. server[a.thread].model \in T!SomeModel /\ server[a.thread].provider \in T!SomeProvider
    BY <1>3 DEF T!TypeOK
  <2>2. CASE a.kind \in {"start", "resume", "fork"}
    <3>1. report \in {[model |-> server[a.thread].model, provider |-> server[a.thread].provider],
                      [model |-> None, provider |-> Openai]}
      BY <1>3, <2>2 DEF T!Reports
    <3>. QED
      BY <2>1, <2>2, <3>1 DEF T!SomeModel, T!SomeProvider
  <2>3. CASE a.kind = "read"
    <3>1. report \in {[model |-> None, provider |-> server[a.thread].provider], [model |-> None, provider |-> Openai]}
      BY <1>3, <2>3 DEF T!Reports
    <3>. QED
      BY <2>1, <2>3, <3>1 DEF T!SomeModel, T!SomeProvider
  <2>4. CASE a.kind \notin {"start", "resume", "fork", "read"}
    <3>1. report = T!Absent
      BY <1>3, <2>4 DEF T!Reports
    <3>. QED
      BY <3>1, <1>1
  <2>. QED
    BY <2>2, <2>3, <2>4
<1>. QED
  BY <1>2, <1>3

\* What the relay takes from an answer is of the request's number, and has a model if the request had.
LEMMA VerdictType ==
  ASSUME NEW p \in T!Pending, NEW model \in T!SomeModel, NEW provider \in T!SomeProvider
  PROVE  LET v == T!Verdict(p, model, provider) IN
         /\ v.model \in T!SomeModel /\ v.provider \in T!SomeProvider /\ v.source = "response" /\ v.rev = p.id
         /\ p.model # None => v.model # None
         /\ model = None => v.model = p.model
<1>1. \A m : T!ProviderOf(m) \in T!SomeProvider
  BY DEF T!ProviderOf, T!SomeProvider
<1>2. \A x \in T!SomeModel, y \in T!SomeModel : T!Or(x, y) \in T!SomeModel
  BY DEF T!Or
<1>3. \A x \in T!SomeProvider, y \in T!SomeProvider : T!Or(x, y) \in T!SomeProvider
  BY DEF T!Or
<1>4. p.model \in T!SomeModel /\ p.provider \in T!SomeProvider
  BY DEF T!Pending
<1>5. T!Or(None, p.model) = p.model /\ (p.model # None => T!Or(model, p.model) # None)
  BY DEF T!Or
<1>. QED
  BY <1>1, <1>2, <1>3, <1>4, <1>5 DEF T!Verdict

\* What is known of a thread stays, or becomes what the answer says.
LEMMA UpdatedByAnswer ==
  ASSUME NEW c \in T!Context, NEW v, v.rev \in Nat, v.source = "response"
  PROVE  LET u == T!Updated(c, v) IN
         /\ u = c \/ (c.rev <= v.rev /\ u.rev = v.rev /\ u.by \in {c.by, v.rev})
         /\ c.rev < v.rev /\ v.model # None => u.by = v.rev
BY DEF T!Updated, T!Context

LEMMA AcceptedKeeps ==
  ASSUME ThreadsInv, NEW a \in answers, NEW p \in T!Asking(a.id), a.ok, NEW report \in T!Reports(a),
         T!Accepted(a, p, report), answers' = answers \ {a}, UNCHANGED <<up, server, event, count>>
  PROVE  ThreadsInv'
<1> DEFINE v == T!Verdict(p, report.model, report.provider)
           c == relay.ctx[a.thread]
           new == T!Updated(c, v)
<1>t. T!TypeOK /\ Numbered /\ Linked /\ Remembered /\ Followed /\ TurnsKnown /\ T!UsageIsOfTurn /\ None \notin Chats
  BY ChatConstants DEF ThreadsInv, T!ThreadsConstants
<1>p. /\ p \in relay.pending /\ p \in T!Pending /\ p.id = a.id /\ p.id \in Nat /\ p.thread \in Chats \cup {None}
      /\ p.id \in 1 .. relay.revision /\ relay.revision \in Nat /\ a.thread \in Chats /\ c \in T!Context
      /\ a.kind \in T!Kinds
  BY <1>t DEF T!Asking, T!TypeOK, T!Pending, Numbered, Linked
<1>x. a.id \in 1 .. MaxAsked + MaxNotices
  BY <1>p, <1>t, ChatConstants DEF Numbered, T!TypeOK, T!ThreadsConstants
<1>v. /\ v.model \in T!SomeModel /\ v.provider \in T!SomeProvider /\ v.source = "response" /\ v.rev = p.id
      /\ (p.model # None => v.model # None) /\ (p.kind = "turn" => v.model = p.model)
  <2>1. /\ report.model \in T!SomeModel /\ report.provider \in T!SomeProvider
        /\ a.kind \notin {"start", "resume", "fork", "read"} => report.model = None
    BY <1>p, <1>t, ReportsType DEF T!Absent
  <2>2. p.kind = "turn" => a.kind \notin {"start", "resume", "fork", "read"}
    BY <1>p, <1>t DEF Linked, KindOf
  <2>. QED
    BY <2>1, <2>2, <1>p, VerdictType
<1>u. /\ new \in T!Context
      /\ new = c \/ (c.rev <= p.id /\ new.rev = p.id /\ new.by \in {c.by, p.id})
      /\ c.rev < p.id /\ v.model # None => new.by = p.id
  BY <1>p, <1>v, UpdatedType, UpdatedByAnswer
<1>. HIDE DEF new, v
<1>r. /\ relay'.revision = relay.revision /\ relay'.pending = relay.pending \ {p}
      /\ relay'.turn = IF p.kind = "turn" /\ v.model # None THEN [relay.turn EXCEPT ![a.id] = v.model] ELSE relay.turn
      /\ relay'.ctx = [relay.ctx EXCEPT ![a.thread] = new]
      /\ turns' = Marked(a.id)
  <2>1. relay' = [relay EXCEPT !.pending = relay.pending \ {p}, !.ctx = [relay.ctx EXCEPT ![a.thread] = new],
                  !.turn = IF p.kind = "turn" /\ v.model # None THEN [relay.turn EXCEPT ![a.id] = v.model]
                           ELSE relay.turn]
    BY <1>t DEF T!Accepted, T!TypeOK, v, new
  <2>2. turns' = Marked(a.id)
    BY DEF T!Accepted, Marked
  <2>. QED
    BY <2>1, <2>2, <1>t DEF T!TypeOK
<1>l. /\ log'.failed = log.failed /\ log'.excused = log.excused /\ log'.unsure = log.unsure
      /\ log'.newest \in [Chats -> Nat]
      /\ \A t \in Chats : \/ log'.newest[t] = log.newest[t]
                          \/ t = a.thread /\ log'.newest[t] = p.id /\ p.sets /\ (p.kind = "thread" => c.rev < p.id)
      /\ log' \in [failed : SUBSET Nat, excused : SUBSET Nat, newest : [Chats -> Nat], unsure : SUBSET Nat,
                   lost : SUBSET (Chats \cup {None})]
  BY <1>p, <1>t DEF T!Accepted, T!TypeOK
<1>q. relay'.pending = {q \in relay.pending : q.id # a.id}
  BY <1>p, <1>r, <1>t DEF Numbered
<1>a. /\ Numbered' /\ Linked' /\ \A q \in relay'.pending : Own(q)' <=> Own(q)
      /\ \A t \in turns' : \E u \in turns :
           t.id = u.id /\ t.model = u.model /\ t.stage = u.stage /\ (t = u \/ (t.id = a.id /\ t.answered))
  BY <1>q, <1>r, AnsweredKeeps
<1>n. /\ \A t \in Chats : relay.ctx[t].rev \in Nat /\ relay.ctx[t].by \in Nat /\ log.newest[t] \in Nat
      /\ \A q \in relay.pending : q.id \in Nat /\ q.prev.rev \in Nat /\ q.prev.by \in Nat /\ q.thread \in Chats \cup {None}
      /\ new.rev \in Nat /\ new.by \in Nat /\ c.rev \in Nat /\ c.by \in Nat /\ c.by <= c.rev
  <2>1. relay.ctx \in [Chats -> T!Context] /\ relay.pending \subseteq T!Pending /\ log.newest \in [Chats -> Nat]
    BY <1>t, ThreadTypes
  <2>2. \A d \in T!Context : d.rev \in Nat /\ d.by \in Nat
    BY DEF T!Context
  <2>3. \A q \in T!Pending : q.id \in Nat /\ q.prev \in T!Context /\ q.thread \in Chats \cup {None}
    BY DEF T!Pending
  <2>4. c.by <= c.rev
    BY <1>p, <1>t DEF Remembered
  <2>. QED
    BY <2>1, <2>2, <2>3, <2>4, <1>u, <1>p
<1>c. \A t \in Chats : \/ relay'.ctx[t] = relay.ctx[t]
                       \/ t = a.thread /\ relay'.ctx[t] = new /\ c.rev <= p.id /\ new.rev = p.id /\ new.by \in {c.by, p.id}
  BY <1>p, <1>r, <1>t, <1>u DEF T!TypeOK
<1>o. \/ p.kind = "thread" /\ a.kind \in {"start", "resume", "fork"}
      \/ p.kind # "thread" /\ a.kind \in {"settings", "turn", "read"}
  BY <1>p, <1>t DEF Linked, KindOf, T!Kinds
<1>f. a.kind \notin {"start", "fork"} => a.thread = p.thread /\ (p.sets => Own(p))
  <2>1. a.kind # "fork" => ~ForkId(p.id)
    BY <1>p, <1>t DEF ForkId, Numbered
  <2>. QED
    BY <2>1, <1>p, <1>t DEF Linked, Own
<1>1. T!TypeOK'
  <2>1. relay'.ctx \in [Chats -> T!Context] /\ relay'.turn \in [1 .. MaxAsked + MaxNotices -> T!SomeModel]
    BY <1>p, <1>r, <1>t, <1>u, <1>v, <1>x DEF T!TypeOK
  <2>2. relay' \in [ctx : [Chats -> T!Context], revision : Nat, pending : SUBSET T!Pending,
                    turn : [1 .. MaxAsked + MaxNotices -> T!SomeModel]]
    <3>1. relay' = [relay EXCEPT !.pending = relay'.pending, !.ctx = relay'.ctx, !.turn = relay'.turn]
      BY <1>t DEF T!Accepted, T!TypeOK
    <3>. QED
      BY <2>1, <3>1, <1>r, <1>t DEF T!TypeOK
  <2>3. turns' \in SUBSET [id : Nat, thread : Chats, model : T!SomeModel, stage : {"accepted", "running", "done"},
                           answered : BOOLEAN, sure : BOOLEAN, mixed : BOOLEAN]
    BY <1>r, <1>t, MarkedAre
  <2>. QED
    BY <2>2, <2>3, <1>l, <1>t DEF T!TypeOK
<1>2. Remembered'
  <2>1. /\ \A t \in Chats : relay'.ctx[t].by <= relay'.ctx[t].rev /\ relay'.ctx[t].rev <= relay'.revision
        /\ \A q \in relay'.pending : q.prev.by <= q.prev.rev /\ q.prev.rev < q.id
    BY <1>c, <1>n, <1>p, <1>r, <1>t DEF Remembered
  <2>2. \A t \in Chats : \A q \in relay'.pending :
          /\ relay'.ctx[t].rev = q.id => Own(q)' /\ t = q.thread
          /\ relay'.ctx[t].by = q.id => t = q.thread
    BY <1>a, <1>c, <1>p, <1>q, <1>t DEF Remembered
  <2>3. \A q, s \in relay'.pending : Own(s)' =>
          /\ s.prev.rev = q.id => Own(q)' /\ q.thread = s.thread
          /\ s.prev.by = q.id => q.thread = s.thread
    BY <1>a, <1>r, <1>t DEF Remembered
  <2>4. ASSUME NEW q \in relay'.pending, Own(q)' PROVE relay'.ctx[q.thread].by >= q.id
    <3>1. q \in relay.pending /\ Own(q) /\ q.thread \in Chats /\ relay.ctx[q.thread].by >= q.id
      BY <2>4, <1>a, <1>n, <1>q, <1>t DEF Remembered, Own
    <3>. QED
      BY <3>1, <1>c, <1>n, <1>p
  <2>5. \A q, s \in relay'.pending : Own(q)' /\ Own(s)' /\ q.thread = s.thread /\ q.id < s.id => s.prev.by >= q.id
    BY <1>a, <1>r, <1>t DEF Remembered
  <2>. QED
    BY <2>1, <2>2, <2>3, <2>4, <2>5 DEF Remembered
<1>3. Followed'
  <2>1. /\ log'.failed \subseteq 1 .. relay'.revision /\ \A q \in relay'.pending : q.id \notin log'.failed
        /\ Excusable' = Excusable /\ p.id \notin Excusable
    BY <1>l, <1>p, <1>r, <1>t DEF Followed, Excusable
  <2>2. \A t \in Chats : relay'.ctx[t].by \notin Excusable'
    BY <2>1, <1>c, <1>p, <1>t DEF Followed
  <2>3. \A q \in relay'.pending : Own(q)' => q.prev.by \notin Excusable'
    BY <2>1, <1>a, <1>r, <1>t DEF Followed
  <2>4. ASSUME NEW t \in Chats PROVE relay'.ctx[t].by >= log'.newest[t]
    <3>1. relay'.ctx[t].by >= relay.ctx[t].by /\ relay.ctx[t].by >= log.newest[t]
      BY <1>c, <1>n, <1>p, <1>t DEF Followed
    <3>2. ASSUME t = a.thread, p.sets, p.kind = "thread" => c.rev < p.id PROVE relay'.ctx[t].by >= p.id
      <4>1. CASE p.kind = "thread"
        <5>1. new.by = p.id
          BY <3>2, <4>1, <1>p, <1>t, <1>u, <1>v DEF Linked
        <5>2. relay'.ctx[t] = new
          BY <3>2, <1>r, <1>t DEF T!TypeOK
        <5>. QED
          BY <5>1, <5>2, <1>n
      <4>2. CASE p.kind # "thread"
        BY <3>1, <3>2, <4>2, <1>f, <1>n, <1>o, <1>p, <1>t, <2>1, <1>c DEF Remembered
      <4>. QED
        BY <4>1, <4>2
    <3>3. relay'.ctx[t].by \in Nat
      BY <1>c, <1>n
    <3>. QED
      BY <3>1, <3>2, <3>3, <1>l, <1>n
  <2>5. ASSUME NEW q \in relay'.pending, Own(q)'
        PROVE  log'.newest[q.thread] <= q.prev.by \/ log'.newest[q.thread] > q.id
    <3>1. q \in relay.pending /\ q.id # p.id /\ Own(q) /\ q.thread \in Chats /\ relay.ctx[q.thread].by >= q.id
          /\ (log.newest[q.thread] <= q.prev.by \/ log.newest[q.thread] > q.id)
      BY <2>5, <1>a, <1>n, <1>p, <1>q, <1>t DEF Remembered, Followed, Own
    <3>2. ASSUME q.thread = a.thread, p.sets, p.kind = "thread" => c.rev < p.id, p.id < q.id
          PROVE  p.id <= q.prev.by
      <4>1. a.kind \notin {"start", "fork"}
        BY <3>1, <3>2, <1>n, <1>o, <1>p
      <4>. QED
        BY <3>1, <3>2, <4>1, <1>f, <1>n, <1>p, <1>t DEF Remembered
    <3>. QED
      BY <3>1, <3>2, <1>l, <1>n, <1>p
  <2>. QED
    BY <2>1, <2>2, <2>3, <2>4, <2>5 DEF Followed
<1>4. TurnsKnown'
  <2>1. \A i \in DOMAIN up : a.id # up[i].id
    BY <1>p, <1>t DEF Numbered
  <2>2. \A i \in DOMAIN up' : up'[i].kind = "turn" /\ up'[i].id \notin log'.unsure =>
          \E q \in relay'.pending : q.id = up'[i].id
    BY <2>1, <1>l, <1>q, <1>t DEF TurnsKnown
  <2>3. \A t \in turns' : \A b \in answers' : b.id = t.id => b.ok /\ b.kind = "turn" /\ ~t.answered
    BY <1>a, <1>t DEF TurnsKnown, Numbered
  <2>4. ASSUME NEW t \in turns', t.id \notin log'.unsure, ~t.answered
        PROVE  t.model # None /\ \E q \in relay'.pending : q.id = t.id /\ q.model = t.model /\ q.kind = "turn"
    <3>1. t \in turns /\ t.id # a.id
      BY <2>4, <1>a, <1>r, <1>t, MarkedAre
    <3>. QED
      BY <2>4, <3>1, <1>l, <1>q, <1>t DEF TurnsKnown
  <2>5. ASSUME NEW t \in turns', t.id \notin log'.unsure, t.answered, t.stage # "done"
        PROVE  t.model # None /\ relay'.turn[t.id] = t.model
    <3>1. PICK u \in turns : t.id = u.id /\ t.model = u.model /\ t.stage = u.stage /\ (t = u \/ t.id = a.id)
      BY <1>a
    <3>2. CASE u.id = a.id
      <4>1. ~u.answered /\ u.id \notin log.unsure
        BY <3>1, <3>2, <2>5, <1>l, <1>t DEF TurnsKnown
      <4>2. u.model # None /\ p.model = u.model /\ p.kind = "turn"
        BY <4>1, <3>2, <1>p, <1>t DEF TurnsKnown, Numbered
      <4>3. v.model = u.model
        BY <4>2, <1>v
      <4>4. relay'.turn = [relay.turn EXCEPT ![a.id] = v.model]
        BY <4>2, <4>3, <1>r
      <4>. QED
        BY <3>1, <3>2, <4>2, <4>3, <4>4, <1>x, <1>t DEF T!TypeOK
    <3>3. CASE u.id # a.id
      <4>1. u = t /\ u.model # None /\ relay.turn[u.id] = u.model
        BY <3>1, <3>3, <2>5, <1>l, <1>t DEF TurnsKnown
      <4>. QED
        BY <3>3, <4>1, <1>r, <1>t DEF T!TypeOK
    <3>. QED
      BY <3>2, <3>3
  <2>. QED
    BY <2>2, <2>3, <2>4, <2>5 DEF TurnsKnown
<1>. QED
  BY <1>1, <1>2, <1>3, <1>4, <1>a, <1>l, <1>t DEF ThreadsInv, T!UsageIsOfTurn

\* An answer nobody awaits any more marks its turn, which the relay does not vouch for.
LEMMA UnknownKeeps ==
  ASSUME ThreadsInv, NEW a \in answers, T!Asking(a.id) = {}, turns' = Marked(a.id), answers' = answers \ {a},
         UNCHANGED <<relay, log, up, server, event, count>>
  PROVE  ThreadsInv'
<1>t. T!TypeOK /\ Numbered /\ Linked /\ Remembered /\ Followed /\ TurnsKnown /\ T!UsageIsOfTurn
  BY DEF ThreadsInv
<1>q. relay'.pending = {q \in relay.pending : q.id # a.id}
  BY DEF T!Asking
<1>a. /\ Numbered' /\ Linked' /\ \A q \in relay'.pending : Own(q)' <=> Own(q)
      /\ \A t \in turns' : \E u \in turns :
           t.id = u.id /\ t.model = u.model /\ t.stage = u.stage /\ (t = u \/ (t.id = a.id /\ t.answered))
  BY <1>q, AnsweredKeeps
<1>1. T!TypeOK'
  <2>1. turns' \in SUBSET [id : Nat, thread : Chats, model : T!SomeModel, stage : {"accepted", "running", "done"},
                           answered : BOOLEAN, sure : BOOLEAN, mixed : BOOLEAN]
    BY <1>t, MarkedAre
  <2>2. answers' \in SUBSET [id : Nat, kind : T!Kinds, thread : Chats \cup {None}, ok : BOOLEAN]
    BY <1>t DEF T!TypeOK
  <2>. QED
    BY <2>1, <2>2, <1>t DEF T!TypeOK
<1>2. Remembered' /\ Followed'
  BY <1>a, <1>t DEF Remembered, Followed, Excusable
<1>3. TurnsKnown'
  <2>1. \A t \in turns : t.id = a.id => t.id \in log.unsure
    BY <1>t DEF TurnsKnown, T!Asking
  <2>2. \A t \in turns' : t \in turns \/ t.id \in log.unsure
    BY <2>1, <1>a
  <2>3. \A t \in turns' : \A b \in answers' : b.id = t.id => b.ok /\ b.kind = "turn" /\ ~t.answered
    BY <1>a, <1>t DEF TurnsKnown, Numbered
  <2>. QED
    BY <2>2, <2>3, <1>t DEF TurnsKnown
<1>. QED
  BY <1>1, <1>2, <1>3, <1>a, <1>t DEF ThreadsInv, T!UsageIsOfTurn

LEMMA RepliesKeep ==
  ASSUME ThreadsInv, T!Replies
  PROVE  ThreadsInv'
<1>1. PICK a \in answers : \E report \in T!Reports(a) : T!Answer(a, report)
  BY DEF T!Replies
<1>2. PICK report \in T!Reports(a) : T!Answer(a, report)
  BY <1>1
<1>3. answers' = answers \ {a} /\ UNCHANGED <<up, server, event, count>>
  BY <1>2 DEF T!Answer
<1>4. CASE T!Asking(a.id) # {}
  <2>1. PICK p \in T!Asking(a.id) : IF a.ok THEN T!Accepted(a, p, report) ELSE T!Refused(a, p)
    BY <1>2, <1>4 DEF T!Answer
  <2>. QED
    BY <2>1, <1>3, AcceptedKeeps, RefusedKeeps
<1>5. CASE T!Asking(a.id) = {}
  BY <1>2, <1>3, <1>5, UnknownKeeps DEF T!Answer, Marked
<1>. QED
  BY <1>4, <1>5

(***************************************************************************)
(* Notifications, and records that are dropped.                            *)
(***************************************************************************)
LEMMA DiscoverKeeps ==
  ASSUME ThreadsInv, NEW thread \in Chats, T!Discover(thread)
  PROVE  ThreadsInv'
<1> DEFINE u == [model |-> None, provider |-> server[thread].provider, source |-> "discovery", rev |-> 0]
           new == T!Updated(relay.ctx[thread], u)
<1>t. T!TypeOK /\ Numbered /\ Linked /\ Remembered /\ Followed /\ TurnsKnown /\ T!UsageIsOfTurn
      /\ relay.ctx[thread] \in T!Context
  BY DEF ThreadsInv, T!TypeOK
<1>u. new \in T!Context
  <2>1. u.model \in T!SomeModel /\ u.provider \in T!SomeProvider /\ u.rev \in Nat /\ u.source = "discovery"
    BY <1>t DEF T!TypeOK, T!SomeModel
  <2>. HIDE DEF u
  <2>. QED
    BY <1>t, <2>1, UpdatedType
<1>n. new.rev = relay.ctx[thread].rev /\ new.by = relay.ctx[thread].by
  BY <1>t DEF T!Updated, T!Context
<1>. HIDE DEF new
<1>1. /\ relay' = [relay EXCEPT !.ctx = [relay.ctx EXCEPT ![thread] = new]]
      /\ count' = [count EXCEPT !.notices = count.notices + 1] /\ count.notices < MaxNotices
      /\ UNCHANGED <<up, answers, server, turns, event, log>>
  BY <1>t DEF T!Discover, T!Noticed, T!TypeOK, new
<1>r. /\ relay'.revision = relay.revision /\ relay'.pending = relay.pending /\ relay'.turn = relay.turn
      /\ relay'.ctx = [relay.ctx EXCEPT ![thread] = new]
  BY <1>1, <1>t DEF T!TypeOK
<1>c. \A t \in Chats : relay'.ctx[t].rev = relay.ctx[t].rev /\ relay'.ctx[t].by = relay.ctx[t].by
  BY <1>n, <1>r, <1>t DEF T!TypeOK
<1>k. /\ count'.requests = count.requests /\ count'.notices = count.notices + 1
      /\ count.requests \in Nat /\ count.notices \in Nat /\ relay.revision \in Nat
      /\ count' \in [requests : 0 .. MaxAsked, notices : 0 .. MaxNotices, drops : 0 .. MaxDrops]
  <2>1. count' \in [requests : 0 .. MaxAsked, notices : 0 .. MaxNotices, drops : 0 .. MaxDrops]
    BY <1>1, <1>t, CountGoesOn
  <2>2. count \in [requests : 0 .. MaxAsked, notices : 0 .. MaxNotices, drops : 0 .. MaxDrops]
    BY <1>t, ThreadTypes
  <2>3. relay.revision \in Nat
    BY <1>t DEF T!TypeOK
  <2>. QED
    BY <1>1, <2>1, <2>2, <2>3
<1>2. T!TypeOK'
  <2>1. relay' \in [ctx : [Chats -> T!Context], revision : Nat, pending : SUBSET T!Pending,
                    turn : [1 .. MaxAsked + MaxNotices -> T!SomeModel]]
    BY <1>1, <1>u, <1>t DEF T!TypeOK
  <2>. QED
    BY <1>1, <1>k, <2>1, <1>t DEF T!TypeOK
<1>o. \A q : Own(q)' <=> Own(q)
  BY <1>1 DEF Own, ForkId
<1>3. Numbered' /\ Linked'
  BY <1>1, <1>k, <1>r, <1>t DEF Numbered, Linked
<1>4. Remembered'
  BY <1>1, <1>c, <1>o, <1>r, <1>t DEF Remembered
<1>5. Followed'
  BY <1>1, <1>c, <1>o, <1>r, <1>t DEF Followed, Excusable
<1>6. TurnsKnown' /\ T!UsageIsOfTurn'
  BY <1>1, <1>r, <1>t DEF TurnsKnown, T!UsageIsOfTurn
<1>. QED
  BY <1>2, <1>3, <1>4, <1>5, <1>6 DEF ThreadsInv

LEMMA SettingsUpdatedKeeps ==
  ASSUME ThreadsInv, NEW thread \in Chats, NEW model \in T!Models, T!SettingsUpdated(thread, model)
  PROVE  ThreadsInv'
<1> DEFINE id == relay.revision + 1
           new == T!Updated(relay.ctx[thread], T!Setting(model, "settings", id))
<1>t. T!TypeOK /\ Numbered /\ Linked /\ Remembered /\ Followed /\ TurnsKnown /\ T!UsageIsOfTurn
      /\ relay.ctx[thread] \in T!Context /\ relay.revision \in Nat
  BY DEF ThreadsInv, T!TypeOK
<1>n. new \in T!Context /\ new.rev = id /\ new.by = id
  <2>1. id \in Nat /\ relay.ctx[thread].rev < id
    BY <1>t DEF Remembered, T!Context
  <2>. QED
    BY <1>t, <2>1, SettingTaken
<1>. HIDE DEF new
<1>1. /\ relay' = [relay EXCEPT !.revision = id, !.ctx = [relay.ctx EXCEPT ![thread] = new]]
      /\ count' = [count EXCEPT !.notices = count.notices + 1] /\ count.notices < MaxNotices
      /\ server' = [server EXCEPT ![thread] = [server[thread] EXCEPT !.model = model]]
      /\ log' = [log EXCEPT !.newest = [log.newest EXCEPT ![thread] = id]]
      /\ UNCHANGED <<up, answers, turns, event>>
  BY <1>t DEF T!SettingsUpdated, T!Noticed, T!Observed, T!TypeOK, new
<1>r. /\ relay'.revision = id /\ relay'.pending = relay.pending /\ relay'.turn = relay.turn
      /\ relay'.ctx = [relay.ctx EXCEPT ![thread] = new]
  BY <1>1, <1>t DEF T!TypeOK
<1>l. /\ log'.failed = log.failed /\ log'.excused = log.excused /\ log'.unsure = log.unsure
      /\ log'.newest = [log.newest EXCEPT ![thread] = id]
  BY <1>1, <1>t DEF T!TypeOK
<1>c. \A t \in Chats : \/ t # thread /\ relay'.ctx[t] = relay.ctx[t] /\ log'.newest[t] = log.newest[t]
                       \/ t = thread /\ relay'.ctx[t].rev = id /\ relay'.ctx[t].by = id /\ log'.newest[t] = id
  BY <1>n, <1>r, <1>l, <1>t DEF T!TypeOK
<1>k. /\ count'.requests = count.requests /\ count'.notices = count.notices + 1
      /\ count.requests \in Nat /\ count.notices \in Nat /\ id \in Nat
      /\ count' \in [requests : 0 .. MaxAsked, notices : 0 .. MaxNotices, drops : 0 .. MaxDrops]
  <2>1. count' \in [requests : 0 .. MaxAsked, notices : 0 .. MaxNotices, drops : 0 .. MaxDrops]
    BY <1>1, <1>t, CountGoesOn
  <2>2. count \in [requests : 0 .. MaxAsked, notices : 0 .. MaxNotices, drops : 0 .. MaxDrops]
    BY <1>t, ThreadTypes
  <2>3. relay.revision \in Nat
    BY <1>t DEF T!TypeOK
  <2>. QED
    BY <1>1, <2>1, <2>2, <2>3
<1>m. /\ \A t \in Chats : relay.ctx[t].rev \in Nat /\ relay.ctx[t].by \in Nat /\ log.newest[t] \in Nat
      /\ \A q \in relay.pending : q.id \in Nat /\ q.id < id /\ q.prev.rev \in Nat /\ q.prev.by \in Nat
                                  /\ q.thread \in Chats \cup {None}
  <2>1. \A q \in relay.pending : q.id \in Nat /\ q.prev.rev \in Nat /\ q.prev.by \in Nat
                                 /\ q.thread \in Chats \cup {None}
    BY <1>t DEF T!TypeOK, T!Context, T!Pending
  <2>2. \A q \in relay.pending : q.id < id
    BY <2>1, <1>t DEF Numbered
  <2>3. \A t \in Chats : relay.ctx[t].rev \in Nat /\ relay.ctx[t].by \in Nat /\ log.newest[t] \in Nat
    BY <1>t DEF T!TypeOK, T!Context
  <2>. QED
    BY <2>1, <2>2, <2>3
<1>2. T!TypeOK'
  <2>1. relay' \in [ctx : [Chats -> T!Context], revision : Nat, pending : SUBSET T!Pending,
                    turn : [1 .. MaxAsked + MaxNotices -> T!SomeModel]]
    BY <1>1, <1>n, <1>t, <1>k DEF T!TypeOK
  <2>2. server' \in [Chats -> [model : T!SomeModel, provider : T!SomeProvider]]
    <3>1. [server[thread] EXCEPT !.model = model] \in [model : T!SomeModel, provider : T!SomeProvider]
      <4>1. server[thread] \in [model : T!SomeModel, provider : T!SomeProvider] /\ model \in T!SomeModel
        BY <1>t DEF T!TypeOK, T!SomeModel
      <4>. QED
        BY <4>1
    <3>2. server \in [Chats -> [model : T!SomeModel, provider : T!SomeProvider]]
      BY <1>t DEF T!TypeOK
    <3>. QED
      BY <1>1, <3>1, <3>2
  <2>3. log' \in [failed : SUBSET Nat, excused : SUBSET Nat, newest : [Chats -> Nat], unsure : SUBSET Nat,
                  lost : SUBSET (Chats \cup {None})]
    BY <1>1, <1>t, <1>k DEF T!TypeOK
  <2>. QED
    BY <1>1, <1>k, <2>1, <2>2, <2>3, <1>t DEF T!TypeOK
<1>o. \A q : Own(q)' <=> Own(q)
  BY <1>1 DEF Own, ForkId
<1>3. Numbered' /\ Linked'
  BY <1>1, <1>k, <1>r, <1>t DEF Numbered, Linked
<1>4. Remembered'
  <2>1. /\ \A t \in Chats : relay'.ctx[t].by <= relay'.ctx[t].rev /\ relay'.ctx[t].rev <= relay'.revision
        /\ \A t \in Chats : \A p \in relay.pending :
             /\ relay'.ctx[t].rev = p.id => Own(p) /\ t = p.thread
             /\ relay'.ctx[t].by = p.id => t = p.thread
    BY <1>c, <1>k, <1>m, <1>r, <1>t DEF Remembered
  <2>2. \A p \in relay.pending : Own(p) => relay'.ctx[p.thread].by >= p.id
    BY <1>c, <1>k, <1>m, <1>t DEF Remembered, Own
  <2>. QED
    BY <2>1, <2>2, <1>o, <1>r, <1>t DEF Remembered
<1>5. Followed'
  <2>1. log'.failed \subseteq 1 .. relay'.revision /\ id \notin log.failed
    BY <1>k, <1>l, <1>r, <1>t DEF Followed
  <2>2. \A t \in Chats : relay'.ctx[t].by \notin Excusable /\ relay'.ctx[t].by >= log'.newest[t]
    BY <2>1, <1>c, <1>k, <1>t DEF Followed, Excusable
  <2>3. \A q \in relay.pending : Own(q) => log'.newest[q.thread] <= q.prev.by \/ log'.newest[q.thread] > q.id
    BY <1>c, <1>m, <1>t DEF Followed, Own
  <2>. QED
    BY <2>1, <2>2, <2>3, <1>l, <1>o, <1>r, <1>t DEF Followed, Excusable
<1>6. TurnsKnown' /\ T!UsageIsOfTurn'
  BY <1>1, <1>l, <1>r, <1>t DEF TurnsKnown, T!UsageIsOfTurn
<1>. QED
  BY <1>2, <1>3, <1>4, <1>5, <1>6 DEF ThreadsInv

LEMMA TurnsBound ==
  ASSUME T!TypeOK, Numbered
  PROVE  \A u \in turns : u.id \in 1 .. MaxAsked + MaxNotices
<1>1. count \in [requests : 0 .. MaxAsked, notices : 0 .. MaxNotices, drops : 0 .. MaxDrops]
  BY ThreadTypes
<1>2. MaxAsked \in Nat /\ MaxNotices \in Nat /\ relay.revision \in Nat
  BY ChatConstants DEF T!ThreadsConstants, T!TypeOK
<1>3. relay.revision <= count.requests + count.notices
  BY DEF Numbered
<1>4. relay.revision <= MaxAsked + MaxNotices
  BY <1>1, <1>2, <1>3
<1>5. \A u \in turns : u.id \in 1 .. relay.revision
  BY DEF Numbered
<1>. QED
  BY <1>2, <1>4, <1>5

\* What becomes of a turn, and of what the relay knows of it.
LEMMA TurnKeeps ==
  ASSUME ThreadsInv, NEW t \in turns, NEW n, NEW model \in T!SomeModel,
         \/ turns' = turns /\ n = t
         \/ turns' = (turns \ {t}) \cup {n},
         n \in [id : Nat, thread : Chats, model : T!SomeModel, stage : {"accepted", "running", "done"},
                answered : BOOLEAN, sure : BOOLEAN, mixed : BOOLEAN],
         n.id = t.id, n.answered = t.answered,
         n.id \notin log'.unsure /\ ~n.answered => n.model = t.model,
         n.id \notin log'.unsure /\ n.answered /\ n.stage # "done" => n.model # None /\ model = n.model,
         relay' = [relay EXCEPT !.turn = [relay.turn EXCEPT ![t.id] = model]],
         log' = [log EXCEPT !.unsure = log'.unsure], log.unsure \subseteq log'.unsure, log'.unsure \subseteq Nat,
         UNCHANGED <<up, answers, server>>,
         count' \in [requests : 0 .. MaxAsked, notices : 0 .. MaxNotices, drops : 0 .. MaxDrops],
         count'.requests = count.requests, count'.notices >= count.notices,
         event' \in [turn : Nat, thread : Chats, model : T!SomeModel, truth : T!SomeModel], T!UsageIsOfTurn'
  PROVE  ThreadsInv'
<1>t. T!TypeOK /\ Numbered /\ Linked /\ Remembered /\ Followed /\ TurnsKnown
  BY DEF ThreadsInv
<1>r. /\ relay'.revision = relay.revision /\ relay'.pending = relay.pending /\ relay'.ctx = relay.ctx
      /\ relay'.turn = [relay.turn EXCEPT ![t.id] = model]
      /\ relay.turn \in [1 .. MaxAsked + MaxNotices -> T!SomeModel]
  BY <1>t DEF T!TypeOK
<1>l. log'.failed = log.failed /\ log'.excused = log.excused /\ log'.newest = log.newest
  BY <1>t DEF T!TypeOK
<1>k. /\ count.requests \in Nat /\ count.notices \in Nat /\ count'.notices \in Nat /\ relay.revision \in Nat
      /\ t.id \in 1 .. MaxAsked + MaxNotices
  <2>1. count \in [requests : 0 .. MaxAsked, notices : 0 .. MaxNotices, drops : 0 .. MaxDrops]
    BY <1>t, ThreadTypes
  <2>2. MaxNotices \in Nat /\ relay.revision \in Nat
    BY <1>t, ChatConstants DEF T!ThreadsConstants, T!TypeOK
  <2>3. t.id \in 1 .. MaxAsked + MaxNotices
    BY <1>t, TurnsBound
  <2>. QED
    BY <2>1, <2>2, <2>3
<1>m. \A u \in turns' : u = n \/ (u \in turns /\ u.id # t.id)
  BY <1>t DEF Numbered
<1>1. T!TypeOK'
  <2>1. relay' \in [ctx : [Chats -> T!Context], revision : Nat, pending : SUBSET T!Pending,
                    turn : [1 .. MaxAsked + MaxNotices -> T!SomeModel]]
    BY <1>k, <1>t DEF T!TypeOK
  <2>2. log' \in [failed : SUBSET Nat, excused : SUBSET Nat, newest : [Chats -> Nat], unsure : SUBSET Nat,
                  lost : SUBSET (Chats \cup {None})]
    BY <1>t DEF T!TypeOK
  <2>3. turns' \in SUBSET [id : Nat, thread : Chats, model : T!SomeModel, stage : {"accepted", "running", "done"},
                           answered : BOOLEAN, sure : BOOLEAN, mixed : BOOLEAN]
    BY <1>t DEF T!TypeOK
  <2>. QED
    BY <2>1, <2>2, <2>3, <1>t DEF T!TypeOK
<1>o. \A q : Own(q)' <=> Own(q)
  BY DEF Own, ForkId
<1>2. Numbered'
  <2>1. /\ \A u \in turns' : u.id \in 1 .. relay.revision /\ \A i \in DOMAIN up : u.id < up[i].id
        /\ \A u, s \in turns' : u.id = s.id => u = s
    BY <1>m, <1>t DEF Numbered
  <2>. QED
    BY <2>1, <1>k, <1>r, <1>t DEF Numbered
<1>3. Linked' /\ Remembered' /\ Followed'
  BY <1>l, <1>o, <1>r, <1>t DEF Linked, Remembered, Followed, Excusable
<1>4. TurnsKnown'
  <2>1. \A u \in turns' : \A a \in answers : a.id = u.id => a.ok /\ a.kind = "turn" /\ ~u.answered
    BY <1>m, <1>t DEF TurnsKnown
  <2>2. \A u \in turns' : u.id \notin log'.unsure /\ ~u.answered =>
          u.model # None /\ \E p \in relay.pending : p.id = u.id /\ p.model = u.model /\ p.kind = "turn"
    BY <1>m, <1>t DEF TurnsKnown
  <2>3. relay'.turn[t.id] = model /\ \A i \in 1 .. MaxAsked + MaxNotices : i # t.id => relay'.turn[i] = relay.turn[i]
    BY <1>k, <1>r
  <2>4. \A u \in turns : u.id \in 1 .. MaxAsked + MaxNotices
    BY <1>t, TurnsBound
  <2>5. \A u \in turns' : u.id \notin log'.unsure /\ u.answered /\ u.stage # "done" =>
          u.model # None /\ relay'.turn[u.id] = u.model
    BY <2>3, <2>4, <1>m, <1>t DEF TurnsKnown
  <2>. QED
    BY <2>1, <2>2, <2>5, <1>r, <1>t DEF TurnsKnown
<1>. QED
  BY <1>1, <1>2, <1>3, <1>4 DEF ThreadsInv

LEMMA TurnNoticesKeep ==
  ASSUME ThreadsInv, NEW t \in turns,
         T!TurnStarted(t) \/ T!TurnUsage(t) \/ T!TurnEnds(t) \/ T!DropTurn(t)
           \/ \E model \in T!Models : T!Rerouted(t, model)
  PROVE  ThreadsInv'
<1>t. T!TypeOK /\ Numbered /\ TurnsKnown /\ T!UsageIsOfTurn
  BY DEF ThreadsInv
<1>k. /\ t \in [id : Nat, thread : Chats, model : T!SomeModel, stage : {"accepted", "running", "done"},
                answered : BOOLEAN, sure : BOOLEAN, mixed : BOOLEAN]
      /\ t.id \in 1 .. MaxAsked + MaxNotices /\ None \in T!SomeModel /\ relay.turn[t.id] \in T!SomeModel
      /\ T!ModelOf(t) \in T!SomeModel /\ t.id # 0 /\ None \notin T!Models
  <2>1. t \in [id : Nat, thread : Chats, model : T!SomeModel, stage : {"accepted", "running", "done"},
               answered : BOOLEAN, sure : BOOLEAN, mixed : BOOLEAN]
    BY <1>t DEF T!TypeOK
  <2>2. t.id \in 1 .. MaxAsked + MaxNotices /\ t.id # 0
    BY <1>t, ChatConstants DEF Numbered, T!TypeOK, T!ThreadsConstants
  <2>3. relay.turn[t.id] \in T!SomeModel /\ relay.ctx[t.thread].model \in T!SomeModel
    BY <1>t, <2>1, <2>2 DEF T!TypeOK, T!Context
  <2>. QED
    BY <2>1, <2>2, <2>3, ChatConstants DEF T!ModelOf, T!Or, T!SomeModel, T!ThreadsConstants
<1>f. t.id \notin log.unsure /\ t.answered /\ t.stage # "done" => t.model # None /\ T!ModelOf(t) = t.model
                                                                  /\ relay.turn[t.id] = t.model
  BY <1>t DEF TurnsKnown, T!ModelOf, T!Or
<1>l. log = [log EXCEPT !.unsure = log.unsure] /\ log.unsure \subseteq Nat
  BY <1>t DEF T!TypeOK
<1>c. /\ count \in [requests : 0 .. MaxAsked, notices : 0 .. MaxNotices, drops : 0 .. MaxDrops]
      /\ count.requests \in Nat /\ count.notices \in Nat
      /\ event \in [turn : Nat, thread : Chats, model : T!SomeModel, truth : T!SomeModel]
  BY <1>t DEF T!TypeOK
<1>r. /\ relay = [relay EXCEPT !.turn = [relay.turn EXCEPT ![t.id] = relay.turn[t.id]]]
      /\ \A m : [relay EXCEPT !.turn[t.id] = m] = [relay EXCEPT !.turn = [relay.turn EXCEPT ![t.id] = m]]
  BY <1>k, <1>t DEF T!TypeOK
<1>w. T!Wrote(t) /\ UNCHANGED log /\ t.stage = "running" /\ t.answered =>
        event' \in [turn : Nat, thread : Chats, model : T!SomeModel, truth : T!SomeModel] /\ T!UsageIsOfTurn'
  BY <1>f, <1>k DEF T!Wrote, T!UsageIsOfTurn
<1>e. UNCHANGED event /\ log.unsure \subseteq log'.unsure => T!UsageIsOfTurn'
  BY <1>t DEF T!UsageIsOfTurn
<1>1. CASE T!TurnStarted(t)
  <2> DEFINE n == [t EXCEPT !.stage = "running"]
  <2>1. /\ n \in [id : Nat, thread : Chats, model : T!SomeModel, stage : {"accepted", "running", "done"},
                  answered : BOOLEAN, sure : BOOLEAN, mixed : BOOLEAN]
        /\ n.id = t.id /\ n.answered = t.answered /\ n.model = t.model
    BY <1>k
  <2>2. /\ turns' = (turns \ {t}) \cup {n} /\ relay' = [relay EXCEPT !.turn = [relay.turn EXCEPT ![t.id] = T!ModelOf(t)]]
        /\ UNCHANGED <<up, answers, server, event, log, count>> /\ t.stage = "accepted"
    BY <1>1, <1>r DEF T!TurnStarted, T!Becomes
  <2>. HIDE DEF n
  <2>. QED
    BY <2>1, <2>2, <1>c, <1>e, <1>f, <1>k, <1>l, TurnKeeps
<1>2. CASE T!TurnUsage(t)
  <2>1. T!Wrote(t) /\ UNCHANGED <<relay, up, answers, server, turns, log, count>> /\ t.stage = "running" /\ t.answered
    BY <1>2 DEF T!TurnUsage
  <2>. QED
    BY <2>1, <1>c, <1>f, <1>k, <1>l, <1>r, <1>w, TurnKeeps
<1>3. CASE T!TurnEnds(t)
  <2> DEFINE n == [t EXCEPT !.stage = "done"]
  <2>1. /\ n \in [id : Nat, thread : Chats, model : T!SomeModel, stage : {"accepted", "running", "done"},
                  answered : BOOLEAN, sure : BOOLEAN, mixed : BOOLEAN]
        /\ n.id = t.id /\ n.answered = t.answered /\ n.model = t.model /\ n.stage = "done"
    BY <1>k
  <2>2. /\ turns' = (turns \ {t}) \cup {n} /\ relay' = [relay EXCEPT !.turn = [relay.turn EXCEPT ![t.id] = None]]
        /\ UNCHANGED <<up, answers, server, log, count>> /\ T!Wrote(t) /\ t.stage = "running" /\ t.answered
    BY <1>3, <1>r DEF T!TurnEnds, T!Becomes
  <2>3. event' \in [turn : Nat, thread : Chats, model : T!SomeModel, truth : T!SomeModel] /\ T!UsageIsOfTurn'
    BY <2>2, <1>w
  <2>4. log' = [log EXCEPT !.unsure = log'.unsure] /\ log.unsure \subseteq log'.unsure /\ log'.unsure \subseteq Nat
    BY <2>2, <1>l
  <2>5. /\ count' \in [requests : 0 .. MaxAsked, notices : 0 .. MaxNotices, drops : 0 .. MaxDrops]
        /\ count'.requests = count.requests /\ count'.notices >= count.notices
    BY <2>2, <1>c
  <2>6. None \in T!SomeModel /\ n.stage = "done" /\ n.model = t.model
    BY <1>k, <2>1
  <2>. HIDE DEF n
  <2>. QED
    BY <2>1, <2>2, <2>3, <2>4, <2>5, <2>6, TurnKeeps
<1>4. CASE T!DropTurn(t)
  <2>1. /\ relay' = [relay EXCEPT !.turn = [relay.turn EXCEPT ![t.id] = None]]
        /\ log' = [log EXCEPT !.unsure = log.unsure \cup {t.id}]
        /\ UNCHANGED <<up, answers, server, turns, event>> /\ count' = [count EXCEPT !.drops = count.drops + 1]
        /\ count.drops < MaxDrops
    BY <1>4, <1>r DEF T!DropTurn, T!Dropped
  <2>2. /\ log'.unsure = log.unsure \cup {t.id} /\ log' = [log EXCEPT !.unsure = log'.unsure]
        /\ log'.unsure \subseteq Nat
    BY <2>1, <1>k, <1>t DEF T!TypeOK
  <2>3. /\ count' \in [requests : 0 .. MaxAsked, notices : 0 .. MaxNotices, drops : 0 .. MaxDrops]
        /\ count'.requests = count.requests /\ count'.notices = count.notices
    BY <2>1, <1>c, ChatConstants DEF T!ThreadsConstants
  <2>. QED
    BY <2>1, <2>2, <2>3, <1>c, <1>e, <1>k, TurnKeeps
<1>5. ASSUME NEW model \in T!Models, T!Rerouted(t, model) PROVE ThreadsInv'
  <2> DEFINE n == [t EXCEPT !.model = model]
  <2>1. /\ n \in [id : Nat, thread : Chats, model : T!SomeModel, stage : {"accepted", "running", "done"},
                  answered : BOOLEAN, sure : BOOLEAN, mixed : BOOLEAN]
        /\ n.id = t.id /\ n.answered = t.answered /\ n.model = model /\ model \in T!SomeModel /\ model # None
    BY <1>k DEF T!SomeModel
  <2>2. /\ turns' = (turns \ {t}) \cup {n} /\ relay' = [relay EXCEPT !.turn = [relay.turn EXCEPT ![t.id] = model]]
        /\ UNCHANGED <<up, answers, server, event, log>> /\ t.answered
        /\ count' = [count EXCEPT !.notices = count.notices + 1] /\ count.notices < MaxNotices
    BY <1>5, <1>r DEF T!Rerouted, T!Becomes, T!Noticed
  <2>3. /\ count' \in [requests : 0 .. MaxAsked, notices : 0 .. MaxNotices, drops : 0 .. MaxDrops]
        /\ count'.requests = count.requests /\ count'.notices >= count.notices
    BY <2>2, <1>c, ChatConstants DEF T!ThreadsConstants
  <2>. HIDE DEF n
  <2>. QED
    BY <2>1, <2>2, <2>3, <1>c, <1>e, <1>k, <1>l, TurnKeeps
<1>. QED
  BY <1>1, <1>2, <1>3, <1>4, <1>5

LEMMA DropRequestKeeps ==
  ASSUME ThreadsInv, NEW p \in relay.pending, T!DropRequest(p)
  PROVE  ThreadsInv'
<1>t. T!TypeOK /\ Numbered /\ Linked /\ Remembered /\ Followed /\ TurnsKnown /\ T!UsageIsOfTurn
  BY DEF ThreadsInv
<1>p. p \in T!Pending /\ p.id \in Nat /\ p.thread \in Chats \cup {None}
  BY <1>t DEF T!TypeOK, T!Pending
<1>1. /\ relay' = [relay EXCEPT !.pending = relay.pending \ {p}]
      /\ log' = [log EXCEPT !.excused = log.excused \cup {p.id}, !.unsure = log.unsure \cup {p.id},
                            !.lost = log.lost \cup (IF p.kind = "thread" THEN {p.thread} ELSE {})]
      /\ count' = [count EXCEPT !.drops = count.drops + 1] /\ count.drops < MaxDrops
      /\ UNCHANGED <<up, answers, server, turns, event>>
  BY <1>t DEF T!DropRequest, T!Dropped
<1>r. /\ relay'.revision = relay.revision /\ relay'.pending = relay.pending \ {p} /\ relay'.turn = relay.turn
      /\ relay'.ctx = relay.ctx
      /\ log'.failed = log.failed /\ log'.excused = log.excused \cup {p.id} /\ log'.unsure = log.unsure \cup {p.id}
      /\ log'.newest = log.newest
      /\ count'.requests = count.requests /\ count'.notices = count.notices
  BY <1>1, <1>t DEF T!TypeOK
<1>2. T!TypeOK'
  <2>1. relay' \in [ctx : [Chats -> T!Context], revision : Nat, pending : SUBSET T!Pending,
                    turn : [1 .. MaxAsked + MaxNotices -> T!SomeModel]]
    BY <1>1, <1>t DEF T!TypeOK
  <2>2. log' \in [failed : SUBSET Nat, excused : SUBSET Nat, newest : [Chats -> Nat], unsure : SUBSET Nat,
                  lost : SUBSET (Chats \cup {None})]
    BY <1>1, <1>p, <1>t DEF T!TypeOK
  <2>3. count' \in [requests : 0 .. MaxAsked, notices : 0 .. MaxNotices, drops : 0 .. MaxDrops]
    BY <1>1, <1>t, CountGoesOn
  <2>. QED
    BY <1>1, <2>1, <2>2, <2>3, <1>t DEF T!TypeOK
<1>o. \A q : Own(q)' <=> Own(q)
  BY <1>1 DEF Own, ForkId
<1>3. Numbered' /\ Linked'
  BY <1>1, <1>r, <1>t DEF Numbered, Linked
<1>4. Remembered'
  BY <1>o, <1>r, <1>t DEF Remembered
<1>5. Followed'
  BY <1>o, <1>r, <1>t DEF Followed, Excusable
<1>6. TurnsKnown' /\ T!UsageIsOfTurn'
  BY <1>1, <1>r, <1>t DEF TurnsKnown, T!UsageIsOfTurn
<1>. QED
  BY <1>2, <1>3, <1>4, <1>5, <1>6 DEF ThreadsInv

LEMMA DropThreadKeeps ==
  ASSUME ThreadsInv, NEW thread \in Chats, T!DropThread(thread)
  PROVE  ThreadsInv'
<1>t. T!TypeOK /\ Numbered /\ Linked /\ Remembered /\ Followed /\ TurnsKnown /\ T!UsageIsOfTurn
  BY DEF ThreadsInv
<1>1. /\ relay' = [relay EXCEPT !.ctx = [relay.ctx EXCEPT ![thread] = T!Nothing]] /\ relay.pending = {}
      /\ log' = [log EXCEPT !.newest = [log.newest EXCEPT ![thread] = 0]]
      /\ count' = [count EXCEPT !.drops = count.drops + 1] /\ count.drops < MaxDrops
      /\ UNCHANGED <<up, answers, server, turns, event>>
  BY <1>t DEF T!DropThread, T!Dropped
<1>r. /\ relay'.revision = relay.revision /\ relay'.pending = {} /\ relay'.turn = relay.turn
      /\ relay'.ctx = [relay.ctx EXCEPT ![thread] = T!Nothing]
      /\ log'.failed = log.failed /\ log'.excused = log.excused /\ log'.unsure = log.unsure
      /\ log'.newest = [log.newest EXCEPT ![thread] = 0]
      /\ count'.requests = count.requests /\ count'.notices = count.notices /\ relay.revision \in Nat
  BY <1>1, <1>t DEF T!TypeOK
<1>n. T!Nothing \in T!Context /\ T!Nothing.by = 0 /\ T!Nothing.rev = 0
  BY DEF T!Nothing, T!Context, T!SomeModel, T!SomeProvider
<1>c. \A t \in Chats : \/ relay'.ctx[t] = relay.ctx[t] /\ log'.newest[t] = log.newest[t]
                       \/ relay'.ctx[t].by = 0 /\ relay'.ctx[t].rev = 0 /\ log'.newest[t] = 0
  BY <1>n, <1>r, <1>t DEF T!TypeOK
<1>2. T!TypeOK'
  <2>1. relay' \in [ctx : [Chats -> T!Context], revision : Nat, pending : SUBSET T!Pending,
                    turn : [1 .. MaxAsked + MaxNotices -> T!SomeModel]]
    BY <1>1, <1>n, <1>t DEF T!TypeOK
  <2>2. log' \in [failed : SUBSET Nat, excused : SUBSET Nat, newest : [Chats -> Nat], unsure : SUBSET Nat,
                  lost : SUBSET (Chats \cup {None})]
    BY <1>1, <1>t DEF T!TypeOK
  <2>3. count' \in [requests : 0 .. MaxAsked, notices : 0 .. MaxNotices, drops : 0 .. MaxDrops]
    BY <1>1, <1>t, CountGoesOn
  <2>. QED
    BY <1>1, <2>1, <2>2, <2>3, <1>t DEF T!TypeOK
<1>3. Numbered' /\ Linked'
  BY <1>1, <1>r, <1>t DEF Numbered, Linked
<1>4. Remembered'
  BY <1>c, <1>r, <1>t DEF Remembered
<1>5. Followed'
  BY <1>c, <1>r, <1>t DEF Followed, Excusable
<1>6. TurnsKnown' /\ T!UsageIsOfTurn'
  BY <1>1, <1>r, <1>t DEF TurnsKnown, T!UsageIsOfTurn
<1>. QED
  BY <1>2, <1>3, <1>4, <1>5, <1>6 DEF ThreadsInv

LEMMA RestThreadsInv ==
  ASSUME ThreadsInv, UNCHANGED threadVars
  PROVE  ThreadsInv'
<1>u. USE DEF ThreadsInv, threadVars
<1>1. T!TypeOK' /\ Numbered' /\ Linked'
  BY DEF T!TypeOK, Numbered, Linked
<1>2. Remembered' /\ Followed'
  BY DEF Remembered, Followed, Excusable, Own, ForkId
<1>3. TurnsKnown' /\ T!UsageIsOfTurn'
  BY DEF TurnsKnown, T!UsageIsOfTurn
<1>. QED
  BY <1>1, <1>2, <1>3

LEMMA NextThreadsInv == ThreadsInv /\ [MCNext]_<<part, vars, threadVars>> => ThreadsInv'
<1>1. ASSUME ThreadsInv, T!Client PROVE ThreadsInv'
  <2>1. \A thread \in Chats, model \in T!SomeModel : T!UpdateSettings(thread, model) => ThreadsInv'
    BY <1>1, SettingsKeep
  <2>2. \A thread \in Chats, model \in T!SomeModel : T!StartTurn(thread, model) => ThreadsInv'
    BY <1>1, StartTurnKeeps
  <2>3. \A kind \in {"start", "resume", "fork"}, thread \in Chats \cup {None}, model \in T!SomeModel :
          T!ThreadRequest(kind, thread, model) => ThreadsInv'
    BY <1>1, ThreadRequestKeeps
  <2>4. \A thread \in Chats : T!ReadThread(thread) => ThreadsInv'
    BY <1>1, ReadKeeps
  <2>. QED
    BY <1>1, <2>1, <2>2, <2>3, <2>4 DEF T!Client, T!SomeModel
<1>2. ASSUME ThreadsInv, T!Notices PROVE ThreadsInv'
  BY <1>2, DiscoverKeeps, SettingsUpdatedKeeps, TurnNoticesKeep DEF T!Notices
<1>3. ASSUME ThreadsInv, T!Prune PROVE ThreadsInv'
  BY <1>3, DropRequestKeeps, TurnNoticesKeep, DropThreadKeeps DEF T!Prune
<1>4. ASSUME ThreadsInv, T!Next PROVE ThreadsInv'
  BY <1>1, <1>2, <1>3, <1>4, ServerKeeps, RepliesKeep DEF T!Next
<1>. QED
  BY <1>4, RestThreadsInv DEF MCNext, RouterNext, ThreadsNext

\* At rest the relay knows the model of every thread, in whatever order requests overlap, fail and are
\* answered, and whatever it drops; and it puts usage down to the model a turn ran with
\* (thread-context.mjs updateThreadContext and restoreThreadContext, usage.mjs resolveTurnModel).
THEOREM ModelsAreKnown == MCSpec => []ModelIsKnown
<1>1. ThreadsInv => ModelIsKnown
  BY DEF ThreadsInv, Followed, Excusable, ModelIsKnown, T!ModelFollows
<1>2. MCInit => ThreadsInv
  BY InitThreadsInv DEF MCInit
<1>. QED
  BY <1>1, <1>2, NextThreadsInv, PTL DEF MCSpec
================================================================================
