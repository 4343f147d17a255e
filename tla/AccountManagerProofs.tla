-------------------------- MODULE AccountManagerProofs --------------------------
(***************************************************************************)
(* First part: a handoff happens entirely or not at all, whatever fails in *)
(* it and whatever refreshes, wake-ups, syncs, Codex and other devices do  *)
(* meanwhile (IInv).                                                       *)
(*                                                                         *)
(* Second part: no refresh token is lost or presented twice while          *)
(* refreshes, wake-ups, switches and removals of any accounts interleave   *)
(* with the sync of auth.json and with Codex's own rotations and logins    *)
(* (TokensInv).  This holds where the injector can read when a token's     *)
(* access ends, and where its accesses to files take no time next to the   *)
(* network (Restricted): otherwise the code does lose tokens, see README.  *)
(***************************************************************************)
EXTENDS AccountManager, TLAPS

\* An account that was issued a token.
RealAccount == [status : {"active", "needsReauth", "transferred"}, tok : 1 .. MaxTokens]
Steps == {"idle", "sync", "synced", "rotate", "rotated", "refused", "quota", "given", "lock", "auth",
          "mark", "fallback", "lockFallback", "current", "file", "undo", "undoAuth", "undoCurrent"}
Kinds == {"none", "refresh", "wakeup", "forced", "retry"} \cup Operations
Jobs == [pc : Steps, kind : Kinds, at : Ids \cup {NoId}, read : RealAccount \cup {Absent},
         new : Tokens, cur : BOOLEAN]
Plans == [op : Operations \cup {"none"}, set : SUBSET Ids, todo : SUBSET Ids, tx : BOOLEAN,
          snaps : [Ids -> RealAccount \cup {Absent}], was : Ids \cup {NoId}]

RealLogin(l) == l \in Login /\ (l.id # NoId => l.tok # 0)

\* The steps that use the account a job has read.
Holds(j) ==
  /\ j.pc \in {"rotate", "rotated", "refused", "quota", "undoAuth"} => j.at \in Ids /\ j.read \in RealAccount
  /\ j.pc = "rotated" => j.new # 0
  /\ j.pc = "auth" /\ j.at # NoId => j.read \in RealAccount
  /\ j.pc = "lockFallback" => j.at \in Ids
  /\ j.kind \notin Wakeups \cup Operations /\ j.pc \in {"sync", "synced"} => j.read \in RealAccount

StoreOK == store \in [Ids -> RealAccount \cup {Absent}] /\ current \in Ids \cup {NoId} /\ RealLogin(auth)
JobsOK ==
  /\ job \in [Actors -> Jobs]
  /\ \A p \in Actors : Holds(job[p])
  /\ \A i \in Ids : job[i].kind \notin Operations
\* The sync is awaited by an actor that does nothing else.
SyncOK ==
  /\ sync \in [by : Actors \cup {Timer}, pc : {"idle", "read", "mark"}, cred : Login]
  /\ RealLogin(sync.cred)
  /\ sync.pc # "idle" /\ sync.by # Timer => job[sync.by].pc = "sync"
  /\ sync.pc = "mark" => sync.cred.id \in Ids
ServerOK ==
  /\ issued \in [Ids -> Tokens] /\ handed \in [Ids -> Tokens] /\ gone \in SUBSET Ids
  /\ live \in [Ids -> SUBSET Tokens] /\ expired \in [Ids -> SUBSET Tokens] /\ spent \in [Ids -> SUBSET Tokens]
  /\ \A i \in Ids : live[i] \cup expired[i] \cup spent[i] \subseteq 1 .. issued[i]
PlanOK == plan \in Plans /\ plan.todo \subseteq plan.set

\* Once a handoff has marked accounts it goes on to its end or to its rollback, and has the accounts
\* as they were.
MarkingSteps == {"mark", "fallback", "lockFallback", "undo", "undoAuth", "undoCurrent"}
HandoffSteps == MarkingSteps \cup {"rotate", "rotated", "refused", "auth", "current", "file"}
Remembered(i) == handed[i] # 0 \/ i \in gone
Transaction ==
  /\ me.pc \in MarkingSteps => plan.tx
  /\ plan.tx =>
       /\ plan.op = "handoff" /\ me.pc \in HandoffSteps
       /\ plan.was \in plan.set \cup {NoId}
       /\ \A i \in plan.set : /\ plan.snaps[i] \in RealAccount
                              /\ plan.snaps[i].status = "transferred" => Remembered(i)

\* An export works on accounts of the library: only another page action could remove them.
Exporting == plan.op \in Exports /\ me.pc \notin {"idle", "sync", "synced"}
ExportedArePresent ==
  Exporting =>
    /\ \A i \in plan.set : store[i] # Absent
    /\ me.pc \in {"rotate", "rotated", "refused"} => store[me.at] # Absent

\* An account that is marked without a transfer file is one the rollback will still reach.
MarkedIsPlanned ==
  \A i \in Ids :
    store[i] # Absent /\ store[i].status = "transferred" /\ ~Remembered(i) =>
      /\ plan.tx /\ i \in plan.set /\ me.pc \notin {"undoAuth", "undoCurrent"}
      /\ me.pc = "undo" => i \in plan.todo

IInv ==
  /\ StoreOK /\ JobsOK /\ SyncOK /\ ServerOK /\ PlanOK
  /\ Transaction /\ ExportedArePresent /\ MarkedIsPlanned

-----------------------------------------------------------------------------
\* What Holds asks of a job that is made with At.
Fit(i, pc, kind, account) ==
  /\ pc \in {"rotate", "refused", "quota", "undoAuth"} => i \in Ids /\ account \in RealAccount
  /\ pc # "rotated"
  /\ pc = "auth" /\ i # NoId => account \in RealAccount
  /\ pc = "lockFallback" => i \in Ids
  /\ kind \notin Wakeups \cup Operations /\ pc \in {"sync", "synced"} => account \in RealAccount

\* A job that has read nothing.
LEMMA BlankIsJob ==
  ASSUME ManagerConstants, NEW i \in Ids \cup {NoId}, NEW pc \in Steps, NEW kind \in Kinds
  PROVE  /\ Blank(pc, kind, i) \in Jobs
         /\ Blank(pc, kind, i).pc = pc /\ Blank(pc, kind, i).kind = kind
         /\ Fit(i, pc, kind, Absent) => Holds(Blank(pc, kind, i))
<1>0. 0 \in Tokens
  BY DEF ManagerConstants, Tokens
<1>1. Blank(pc, kind, i) \in Jobs
  BY <1>0 DEF Blank, Jobs
<1>2. Fit(i, pc, kind, Absent) => Holds(Blank(pc, kind, i))
  BY DEF Blank, Holds, Fit
<1> QED BY <1>1, <1>2 DEF Blank

\* An idle job, and a page action at its rollback.
LEMMA IdleIsJob ==
  ASSUME ManagerConstants
  PROVE  /\ Idle \in Jobs /\ Holds(Idle) /\ Idle.pc = "idle" /\ Idle.kind = "none"
         /\ Blank("undo", "none", NoId) \in Jobs /\ Holds(Blank("undo", "none", NoId))
         /\ Blank("undo", "none", NoId).pc = "undo"
<1>1. "none" \in Kinds /\ "idle" \in Steps /\ "undo" \in Steps
  BY DEF Kinds, Steps
<1> QED BY <1>1, BlankIsJob DEF Idle, Fit

\* A job that is made with At is one, and is where it was sent.
LEMMA AtIsJob ==
  ASSUME ManagerConstants, NEW i \in Ids \cup {NoId}, NEW pc \in Steps, NEW kind \in Kinds,
         NEW account \in RealAccount \cup {Absent}, NEW cur \in BOOLEAN
  PROVE  /\ At(i, pc, kind, account, cur) \in Jobs
         /\ At(i, pc, kind, account, cur).pc = pc
         /\ At(i, pc, kind, account, cur).kind \in {kind, "none"}
         /\ pc \notin {"idle", "given"} => At(i, pc, kind, account, cur).at = i
         /\ Fit(i, pc, kind, account) => Holds(At(i, pc, kind, account, cur))
<1>0. 0 \in Tokens
  BY DEF ManagerConstants, Tokens
<1>1. CASE pc = "idle"
  <2>1. At(i, pc, kind, account, cur) = Idle
    BY <1>1 DEF At
  <2> QED BY <1>1, <2>1, IdleIsJob
<1>2. CASE pc = "given"
  <2>1. At(i, pc, kind, account, cur) = Blank(pc, kind, i)
    BY <1>2 DEF At
  <2> QED BY <1>2, <2>1, BlankIsJob DEF Fit
<1>3. CASE pc \notin {"idle", "given"}
  <2> DEFINE r == [pc |-> pc, kind |-> kind, at |-> i, read |-> account, new |-> 0, cur |-> cur]
  <2>1. At(i, pc, kind, account, cur) = r
    BY <1>3 DEF At
  <2>2. r \in Jobs
    BY <1>0 DEF Jobs
  <2>3. Fit(i, pc, kind, account) => Holds(r)
    BY DEF Holds, Fit
  <2> QED BY <1>3, <2>1, <2>2, <2>3
<1> QED BY <1>1, <1>2, <1>3

\* No page action: no account is planned.
LEMMA NoPlanIsPlan == NoPlan \in Plans /\ NoPlan.todo = {} /\ NoPlan.set = {} /\ ~NoPlan.tx
<1>1. NoPlan \in Plans
  BY DEF NoPlan, Plans
<1>2. NoPlan.todo = {} /\ NoPlan.set = {}
  BY DEF NoPlan
<1>3. ~NoPlan.tx
  BY DEF NoPlan
<1> QED BY <1>1, <1>2, <1>3

\* The library keeps its accounts and marks none.
StoreKept ==
  \A i \in Ids : /\ store[i] # Absent => store'[i] # Absent
                 /\ store'[i] # Absent /\ store'[i].status = "transferred" => store'[i] = store[i]

\* What is remembered of a handoff stays so.
NothingForgotten == \A i \in Ids : Remembered(i) => Remembered(i)'

\* A step of others leaves what a handoff relies on as it is.
LEMMA HandoffUndisturbed ==
  ASSUME IInv, StoreKept, NothingForgotten, plan' = plan, me' = me, NoId \notin Ids, Absent \notin Account
  PROVE  Transaction' /\ ExportedArePresent' /\ MarkedIsPlanned'
<1>0. plan.set \subseteq Ids
  BY DEF IInv, PlanOK, Plans
<1>1. Transaction'
  BY <1>0 DEF IInv, Transaction, NothingForgotten
<1>2. ExportedArePresent'
  <2>1. me.pc \in {"rotate", "rotated", "refused"} => me.at \in Ids
    BY DEF IInv, JobsOK, Holds, Actors, me
  <2> QED BY <1>0, <2>1 DEF IInv, ExportedArePresent, Exporting, StoreKept
<1>3. MarkedIsPlanned'
  <2> SUFFICES ASSUME NEW i \in Ids, store'[i] # Absent, store'[i].status = "transferred", ~Remembered(i)'
               PROVE  /\ plan.tx /\ i \in plan.set /\ me.pc \notin {"undoAuth", "undoCurrent"}
                      /\ me.pc = "undo" => i \in plan.todo
    BY DEF MarkedIsPlanned
  <2>1. store[i] # Absent /\ store[i].status = "transferred" /\ ~Remembered(i)
    BY DEF StoreKept, NothingForgotten
  <2> QED BY <2>1 DEF IInv, MarkedIsPlanned
<1> QED BY <1>1, <1>2, <1>3

-----------------------------------------------------------------------------
(* The jobs *)

\* An operation brings an account of the library up to date, or leaves it.
Renews(i) ==
  \/ store' = store
  \/ /\ store[i] # Absent
     /\ \E a \in RealAccount : a.status # "transferred" /\ store' = [store EXCEPT ![i] = a]

\* A job that moves disturbs nobody: its own account alone is brought up to date.
LEMMA JobMoves ==
  ASSUME ManagerConstants, IInv, NEW i \in Ids, NEW j \in Jobs, Holds(j), j.kind \notin Operations,
         job' = [job EXCEPT ![i] = j], job[i].pc # "sync", Renews(i),
         UNCHANGED <<current, auth, sync, plan, server, ghosts>>
  PROVE  IInv'
<1>0. i \in Actors /\ User \in Actors /\ i # User /\ NoId \notin Ids /\ Absent \notin Account
  BY DEF Actors, ManagerConstants
<1>1. store' \in [Ids -> RealAccount \cup {Absent}] /\ StoreKept
  <2>1. \A a \in RealAccount : a # Absent
    BY <1>0 DEF RealAccount, Account, Tokens, ManagerConstants
  <2> QED BY <2>1 DEF IInv, StoreOK, StoreKept, Renews
<1>2. StoreOK'
  BY <1>1 DEF IInv, StoreOK, RealLogin
<1>3. JobsOK'
  BY <1>0 DEF IInv, JobsOK
<1>4. me' = me
  BY <1>0 DEF me, IInv, JobsOK
<1>5. SyncOK'
  BY <1>0 DEF IInv, SyncOK, RealLogin, JobsOK
<1>6. ServerOK' /\ PlanOK'
  BY DEF IInv, ServerOK, PlanOK, server, ghosts
<1>7. NothingForgotten
  BY DEF NothingForgotten, Remembered, ghosts
<1> QED BY <1>0, <1>1, <1>2, <1>3, <1>4, <1>5, <1>6, <1>7, HandoffUndisturbed DEF IInv

\* Where a reader of an account may go.
LEMMA FreshGoes ==
  ASSUME NEW i, NEW account, NEW ready, NEW sure
  PROVE  Fresh(i, account, ready, sure) \subseteq {"idle", "rotate", ready}
BY DEF Fresh

\* A refresh starts.
LEMMA StartRefreshKeeps ==
  ASSUME ManagerConstants, IInv, NEW i \in Ids, StartRefresh(i)
  PROVE  IInv'
<1>0. Fresh(i, store[i], "quota", FALSE) \subseteq {"idle", "rotate", "quota"}
  BY FreshGoes
<1> DEFINE cur == current = i
           next == IF current = i THEN {"sync"} ELSE Fresh(i, store[i], "quota", FALSE)
<1>1. PICK pc \in next : job' = [job EXCEPT ![i] = At(i, pc, "refresh", store[i], cur)]
  BY DEF StartRefresh
<1>a. pc \in {"sync", "idle", "rotate", "quota"}
  BY <1>0
<1>2. store[i] \in RealAccount /\ cur \in BOOLEAN
  BY DEF StartRefresh, IInv, StoreOK
<1> HIDE DEF next, cur
<1>3. pc \in Steps /\ "refresh" \in Kinds \ (Wakeups \cup Operations) /\ "none" \notin Operations
  BY <1>a DEF Steps, Kinds, Wakeups, Operations
<1>4. Fit(i, pc, "refresh", store[i])
  BY <1>2, <1>a DEF Fit
<1>5. job[i].pc = "idle"
  BY DEF StartRefresh, Free
<1>6. /\ At(i, pc, "refresh", store[i], cur) \in Jobs
      /\ Holds(At(i, pc, "refresh", store[i], cur))
      /\ At(i, pc, "refresh", store[i], cur).kind \notin Operations
  BY <1>2, <1>3, <1>4, AtIsJob
<1> QED BY <1>1, <1>5, <1>6, JobMoves DEF StartRefresh, Renews

\* A wake-up starts.
LEMMA StartWakeupKeeps ==
  ASSUME ManagerConstants, IInv, NEW i \in Ids, StartWakeup(i)
  PROVE  IInv'
<1>1. "sync" \in Steps /\ "wakeup" \in Kinds \cap Wakeups /\ {"wakeup", "none"} \cap Operations = {}
  BY DEF Steps, Kinds, Wakeups, Operations
<1>2. Fit(i, "sync", "wakeup", Absent)
  BY <1>1 DEF Fit
<1>3. job[i].pc = "idle"
  BY DEF StartWakeup, Free
<1> DEFINE j == At(i, "sync", "wakeup", Absent, FALSE)
<1>4. job' = [job EXCEPT ![i] = j] /\ store' = store /\ UNCHANGED <<current, auth, sync, plan, server, ghosts>>
  BY DEF StartWakeup
<1>5. j \in Jobs /\ Holds(j) /\ j.kind \notin Operations
  BY <1>1, <1>2, AtIsJob
<1> HIDE DEF j
<1> QED BY <1>3, <1>4, <1>5, JobMoves DEF Renews

\* A job that has waited for the sync reads its account again.
LEMMA JobSyncedKeeps ==
  ASSUME ManagerConstants, IInv, NEW i \in Ids, JobSynced(i)
  PROVE  IInv'
<1> DEFINE j == job[i]
           account == IF store[i] = Absent THEN j.read ELSE store[i]
           cur == IF j.kind = "retry" THEN j.cur ELSE current = i
<1>0. i \in Actors
  BY DEF Actors
<1>1. j \in Jobs /\ Holds(j) /\ j.kind \in Kinds \ Operations /\ j.cur \in BOOLEAN /\ j.pc = "synced"
  BY <1>0 DEF JobSynced, IInv, JobsOK, Jobs
<1>2. cur \in BOOLEAN
  BY <1>1
<1>3. account \in RealAccount \cup {Absent}
  BY <1>1 DEF IInv, StoreOK, Jobs
<1>4. PICK pc \in {"idle", "given", "rotate", "quota"} :
        /\ job' = [job EXCEPT ![i] = At(i, pc, j.kind, account, cur)]
        /\ pc \in {"rotate", "quota"} => store[i] # Absent \/ j.kind \notin Wakeups \cup {"retry"}
  <2> DEFINE readers == IF store[i] = Absent \/ account.status # "active" THEN {"idle"}
                        ELSE IF current = i THEN {"given", "idle"}
                        ELSE IF j.kind = "forced" THEN {"rotate"}
                        ELSE Fresh(i, account, "given", TRUE)
             refreshed == IF current = i THEN {"quota"} ELSE Fresh(i, account, "quota", FALSE)
             Sent(pcs) == \E pc \in pcs : job' = [job EXCEPT ![i] = At(i, pc, j.kind, account, cur)]
  <2>1. CASE j.kind \in Wakeups
    <3>1. Sent(readers)
      BY <2>1 DEF JobSynced, Wakeups
    <3>2. Fresh(i, account, "given", TRUE) \subseteq {"idle", "rotate", "given"}
      BY DEF Fresh
    <3> QED BY <3>1, <3>2
  <2>2. CASE j.kind = "retry"
    BY <2>2 DEF JobSynced, Wakeups
  <2>3. CASE j.kind \notin Wakeups \cup {"retry"}
    <3>1. Sent(refreshed)
      BY <2>3 DEF JobSynced, Wakeups
    <3>2. Fresh(i, account, "quota", FALSE) \subseteq {"idle", "rotate", "quota"}
      BY FreshGoes
    <3> QED BY <2>3, <3>1, <3>2
  <2> QED BY <2>1, <2>2, <2>3
<1>5. pc \in {"rotate", "quota"} => account \in RealAccount
  BY <1>1, <1>4 DEF IInv, StoreOK, Holds
<1>6. Fit(i, pc, j.kind, account) /\ pc \in Steps
  BY <1>5 DEF Fit, Steps
<1>7. "none" \notin Operations
  BY DEF Operations
<1> HIDE DEF j, account, cur
<1>8. At(i, pc, j.kind, account, cur) \in Jobs /\ Holds(At(i, pc, j.kind, account, cur))
      /\ At(i, pc, j.kind, account, cur).kind \notin Operations
  BY <1>1, <1>2, <1>3, <1>6, <1>7, AtIsJob
<1>9. job[i].pc # "sync"
  BY <1>1 DEF j
<1> QED BY <1>4, <1>8, <1>9, JobMoves DEF JobSynced, Renews

\* Credentials are given back, or others are asked for.
LEMMA JobGivenKeeps ==
  ASSUME ManagerConstants, IInv, NEW i \in Ids, JobGiven(i)
  PROVE  IInv'
<1>1. "sync" \in Steps /\ "forced" \in Kinds \cap Wakeups /\ {"forced", "none"} \cap Operations = {}
  BY DEF Steps, Kinds, Wakeups, Operations
<1>2. Fit(i, "sync", "forced", Absent)
  BY <1>1 DEF Fit
<1> DEFINE asks == At(i, "sync", "forced", Absent, FALSE)
<1>3. asks \in Jobs /\ Holds(asks) /\ asks.kind \notin Operations
  BY <1>1, <1>2, AtIsJob
<1>4. Idle \in Jobs /\ Holds(Idle) /\ Idle.kind \notin Operations
  BY <1>1, IdleIsJob
<1>5. job' = [job EXCEPT ![i] = asks] \/ job' = [job EXCEPT ![i] = Idle]
  BY DEF JobGiven
<1>6. job[i].pc # "sync" /\ Renews(i) /\ UNCHANGED <<current, auth, sync, plan, server, ghosts>>
  BY DEF JobGiven, Renews
<1> HIDE DEF asks
<1> QED BY <1>3, <1>4, <1>5, <1>6, JobMoves

\* An account of the library with another status is one still.
LEMMA WithStatus ==
  ASSUME NEW a \in RealAccount, NEW s \in {"active", "needsReauth", "transferred"}
  PROVE  [a EXCEPT !.status = s] \in RealAccount /\ [a EXCEPT !.status = s].status = s
BY DEF RealAccount

\* The status of an account is renewed, unless the account is gone.
LEMMA StatusRenewed ==
  ASSUME IInv, NEW i \in Ids, NEW s \in {"active", "needsReauth"},
         store' = Updated(i, [store[i] EXCEPT !.status = s])
  PROVE  Renews(i)
<1>1. CASE store[i] = Absent
  BY <1>1 DEF Renews, Updated
<1>2. CASE store[i] # Absent
  <2> DEFINE a == [store[i] EXCEPT !.status = s]
  <2>1. store[i] \in RealAccount
    BY <1>2 DEF IInv, StoreOK
  <2>2. a \in RealAccount /\ a.status # "transferred"
    BY <2>1, WithStatus
  <2>3. store' = [store EXCEPT ![i] = a]
    BY <1>2 DEF Updated
  <2> QED BY <1>2, <2>2, <2>3 DEF Renews
<1> QED BY <1>1, <1>2

\* The quota request is answered.
LEMMA JobQuotaKeeps ==
  ASSUME ManagerConstants, IInv, NEW i \in Ids, JobQuota(i)
  PROVE  IInv'
<1>0. i \in Actors /\ "none" \notin Operations /\ "retry" \in Kinds \ (Operations \cup Wakeups)
      /\ {"sync", "rotate"} \subseteq Steps
  BY DEF Actors, Operations, Kinds, Wakeups, Steps
<1>1. job[i] \in Jobs /\ Holds(job[i]) /\ job[i].pc = "quota" /\ UNCHANGED <<current, auth, sync, plan, server, ghosts>>
  BY <1>0 DEF JobQuota, IInv, JobsOK
<1>2. job[i].read \in RealAccount /\ job[i].cur \in BOOLEAN
  BY <1>1 DEF Holds, Jobs
<1>3. CASE job' = [job EXCEPT ![i] = Idle] /\ store' = Updated(i, [store[i] EXCEPT !.status = "active"])
  <2>1. Renews(i)
    BY <1>3, StatusRenewed
  <2> QED BY <1>0, <1>1, <1>3, <2>1, IdleIsJob, JobMoves
<1>4. CASE job' = [job EXCEPT ![i] = Idle] /\ store' = store
  BY <1>0, <1>1, <1>4, IdleIsJob, JobMoves DEF Renews
<1>5. ASSUME NEW pc \in {"sync", "rotate"}, NEW cur \in BOOLEAN, store' = store,
             job' = [job EXCEPT ![i] = At(i, pc, "retry", job[i].read, cur)]
      PROVE  IInv'
  <2> DEFINE account == job[i].read
  <2>1. Fit(i, pc, "retry", account)
    BY <1>2, <1>5 DEF Fit
  <2>2. job' = [job EXCEPT ![i] = At(i, pc, "retry", account, cur)] /\ account \in RealAccount \cup {Absent}
    BY <1>2, <1>5
  <2> HIDE DEF account
  <2>3. At(i, pc, "retry", account, cur) \in Jobs /\ Holds(At(i, pc, "retry", account, cur))
        /\ At(i, pc, "retry", account, cur).kind \notin Operations
    BY <1>0, <2>1, <2>2, AtIsJob
  <2>4. Renews(i)
    BY <1>5 DEF Renews
  <2> QED BY <1>1, <2>2, <2>3, <2>4, JobMoves
<1> DEFINE account == job[i].read
           cur == job[i].cur
           pc == IF cur THEN "sync" ELSE "rotate"
           another == At(i, pc, "retry", account, cur)
<1>6. \/ job' = [job EXCEPT ![i] = Idle] /\ store' = Updated(i, [store[i] EXCEPT !.status = "active"])
      \/ job' = [job EXCEPT ![i] = Idle] /\ store' = store
      \/ job' = [job EXCEPT ![i] = another] /\ store' = store
  BY DEF JobQuota
<1> QED BY <1>2, <1>3, <1>4, <1>5, <1>6

\* The new tokens of a job are saved.
LEMMA JobSaveKeeps ==
  ASSUME ManagerConstants, IInv, NEW i \in Ids, JobSave(i)
  PROVE  IInv'
<1> DEFINE account == Refreshed(i)
           kind == job[i].kind
           cur == job[i].cur
           next == IF store[i] = Absent THEN "idle" ELSE IF kind \in Wakeups THEN "given" ELSE "quota"
<1>0. i \in Actors /\ "none" \notin Operations
  BY DEF Actors, Operations
<1>1. /\ job[i] \in Jobs /\ Holds(job[i]) /\ kind \in Kinds \ Operations /\ job[i].pc = "rotated"
      /\ UNCHANGED <<current, auth, sync, plan, server, ghosts>>
  BY <1>0 DEF JobSave, IInv, JobsOK, Jobs
<1>2. account \in RealAccount /\ account.status = "active" /\ cur \in BOOLEAN
  BY <1>1, <1>0 DEF Refreshed, RealAccount, Holds, Jobs, Tokens, ManagerConstants
<1>3. next \in {"idle", "given", "quota"}
  OBVIOUS
<1>4. store' = Updated(i, account) /\ job' = [job EXCEPT ![i] = At(i, next, kind, account, cur)]
  BY <1>0, <1>1 DEF JobSave, IInv, JobsOK
<1> HIDE DEF account, kind, cur, next
<1>5. next \in Steps /\ Fit(i, next, kind, account)
  BY <1>2, <1>3 DEF Steps, Fit
<1>6. At(i, next, kind, account, cur) \in Jobs /\ Holds(At(i, next, kind, account, cur))
      /\ At(i, next, kind, account, cur).kind \notin Operations
  BY <1>0, <1>1, <1>2, <1>5, AtIsJob
<1>7. Renews(i)
  BY <1>2, <1>4 DEF Renews, Updated
<1> QED BY <1>1, <1>4, <1>6, <1>7, JobMoves

\* A refused token marks its account.
LEMMA JobRefusedKeeps ==
  ASSUME ManagerConstants, IInv, NEW i \in Ids, JobRefused(i)
  PROVE  IInv'
<1>1. Renews(i)
  BY StatusRenewed DEF JobRefused, Rejected
<1>2. job[i].pc # "sync" /\ "none" \notin Operations
  BY DEF JobRefused, Operations
<1> QED BY <1>1, <1>2, IdleIsJob, JobMoves DEF JobRefused

-----------------------------------------------------------------------------
(* The server, Codex and other devices *)

\* What the server has issued, given the tokens it has issued before.
LEMMA Issued ==
  ASSUME ManagerConstants, IInv, NEW i \in Ids, NEW used, Issue(i, used), expired' = expired,
         handed' = handed, gone' \in SUBSET Ids,
         spent' = spent \/ \E t \in live[i] : spent' = [spent EXCEPT ![i] = @ \cup {t}]
  PROVE  ServerOK' /\ issued[i] + 1 \in 1 .. MaxTokens
<1>1. /\ issued \in [Ids -> Nat] /\ issued[i] + 1 \in 1 .. MaxTokens /\ MaxTokens \in Nat
      /\ \A k \in Ids : issued[k] \in Tokens /\ live[k] \cup expired[k] \cup spent[k] \subseteq 1 .. issued[k]
      /\ live \in [Ids -> SUBSET Tokens] /\ spent \in [Ids -> SUBSET Tokens]
  BY DEF IInv, ServerOK, Tokens, Issue, ManagerConstants
<1>2. /\ issued' = [issued EXCEPT ![i] = issued[i] + 1]
      /\ live' = [live EXCEPT ![i] = (live[i] \ {used}) \cup {issued[i] + 1}]
  BY DEF Issue
<1>3. issued' \in [Ids -> Tokens] /\ live' \in [Ids -> SUBSET Tokens]
  BY <1>1, <1>2 DEF Tokens
<1>4. spent' \in [Ids -> SUBSET Tokens] /\ \A k \in Ids : spent'[k] \subseteq 1 .. issued[k]
  BY <1>1
<1>5. ASSUME NEW k \in Ids PROVE live'[k] \cup expired'[k] \cup spent'[k] \subseteq 1 .. issued'[k]
  <2>1. issued[k] \in Nat /\ issued'[k] \in Nat /\ issued[k] <= issued'[k]
    BY <1>1, <1>2
  <2>2. 1 .. issued[k] \subseteq 1 .. issued'[k]
    BY <2>1
  <2>3. live'[k] \subseteq 1 .. issued'[k]
    BY <1>1, <1>2, <2>2
  <2> QED BY <1>1, <1>4, <2>2, <2>3
<1> QED BY <1>1, <1>3, <1>4, <1>5 DEF IInv, ServerOK

\* The server, Codex or another device acts.
LEMMA OutsideKeeps ==
  ASSUME ManagerConstants, IInv, Outside
  PROVE  IInv'
<1>0. NoId \notin Ids /\ Absent \notin Account
  BY DEF ManagerConstants
<1>1. /\ UNCHANGED <<store, current, sync, job, plan>>
      /\ handed' = handed /\ gone \subseteq gone'
  BY DEF Outside, CodexRotates, CodexLogsIn, Received, Expire, ghosts
<1>2. RealLogin(auth)' /\ ServerOK'
  <2>1. CASE CodexRotates
    <3>0. auth.id \in Ids /\ auth \in Login
      BY <2>1 DEF CodexRotates, IInv, StoreOK, RealLogin, Login
    <3>1. ServerOK' /\ issued[auth.id] + 1 \in 1 .. MaxTokens
      BY <2>1, <3>0, Issued DEF CodexRotates, IInv, ServerOK, ghosts
    <3>2. auth' = [auth EXCEPT !.tok = issued[auth.id] + 1]
      BY <2>1 DEF CodexRotates
    <3>3. auth' \in Login /\ auth'.tok # 0
      BY <3>0, <3>1, <3>2 DEF Login, Tokens, ManagerConstants
    <3> QED BY <3>1, <3>3 DEF RealLogin
  <2>2. ASSUME NEW i \in Ids, CodexLogsIn(i) PROVE RealLogin(auth)' /\ ServerOK'
    <3>0. auth.id \in Ids \cup {NoId}
      BY DEF IInv, StoreOK, RealLogin, Login
    <3>1. ServerOK' /\ issued[i] + 1 \in 1 .. MaxTokens
      BY <2>2, <3>0, Issued DEF CodexLogsIn, IInv, ServerOK
    <3>2. auth' = [id |-> i, tok |-> issued[i] + 1]
      BY <2>2 DEF CodexLogsIn
    <3> QED BY <3>1, <3>2 DEF RealLogin, Login, Tokens, ManagerConstants
  <2>3. ASSUME NEW i \in Ids, Received(i) PROVE RealLogin(auth)' /\ ServerOK'
    BY <2>3 DEF Received, IInv, StoreOK, ServerOK, RealLogin
  <2>4. ASSUME NEW i \in Ids, NEW t \in Tokens, Expire(i, t) PROVE RealLogin(auth)' /\ ServerOK'
    BY <2>4 DEF Expire, IInv, StoreOK, ServerOK, RealLogin, ghosts
  <2> QED BY <2>1, <2>2, <2>3, <2>4 DEF Outside
<1>3. StoreOK' /\ JobsOK' /\ SyncOK' /\ PlanOK'
  BY <1>1, <1>2 DEF IInv, StoreOK, JobsOK, SyncOK, PlanOK
<1>4. StoreKept /\ NothingForgotten /\ me' = me
  BY <1>1 DEF StoreKept, NothingForgotten, Remembered, me
<1> QED BY <1>0, <1>1, <1>2, <1>3, <1>4, HandoffUndisturbed DEF IInv

-----------------------------------------------------------------------------
(* The sync *)

\* A sync begins.
LEMMA SyncReadKeeps ==
  ASSUME ManagerConstants, IInv, NEW p \in Actors \cup {Timer}, SyncRead(p)
  PROVE  IInv'
<1>0. NoId \notin Ids /\ Absent \notin Account
  BY DEF ManagerConstants
<1>1. UNCHANGED <<store, current, auth, job, plan, issued, live, expired, handed, spent, gone>>
  BY DEF SyncRead, server, ghosts
<1>2. sync' = [by |-> p, pc |-> "read", cred |-> auth] /\ (p # Timer => job[p].pc = "sync")
  BY DEF SyncRead
<1>3. SyncOK'
  BY <1>1, <1>2 DEF IInv, SyncOK, StoreOK, RealLogin
<1>4. StoreOK' /\ JobsOK' /\ PlanOK' /\ ServerOK'
  BY <1>1 DEF IInv, StoreOK, JobsOK, PlanOK, ServerOK
<1>5. StoreKept /\ NothingForgotten /\ me' = me
  BY <1>1 DEF StoreKept, NothingForgotten, Remembered, me
<1> QED BY <1>0, <1>1, <1>3, <1>4, <1>5, HandoffUndisturbed DEF IInv

\* A sync ends, and the operation that awaited it goes on or fails; neither is a handoff that
\* has marked accounts.
LEMMA SyncEndKeeps ==
  ASSUME ManagerConstants, IInv, NEW ok \in BOOLEAN, SyncEnd(ok), sync.pc # "idle",
         store' = store, current' \in Ids \cup {NoId}, UNCHANGED <<auth, server, ghosts>>
  PROVE  IInv'
<1>0. NoId \notin Ids /\ Absent \notin Account /\ User \in Actors /\ 0 \in Tokens /\ User # Timer
      /\ \A i \in Ids : i # User
  BY DEF ManagerConstants, Actors, Tokens
<1>1. StoreOK' /\ ServerOK'
  BY DEF IInv, StoreOK, ServerOK, server, ghosts
<1>2. SyncOK'
  BY <1>0 DEF IInv, SyncOK, SyncEnd, Quiet, NoLogin, RealLogin, Login
<1>3. NothingForgotten /\ StoreKept
  BY DEF NothingForgotten, Remembered, ghosts, StoreKept
<1>4. CASE sync.by = Timer
  <2>1. job' = job /\ plan' = plan /\ me' = me
    BY <1>0, <1>4 DEF SyncEnd, me
  <2>2. JobsOK' /\ PlanOK'
    BY <2>1 DEF IInv, JobsOK, PlanOK
  <2> QED BY <1>0, <1>1, <1>2, <1>3, <2>1, <2>2, HandoffUndisturbed DEF IInv
<1>5. CASE sync.by # Timer
  <2> DEFINE p == sync.by
             j == IF ok THEN [job[p] EXCEPT !.pc = "synced"] ELSE Idle
  <2>1. p \in Actors /\ job[p].pc = "sync" /\ job[p] \in Jobs /\ Holds(job[p])
    BY <1>5 DEF IInv, SyncOK, JobsOK
  <2>2. job' = [job EXCEPT ![p] = j]
    BY <1>5, <2>1 DEF SyncEnd, IInv, JobsOK
  <2>3. j \in Jobs /\ Holds(j) /\ j.kind \in {job[p].kind, "none"} /\ j.pc \in {"synced", "idle"}
    BY <2>1, IdleIsJob DEF Jobs, Holds, Steps
  <2> HIDE DEF j
  <2>4. JobsOK'
    BY <2>1, <2>2, <2>3 DEF IInv, JobsOK, Operations
  <2>5. CASE p # User
    <3>1. me' = me /\ plan' = plan
      BY <1>0, <2>1, <2>2, <2>5 DEF me, SyncEnd, IInv, JobsOK
    <3>2. PlanOK'
      BY <3>1 DEF IInv, PlanOK
    <3> QED BY <1>0, <1>1, <1>2, <1>3, <2>4, <3>1, <3>2, HandoffUndisturbed DEF IInv
  <2>6. CASE p = User
    <3>1. me.pc = "sync" /\ me'.pc \in {"synced", "idle"} /\ (plan' = plan \/ plan' = NoPlan)
      BY <1>0, <2>1, <2>2, <2>3, <2>6 DEF me, SyncEnd, IInv, JobsOK
    <3>2. ~plan.tx
      BY <3>1 DEF IInv, Transaction, HandoffSteps, MarkingSteps
    <3>3. PlanOK' /\ ~plan'.tx
      <4>1. CASE plan' = plan
        BY <3>2, <4>1 DEF IInv, PlanOK
      <4>2. CASE plan' = NoPlan
        BY <4>2, NoPlanIsPlan DEF PlanOK
      <4> QED BY <3>1, <4>1, <4>2
    <3>4. Transaction' /\ ExportedArePresent'
      BY <3>1, <3>3 DEF Transaction, ExportedArePresent, Exporting, MarkingSteps
    <3>5. MarkedIsPlanned'
      BY <1>3, <3>2 DEF IInv, MarkedIsPlanned, NothingForgotten
    <3> QED BY <1>1, <1>2, <2>4, <3>3, <3>4, <3>5 DEF IInv
  <2> QED BY <2>5, <2>6
<1> QED BY <1>4, <1>5

\* The sync writes what it has read, or moves the marker.
LEMMA SyncKeeps ==
  ASSUME ManagerConstants, IInv, Sync
  PROVE  IInv'
<1>0. NoId \notin Ids /\ Absent \notin Account
  BY DEF ManagerConstants
<1>1. ASSUME NEW p \in Actors \cup {Timer}, SyncRead(p) PROVE IInv'
  BY <1>1, SyncReadKeeps
<1>2. CASE SyncEmpty
  BY <1>2, SyncEndKeeps DEF SyncEmpty, Compare, IInv, StoreOK
<1>3. CASE SyncTransferred
  BY <1>3, SyncEndKeeps DEF SyncTransferred, Compare, IInv, StoreOK
<1>4. CASE SyncUnchanged
  <2>1. sync.cred.id \in Ids \cup {NoId}
    BY DEF IInv, SyncOK, Login
  <2> QED BY <1>4, <2>1, SyncEndKeeps DEF SyncUnchanged, Compare
<1>5. CASE SyncMark
  <2> DEFINE ok == current = sync.cred.id \/ Selectable(sync.cred.id)
  <2>1. sync.pc = "mark" /\ SyncEnd(ok) /\ ok \in BOOLEAN /\ UNCHANGED <<store, auth, server, ghosts>>
    BY <1>5 DEF SyncMark, Selectable
  <2>2. current' \in Ids \cup {NoId}
    BY <1>5 DEF SyncMark, IInv, StoreOK, SyncOK, Login
  <2> HIDE DEF ok
  <2> QED BY <2>1, <2>2, SyncEndKeeps
<1>6. CASE SyncRenewed
  <2> DEFINE i == sync.cred.id
             a == [status |-> "active", tok |-> sync.cred.tok]
  <2>1. i \in Ids /\ a \in RealAccount /\ a # Absent
    BY <1>6, <1>0 DEF SyncRenewed, IInv, SyncOK, RealLogin, Login, RealAccount, Account, Tokens, ManagerConstants
  <2>2. /\ store' = [store EXCEPT ![i] = a] /\ sync' = [sync EXCEPT !.pc = "mark"]
        /\ UNCHANGED <<current, job, plan, auth, server, ghosts>> /\ sync.pc = "read"
    BY <1>6 DEF SyncRenewed, Compare
  <2>3. StoreOK' /\ StoreKept
    BY <2>1, <2>2 DEF IInv, StoreOK, StoreKept, RealLogin
  <2>4. SyncOK'
    BY <2>1, <2>2 DEF IInv, SyncOK, RealLogin
  <2>5. JobsOK' /\ PlanOK' /\ ServerOK' /\ NothingForgotten /\ me' = me
    BY <2>2 DEF IInv, JobsOK, PlanOK, ServerOK, server, ghosts, NothingForgotten, Remembered, me
  <2> QED BY <1>0, <2>2, <2>3, <2>4, <2>5, HandoffUndisturbed DEF IInv
<1> QED BY <1>1, <1>2, <1>3, <1>4, <1>5, <1>6 DEF Sync, SyncApply

-----------------------------------------------------------------------------
(* How the page action moves *)

\* What the invariant says of the operations.
OperationsOK == JobsOK /\ SyncOK /\ PlanOK /\ Transaction /\ ExportedArePresent /\ MarkedIsPlanned

\* No account is marked without a transfer file.
AllRemembered == \A i \in Ids : store[i] # Absent /\ store[i].status = "transferred" => Remembered(i)

\* The page action alone is somewhere else.
MovesTo(j) == j \in Jobs /\ Holds(j) /\ job' = [job EXCEPT ![User] = j] /\ me.pc # "sync" /\ sync' = sync

\* The page action does not await the sync when it moves.
LEMMA PageActionMoves ==
  ASSUME ManagerConstants, IInv, NEW j, MovesTo(j)
  PROVE  JobsOK' /\ SyncOK' /\ me' = j
<1>0. User \in Actors /\ \A i \in Ids : i # User
  BY DEF Actors, ManagerConstants
<1>1. JobsOK' /\ me' = j
  BY <1>0 DEF IInv, JobsOK, MovesTo, me
<1>2. SyncOK'
  BY <1>0 DEF IInv, SyncOK, RealLogin, JobsOK, MovesTo, me
<1> QED BY <1>1, <1>2

\* GoTo moves it, for a step at which nothing need be held.
LEMMA GoToMoves ==
  ASSUME ManagerConstants, IInv, NEW pc \in {"lock", "mark", "file", "fallback", "current", "undoCurrent"},
         GoTo(pc), sync' = sync, me.pc # "sync"
  PROVE  \E j : MovesTo(j) /\ j.pc = pc
<1> DEFINE j == [job[User] EXCEPT !.pc = pc]
<1>1. job[User] \in Jobs /\ job \in [Actors -> Jobs] /\ User \in Actors
  BY DEF IInv, JobsOK, Actors
<1>2. j \in Jobs /\ j.pc = pc
  BY <1>1 DEF Jobs, Steps
<1>3. Holds(j)
  BY <1>1, <1>2 DEF Holds
<1>4. job' = [job EXCEPT ![User] = j]
  BY <1>1 DEF GoTo
<1> HIDE DEF j
<1> QED BY <1>2, <1>3, <1>4 DEF MovesTo

\* Hold moves it, with the account it has read.
LEMMA HoldMoves ==
  ASSUME ManagerConstants, IInv, NEW i \in Ids \cup {NoId}, NEW account \in RealAccount \cup {Absent},
         NEW pc \in Steps \ {"idle", "given", "sync", "synced"}, Fit(i, pc, "switch", account),
         Hold(i, account, pc), sync' = sync, me.pc # "sync"
  PROVE  \E j : MovesTo(j) /\ j.pc = pc /\ j.at = i
<1> DEFINE no == FALSE
           j == At(i, pc, plan.op, account, no)
<1>0. no \in BOOLEAN
  OBVIOUS
<1>1. plan.op \in Kinds
  BY DEF IInv, PlanOK, Plans, Kinds
<1>2. Fit(i, pc, plan.op, account)
  BY DEF Fit
<1>4. job' = [job EXCEPT ![User] = j]
  BY DEF Hold
<1> HIDE DEF no
<1>3. j \in Jobs /\ Holds(j) /\ j.pc = pc /\ j.at = i
  BY <1>0, <1>1, <1>2, AtIsJob
<1> HIDE DEF j
<1> QED BY <1>3, <1>4 DEF MovesTo

\* Before a handoff has marked anything, and when none runs, nothing is marked without a file.
LEMMA NothingMarked ==
  ASSUME IInv, ~plan.tx
  PROVE  AllRemembered
BY DEF IInv, MarkedIsPlanned, AllRemembered

\* What is remembered stays remembered while nothing is marked.
LEMMA StillRemembered ==
  ASSUME AllRemembered, StoreKept, NothingForgotten, Absent \notin Account
  PROVE  AllRemembered'
BY DEF AllRemembered, StoreKept, NothingForgotten

\* The page action goes on without a transaction.
LEMMA PlainMove ==
  ASSUME ManagerConstants, IInv, NEW j, MovesTo(j), plan' \in Plans, plan'.todo \subseteq plan'.set,
         ~plan'.tx, j.pc \notin MarkingSteps, AllRemembered', ExportedArePresent'
  PROVE  OperationsOK'
<1>1. JobsOK' /\ SyncOK' /\ me' = j
  BY PageActionMoves
<1>2. PlanOK' /\ Transaction'
  BY <1>1 DEF PlanOK, Transaction
<1>3. MarkedIsPlanned'
  BY DEF MarkedIsPlanned, AllRemembered
<1> QED BY <1>1, <1>2, <1>3 DEF OperationsOK

\* The page action ends.
LEMMA DoneKeeps ==
  ASSUME ManagerConstants, IInv, Done, sync' = sync, me.pc # "sync", AllRemembered'
  PROVE  OperationsOK'
<1>1. MovesTo(Idle) /\ plan' = NoPlan
  BY IdleIsJob DEF Done, MovesTo
<1>2. me' = Idle
  BY <1>1, PageActionMoves
<1>3. ExportedArePresent'
  BY <1>2, IdleIsJob DEF ExportedArePresent, Exporting
<1>4. plan' \in Plans /\ plan'.todo \subseteq plan'.set /\ ~plan'.tx
  BY <1>1, NoPlanIsPlan
<1>5. Idle.pc \notin MarkingSteps
  BY IdleIsJob DEF MarkingSteps
<1> QED BY <1>1, <1>3, <1>4, <1>5, PlainMove

\* A handoff that has marked accounts goes on, with the same plan but for what is left to do.
LEMMA HandoffMoves ==
  ASSUME ManagerConstants, IInv, NEW j, MovesTo(j), plan.tx, j.pc \in HandoffSteps \ {"undo", "undoAuth", "undoCurrent"},
         StoreKept, NothingForgotten, plan' = plan,
         me.pc \notin {"undo", "undoAuth", "undoCurrent"},
         j.pc \in {"rotate", "rotated", "refused"} => j.at \in Ids /\ store'[j.at] # Absent
  PROVE  OperationsOK'
<1>0. plan.set \subseteq Ids /\ me.pc \notin {"idle", "sync", "synced"}
  BY DEF IInv, PlanOK, Plans, Transaction, HandoffSteps, MarkingSteps
<1>1. JobsOK' /\ SyncOK' /\ me' = j
  BY PageActionMoves
<1>2. PlanOK'
  BY DEF IInv, PlanOK
<1>3. Transaction'
  BY <1>0, <1>1 DEF IInv, Transaction, NothingForgotten
<1>4. ExportedArePresent'
  BY <1>0, <1>1 DEF IInv, ExportedArePresent, Exporting, StoreKept, Transaction, Exports
<1>5. MarkedIsPlanned'
  <2> SUFFICES ASSUME NEW i \in Ids, store'[i] # Absent, store'[i].status = "transferred", ~Remembered(i)'
               PROVE  plan.tx /\ i \in plan.set /\ j.pc \notin {"undo", "undoAuth", "undoCurrent"}
    BY <1>1 DEF MarkedIsPlanned
  <2>1. store[i] # Absent /\ store[i].status = "transferred" /\ ~Remembered(i)
    BY DEF StoreKept, NothingForgotten
  <2> QED BY <2>1 DEF IInv, MarkedIsPlanned
<1> QED BY <1>1, <1>2, <1>3, <1>4, <1>5 DEF OperationsOK

\* Whatever throws, a job, a page action or a handoff, which turns to its rollback, the invariant stays.
LEMMA ThrownKeeps ==
  ASSUME ManagerConstants, IInv, NEW p \in Actors, Thrown(p), job[p].pc # "sync", sync' = sync,
         StoreKept, NothingForgotten
  PROVE  OperationsOK'
<1>0. NoId \notin Ids /\ Absent \notin Account /\ User \in Actors /\ \A i \in Ids : i # User
  BY DEF ManagerConstants, Actors
<1>1. CASE p # User
  <2>1. p \in Ids /\ job' = [job EXCEPT ![p] = Idle] /\ plan' = plan
    BY <1>1 DEF Thrown, Actors
  <2>2. me' = me /\ PlanOK'
    BY <1>0, <2>1 DEF me, IInv, JobsOK, PlanOK
  <2>3. JobsOK'
    BY <2>1, IdleIsJob DEF IInv, JobsOK, Operations
  <2>4. SyncOK'
    BY <2>1 DEF IInv, SyncOK, RealLogin, JobsOK
  <2> QED BY <1>0, <2>1, <2>2, <2>3, <2>4, HandoffUndisturbed DEF OperationsOK
<1>2. CASE p = User /\ ~plan.tx
  BY <1>0, <1>2, NothingMarked, StillRemembered, DoneKeeps DEF Thrown, Done, me
<1>3. CASE p = User /\ plan.tx
  <2> DEFINE j == Blank("undo", "none", NoId)
  <2>1. MovesTo(j) /\ j.pc = "undo" /\ plan' = [plan EXCEPT !.todo = plan.set]
    BY <1>3, IdleIsJob DEF Thrown, MovesTo, me
  <2> HIDE DEF j
  <2>2. JobsOK' /\ SyncOK' /\ me' = j
    BY <2>1, PageActionMoves
  <2>3. plan \in Plans /\ plan' \in Plans /\ plan'.todo = plan.set
        /\ plan'.set = plan.set /\ plan'.tx /\ plan'.op = plan.op /\ plan'.was = plan.was /\ plan'.snaps = plan.snaps
    BY <1>3, <2>1 DEF IInv, PlanOK, Plans
  <2>4. PlanOK' /\ plan.set \subseteq Ids
    BY <2>3 DEF PlanOK, Plans
  <2>5. Transaction'
    BY <1>3, <2>1, <2>2, <2>3, <2>4 DEF IInv, Transaction, NothingForgotten, HandoffSteps, MarkingSteps
  <2>6. Exporting
    BY <1>3 DEF IInv, Transaction, Exporting, HandoffSteps, MarkingSteps, Exports
  <2>7. ExportedArePresent'
    BY <2>1, <2>2, <2>3, <2>4, <2>6 DEF IInv, ExportedArePresent, StoreKept
  <2>8. MarkedIsPlanned'
    <3> SUFFICES ASSUME NEW i \in Ids, store'[i] # Absent, store'[i].status = "transferred", ~Remembered(i)'
                 PROVE  i \in plan.set
      BY <2>1, <2>2, <2>3 DEF MarkedIsPlanned
    <3>1. store[i] # Absent /\ store[i].status = "transferred" /\ ~Remembered(i)
      BY DEF StoreKept, NothingForgotten
    <3> QED BY <3>1 DEF IInv, MarkedIsPlanned
  <2> QED BY <2>2, <2>4, <2>5, <2>7, <2>8 DEF OperationsOK
<1> QED BY <1>1, <1>2, <1>3

\* Whoever presents a refresh token.
LEMMA RotateKeeps ==
  ASSUME ManagerConstants, IInv, NEW p \in Actors, Rotate(p)
  PROVE  IInv'
<1> DEFINE i == job[p].at
           t == job[p].read.tok
           taken == [job[p] EXCEPT !.pc = "rotated", !.new = issued[i] + 1]
           refused == [job[p] EXCEPT !.pc = "refused"]
           At1 == t \in live[i] /\ Issue(i, t)
<1>0. NoId \notin Ids /\ Absent \notin Account /\ User \in Actors /\ \A k \in Ids : k \in Actors /\ k # User
  BY DEF ManagerConstants, Actors
<1>1. /\ job[p] \in Jobs /\ Holds(job[p]) /\ job[p].pc = "rotate" /\ i \in Ids
      /\ UNCHANGED <<store, current, auth, sync, expired, handed>>
  BY DEF Rotate, IInv, JobsOK, Holds
<1>2. StoreKept
  BY <1>1 DEF StoreKept
<1>3. StoreOK'
  BY <1>1 DEF IInv, StoreOK
<1>4. \/ /\ At1 /\ spent' = [spent EXCEPT ![i] = @ \cup {t}] /\ job' = [job EXCEPT ![p] = taken]
         /\ plan' = plan /\ gone' = gone
      \/ At1 /\ gone' = gone \cup {i} /\ Thrown(p) /\ spent' = spent
      \/ job' = [job EXCEPT ![p] = refused] /\ UNCHANGED <<plan, issued, live, spent, gone>>
      \/ Thrown(p) /\ UNCHANGED <<issued, live, spent, gone>>
  BY DEF Rotate, IInv, JobsOK
<1>5. ASSUME NEW j \in Jobs, Holds(j), j.pc \in {"rotated", "refused"}, j.at = i, j.kind = job[p].kind,
             job' = [job EXCEPT ![p] = j], plan' = plan, gone' = gone
      PROVE  OperationsOK'
  <2>1. NothingForgotten
    BY <1>1, <1>5 DEF NothingForgotten, Remembered
  <2>2. CASE p \in Ids
    <3>1. me' = me /\ PlanOK'
      BY <1>0, <1>5, <2>2 DEF me, IInv, JobsOK, PlanOK
    <3>2. JobsOK'
      BY <1>0, <1>5, <2>2 DEF IInv, JobsOK
    <3>3. SyncOK'
      BY <1>1, <1>5 DEF IInv, SyncOK, RealLogin, JobsOK
    <3> QED BY <1>0, <1>2, <1>5, <2>1, <3>1, <3>2, <3>3, HandoffUndisturbed DEF OperationsOK
  <2>3. CASE p = User
    <3>1. MovesTo(j) /\ me.pc = "rotate" /\ me.at = i
      BY <1>1, <1>5, <2>3 DEF MovesTo, me
    <3>2. CASE plan.tx
      <4>1. store[i] # Absent
        BY <3>1, <3>2 DEF IInv, Transaction, ExportedArePresent, Exporting, Exports
      <4> QED BY <1>1, <1>2, <1>5, <2>1, <3>1, <3>2, <4>1, HandoffMoves DEF HandoffSteps
    <3>3. CASE ~plan.tx
      <4>1. plan' \in Plans /\ plan'.todo \subseteq plan'.set /\ ~plan'.tx
        BY <1>5, <3>3 DEF IInv, PlanOK
      <4>2. AllRemembered'
        BY <1>0, <1>2, <2>1, <3>3, NothingMarked, StillRemembered
      <4>3. ExportedArePresent'
        BY <1>1, <1>5, <3>1, PageActionMoves DEF IInv, ExportedArePresent, Exporting
      <4>4. j.pc \notin MarkingSteps
        BY <1>5 DEF MarkingSteps
      <4> QED BY <3>1, <4>1, <4>2, <4>3, <4>4, PlainMove
    <3> QED BY <3>2, <3>3
  <2> QED BY <2>2, <2>3 DEF Actors
<1>6. CASE /\ At1 /\ spent' = [spent EXCEPT ![i] = @ \cup {t}] /\ job' = [job EXCEPT ![p] = taken]
           /\ plan' = plan /\ gone' = gone
  <2>1. ServerOK' /\ issued[i] + 1 \in 1 .. MaxTokens
    BY <1>1, <1>6, Issued DEF IInv, ServerOK
  <2>2. issued[i] + 1 \in Tokens /\ issued[i] + 1 # 0
    BY <2>1 DEF Tokens, ManagerConstants
  <2>3. taken \in Jobs
    BY <1>1, <2>2 DEF Jobs, Steps
  <2>4. Holds(taken) /\ taken.pc = "rotated" /\ taken.at = i /\ taken.kind = job[p].kind
    BY <1>1, <2>2 DEF Jobs, Holds
  <2> HIDE DEF taken
  <2> QED BY <1>3, <1>5, <1>6, <2>1, <2>3, <2>4 DEF IInv, OperationsOK
<1>7. CASE job' = [job EXCEPT ![p] = refused] /\ UNCHANGED <<plan, issued, live, spent, gone>>
  <2>1. refused \in Jobs
    BY <1>1 DEF Jobs, Steps
  <2>2. Holds(refused) /\ refused.pc = "refused" /\ refused.at = i /\ refused.kind = job[p].kind
    BY <1>1 DEF Jobs, Holds
  <2>3. ServerOK'
    BY <1>1, <1>7 DEF IInv, ServerOK
  <2> HIDE DEF refused
  <2> QED BY <1>3, <1>5, <1>7, <2>1, <2>2, <2>3 DEF IInv, OperationsOK
<1>8. CASE At1 /\ gone' = gone \cup {i} /\ Thrown(p) /\ spent' = spent
  <2>1. ServerOK'
    BY <1>1, <1>8, Issued DEF IInv, ServerOK
  <2>2. NothingForgotten
    BY <1>1, <1>8 DEF NothingForgotten, Remembered
  <2> QED BY <1>1, <1>2, <1>3, <1>8, <2>1, <2>2, ThrownKeeps DEF IInv, OperationsOK
<1>9. CASE Thrown(p) /\ UNCHANGED <<issued, live, spent, gone>>
  <2>1. ServerOK'
    BY <1>1, <1>9 DEF IInv, ServerOK
  <2>2. NothingForgotten
    BY <1>1, <1>9 DEF NothingForgotten, Remembered
  <2> QED BY <1>1, <1>2, <1>3, <1>9, <2>1, <2>2, ThrownKeeps DEF IInv, OperationsOK
<1> QED BY <1>4, <1>6, <1>7, <1>8, <1>9

-----------------------------------------------------------------------------
(* The page actions *)

\* A step that leaves files, server and ghosts alone has only the operations to account for.
LEMMA OperationsOnly ==
  ASSUME IInv, UNCHANGED <<store, current, auth, server, ghosts>>, OperationsOK'
  PROVE  IInv'
<1>1. StoreOK' /\ ServerOK'
  BY DEF IInv, StoreOK, ServerOK, server, ghosts
<1> QED BY <1>1 DEF IInv, OperationsOK

\* Such a step forgets nothing.
LEMMA NothingChanges ==
  ASSUME UNCHANGED <<store, ghosts>>
  PROVE  StoreKept /\ NothingForgotten
BY DEF StoreKept, NothingForgotten, Remembered, ghosts

\* A step before a handoff marks accounts, with a plan that does not either.
LEMMA BeforeMarking ==
  ASSUME ManagerConstants, IInv, ~plan.tx, StoreKept, NothingForgotten, NEW j, MovesTo(j),
         plan' \in Plans, plan'.todo \subseteq plan'.set, ~plan'.tx, j.pc \notin MarkingSteps,
         plan'.op \in Exports /\ j.pc \notin {"idle", "sync", "synced"} =>
           /\ \A i \in plan'.set : store'[i] # Absent
           /\ j.pc \in {"rotate", "rotated", "refused"} => store'[j.at] # Absent
  PROVE  OperationsOK'
<1>1. AllRemembered'
  BY NothingMarked, StillRemembered DEF ManagerConstants
<1>2. me' = j
  BY PageActionMoves
<1>3. ExportedArePresent'
  BY <1>2 DEF ExportedArePresent, Exporting
<1> QED BY <1>1, <1>3, PlainMove

\* A step of a page action that ends it before anything is marked.
LEMMA DoneBefore ==
  ASSUME ManagerConstants, IInv, ~plan.tx, StoreKept, NothingForgotten, Done, sync' = sync, me.pc # "sync"
  PROVE  OperationsOK'
BY NothingMarked, StillRemembered, DoneKeeps DEF ManagerConstants

\* A page action starts.
LEMMA UserStartKeeps ==
  ASSUME ManagerConstants, IInv, NEW op \in Ops, NEW set \in (SUBSET Ids) \ {{}}, UserStart(op, set)
  PROVE  IInv'
<1>1. /\ me.pc = "idle" /\ plan' = Planned(op, set) /\ sync' = sync /\ op \in Operations
      /\ UNCHANGED <<store, current, auth, server, ghosts>>
  BY DEF UserStart, ManagerConstants
<1>2. ~plan.tx
  BY <1>1 DEF IInv, Transaction, HandoffSteps, MarkingSteps
<1>3. plan' \in Plans /\ plan'.todo = set /\ plan'.set = set /\ ~plan'.tx /\ plan'.op = op
  BY <1>1, NoPlanIsPlan DEF Planned, Plans
<1> DEFINE x == CHOOSE k \in set : TRUE
           no == FALSE
<1>4. x \in set /\ x \in Ids /\ no \in BOOLEAN
  <2>0. set # {}
    OBVIOUS
  <2>1. \E k : k \in set
    BY <2>0
  <2>2. x \in set
    BY <2>1, Zenon
  <2>3. no \in BOOLEAN
    OBVIOUS
  <2> QED BY <2>2, <2>3
<1>5. op = "restore" => store[x] \in RealAccount
  BY <1>4 DEF UserStart, IInv, StoreOK
<1>6. job' = [job EXCEPT ![User] = IF op = "restore" THEN At(x, "rotate", op, store[x], no)
                                                    ELSE At(NoId, "sync", op, Absent, no)]
  BY DEF UserStart
<1> HIDE DEF x, no
<1> DEFINE j == IF op = "restore" THEN At(x, "rotate", op, store[x], no) ELSE At(NoId, "sync", op, Absent, no)
<1>7. j \in Jobs /\ Holds(j) /\ j.pc = IF op = "restore" THEN "rotate" ELSE "sync"
  <2>1. op \in Kinds /\ {"rotate", "sync"} \subseteq Steps
    BY <1>1 DEF Kinds, Steps
  <2>2. op = "restore" => Fit(x, "rotate", op, store[x])
    BY <1>4, <1>5 DEF Fit
  <2>3. Fit(NoId, "sync", op, Absent)
    BY <1>1 DEF Fit
  <2> QED BY <1>4, <1>5, <2>1, <2>2, <2>3, AtIsJob
<1> HIDE DEF j
<1>8. MovesTo(j)
  BY <1>1, <1>6, <1>7 DEF MovesTo, j
<1>9. j.pc \notin MarkingSteps /\ (op \in Exports => j.pc = "sync")
  BY <1>7 DEF MarkingSteps, Exports
<1> QED BY <1>1, <1>2, <1>3, <1>8, <1>9, NothingChanges, BeforeMarking, OperationsOnly

\* The checks after the sync.
LEMMA UserSyncedKeeps ==
  ASSUME ManagerConstants, IInv, UserSynced
  PROVE  IInv'
<1>1. me.pc = "synced" /\ sync' = sync /\ UNCHANGED <<store, current, auth, server, ghosts>>
  BY DEF UserSynced
<1>2. ~plan.tx
  BY <1>1 DEF IInv, Transaction, HandoffSteps, MarkingSteps
<1>3. CASE Done
  BY <1>1, <1>2, <1>3, NothingChanges, DoneBefore, OperationsOnly
<1>4. CASE GoTo("lock") /\ plan' = plan /\ \A i \in plan.set : store[i] # Absent
  <2>1. PICK j : MovesTo(j) /\ j.pc = "lock"
    BY <1>1, <1>4, GoToMoves
  <2>2. plan' \in Plans /\ plan'.todo \subseteq plan'.set /\ ~plan'.tx /\ j.pc \notin MarkingSteps
    BY <1>2, <1>4, <2>1 DEF IInv, PlanOK, MarkingSteps
  <2>3. \A i \in plan'.set : store'[i] # Absent
    BY <1>1, <1>4
  <2> QED BY <1>1, <1>2, <2>1, <2>2, <2>3, NothingChanges, BeforeMarking, OperationsOnly
<1> QED BY <1>3, <1>4 DEF UserSynced, CanExport

\* The target of a switch is read under its lock.
LEMMA LockForSwitchKeeps ==
  ASSUME ManagerConstants, IInv, NEW i \in Ids, LockForSwitch(i)
  PROVE  IInv'
<1>1. /\ me.pc = "lock" /\ plan.op = "switch" /\ sync' = sync
      /\ UNCHANGED <<store, current, auth, server, ghosts>>
  BY DEF LockForSwitch
<1>2. ~plan.tx
  BY <1>1 DEF IInv, Transaction
<1>3. CASE Done
  BY <1>1, <1>2, <1>3, NothingChanges, DoneBefore, OperationsOnly
<1>4. CASE CanExport(i) /\ plan' = plan /\ \E pc \in Fresh(i, store[i], "auth", TRUE) : Hold(i, store[i], pc)
  <2>1. store[i] \in RealAccount
    BY <1>4 DEF CanExport, IInv, StoreOK
  <2>2. PICK pc \in {"rotate", "auth"} : Hold(i, store[i], pc)
    BY <1>4 DEF Fresh, CanExport
  <2>3. Fit(i, pc, "switch", store[i]) /\ pc \in Steps \ {"idle", "given", "sync", "synced"}
    BY <2>1 DEF Fit, Steps, Operations
  <2>4. PICK j : MovesTo(j) /\ j.pc = pc
    BY <1>1, <2>1, <2>2, <2>3, HoldMoves
  <2>5. plan' \in Plans /\ plan'.todo \subseteq plan'.set /\ ~plan'.tx /\ j.pc \notin MarkingSteps
        /\ plan'.op \notin Exports
    BY <1>1, <1>2, <1>4, <2>4 DEF IInv, PlanOK, MarkingSteps, Exports
  <2> QED BY <1>1, <1>2, <2>4, <2>5, NothingChanges, BeforeMarking, OperationsOnly
<1> QED BY <1>3, <1>4 DEF LockForSwitch

\* An account is removed: no handoff runs.
LEMMA LockForRemoveKeeps ==
  ASSUME ManagerConstants, IInv, NEW i \in Ids, LockForRemove(i)
  PROVE  IInv'
<1>1. /\ me.pc = "lock" /\ plan.op = "remove" /\ Done /\ sync' = sync
      /\ store' = (IF current = i THEN store ELSE [store EXCEPT ![i] = Absent])
      /\ UNCHANGED <<current, auth, server, ghosts>>
  BY DEF LockForRemove
<1>2. ~plan.tx
  BY <1>1 DEF IInv, Transaction
<1>3. AllRemembered'
  BY <1>1, <1>2, NothingMarked DEF AllRemembered, Remembered, ghosts, IInv, StoreOK
<1>4. StoreOK' /\ ServerOK'
  BY <1>1 DEF IInv, StoreOK, RealLogin, ServerOK, server, ghosts
<1> QED BY <1>1, <1>3, <1>4, DoneKeeps DEF IInv, OperationsOK

\* An export refreshes its accounts one after the other.
LEMMA LockForExportKeeps ==
  ASSUME ManagerConstants, IInv, NEW i \in Ids, LockForExport(i)
  PROVE  IInv'
<1>1. /\ me.pc = "lock" /\ plan.op \in Exports /\ i \in plan.todo /\ sync' = sync
      /\ UNCHANGED <<store, current, auth, server, ghosts>>
  BY DEF LockForExport
<1>2. ~plan.tx
  BY <1>1 DEF IInv, Transaction, HandoffSteps, MarkingSteps
<1>3. CASE Done
  BY <1>1, <1>2, <1>3, NothingChanges, DoneBefore, OperationsOnly
<1>4. CASE CanExport(i) /\ Hold(i, store[i], "rotate") /\ plan' = [plan EXCEPT !.todo = @ \ {i}]
  <2>1. store[i] \in RealAccount /\ store[i] # Absent
    BY <1>4 DEF CanExport, IInv, StoreOK
  <2>2. Fit(i, "rotate", "switch", store[i]) /\ "rotate" \in Steps \ {"idle", "given", "sync", "synced"}
    BY <2>1 DEF Fit, Steps, Operations
  <2>3. PICK j : MovesTo(j) /\ j.pc = "rotate" /\ j.at = i
    BY <1>1, <1>4, <2>1, <2>2, HoldMoves
  <2>4. plan' \in Plans /\ plan'.todo \subseteq plan'.set /\ ~plan'.tx /\ plan'.set = plan.set /\ plan'.op = plan.op
    BY <1>2, <1>4 DEF IInv, PlanOK, Plans
  <2>5. \A k \in plan'.set : store'[k] # Absent
    BY <1>1, <2>4 DEF IInv, ExportedArePresent, Exporting
  <2>6. j.pc \notin MarkingSteps
    BY <2>3 DEF MarkingSteps
  <2> QED BY <1>1, <1>2, <2>1, <2>3, <2>4, <2>5, <2>6, NothingChanges, BeforeMarking, OperationsOnly
<1> QED BY <1>3, <1>4 DEF LockForExport

\* An operation brings an account up to date: no account leaves the library, none is marked.
LEMMA RenewedKept ==
  ASSUME ManagerConstants, IInv, NEW i \in Ids, Renews(i)
  PROVE  StoreKept /\ store' \in [Ids -> RealAccount \cup {Absent}]
<1>1. \A a \in RealAccount : a # Absent
  BY DEF RealAccount, Account, Tokens, ManagerConstants
<1> QED BY <1>1 DEF IInv, StoreOK, StoreKept, Renews

\* The page action saves the new tokens.
LEMMA UserSaveKeeps ==
  ASSUME ManagerConstants, IInv, UserSave
  PROVE  IInv'
<1> DEFINE i == me.at
           account == Refreshed(User)
           pc == IF plan.op = "switch" \/ plan.tx \/ (plan.op = "temporary" /\ i = current) THEN "auth" ELSE "lock"
<1>1. /\ me.pc = "rotated" /\ sync' = sync /\ UNCHANGED <<current, auth, server, ghosts>>
      /\ store' = Updated(i, account)
  BY DEF UserSave
<1>2. i \in Ids /\ account \in RealAccount /\ account.status = "active"
  BY <1>1 DEF IInv, JobsOK, Jobs, Actors, Holds, me, Refreshed, RealAccount, Tokens, ManagerConstants
<1>3. Renews(i)
  BY <1>1, <1>2 DEF Renews, Updated
<1>4. StoreKept /\ StoreOK' /\ ServerOK' /\ NothingForgotten
  BY <1>1, <1>2, <1>3, RenewedKept
     DEF IInv, StoreOK, RealLogin, ServerOK, server, ghosts, NothingForgotten, Remembered
<1>5. CASE Done /\ (plan.op = "restore" \/ store[i] = Absent)
  <2>1. ~plan.tx
    BY <1>1, <1>5 DEF IInv, Transaction, ExportedArePresent, Exporting, Exports
  <2> QED BY <1>1, <1>4, <1>5, <2>1, DoneBefore DEF IInv, OperationsOK
<1>6. CASE Hold(i, account, pc) /\ plan' = plan /\ store[i] # Absent
  <2>1. Fit(i, pc, "switch", account) /\ pc \in Steps \ {"idle", "given", "sync", "synced"}
    BY <1>2 DEF Fit, Steps, Operations
  <2>2. pc \in {"auth", "lock"} /\ (plan.tx => pc = "auth")
    OBVIOUS
  <2> HIDE DEF i, account, pc
  <2>3. PICK j : MovesTo(j) /\ j.pc = pc
    BY <1>1, <1>2, <1>6, <2>1, HoldMoves
  <2>4. CASE plan.tx
    BY <1>1, <1>4, <1>6, <2>2, <2>3, <2>4, HandoffMoves DEF IInv, OperationsOK, HandoffSteps
  <2>5. CASE ~plan.tx
    <3>1. plan' \in Plans /\ plan'.todo \subseteq plan'.set /\ ~plan'.tx /\ j.pc \notin MarkingSteps
      BY <1>6, <2>2, <2>3, <2>5 DEF IInv, PlanOK, MarkingSteps
    <3>2. plan'.op \in Exports => \A k \in plan'.set : store'[k] # Absent
      BY <1>1, <1>4, <1>6 DEF IInv, ExportedArePresent, Exporting, StoreKept, PlanOK, Plans
    <3> QED BY <1>1, <1>4, <2>2, <2>3, <2>5, <3>1, <3>2, BeforeMarking DEF IInv, OperationsOK
  <2> QED BY <2>4, <2>5
<1> QED BY <1>1, <1>5, <1>6 DEF UserSave

\* A refused token marks the account as rejected, or fails the handoff.
LEMMA UserRefusedKeeps ==
  ASSUME ManagerConstants, IInv, UserRefused
  PROVE  IInv'
<1>1. /\ me.pc = "refused" /\ Thrown(User) /\ sync' = sync /\ UNCHANGED <<current, auth, server, ghosts>>
      /\ store' = IF plan.tx THEN store ELSE Rejected(me.at)
  BY DEF UserRefused
<1>2. me.at \in Ids /\ User \in Actors
  BY <1>1 DEF IInv, JobsOK, Holds, Actors, me
<1>3. Renews(me.at)
  <2>1. CASE plan.tx
    BY <1>1, <2>1 DEF Renews
  <2>2. CASE ~plan.tx
    BY <1>1, <1>2, <2>2, StatusRenewed DEF Rejected
  <2> QED BY <2>1, <2>2
<1>4. StoreKept /\ StoreOK' /\ ServerOK' /\ NothingForgotten
  BY <1>1, <1>2, <1>3, RenewedKept
     DEF IInv, StoreOK, RealLogin, ServerOK, server, ghosts, NothingForgotten, Remembered
<1> QED BY <1>1, <1>2, <1>4, ThrownKeeps DEF IInv, OperationsOK, me

\* All accounts of an export are refreshed: a handoff remembers them and is about to mark them.
LEMMA UserRefreshedKeeps ==
  ASSUME ManagerConstants, IInv, UserRefreshed
  PROVE  IInv'
<1>1. /\ me.pc = "lock" /\ plan.op \in Exports /\ sync' = sync
      /\ UNCHANGED <<store, current, auth, server, ghosts>>
  BY DEF UserRefreshed
<1>2. ~plan.tx /\ plan.set \subseteq Ids
  BY <1>1 DEF IInv, Transaction, HandoffSteps, MarkingSteps, PlanOK, Plans
<1>3. \A i \in plan.set : store[i] # Absent
  BY <1>1 DEF IInv, ExportedArePresent, Exporting
<1>4. CASE plan.op = "temporary" /\ GoTo("file") /\ plan' = plan
  <2>1. PICK j : MovesTo(j) /\ j.pc = "file"
    BY <1>1, <1>4, GoToMoves
  <2>2. plan' \in Plans /\ plan'.todo \subseteq plan'.set /\ ~plan'.tx /\ j.pc \notin MarkingSteps
    BY <1>2, <1>4, <2>1 DEF IInv, PlanOK, MarkingSteps
  <2> QED BY <1>1, <1>2, <1>3, <1>4, <2>1, <2>2, NothingChanges, BeforeMarking, OperationsOnly
<1> DEFINE snaps == [i \in Ids |-> IF i \in plan.set THEN store[i] ELSE Absent]
<1>5. CASE /\ plan.op = "handoff" /\ GoTo("mark")
           /\ plan' = [plan EXCEPT !.tx = TRUE, !.todo = plan.set, !.snaps = snaps, !.was = LoggedIn]
  <2>0. snaps \in [Ids -> RealAccount \cup {Absent}] /\ \A i \in plan.set : snaps[i] = store[i]
    BY <1>2 DEF IInv, StoreOK
  <2> HIDE DEF snaps
  <2>1. PICK j : MovesTo(j) /\ j.pc = "mark"
    BY <1>1, <1>5, GoToMoves
  <2>2. JobsOK' /\ SyncOK' /\ me' = j
    BY <2>1, PageActionMoves
  <2>3. LoggedIn \in plan.set \cup {NoId}
    BY DEF LoggedIn
  <2>4. plan' \in Plans
    BY <1>2, <1>5, <2>0, <2>3 DEF IInv, PlanOK, Plans
  <2>5. plan'.tx /\ plan'.todo = plan.set /\ plan'.set = plan.set /\ plan'.op = "handoff"
    BY <1>5 DEF IInv, PlanOK, Plans
  <2>6. plan'.snaps = snaps /\ plan'.was = LoggedIn
    BY <1>5 DEF IInv, PlanOK, Plans
  <2>7. AllRemembered
    BY <1>2, NothingMarked
  <2>8. AllRemembered'
    BY <1>1, <2>7 DEF AllRemembered, Remembered, ghosts
  <2>9. Transaction'
    <3>1. \A i \in plan'.set : /\ plan'.snaps[i] \in RealAccount
                               /\ plan'.snaps[i].status = "transferred" => Remembered(i)'
      BY <1>1, <1>2, <1>3, <2>0, <2>5, <2>6, <2>8 DEF AllRemembered, IInv, StoreOK
    <3> QED BY <2>1, <2>2, <2>3, <2>5, <2>6, <3>1 DEF Transaction, HandoffSteps, MarkingSteps
  <2>10. ExportedArePresent'
    BY <1>1, <1>3, <2>1, <2>2, <2>5 DEF ExportedArePresent
  <2>11. MarkedIsPlanned'
    BY <2>8 DEF AllRemembered, MarkedIsPlanned
  <2>12. PlanOK'
    BY <2>4, <2>5 DEF PlanOK
  <2> QED BY <1>1, <2>2, <2>9, <2>10, <2>11, <2>12, OperationsOnly DEF OperationsOK
<1> QED BY <1>1, <1>4, <1>5 DEF UserRefreshed, Exports

\* One of a handoff's accounts is done with.
LEMMA OneLessToDo ==
  ASSUME IInv, NEW i \in plan.todo, plan' = [plan EXCEPT !.todo = @ \ {i}]
  PROVE  /\ PlanOK' /\ plan'.todo = plan.todo \ {i} /\ plan'.set = plan.set /\ plan'.tx = plan.tx
         /\ plan'.op = plan.op /\ plan'.was = plan.was /\ plan'.snaps = plan.snaps /\ i \in plan.set
         /\ plan.set \subseteq Ids
BY DEF IInv, PlanOK, Plans

\* A handoff marks its accounts, fails, or goes on to the login.
LEMMA UserMarkKeeps ==
  ASSUME ManagerConstants, IInv, UserMark
  PROVE  IInv'
<1>0. NoId \notin Ids /\ Absent \notin Account /\ User \in Actors
  BY DEF ManagerConstants, Actors
<1>1. /\ me.pc = "mark" /\ sync' = sync /\ UNCHANGED <<current, auth, server, ghosts>>
  BY DEF UserMark
<1>2. plan.tx /\ NothingForgotten /\ ServerOK'
  BY <1>1 DEF IInv, Transaction, MarkingSteps, NothingForgotten, Remembered, ghosts, ServerOK, server
<1>3. ASSUME NEW i \in plan.todo, store' = Updated(i, [store[i] EXCEPT !.status = "transferred"]),
             plan' = [plan EXCEPT !.todo = @ \ {i}], job' = job
      PROVE  IInv'
  <2>1. /\ PlanOK' /\ plan'.todo = plan.todo \ {i} /\ plan'.set = plan.set /\ plan'.tx
        /\ plan'.op = plan.op /\ plan'.was = plan.was /\ plan'.snaps = plan.snaps /\ i \in plan.set
        /\ plan.set \subseteq Ids
    BY <1>2, <1>3, OneLessToDo
  <2>2. store[i] \in RealAccount /\ store[i] # Absent
    BY <1>1, <1>2, <2>1 DEF IInv, StoreOK, Transaction, ExportedArePresent, Exporting, Exports
  <2> DEFINE a == [store[i] EXCEPT !.status = "transferred"]
  <2>3. a \in RealAccount /\ a # Absent
    BY <1>0, <2>2, WithStatus DEF RealAccount, Account, Tokens, ManagerConstants
  <2>4. store' = [store EXCEPT ![i] = a]
    BY <1>3, <2>2 DEF Updated
  <2> HIDE DEF a
  <2>5. StoreOK' /\ \A k \in Ids : k # i => store'[k] = store[k]
    BY <1>1, <2>1, <2>3, <2>4 DEF IInv, StoreOK, RealLogin
  <2>6. JobsOK' /\ SyncOK' /\ me' = me
    BY <1>1, <1>3 DEF IInv, JobsOK, SyncOK, RealLogin, me
  <2>7. Transaction'
    BY <1>2, <2>1, <2>6 DEF IInv, Transaction, NothingForgotten
  <2>8. ExportedArePresent'
    BY <1>1, <1>2, <2>1, <2>3, <2>4, <2>5, <2>6 DEF IInv, StoreOK, Transaction, ExportedArePresent, Exporting, Exports
  <2>9. MarkedIsPlanned'
    <3> SUFFICES ASSUME NEW k \in Ids, store'[k] # Absent, store'[k].status = "transferred", ~Remembered(k)'
                 PROVE  k \in plan.set
      BY <1>1, <2>1, <2>6 DEF MarkedIsPlanned
    <3>1. CASE k = i
      BY <2>1, <3>1
    <3>2. CASE k # i
      BY <1>2, <2>5, <3>2 DEF IInv, MarkedIsPlanned, NothingForgotten
    <3> QED BY <3>1, <3>2
  <2> QED BY <1>2, <2>1, <2>5, <2>6, <2>7, <2>8, <2>9 DEF IInv
<1>4. CASE Thrown(User) /\ store' = store
  <2>1. StoreKept /\ StoreOK'
    BY <1>1, <1>4 DEF StoreKept, IInv, StoreOK
  <2> QED BY <1>0, <1>1, <1>2, <1>4, <2>1, ThrownKeeps DEF IInv, OperationsOK, me
<1>5. ASSUME NEW pc \in {"file", "fallback"}, GoTo(pc), store' = store, plan' = plan PROVE IInv'
  <2>1. PICK j : MovesTo(j) /\ j.pc = pc
    BY <1>1, <1>5, GoToMoves
  <2>2. StoreKept /\ StoreOK'
    BY <1>1, <1>5 DEF StoreKept, IInv, StoreOK
  <2> QED BY <1>1, <1>2, <1>5, <2>1, <2>2, HandoffMoves DEF IInv, OperationsOK, HandoffSteps, MarkingSteps
<1> QED BY <1>3, <1>4, <1>5 DEF UserMark

\* The login of a handed-off account goes to another one, if there is one.
LEMMA UserFallbackKeeps ==
  ASSUME ManagerConstants, IInv, UserFallback
  PROVE  IInv'
<1>1. /\ me.pc = "fallback" /\ sync' = sync /\ plan' = plan
      /\ UNCHANGED <<store, current, auth, server, ghosts>>
  BY DEF UserFallback
<1>2. plan.tx
  BY <1>1 DEF IInv, Transaction, MarkingSteps
<1>3. ASSUME NEW i \in Ids \cup {NoId}, NEW pc \in {"auth", "lockFallback"}, Hold(i, Absent, pc),
             pc = "auth" <=> i = NoId
      PROVE  IInv'
  <2>1. Fit(i, pc, "switch", Absent) /\ pc \in Steps \ {"idle", "given", "sync", "synced"}
    BY <1>3 DEF Fit, Steps, Operations
  <2>2. PICK j : MovesTo(j) /\ j.pc = pc
    BY <1>1, <1>3, <2>1, HoldMoves
  <2> QED BY <1>1, <1>2, <2>2, NothingChanges, HandoffMoves, OperationsOnly DEF HandoffSteps, MarkingSteps
<1>4. NoId \notin Ids
  BY DEF ManagerConstants
<1> DEFINE others == {i \in Ids \ plan.set : CanExport(i)}
<1>5. Hold(NoId, Absent, "auth") \/ \E i \in others : Hold(i, Absent, "lockFallback")
  BY DEF UserFallback
<1> QED BY <1>3, <1>4, <1>5

\* The other account is read under its lock.
LEMMA LockForFallbackKeeps ==
  ASSUME ManagerConstants, IInv, LockForFallback
  PROVE  IInv'
<1> DEFINE i == me.at
<1>1. me.pc = "lockFallback" /\ sync' = sync /\ UNCHANGED <<store, current, auth, server, ghosts>>
  BY DEF LockForFallback
<1>2. plan.tx /\ i \in Ids /\ User \in Actors
  BY <1>1 DEF IInv, Transaction, MarkingSteps, JobsOK, Holds, Actors, me
<1>3. CASE Thrown(User)
  BY <1>1, <1>2, <1>3, NothingChanges, ThrownKeeps, OperationsOnly DEF me
<1>4. CASE CanExport(i) /\ plan' = plan /\ \E pc \in Fresh(i, store[i], "auth", TRUE) : Hold(i, store[i], pc)
  <2>1. store[i] \in RealAccount /\ store[i] # Absent
    BY <1>2, <1>4 DEF CanExport, IInv, StoreOK
  <2>2. PICK pc \in {"rotate", "auth"} : Hold(i, store[i], pc)
    BY <1>4 DEF Fresh, CanExport
  <2>3. Fit(i, pc, "switch", store[i]) /\ pc \in Steps \ {"idle", "given", "sync", "synced"}
    BY <1>2, <2>1 DEF Fit, Steps, Operations
  <2> HIDE DEF i
  <2>4. PICK j : MovesTo(j) /\ j.pc = pc /\ j.at = i
    BY <1>1, <1>2, <2>1, <2>2, <2>3, HoldMoves
  <2> QED BY <1>1, <1>2, <1>4, <2>1, <2>4, NothingChanges, HandoffMoves, OperationsOnly DEF HandoffSteps, MarkingSteps
<1> QED BY <1>3, <1>4 DEF LockForFallback

\* The login file is written, or that fails.
LEMMA UserAuthKeeps ==
  ASSUME ManagerConstants, IInv, UserAuth
  PROVE  IInv'
<1> DEFINE login == IF me.at = NoId THEN NoLogin ELSE [id |-> me.at, tok |-> me.read.tok]
           pc == IF plan.op = "temporary" THEN "lock" ELSE "current"
<1>0. NoId \notin Ids /\ User \in Actors /\ 0 \in Tokens
  BY DEF ManagerConstants, Actors, Tokens
<1>1. me.pc = "auth" /\ sync' = sync /\ UNCHANGED <<store, current, server, ghosts>>
  BY DEF UserAuth
<1>2. me \in Jobs /\ (me.at # NoId => me.at \in Ids /\ me.read \in RealAccount)
  BY <1>0, <1>1 DEF IInv, JobsOK, Holds, Jobs, me
<1>3. RealLogin(login)
  BY <1>0, <1>2 DEF RealLogin, Login, NoLogin, RealAccount, Tokens, ManagerConstants
<1>4. auth' \in {auth, login}
  BY DEF UserAuth
<1>5. StoreOK' /\ ServerOK'
  BY <1>1, <1>3, <1>4 DEF IInv, StoreOK, ServerOK, server, ghosts
<1> HIDE DEF login
<1>6. StoreKept /\ NothingForgotten
  BY <1>1, NothingChanges
<1>7. CASE Thrown(User)
  BY <1>0, <1>1, <1>5, <1>6, <1>7, ThrownKeeps DEF IInv, OperationsOK, me
<1>8. CASE GoTo(pc) /\ plan' = plan
  <2>1. PICK j : MovesTo(j) /\ j.pc = pc
    BY <1>1, <1>8, GoToMoves
  <2>2. CASE plan.tx
    <3>1. pc = "current"
      BY <2>2 DEF IInv, Transaction
    <3> QED BY <1>1, <1>5, <1>6, <1>8, <2>1, <2>2, <3>1, HandoffMoves DEF IInv, OperationsOK, HandoffSteps
  <2>3. CASE ~plan.tx
    <3>1. plan' \in Plans /\ plan'.todo \subseteq plan'.set /\ ~plan'.tx /\ j.pc \notin MarkingSteps
          /\ j.pc \notin {"rotate", "rotated", "refused"}
      BY <1>8, <2>1, <2>3 DEF IInv, PlanOK, MarkingSteps
    <3>2. plan'.op \in Exports => \A k \in plan'.set : store'[k] # Absent
      BY <1>1, <1>8 DEF IInv, ExportedArePresent, Exporting
    <3> QED BY <1>1, <1>5, <1>6, <2>1, <2>3, <3>1, <3>2, BeforeMarking DEF IInv, OperationsOK
  <2> QED BY <2>2, <2>3
<1> QED BY <1>7, <1>8 DEF UserAuth

\* The marker follows, or the store refuses.
LEMMA UserCurrentKeeps ==
  ASSUME ManagerConstants, IInv, UserCurrent
  PROVE  IInv'
<1>0. User \in Actors
  BY DEF Actors
<1>1. /\ me.pc = "current" /\ sync' = sync /\ UNCHANGED <<store, auth, server, ghosts>>
      /\ current' \in {current, me.at}
  BY DEF UserCurrent
<1>2. StoreOK' /\ ServerOK'
  BY <1>0, <1>1 DEF IInv, StoreOK, ServerOK, server, ghosts, JobsOK, Jobs, me
<1>3. StoreKept /\ NothingForgotten
  BY <1>1, NothingChanges
<1>4. CASE Thrown(User)
  BY <1>0, <1>1, <1>2, <1>3, <1>4, ThrownKeeps DEF IInv, OperationsOK, me
<1>5. CASE plan.op = "switch" /\ Done
  <2>1. ~plan.tx
    BY <1>5 DEF IInv, Transaction
  <2> QED BY <1>1, <1>2, <1>3, <1>5, <2>1, DoneBefore DEF IInv, OperationsOK
<1>6. CASE GoTo("file") /\ plan' = plan
  <2>1. PICK j : MovesTo(j) /\ j.pc = "file"
    BY <1>1, <1>6, GoToMoves
  <2>2. CASE plan.tx
    BY <1>1, <1>2, <1>3, <1>6, <2>1, <2>2, HandoffMoves DEF IInv, OperationsOK, HandoffSteps
  <2>3. CASE ~plan.tx
    <3>1. plan' \in Plans /\ plan'.todo \subseteq plan'.set /\ ~plan'.tx /\ j.pc \notin MarkingSteps
      BY <1>6, <2>1, <2>3 DEF IInv, PlanOK, MarkingSteps
    <3>2. plan'.op \in Exports => \A k \in plan'.set : store'[k] # Absent
      BY <1>1, <1>6 DEF IInv, ExportedArePresent, Exporting
    <3> QED BY <1>1, <1>2, <1>3, <2>1, <2>3, <3>1, <3>2, BeforeMarking DEF IInv, OperationsOK
  <2> QED BY <2>2, <2>3
<1> QED BY <1>4, <1>5, <1>6 DEF UserCurrent

\* The transfer file is written: every marked account is in it.
LEMMA UserFileKeeps ==
  ASSUME ManagerConstants, IInv, UserFile
  PROVE  IInv'
<1>0. User \in Actors
  BY DEF Actors
<1>1. /\ me.pc = "file" /\ sync' = sync /\ UNCHANGED <<store, current, auth, issued, live, expired, spent, gone>>
  BY DEF UserFile, server
<1>2. StoreOK'
  BY <1>1 DEF IInv, StoreOK
<1>3. CASE Thrown(User) /\ handed' = handed
  <2>1. ServerOK' /\ StoreKept /\ NothingForgotten
    BY <1>1, <1>3 DEF IInv, ServerOK, StoreKept, NothingForgotten, Remembered
  <2> QED BY <1>0, <1>1, <1>2, <1>3, <2>1, ThrownKeeps DEF IInv, OperationsOK, me
<1>4. CASE Done /\ handed' = [i \in Ids |-> IF plan.tx /\ i \in plan.set THEN plan.snaps[i].tok ELSE handed[i]]
  <2>1. ASSUME NEW i \in plan.set, plan.tx PROVE plan.snaps[i].tok \in Tokens \ {0}
    BY <2>1 DEF IInv, Transaction, RealAccount, Tokens, ManagerConstants
  <2>2. handed' \in [Ids -> Tokens]
    BY <1>4, <2>1 DEF IInv, ServerOK
  <2>3. ServerOK'
    BY <1>1, <2>2 DEF IInv, ServerOK
  <2>4. AllRemembered'
    <3> SUFFICES ASSUME NEW i \in Ids, store[i] # Absent, store[i].status = "transferred"
                 PROVE  handed'[i] # 0 \/ i \in gone
      BY <1>1 DEF AllRemembered, Remembered
    <3>1. CASE plan.tx /\ i \in plan.set
      BY <1>4, <2>1, <3>1
    <3>2. CASE ~(plan.tx /\ i \in plan.set)
      BY <1>4, <3>2 DEF IInv, MarkedIsPlanned, Remembered
    <3> QED BY <3>1, <3>2
  <2> QED BY <1>1, <1>2, <1>4, <2>3, <2>4, DoneKeeps DEF IInv, OperationsOK
<1> QED BY <1>3, <1>4 DEF UserFile

\* One account of the library is rolled back, or the write that does it fails.
LEMMA RolledBack ==
  ASSUME ManagerConstants, IInv, me.pc = "undo", NEW i \in plan.todo, plan' = [plan EXCEPT !.todo = @ \ {i}],
         job' = job, UNCHANGED <<current, auth, sync, server, handed, spent>>,
         \/ store' = [store EXCEPT ![i] = plan.snaps[i]] /\ gone' = gone
         \/ store' = store /\ gone' = gone \cup {i}
  PROVE  IInv'
<1>0. Absent \notin Account /\ \A a \in RealAccount : a # Absent
  BY DEF ManagerConstants, RealAccount, Account, Tokens
<1>1. /\ PlanOK' /\ plan'.todo = plan.todo \ {i} /\ plan'.set = plan.set /\ plan'.tx = plan.tx
      /\ plan'.op = plan.op /\ plan'.was = plan.was /\ plan'.snaps = plan.snaps /\ i \in plan.set
      /\ plan.set \subseteq Ids
  BY OneLessToDo
<1>2. plan.tx /\ plan.snaps[i] \in RealAccount /\ (plan.snaps[i].status = "transferred" => Remembered(i))
  BY <1>1 DEF IInv, Transaction, MarkingSteps
<1>3. NothingForgotten /\ ServerOK' /\ me' = me
  BY <1>1 DEF NothingForgotten, Remembered, IInv, ServerOK, server, me
<1>4. store' \in [Ids -> RealAccount \cup {Absent}] /\ (\A k \in Ids : k # i => store'[k] = store[k])
      /\ \A k \in Ids : store[k] # Absent => store'[k] # Absent
  BY <1>0, <1>1, <1>2 DEF IInv, StoreOK
<1>5. StoreOK' /\ JobsOK' /\ SyncOK'
  BY <1>4 DEF IInv, StoreOK, RealLogin, JobsOK, SyncOK
<1>6. Transaction'
  BY <1>1, <1>2, <1>3 DEF IInv, Transaction, NothingForgotten
<1>7. ExportedArePresent'
  BY <1>1, <1>2, <1>3, <1>4 DEF IInv, Transaction, ExportedArePresent, Exporting, Exports
<1>8. MarkedIsPlanned'
  <2> SUFFICES ASSUME NEW k \in Ids, store'[k] # Absent, store'[k].status = "transferred", ~Remembered(k)'
               PROVE  k \in plan.set /\ k \in plan.todo \ {i}
    BY <1>1, <1>2, <1>3 DEF MarkedIsPlanned
  <2>1. ~Remembered(k)
    BY <1>3 DEF NothingForgotten
  <2>2. k # i
    BY <1>1, <1>2, <2>1 DEF IInv, StoreOK, Remembered
  <2> QED BY <1>4, <2>1, <2>2 DEF IInv, MarkedIsPlanned
<1> QED BY <1>1, <1>3, <1>5, <1>6, <1>7, <1>8 DEF IInv

\* A handoff's page action is at its rollback, where nothing is left that is marked without a file.
LEMMA RollbackMoves ==
  ASSUME ManagerConstants, IInv, NEW j, MovesTo(j), plan.tx, plan' = plan, AllRemembered, StoreKept, NothingForgotten,
         j.pc \in {"undoAuth", "undoCurrent"}, me.pc \in {"undo", "undoAuth"}
  PROVE  OperationsOK'
<1>1. JobsOK' /\ SyncOK' /\ me' = j /\ PlanOK' /\ plan.set \subseteq Ids
  BY PageActionMoves DEF IInv, PlanOK, Plans
<1>2. Transaction'
  BY <1>1 DEF IInv, Transaction, NothingForgotten, HandoffSteps, MarkingSteps
<1>3. ExportedArePresent'
  BY <1>1 DEF IInv, ExportedArePresent, Exporting, StoreKept
<1>4. MarkedIsPlanned'
  <2>1. AllRemembered'
    BY StillRemembered DEF ManagerConstants
  <2> QED BY <2>1 DEF AllRemembered, MarkedIsPlanned
<1> QED BY <1>1, <1>2, <1>3, <1>4 DEF OperationsOK

\* The rollback of the library, and what follows it.
LEMMA UserUndoKeeps ==
  ASSUME ManagerConstants, IInv, UserUndo
  PROVE  IInv'
<1>1. me.pc = "undo" /\ sync' = sync /\ UNCHANGED <<current, auth, server, handed, spent>>
  BY DEF UserUndo
<1>2. plan.tx
  BY <1>1 DEF IInv, Transaction, MarkingSteps
<1>3. CASE \E i \in plan.todo :
             /\ plan' = [plan EXCEPT !.todo = @ \ {i}] /\ job' = job
             /\ \/ store' = [store EXCEPT ![i] = plan.snaps[i]] /\ gone' = gone
                \/ gone' = gone \cup {i} /\ store' = store
  BY <1>1, <1>3, RolledBack
<1>4. CASE /\ plan.todo = {} /\ store' = store /\ gone' = gone
           /\ IF plan.was = NoId THEN Done
              ELSE Hold(plan.was, plan.snaps[plan.was], "undoAuth") /\ plan' = plan
  <2>1. AllRemembered
    BY <1>1, <1>4 DEF IInv, MarkedIsPlanned, AllRemembered
  <2>2. StoreKept /\ NothingForgotten /\ UNCHANGED <<store, current, auth, server, ghosts>>
    BY <1>1, <1>4 DEF StoreKept, NothingForgotten, Remembered, ghosts
  <2>3. CASE plan.was = NoId
    <3>1. AllRemembered'
      BY <2>1, <2>2, StillRemembered DEF ManagerConstants
    <3> QED BY <1>1, <1>4, <2>2, <2>3, <3>1, DoneKeeps, OperationsOnly
  <2>4. CASE plan.was # NoId
    <3> DEFINE i == plan.was
               account == plan.snaps[i]
    <3>1. i \in Ids /\ account \in RealAccount
      BY <1>2, <2>4 DEF IInv, Transaction, PlanOK, Plans
    <3>2. Hold(i, account, "undoAuth") /\ plan' = plan
      BY <1>4, <2>4
    <3> HIDE DEF i, account
    <3>3. Fit(i, "undoAuth", "switch", account) /\ "undoAuth" \in Steps \ {"idle", "given", "sync", "synced"}
      BY <3>1 DEF Fit, Steps, Operations
    <3>4. PICK j : MovesTo(j) /\ j.pc = "undoAuth"
      BY <1>1, <3>1, <3>2, <3>3, HoldMoves
    <3> QED BY <1>1, <1>2, <2>1, <2>2, <3>2, <3>4, RollbackMoves, OperationsOnly
  <2> QED BY <2>3, <2>4
<1> QED BY <1>3, <1>4 DEF UserUndo

\* The rollback of the login.
LEMMA UserUndoAuthKeeps ==
  ASSUME ManagerConstants, IInv, UserUndoAuth
  PROVE  IInv'
<1> DEFINE login == [id |-> me.at, tok |-> me.read.tok]
<1>1. /\ me.pc = "undoAuth" /\ sync' = sync /\ plan' = plan /\ GoTo("undoCurrent")
      /\ auth' \in {auth, login} /\ UNCHANGED <<store, current, server, ghosts>>
  BY DEF UserUndoAuth
<1>2. me.at \in Ids /\ me.read \in RealAccount
  BY <1>1 DEF IInv, JobsOK, Holds, Actors, me
<1>3. RealLogin(login)
  BY <1>2 DEF RealLogin, Login, RealAccount, Tokens, ManagerConstants
<1>4. StoreOK' /\ ServerOK'
  BY <1>1, <1>3 DEF IInv, StoreOK, ServerOK, server, ghosts
<1>5. plan.tx /\ AllRemembered
  BY <1>1 DEF IInv, Transaction, MarkingSteps, MarkedIsPlanned, AllRemembered
<1>6. PICK j : MovesTo(j) /\ j.pc = "undoCurrent"
  BY <1>1, GoToMoves
<1> QED BY <1>1, <1>4, <1>5, <1>6, NothingChanges, RollbackMoves DEF IInv, OperationsOK

\* The rollback of the marker ends it.
LEMMA UserUndoCurrentKeeps ==
  ASSUME ManagerConstants, IInv, UserUndoCurrent
  PROVE  IInv'
<1>1. /\ me.pc = "undoCurrent" /\ sync' = sync /\ Done /\ UNCHANGED <<store, auth, server, ghosts>>
      /\ current' \in {current, me.at}
  BY DEF UserUndoCurrent
<1>2. StoreOK' /\ ServerOK'
  BY <1>1 DEF IInv, StoreOK, ServerOK, server, ghosts, JobsOK, Jobs, Actors, me
<1>3. AllRemembered
  BY <1>1 DEF IInv, MarkedIsPlanned, AllRemembered
<1>4. AllRemembered'
  BY <1>1, <1>3, NothingChanges, StillRemembered DEF ManagerConstants
<1> QED BY <1>1, <1>2, <1>4, DoneKeeps DEF IInv, OperationsOK

-----------------------------------------------------------------------------
(* The theorems *)

\* Initially every account is active and nobody is under way.
LEMMA InitIInv ==
  ASSUME ManagerConstants, Init
  PROVE  IInv
<1>0. NoId \notin Ids /\ Absent \notin Account /\ 1 \in 1 .. MaxTokens /\ 0 \in Tokens /\ 1 \in Tokens /\ MaxTokens \in Nat
  BY DEF ManagerConstants, Tokens
<1>1. StoreOK
  BY <1>0 DEF Init, StoreOK, RealAccount, RealLogin, Login
<1>2. JobsOK /\ me = Idle
  BY IdleIsJob DEF Init, JobsOK, me, Actors, Operations
<1>3. SyncOK
  BY <1>0 DEF Init, SyncOK, Quiet, NoLogin, RealLogin, Login
<1>4. ServerOK
  BY <1>0 DEF Init, ServerOK, Tokens
<1>5. PlanOK /\ ~plan.tx
  BY NoPlanIsPlan DEF Init, PlanOK
<1>6. Transaction
  BY <1>2, <1>5, IdleIsJob DEF Transaction, MarkingSteps
<1>7. ExportedArePresent
  BY <1>2, IdleIsJob DEF ExportedArePresent, Exporting
<1>8. MarkedIsPlanned
  BY DEF Init, MarkedIsPlanned
<1> QED BY <1>1, <1>3, <1>2, <1>4, <1>5, <1>6, <1>7, <1>8 DEF IInv

\* A step that changes nothing.
LEMMA StutterKeeps ==
  ASSUME IInv, UNCHANGED vars
  PROVE  IInv'
<1>1. UNCHANGED <<store, current, auth, sync, job, plan, server, ghosts>>
  BY DEF vars
<1>2. StoreOK' /\ JobsOK' /\ SyncOK' /\ ServerOK' /\ PlanOK'
  BY <1>1 DEF IInv, StoreOK, JobsOK, SyncOK, ServerOK, PlanOK, server, ghosts
<1>3. Transaction' /\ ExportedArePresent' /\ MarkedIsPlanned'
  BY <1>1 DEF IInv, Transaction, ExportedArePresent, Exporting, MarkedIsPlanned, Remembered, me, ghosts
<1> QED BY <1>2, <1>3 DEF IInv

\* The inductive invariant holds of the library, the login, the operations and the server.
THEOREM AccountManagerInvariant ==
  ASSUME ManagerConstants
  PROVE  Spec => []IInv
<1>1. Init => IInv
  BY InitIInv
<1>2. IInv /\ [Next]_vars => IInv'
  <2> SUFFICES ASSUME IInv, [Next]_vars PROVE IInv'
    OBVIOUS
  <2>1. ASSUME NEW i \in Ids, Job(i) PROVE IInv'
    BY <2>1, StartRefreshKeeps, StartWakeupKeeps, JobSyncedKeeps, JobGivenKeeps, JobQuotaKeeps, JobSaveKeeps,
       JobRefusedKeeps DEF Job
  <2>2. CASE PageAction
    BY <2>2, UserStartKeeps, UserSyncedKeeps, LockForSwitchKeeps, LockForRemoveKeeps, LockForExportKeeps,
       UserSaveKeeps, UserRefusedKeeps, UserRefreshedKeeps, UserMarkKeeps, UserFallbackKeeps, LockForFallbackKeeps,
       UserAuthKeeps, UserCurrentKeeps, UserFileKeeps, UserUndoKeeps, UserUndoAuthKeeps, UserUndoCurrentKeeps
       DEF PageAction
  <2>3. ASSUME NEW p \in Actors, Rotate(p) PROVE IInv'
    BY <2>3, RotateKeeps
  <2> QED BY <2>1, <2>2, <2>3, SyncKeeps, OutsideKeeps, StutterKeeps DEF Next
<1> QED BY <1>1, <1>2, PTL DEF Spec

\* Every variable has its type.
THEOREM AccountManagerTypeCorrect ==
  ASSUME ManagerConstants
  PROVE  Spec => []TypeOK
<1>1. IInv => TypeOK
  <2> SUFFICES ASSUME IInv PROVE TypeOK
    OBVIOUS
  <2>0. RealAccount \subseteq Account /\ NoId \notin Ids /\ Absent \notin Account
    BY DEF RealAccount, Account, Tokens, ManagerConstants
  <2>1. /\ store \in [Ids -> Account \cup {Absent}] /\ current \in Ids \cup {NoId} /\ auth \in Login
        /\ sync \in [by : Actors \cup {Timer}, pc : {"idle", "read", "mark"}, cred : Login]
    BY <2>0 DEF IInv, StoreOK, RealLogin, SyncOK
  <2>2. ASSUME NEW p \in Actors
        PROVE  /\ job[p].at \in Ids \cup {NoId} /\ job[p].read \in Account \cup {Absent}
               /\ job[p].pc \in Locking => job[p].at # NoId /\ job[p].read # Absent
    BY <2>0 DEF IInv, JobsOK, Jobs, Holds, Locking
  <2> QED BY <2>1, <2>2 DEF IInv, ServerOK, PlanOK, Plans, TypeOK
<1> QED BY <1>1, AccountManagerInvariant, PTL

\* Whatever fails in a handoff, whatever is refreshed or synchronised meanwhile, an account is marked as
\* transferred at the end of a page action only if a file with it was written.
THEOREM HandoffIsWhole ==
  ASSUME ManagerConstants
  PROVE  Spec => []NoHalfHandoff
<1>1. IInv => NoHalfHandoff
  BY DEF IInv, Transaction, MarkedIsPlanned, NoHalfHandoff, Remembered, HandoffSteps, MarkingSteps, me
<1> QED BY <1>1, AccountManagerInvariant, PTL

-----------------------------------------------------------------------------
(* The rotation of tokens *)

Restricted == ~Opaque /\ ~Racing /\ Ops \subseteq {"switch", "remove"}

\* The page action's steps on the login the last sync has found, up to its own writes.
Settled == {"synced", "lock", "rotate", "rotated", "refused", "auth"}
Writing == {"auth", "current"}

\* No handoff is about, and a job is its account's.
Narrow ==
  /\ plan.op \in {"none", "switch", "remove"} /\ ~plan.tx
  /\ \A i \in Ids : (store[i] # Absent => store[i].status # "transferred") /\ handed[i] = 0
  /\ auth.id \in Ids /\ (sync.pc # "idle" => sync.cred.id \in Ids)
  /\ me.pc \in Settled \cup {"idle", "sync", "current"}
  /\ me.pc # "idle" => plan.op # "none"
  /\ me.pc \in {"rotate", "rotated", "refused", "auth", "current"} => plan.op = "switch" /\ me.at \in plan.set
  /\ \A i \in Ids : IF job[i].pc = "idle" THEN job[i] = Idle ELSE job[i].at = i /\ store[i] # Absent

\* Every token was issued.
KnownTokens ==
  /\ \A i \in Ids : store[i] # Absent => store[i].tok <= issued[i]
  /\ auth.tok <= issued[auth.id]
  /\ sync.pc # "idle" => sync.cred.tok <= issued[sync.cred.id]
  /\ \A p \in Actors : job[p].read # Absent =>
       job[p].at \in Ids /\ job[p].read.tok <= issued[job[p].at] /\ job[p].new <= issued[job[p].at]

\* A token is exchanged under the account's lock, until its successor is in the library.
Renewing(i) == job[i].pc = "rotated" \/ (me.pc = "rotated" /\ me.at = i)
LockIsHeld == me.pc \in Locking => job[me.at].pc = "idle"

\* The library's token is live or being renewed; a token a login may be made with.
Safe(i) == store[i] = Absent \/ store[i].tok \in live[i] \/ Renewing(i)
Works(i, t) == t \notin spent[i] /\ (i \in gone \/ t \in live[i])

\* The login lives in auth.json; an account without it, in the library.
LoginWorks == Works(auth.id, auth.tok)
OthersAreSafe ==
  \A i \in Ids \ gone :
    i # auth.id \/ me.pc \in Settled \/ (sync.by = User /\ sync.pc = "mark") => Safe(i)
StoreIsUnspent == \A i \in Ids : store[i] # Absent /\ store[i].tok \in spent[i] => Renewing(i)
SpentIsDead == \A i \in Ids : spent[i] \cap live[i] = {}

\* What the sync has read is the login as long as a page action relies on it, and no token that a
\* library entry would be wrong to have.
SyncKnows ==
  /\ sync.pc # "idle" /\ (me.pc \in Settled \/ sync.by = User) => sync.cred = auth
  /\ sync.pc = "read" =>
       /\ sync.cred.tok \notin spent[sync.cred.id]
       /\ \/ sync.cred.id \in gone \/ sync.cred.tok \in live[sync.cred.id]
          \/ auth.id = sync.cred.id /\ (store[auth.id] = Absent \/ store[auth.id].tok # auth.tok)
  /\ (\E p \in Actors : job[p].pc = "synced") => sync.pc = "idle"

\* A switch leaves the login alone until it writes another one, which works and will last.
PageActionKnows ==
  /\ me.pc \in Settled => current = auth.id
  /\ me.pc \in Settled \ {"synced"} => auth.id \notin plan.set
  /\ me.pc \in Writing => /\ me.read # Absent /\ me.read.tok \notin expired[me.at]
                          /\ store[me.at] # Absent /\ store[me.at].tok = me.read.tok
                          /\ job[me.at].pc \notin Locking /\ job[me.at].kind # "forced"
  /\ me.pc = "auth" => Works(me.at, me.read.tok)
  /\ me.pc = "current" => /\ auth = [id |-> me.at, tok |-> me.read.tok]
                          /\ sync.pc # "idle" /\ sync.cred.id = me.at => sync.cred.tok = me.read.tok

\* A login whose access is over is the current account's: its renewal is left to Codex.
LoginLasts ==
  auth.tok \in expired[auth.id] =>
    current = auth.id /\ (sync.pc # "idle" => sync.cred.id = auth.id)

\* A job that renews has a token nobody else has spent or is logged in with.
JobsKnow ==
  /\ \A p \in Actors : job[p].pc = "rotate" =>
       /\ job[p].read.tok \notin spent[job[p].at]
       /\ job[p].at = auth.id => job[p].read.tok # auth.tok
  /\ \A p \in Actors : job[p].pc = "rotated" =>
       /\ job[p].new \in live[job[p].at] /\ job[p].new \notin expired[job[p].at]
       /\ job[p].at = auth.id => job[p].new # auth.tok
  /\ \A i \in Ids : job[i].pc = "quota" /\ ~job[i].cur => job[i].read.tok \notin expired[i]
  /\ \A i \in Ids : job[i].kind = "retry" /\ job[i].pc \in {"sync", "synced"} => job[i].cur
  /\ \A i \in Ids : job[i].kind = "forced" /\ auth.id = i /\ store[i] # Absent /\ store[i].tok = auth.tok =>
       /\ sync.pc # "idle" => sync.cred.id = i
       /\ job[i].pc = "synced" => current = i

TokensInv ==
  /\ Narrow /\ KnownTokens /\ LockIsHeld
  /\ LoginWorks /\ OthersAreSafe /\ StoreIsUnspent /\ SpentIsDead
  /\ SyncKnows /\ PageActionKnows /\ LoginLasts /\ JobsKnow

-----------------------------------------------------------------------------
\* Who is who, and an account has a token.
LEMMA WhoIsWho ==
  ASSUME ManagerConstants
  PROVE  /\ Actors = Ids \cup {User} /\ User \notin Ids /\ Timer \notin Ids /\ User # Timer /\ NoId \notin Ids
         /\ \A a \in RealAccount : a # Absent /\ a.tok \in Nat /\ a.tok # 0
BY DEF ManagerConstants, Actors, RealAccount, Account, Tokens

\* The types as the proofs below use them.
LEMMA Typed ==
  ASSUME ManagerConstants, IInv
  PROVE  /\ store \in [Ids -> RealAccount \cup {Absent}] /\ job \in [Actors -> Jobs]
         /\ \A p \in Actors : Holds(job[p]) /\ job[p].new \in Nat
         /\ issued \in [Ids -> Nat] /\ gone \in SUBSET Ids
         /\ live \in [Ids -> SUBSET Nat] /\ expired \in [Ids -> SUBSET Nat] /\ spent \in [Ids -> SUBSET Nat]
         /\ \A i \in Ids : \A t \in live[i] \cup expired[i] \cup spent[i] : t \in Nat /\ t <= issued[i]
<1>1. Tokens \subseteq Nat
  BY DEF Tokens, ManagerConstants
<1>2. \A i \in Ids : issued[i] \in Nat /\ live[i] \cup expired[i] \cup spent[i] \subseteq 1 .. issued[i]
  BY <1>1 DEF IInv, ServerOK
<1>3. \A i \in Ids : \A t \in live[i] \cup expired[i] \cup spent[i] : t \in Nat /\ t <= issued[i]
  BY <1>2
<1>4. issued \in [Ids -> Nat] /\ gone \in SUBSET Ids /\ \A p \in Actors : job[p].new \in Nat
  BY <1>1 DEF IInv, ServerOK, JobsOK, Jobs
<1>5. live \in [Ids -> SUBSET Nat] /\ expired \in [Ids -> SUBSET Nat] /\ spent \in [Ids -> SUBSET Nat]
  BY <1>1 DEF IInv, ServerOK
<1> QED BY <1>3, <1>4, <1>5 DEF IInv, StoreOK, JobsOK

\* A sync that runs is awaited by the timer or by an actor that does nothing else.
LEMMA Awaiting ==
  ASSUME IInv, sync.pc # "idle", sync.by # Timer
  PROVE  sync.by \in Actors /\ job[sync.by].pc = "sync"
BY DEF IInv, SyncOK

-----------------------------------------------------------------------------
(* The jobs *)

\* The library has the account of a job as before, or with the token it has just been given.
Updates(i) ==
  /\ store' = store \/ \E a \in RealAccount : store' = [store EXCEPT ![i] = a] /\ a.status # "transferred"
  /\ store[i] # Absent
  /\ store'[i].tok = IF job[i].pc = "rotated" THEN job[i].new ELSE store[i].tok

\* What a job that goes on has to be sure of.
Sure(i, j) ==
  /\ IF j.pc = "idle" THEN j = Idle ELSE j.at = i
  /\ j.pc \notin {"synced", "rotated"}
  /\ j.read # Absent => j.at = i /\ j.read.tok <= issued[i] /\ j.new <= issued[i]
  /\ j.pc = "rotate" => j.read.tok \notin spent[i] /\ (i = auth.id => j.read.tok # auth.tok)
  /\ j.pc = "quota" /\ ~j.cur => j.read.tok \notin expired[i]
  /\ j.pc = "sync" /\ j.kind = "retry" => j.cur
  /\ j.pc = "rotate" \/ j.kind = "forced" => ~(me.pc \in Writing /\ me.at = i)
  /\ j.kind = "forced" /\ auth.id = i /\ store'[i].tok = auth.tok => (sync.pc # "idle" => sync.cred.id = i)

\* A job goes on without disturbing the others.
LEMMA JobGoesOn ==
  ASSUME ManagerConstants, IInv, TokensInv, NEW i \in Ids, NEW j \in Jobs, job' = [job EXCEPT ![i] = j],
         UNCHANGED <<current, auth, sync, plan, server, ghosts>>,
         Updates(i), Sure(i, j), ~(me.pc \in Locking /\ me.at = i)
  PROVE  TokensInv'
<1>0. /\ i \in Actors /\ i # User /\ Actors = Ids \cup {User} /\ User \notin Ids
      /\ store \in [Ids -> RealAccount \cup {Absent}] /\ job \in [Actors -> Jobs]
      /\ \A a \in RealAccount : a # Absent /\ a.tok \in Nat
  BY WhoIsWho, Typed
<1>1. /\ UNCHANGED <<current, auth, sync, plan, issued, live, expired, handed, spent, gone>>
      /\ me' = me /\ job'[i] = j /\ \A p \in Actors : p # i => job'[p] = job[p]
  BY <1>0 DEF server, ghosts, me
<1>2. /\ \A k \in Ids : k # i => store'[k] = store[k]
      /\ store'[i] # Absent /\ store'[i].status # "transferred"
  BY <1>0 DEF Updates, TokensInv, Narrow
<1>3. job[i].pc = "rotated" => /\ job[i].at = i /\ job[i].new \in live[i] /\ job[i].new \notin spent[i]
                               /\ job[i].new <= issued[i] /\ (i = auth.id => job[i].new # auth.tok)
  <2>1. job[i].pc = "rotated" => job[i].at = i /\ job[i].read # Absent
    BY <1>0, Typed DEF TokensInv, Narrow, Holds, Idle, Blank
  <2> QED BY <1>0, <2>1 DEF TokensInv, JobsKnow, KnownTokens, SpentIsDead
<1>4. \A k \in Ids \ {i} : Renewing(k)' <=> Renewing(k)
  BY <1>0, <1>1 DEF Renewing
<1>5. Renewing(i) => job[i].pc = "rotated"
  BY DEF Renewing, Locking
<1>6. Narrow'
  BY <1>0, <1>1, <1>2 DEF TokensInv, Narrow, Sure
<1>7. KnownTokens'
  BY <1>0, <1>1, <1>2, <1>3 DEF TokensInv, KnownTokens, Sure, Updates
<1>8. LockIsHeld'
  BY <1>0, <1>1 DEF TokensInv, LockIsHeld, Narrow, Locking
<1>9. LoginWorks' /\ SpentIsDead'
  BY <1>1 DEF TokensInv, LoginWorks, Works, SpentIsDead
<1>10. OthersAreSafe'
  <2>1. ASSUME NEW k \in Ids \ {i}, Safe(k) PROVE Safe(k)'
    BY <1>1, <1>2, <1>4, <2>1 DEF Safe
  <2>2. ASSUME Safe(i) PROVE Safe(i)'
    BY <1>1, <1>3, <1>5, <2>2 DEF Safe, Updates
  <2> QED BY <1>1, <2>1, <2>2 DEF TokensInv, OthersAreSafe
<1>11. StoreIsUnspent'
  <2>1. ASSUME NEW k \in Ids \ {i}, store'[k] # Absent, store'[k].tok \in spent'[k] PROVE Renewing(k)'
    BY <1>1, <1>2, <1>4, <2>1 DEF TokensInv, StoreIsUnspent
  <2>2. store'[i].tok \notin spent'[i]
    BY <1>1, <1>3, <1>5 DEF TokensInv, StoreIsUnspent, Updates
  <2> QED BY <2>1, <2>2 DEF StoreIsUnspent
<1>12. SyncKnows'
  <2>1. store[auth.id] = Absent \/ store[auth.id].tok # auth.tok
        => store'[auth.id] = Absent \/ store'[auth.id].tok # auth.tok
    BY <1>2, <1>3 DEF Updates, TokensInv, Narrow
  <2> QED BY <1>0, <1>1, <2>1 DEF TokensInv, SyncKnows, Sure
<1>13. PageActionKnows'
  <2>1. me.pc \in Writing => me.at \in Ids
    BY DEF TokensInv, Narrow, Writing, Settled, IInv, PlanOK, Plans
  <2>2. CASE me.at = i
    BY <1>0, <1>1, <1>2, <2>1, <2>2 DEF TokensInv, PageActionKnows, Sure, Updates, Works, Writing, Locking
  <2>3. CASE me.at # i
    BY <1>0, <1>1, <1>2, <2>1, <2>3 DEF TokensInv, PageActionKnows, Works, Writing
  <2> QED BY <2>2, <2>3
<1>14. LoginLasts'
  BY <1>1 DEF TokensInv, LoginLasts
<1>15. JobsKnow'
  BY <1>0, <1>1, <1>2 DEF TokensInv, JobsKnow, Sure
<1> QED BY <1>6, <1>7, <1>8, <1>9, <1>10, <1>11, <1>12, <1>13, <1>14, <1>15 DEF TokensInv

\* The record a job goes on with.
LEMMA WentOn ==
  ASSUME ManagerConstants, NEW i, NEW pc, NEW kind, NEW account, NEW cur
  PROVE  LET j == At(i, pc, kind, account, cur) IN
         /\ j.pc = pc
         /\ pc = "idle" => j = Idle
         /\ pc # "idle" => j.at = i /\ j.kind = kind
         /\ pc \notin {"idle", "given"} => j.read = account /\ j.cur = cur
         /\ pc \in {"idle", "given"} => j.read = Absent
         /\ j.new = 0
         /\ pc = "idle" => j.kind = "none"
BY DEF At, Blank, Idle

\* A job that goes on is one.
LEMMA WentOnIsJob ==
  ASSUME ManagerConstants, NEW i \in Ids, NEW pc \in Steps, NEW kind \in Kinds,
         NEW account \in RealAccount \cup {Absent}, NEW cur \in BOOLEAN
  PROVE  At(i, pc, kind, account, cur) \in Jobs
BY AtIsJob

\* What a job that has its account to itself, and whose account nobody renews, may take from the library.
LEMMA ReadsTheLibrary ==
  ASSUME ManagerConstants, Restricted, IInv, TokensInv, NEW i \in Ids, store[i] # Absent, ~Renewing(i)
  PROVE  /\ store[i] \in RealAccount /\ store[i].tok \in Nat /\ store[i].tok <= issued[i]
         /\ store[i].tok \notin spent[i]
         /\ auth.id = i /\ store[i].tok = auth.tok /\ store[i].tok \in expired[i] => current = i
         /\ store[i].tok \in expired[i] => ~(me.pc \in Writing /\ me.at = i)
<1>1. store[i] \in RealAccount /\ store[i].tok \in Nat
  BY WhoIsWho, Typed
<1>2. store[i].tok <= issued[i] /\ store[i].tok \notin spent[i]
  BY DEF TokensInv, KnownTokens, StoreIsUnspent
<1>3. auth.id = i /\ store[i].tok = auth.tok /\ store[i].tok \in expired[i] => current = i
  BY DEF TokensInv, LoginLasts
<1>4. store[i].tok \in expired[i] => ~(me.pc \in Writing /\ me.at = i)
  BY DEF TokensInv, PageActionKnows
<1> QED BY <1>1, <1>2, <1>3, <1>4

\* Nobody renews the account of a job that is at rest or awaits something else.
LEMMA NobodyRenews ==
  ASSUME ManagerConstants, IInv, TokensInv, NEW i \in Ids, job[i].pc # "rotated",
         job[i].pc # "idle" \/ Free(i)
  PROVE  ~Renewing(i) /\ ~(me.pc \in Locking /\ me.at = i)
<1>1. me.pc \in Locking /\ me.at = i => job[i].pc = "idle"
  BY DEF TokensInv, LockIsHeld
<1>2. me.pc \in Locking => plan.op # "restore"
  BY DEF TokensInv, Narrow, Locking
<1>3. ~(me.pc \in Locking /\ me.at = i)
  BY <1>1, <1>2 DEF Free, me
<1> QED BY <1>3 DEF Renewing, Locking

\* With access tokens that can be read, a reader renews those that are over and no others.
LEMMA FreshReads ==
  ASSUME Restricted, NEW i, NEW account, NEW ready, NEW sure \in BOOLEAN, NEW pc \in Fresh(i, account, ready, sure),
         ready \notin {"idle", "rotate"}
  PROVE  /\ pc \in {"idle", "rotate", ready}
         /\ pc = "rotate" => account.tok \in expired[i]
         /\ pc = ready => account.tok \notin expired[i] /\ account.status = "active"
BY DEF Fresh, Restricted

\* A refresh starts.
LEMMA StartRefreshKeepsTokens ==
  ASSUME ManagerConstants, Restricted, IInv, TokensInv, NEW i \in Ids, StartRefresh(i)
  PROVE  TokensInv'
<1> DEFINE cur == current = i
           no == FALSE
           next == IF current = i THEN {"sync"} ELSE Fresh(i, store[i], "quota", no)
<1>1. PICK pc \in next : job' = [job EXCEPT ![i] = At(i, pc, "refresh", store[i], cur)]
  BY DEF StartRefresh
<1>2. /\ Free(i) /\ job[i].pc = "idle" /\ store[i] # Absent /\ store' = store
      /\ UNCHANGED <<current, auth, sync, plan, server, ghosts>>
  BY DEF StartRefresh, Free
<1>3. ~Renewing(i) /\ ~(me.pc \in Locking /\ me.at = i)
  BY <1>2, NobodyRenews
<1>4. /\ pc \in {"sync", "idle", "rotate", "quota"}
      /\ pc = "rotate" => current # i /\ store[i].tok \in expired[i]
      /\ pc = "quota" => store[i].tok \notin expired[i]
  <2>1. CASE current = i
    BY <2>1
  <2>2. CASE current # i
    <3>1. pc \in Fresh(i, store[i], "quota", no) /\ no \in BOOLEAN
      BY <2>2
    <3> HIDE DEF next, no
    <3> QED BY <2>2, <3>1, FreshReads
  <2> QED BY <2>1, <2>2
<1> HIDE DEF next
<1>5. cur \in BOOLEAN
  OBVIOUS
<1> DEFINE j == At(i, pc, "refresh", store[i], cur)
<1> HIDE DEF cur
<1>6. j \in Jobs
  BY <1>2, <1>3, <1>4, <1>5, WentOnIsJob, ReadsTheLibrary DEF Steps, Kinds
<1>7. Sure(i, j)
  <2>1. /\ j.pc = pc /\ j.new = 0 /\ j.kind # "forced" /\ j.kind # "retry"
        /\ IF pc = "idle" THEN j = Idle ELSE j.at = i /\ j.read = store[i]
        /\ pc = "idle" => j.read = Absent
    BY <1>4, WentOn
  <2>2. /\ store[i].tok \notin spent[i] /\ store[i].tok \in Nat /\ store[i].tok <= issued[i]
        /\ auth.id = i /\ store[i].tok = auth.tok /\ store[i].tok \in expired[i] => current = i
        /\ store[i].tok \in expired[i] => ~(me.pc \in Writing /\ me.at = i)
    BY <1>2, <1>3, ReadsTheLibrary
  <2>3. issued[i] \in Nat
    BY Typed
  <2> HIDE DEF j
  <2> QED BY <1>4, <2>1, <2>2, <2>3 DEF Sure
<1>8. Updates(i)
  BY <1>2 DEF Updates
<1> QED BY <1>1, <1>2, <1>3, <1>6, <1>7, <1>8, JobGoesOn

\* A job that ends is sure of everything.
LEMMA RestIsSure ==
  ASSUME ManagerConstants, NEW i
  PROVE  Idle \in Jobs /\ Sure(i, Idle)
<1>1. Idle.pc = "idle" /\ Idle.kind = "none" /\ Idle.read = Absent
  BY DEF Idle, Blank
<1> QED BY <1>1, IdleIsJob DEF Sure

\* A run asks for other credentials, and waits.
LEMMA AskingIsSure ==
  ASSUME ManagerConstants, NEW i \in Ids, NEW no \in BOOLEAN, NEW j, j = At(i, "sync", "forced", Absent, no),
         ~(me.pc \in Writing /\ me.at = i), sync.pc = "idle"
  PROVE  j \in Jobs /\ Sure(i, j)
<1>1. j \in Jobs
  BY WentOnIsJob DEF Steps, Kinds
<1>2. j.pc = "sync" /\ j.kind = "forced" /\ j.at = i /\ j.read = Absent
  BY WentOn
<1> QED BY <1>1, <1>2 DEF Sure

\* A wake-up starts.
LEMMA StartWakeupKeepsTokens ==
  ASSUME ManagerConstants, IInv, TokensInv, NEW i \in Ids, StartWakeup(i)
  PROVE  TokensInv'
<1> DEFINE no == FALSE
           j == At(i, "sync", "wakeup", Absent, no)
<1>1. /\ Free(i) /\ job[i].pc = "idle" /\ store[i] # Absent /\ store' = store /\ job' = [job EXCEPT ![i] = j]
      /\ UNCHANGED <<current, auth, sync, plan, server, ghosts>>
  BY DEF StartWakeup, Free
<1>2. ~(me.pc \in Locking /\ me.at = i)
  BY <1>1, NobodyRenews
<1>3. no \in BOOLEAN
  OBVIOUS
<1> HIDE DEF no
<1>4. j \in Jobs /\ j.pc = "sync" /\ j.kind = "wakeup" /\ j.at = i /\ j.read = Absent
  BY <1>3, WentOn, WentOnIsJob DEF Steps, Kinds
<1> HIDE DEF j
<1>5. Sure(i, j) /\ Updates(i)
  BY <1>1, <1>4 DEF Sure, Updates
<1> QED BY <1>1, <1>2, <1>4, <1>5, JobGoesOn

\* Credentials are given back, or others are asked for.
LEMMA JobGivenKeepsTokens ==
  ASSUME ManagerConstants, Restricted, IInv, TokensInv, NEW i \in Ids, JobGiven(i)
  PROVE  TokensInv'
<1> DEFINE no == FALSE
           j == At(i, "sync", "forced", Absent, no)
<1>1. /\ job[i].pc = "given" /\ store' = store /\ UNCHANGED <<current, auth, sync, plan, server, ghosts>>
      /\ \/ FilesAtRest /\ job' = [job EXCEPT ![i] = j]
         \/ job' = [job EXCEPT ![i] = Idle]
  BY DEF JobGiven, Restricted
<1>2. ~(me.pc \in Locking /\ me.at = i)
  BY <1>1, NobodyRenews
<1>3. Updates(i)
  BY <1>1 DEF Updates, TokensInv, Narrow
<1>4. CASE FilesAtRest /\ job' = [job EXCEPT ![i] = j]
  <2>1. ~(me.pc \in Writing /\ me.at = i) /\ sync.pc = "idle"
    BY <1>4 DEF FilesAtRest, Writing, me
  <2>2. no \in BOOLEAN
    OBVIOUS
  <2> HIDE DEF no
  <2>3. j \in Jobs /\ Sure(i, j)
    BY <2>1, <2>2, AskingIsSure
  <2> HIDE DEF j
  <2> QED BY <1>1, <1>2, <1>3, <1>4, <2>3, JobGoesOn
<1>5. CASE job' = [job EXCEPT ![i] = Idle]
  BY <1>1, <1>2, <1>3, <1>5, RestIsSure, JobGoesOn
<1> QED BY <1>1, <1>4, <1>5

\* An account of the library with another status.
LEMMA StatusUpdates ==
  ASSUME ManagerConstants, IInv, TokensInv, NEW i \in Ids, NEW s \in {"active", "needsReauth"}, store[i] # Absent,
         job[i].pc # "rotated", store' = Updated(i, [store[i] EXCEPT !.status = s])
  PROVE  Updates(i)
<1> DEFINE a == [store[i] EXCEPT !.status = s]
<1>1. store[i] \in RealAccount /\ store \in [Ids -> RealAccount \cup {Absent}]
  BY Typed
<1>2. a \in RealAccount /\ a.status # "transferred" /\ a.tok = store[i].tok
  BY <1>1 DEF RealAccount
<1>3. store' = [store EXCEPT ![i] = a]
  BY DEF Updated
<1> HIDE DEF a
<1> QED BY <1>1, <1>2, <1>3 DEF Updates

\* The account is active, its token is renewed, or the refresh ends.
LEMMA JobQuotaKeepsTokens ==
  ASSUME ManagerConstants, IInv, TokensInv, NEW i \in Ids, JobQuota(i)
  PROVE  TokensInv'
<1> DEFINE j == job[i]
           next == IF j.cur THEN "sync" ELSE "rotate"
           retry == At(i, next, "retry", j.read, j.cur)
<1>1. /\ j.pc = "quota" /\ UNCHANGED <<current, auth, sync, plan, server, ghosts>>
      /\ \/ store' = Updated(i, [store[i] EXCEPT !.status = "active"]) /\ job' = [job EXCEPT ![i] = Idle]
         \/ j.read.tok \in expired[i] /\ job' = [job EXCEPT ![i] = retry] /\ store' = store
         \/ job' = [job EXCEPT ![i] = Idle] /\ store' = store
  BY DEF JobQuota
<1>2. ~(me.pc \in Locking /\ me.at = i) /\ store[i] # Absent
  BY <1>1, NobodyRenews DEF TokensInv, Narrow
<1>3. CASE store' = Updated(i, [store[i] EXCEPT !.status = "active"]) /\ job' = [job EXCEPT ![i] = Idle]
  <2>1. Updates(i)
    BY <1>1, <1>2, <1>3, StatusUpdates
  <2> QED BY <1>1, <1>2, <1>3, <2>1, RestIsSure, JobGoesOn
<1>4. CASE store' = store
  <2>1. Updates(i)
    BY <1>1, <1>2, <1>4 DEF Updates
  <2>2. CASE j.read.tok \in expired[i] /\ job' = [job EXCEPT ![i] = retry]
    <3>1. i \in Actors /\ j \in Jobs /\ Holds(j)
      BY Typed, WhoIsWho
    <3>2. j.cur /\ j.read # Absent /\ j.read \in RealAccount
      BY <1>1, <2>2, <3>1, WhoIsWho DEF TokensInv, JobsKnow, Holds
    <3>3. j.read.tok <= issued[i] /\ j.at = i
      BY <1>1, <3>1, <3>2 DEF TokensInv, KnownTokens, Narrow
    <3>4. j.cur \in BOOLEAN
      BY <3>1 DEF Jobs
    <3>5. next = "sync"
      BY <3>2
    <3> HIDE DEF next, j
    <3>6. retry \in Jobs /\ retry.pc = "sync" /\ retry.kind = "retry" /\ retry.at = i /\ retry.read = j.read
          /\ retry.cur = j.cur /\ retry.new = 0
      <4>1. next \in Steps /\ next \notin {"idle", "given"} /\ "retry" \in Kinds
        BY <3>5 DEF Steps, Kinds
      <4>2. retry \in Jobs
        BY <3>2, <3>4, <4>1, WentOnIsJob
      <4> QED BY <3>5, <4>1, <4>2, WentOn
    <3> HIDE DEF retry
    <3>7. issued[i] \in Nat
      BY Typed
    <3>8. Sure(i, retry)
      BY <3>2, <3>3, <3>6, <3>7 DEF Sure
    <3> QED BY <1>1, <1>2, <2>1, <2>2, <3>6, <3>8, JobGoesOn
  <2>3. CASE job' = [job EXCEPT ![i] = Idle]
    BY <1>1, <1>2, <2>1, <2>3, RestIsSure, JobGoesOn
  <2> QED BY <1>1, <1>3, <2>2, <2>3
<1> QED BY <1>1, <1>3, <1>4

\* A job whose sync is over reads its account again.
LEMMA JobSyncedKeepsTokens ==
  ASSUME ManagerConstants, Restricted, IInv, TokensInv, NEW i \in Ids, JobSynced(i)
  PROVE  TokensInv'
<1> DEFINE old == job[i]
           kind == old.kind
           no == FALSE
           yes == TRUE
           isCurrent == current = i
           cur == IF kind = "retry" THEN old.cur ELSE isCurrent
           Sent(pcs) == \E pc \in pcs : job' = [job EXCEPT ![i] = At(i, pc, kind, store[i], cur)]
           readers == IF store[i].status # "active" THEN {"idle"}
                      ELSE IF current = i THEN {"given", "idle"}
                      ELSE IF kind = "forced" THEN {"rotate"}
                      ELSE Fresh(i, store[i], "given", yes)
           retried == IF store[i].tok = old.read.tok THEN {"idle"} ELSE {"quota"}
           refreshed == IF current = i THEN {"quota"} ELSE Fresh(i, store[i], "quota", no)
<1>0. i \in Actors /\ old \in Jobs /\ no \in BOOLEAN /\ yes \in BOOLEAN
  BY Typed, WhoIsWho
<1>1. /\ old.pc = "synced" /\ store[i] # Absent /\ store' = store /\ sync.pc = "idle"
      /\ UNCHANGED <<current, auth, sync, plan, server, ghosts>>
  BY <1>0 DEF JobSynced, TokensInv, Narrow, SyncKnows
<1>2. /\ kind \in Wakeups => Sent(readers)
      /\ kind = "retry" => Sent(retried)
      /\ kind \notin Wakeups \cup {"retry"} => Sent(refreshed)
  BY <1>1 DEF JobSynced, Wakeups
<1>3. ~Renewing(i) /\ ~(me.pc \in Locking /\ me.at = i)
  BY <1>1, NobodyRenews
<1>4. /\ store[i] \in RealAccount /\ store[i].tok \in Nat /\ store[i].tok <= issued[i]
      /\ store[i].tok \notin spent[i] /\ issued[i] \in Nat
      /\ auth.id = i /\ store[i].tok = auth.tok /\ store[i].tok \in expired[i] => current = i
      /\ store[i].tok \in expired[i] => ~(me.pc \in Writing /\ me.at = i)
  BY <1>1, <1>3, ReadsTheLibrary, Typed
<1>5. kind = "forced" => /\ ~(me.pc \in Writing /\ me.at = i)
                         /\ auth.id = i /\ store[i].tok = auth.tok => current = i
  BY <1>1 DEF TokensInv, PageActionKnows, JobsKnow
<1>6. kind = "retry" => old.cur
  BY <1>1 DEF TokensInv, JobsKnow
<1>7. PICK pc \in {"idle", "given", "rotate", "quota"} :
        /\ job' = [job EXCEPT ![i] = At(i, pc, kind, store[i], cur)]
        /\ pc = "rotate" => current # i /\ (kind = "forced" \/ store[i].tok \in expired[i])
        /\ pc = "quota" => cur \/ store[i].tok \notin expired[i]
  <2>1. CASE kind \in Wakeups
    <3>1. PICK pc \in readers : job' = [job EXCEPT ![i] = At(i, pc, kind, store[i], cur)]
      BY <1>2, <2>1
    <3> HIDE DEF yes, kind, cur
    <3>2. /\ pc \in {"idle", "given", "rotate"}
          /\ pc = "rotate" => current # i /\ (kind = "forced" \/ store[i].tok \in expired[i])
      BY <1>0, <3>1, FreshReads
    <3> HIDE DEF readers
    <3> QED BY <3>1, <3>2
  <2>2. CASE kind = "retry"
    BY <1>2, <1>6, <2>2 DEF Wakeups
  <2>3. CASE kind \notin Wakeups \cup {"retry"}
    <3>1. PICK pc \in refreshed : job' = [job EXCEPT ![i] = At(i, pc, kind, store[i], cur)]
      BY <1>2, <2>3
    <3>2. current = i => cur
      BY <2>3
    <3> HIDE DEF no, kind, cur
    <3>3. /\ pc \in {"idle", "quota", "rotate"}
          /\ pc = "rotate" => current # i /\ store[i].tok \in expired[i]
          /\ pc = "quota" => cur \/ store[i].tok \notin expired[i]
      BY <1>0, <3>1, <3>2, FreshReads
    <3> HIDE DEF refreshed
    <3> QED BY <3>1, <3>3
  <2> QED BY <2>1, <2>2, <2>3
<1>8. kind \in Kinds /\ cur \in BOOLEAN
  BY <1>0 DEF Jobs
<1> DEFINE j == At(i, pc, kind, store[i], cur)
<1> HIDE DEF kind, cur
<1>9. j \in Jobs
  <2>1. pc \in Steps
    BY DEF Steps
  <2> QED BY <1>4, <1>8, <2>1, WentOnIsJob
<1>10. /\ j.pc = pc /\ j.new = 0
       /\ pc = "idle" => j = Idle /\ j.kind = "none" /\ j.read = Absent
       /\ pc # "idle" => j.at = i /\ j.kind = kind
       /\ pc = "given" => j.read = Absent
       /\ pc \in {"rotate", "quota"} => j.read = store[i] /\ j.cur = cur
  BY WentOn
<1> HIDE DEF j
<1>11. Sure(i, j)
  BY <1>1, <1>4, <1>5, <1>7, <1>10 DEF Sure
<1>12. Updates(i)
  BY <1>1 DEF Updates
<1> QED BY <1>1, <1>3, <1>7, <1>9, <1>11, <1>12, JobGoesOn DEF j

\* The new tokens are in the library.
LEMMA JobSaveKeepsTokens ==
  ASSUME ManagerConstants, IInv, TokensInv, NEW i \in Ids, JobSave(i)
  PROVE  TokensInv'
<1> DEFINE old == job[i]
           account == Refreshed(i)
           next == IF old.kind \in Wakeups THEN "given" ELSE "quota"
           j == At(i, next, old.kind, account, old.cur)
<1>1. old.pc = "rotated" /\ store[i] # Absent /\ UNCHANGED <<current, auth, sync, plan, server, ghosts>>
  BY DEF JobSave, TokensInv, Narrow, Idle, Blank
<1>2. store' = [store EXCEPT ![i] = account] /\ job' = [job EXCEPT ![i] = j]
  <2>1. i \in Actors /\ job \in [Actors -> Jobs]
    BY Typed, WhoIsWho
  <2> QED BY <1>1, <2>1 DEF JobSave, Updated
<1>3. /\ i \in Actors /\ old \in Jobs /\ Holds(old) /\ old.new \in Nat /\ old.at = i
      /\ old.read # Absent /\ old.kind \in Kinds /\ old.cur \in BOOLEAN /\ issued[i] \in Nat
  <2>1. i \in Actors /\ old \in Jobs /\ Holds(old) /\ old.new \in Nat /\ issued[i] \in Nat
    BY Typed, WhoIsWho
  <2>2. old.read # Absent
    BY <1>1, <2>1, WhoIsWho DEF Holds
  <2> QED BY <1>1, <2>1, <2>2 DEF Jobs, TokensInv, Narrow
<1>4. /\ old.new \in live[i] /\ old.new \notin expired[i] /\ (i = auth.id => old.new # auth.tok)
      /\ old.new <= issued[i] /\ old.new # 0
  BY <1>1, <1>3 DEF TokensInv, JobsKnow, KnownTokens, Holds
<1>5. account \in RealAccount /\ account.tok = old.new /\ account.status = "active"
  BY <1>3, <1>4 DEF Refreshed, RealAccount, Jobs, Tokens, ManagerConstants
<1>6. ~(me.pc \in Locking /\ me.at = i) /\ ~(me.pc \in Writing /\ me.at = i)
  BY <1>1, <1>3 DEF TokensInv, LockIsHeld, PageActionKnows, Locking
<1>7. Updates(i) /\ store'[i] = account
  <2>1. store \in [Ids -> RealAccount \cup {Absent}]
    BY Typed
  <2> HIDE DEF account
  <2> QED BY <1>1, <1>2, <1>5, <2>1 DEF Updates
<1>8. next \in {"given", "quota"} /\ next \in Steps
  BY DEF Steps
<1> HIDE DEF next, account, old
<1>9. j \in Jobs
  BY <1>3, <1>5, <1>8, WentOnIsJob
<1>10. /\ j.pc = next /\ j.new = 0 /\ j.at = i /\ j.kind = old.kind
       /\ next = "given" => j.read = Absent
       /\ next = "quota" => j.read = account
  BY <1>8, WentOn
<1> HIDE DEF j
<1>11. Sure(i, j)
  BY <1>3, <1>4, <1>5, <1>6, <1>7, <1>8, <1>10 DEF Sure
<1> QED BY <1>1, <1>2, <1>6, <1>7, <1>9, <1>11, JobGoesOn

\* A refused token marks the account.
LEMMA JobRefusedKeepsTokens ==
  ASSUME ManagerConstants, IInv, TokensInv, NEW i \in Ids, JobRefused(i)
  PROVE  TokensInv'
<1>1. /\ job[i].pc = "refused" /\ store' = Updated(i, [store[i] EXCEPT !.status = "needsReauth"])
      /\ job' = [job EXCEPT ![i] = Idle] /\ UNCHANGED <<current, auth, sync, plan, server, ghosts>>
  BY DEF JobRefused, Rejected
<1>2. ~(me.pc \in Locking /\ me.at = i) /\ store[i] # Absent
  BY <1>1, NobodyRenews DEF TokensInv, Narrow
<1>3. Updates(i)
  BY <1>1, <1>2, StatusUpdates
<1> QED BY <1>1, <1>2, <1>3, RestIsSure, JobGoesOn

-----------------------------------------------------------------------------
(* The page actions *)

\* The library's tokens stay, but for an account that is taken out of it.
LibraryRests ==
  /\ store' \in [Ids -> RealAccount \cup {Absent}]
  /\ \A k \in Ids :
       \/ store'[k] = Absent /\ job[k].pc = "idle"
       \/ store'[k] = store[k]
       \/ store[k] # Absent /\ store'[k] # Absent /\ store'[k].tok = store[k].tok /\ store'[k].status # "transferred"

\* What a page action that goes on has to be sure of.
SureOfPage(j) ==
  /\ plan'.op \in {"none", "switch", "remove"} /\ ~plan'.tx
  /\ j.pc \in {"idle", "sync", "lock", "rotate", "refused", "auth"} /\ (j.pc # "idle" => plan'.op # "none")
  /\ j.pc \in {"rotate", "refused", "auth"} => plan'.op = "switch" /\ j.at \in plan'.set
  /\ j.read # Absent => j.at \in Ids /\ j.read.tok <= issued[j.at] /\ j.new <= issued[j.at]
  /\ j.pc \in Settled => me.pc \in Settled /\ auth.id \notin plan'.set
  /\ j.pc = "rotate" => /\ job[j.at].pc = "idle" /\ j.read.tok \notin spent[j.at]
                        /\ j.at = auth.id => j.read.tok # auth.tok
  /\ j.pc = "auth" => /\ j.read # Absent /\ j.read.tok \notin expired[j.at]
                      /\ store[j.at] # Absent /\ store[j.at].tok = j.read.tok /\ store' = store
                      /\ job[j.at].pc \notin Locking /\ job[j.at].kind # "forced"
                      /\ Works(j.at, j.read.tok)

\* A page action goes on without disturbing the others.
LEMMA PageGoesOn ==
  ASSUME ManagerConstants, IInv, TokensInv, NEW j, job' = [job EXCEPT ![User] = j], LibraryRests,
         UNCHANGED <<current, auth, sync, server, ghosts>>,
         SureOfPage(j), me.pc # "rotated", plan'.set \in SUBSET Ids
  PROVE  TokensInv'
<1>0. /\ User \in Actors /\ Actors = Ids \cup {User} /\ User \notin Ids
      /\ store \in [Ids -> RealAccount \cup {Absent}] /\ job \in [Actors -> Jobs]
      /\ \A a \in RealAccount : a # Absent /\ a.tok \in Nat
  BY WhoIsWho, Typed
<1>1. /\ UNCHANGED <<current, auth, sync, issued, live, expired, handed, spent, gone>>
      /\ me' = j /\ \A i \in Ids : job'[i] = job[i]
  BY <1>0 DEF server, ghosts, me
<1>2. \A k \in Ids : Renewing(k)' <=> Renewing(k)
  BY <1>0, <1>1 DEF Renewing, SureOfPage
<1>3. Narrow'
  <2>1. \A k \in Ids : (store'[k] # Absent => store'[k].status # "transferred") /\ handed'[k] = 0
    BY <1>1 DEF TokensInv, Narrow, LibraryRests
  <2>2. \A k \in Ids : IF job'[k].pc = "idle" THEN job'[k] = Idle ELSE job'[k].at = k /\ store'[k] # Absent
    BY <1>1 DEF TokensInv, Narrow, LibraryRests
  <2>3. auth'.id \in Ids /\ (sync'.pc # "idle" => sync'.cred.id \in Ids)
    BY <1>1 DEF TokensInv, Narrow
  <2> QED BY <1>1, <2>1, <2>2, <2>3 DEF Narrow, SureOfPage, Settled
<1>4. KnownTokens'
  BY <1>0, <1>1 DEF TokensInv, KnownTokens, SureOfPage, LibraryRests
<1>5. LockIsHeld'
  <2>1. j.pc = "rotate" => j.at \in Ids
    BY DEF SureOfPage
  <2> QED BY <1>0, <1>1, <2>1 DEF LockIsHeld, SureOfPage, Locking
<1>6. LoginWorks' /\ SpentIsDead'
  BY <1>1 DEF TokensInv, LoginWorks, Works, SpentIsDead
<1>7. OthersAreSafe'
  <2>1. ASSUME NEW k \in Ids, Safe(k) PROVE Safe(k)'
    BY <1>1, <1>2, <2>1 DEF Safe, LibraryRests
  <2> QED BY <1>1, <2>1 DEF TokensInv, OthersAreSafe, SureOfPage
<1>8. StoreIsUnspent'
  BY <1>1, <1>2 DEF TokensInv, StoreIsUnspent, LibraryRests
<1>9. SyncKnows'
  BY <1>0, <1>1 DEF TokensInv, SyncKnows, SureOfPage, LibraryRests, Narrow
<1>10. PageActionKnows'
  <2>1. j.pc = "auth" => j.at \in Ids
    BY DEF SureOfPage
  <2> QED BY <1>0, <1>1, <2>1 DEF TokensInv, PageActionKnows, SureOfPage, Works, Writing, Settled
<1>11. LoginLasts'
  BY <1>1 DEF TokensInv, LoginLasts
<1>12. JobsKnow'
  <2>1. \A p \in Actors : p = User \/ p \in Ids
    BY <1>0
  <2> QED BY <1>0, <1>1, <2>1 DEF TokensInv, JobsKnow, SureOfPage, LibraryRests, me
<1> QED BY <1>3, <1>4, <1>5, <1>6, <1>7, <1>8, <1>9, <1>10, <1>11, <1>12 DEF TokensInv

\* A page action that ends disturbs nobody.
LEMMA DoneKeepsTokens ==
  ASSUME ManagerConstants, IInv, TokensInv, Done, LibraryRests, UNCHANGED <<current, auth, sync, server, ghosts>>,
         me.pc # "rotated"
  PROVE  TokensInv'
<1>1. Idle.pc = "idle" /\ Idle.read = Absent
  BY DEF Idle, Blank
<1>2. plan' = NoPlan /\ NoPlan.op = "none" /\ ~NoPlan.tx /\ NoPlan.set = {} /\ job' = [job EXCEPT ![User] = Idle]
  BY DEF Done, NoPlan
<1>3. SureOfPage(Idle)
  BY <1>1, <1>2 DEF SureOfPage, Settled
<1> QED BY <1>2, <1>3, PageGoesOn

\* Nothing happens to the library.
LEMMA SameLibraryRests ==
  ASSUME IInv, store' = store
  PROVE  LibraryRests
BY DEF LibraryRests, IInv, StoreOK

\* Throwing ends a page action, when no handoff is about.
LEMMA ThrownIsDone ==
  ASSUME TokensInv, Thrown(User)
  PROVE  Done
BY DEF TokensInv, Narrow, Thrown, Done

\* A page action starts.
LEMMA UserStartKeepsTokens ==
  ASSUME ManagerConstants, Restricted, IInv, TokensInv, NEW op \in Ops, NEW set \in (SUBSET Ids) \ {{}},
         UserStart(op, set)
  PROVE  TokensInv'
<1> DEFINE no == FALSE
           j == At(NoId, "sync", op, Absent, no)
<1>1. op \in {"switch", "remove"}
  BY DEF Restricted
<1>2. /\ me.pc = "idle" /\ plan' = Planned(op, set) /\ job' = [job EXCEPT ![User] = j]
      /\ UNCHANGED <<store, current, auth, sync, server, ghosts>>
  BY <1>1 DEF UserStart
<1>3. plan'.op = op /\ ~plan'.tx /\ plan'.set = set
  BY <1>2 DEF Planned, NoPlan
<1> HIDE DEF no
<1>4. j.pc = "sync" /\ j.read = Absent
  BY WentOn
<1> HIDE DEF j
<1>5. SureOfPage(j)
  BY <1>1, <1>2, <1>3, <1>4 DEF SureOfPage, Settled
<1> QED BY <1>2, <1>3, <1>5, PageGoesOn, SameLibraryRests

\* The account is not the current one: the action goes on.
LEMMA UserSyncedKeepsTokens ==
  ASSUME ManagerConstants, IInv, TokensInv, UserSynced
  PROVE  TokensInv'
<1>1. me.pc = "synced" /\ UNCHANGED <<store, current, auth, sync, server, ghosts>> /\ plan.op \in {"switch", "remove"}
  BY DEF UserSynced, TokensInv, Narrow
<1>2. \/ Done
      \/ GoTo("lock") /\ plan' = plan /\ current \notin plan.set
  BY <1>1 DEF UserSynced, Exports
<1>3. CASE Done
  BY <1>1, <1>3, DoneKeepsTokens, SameLibraryRests
<1>4. CASE GoTo("lock") /\ plan' = plan /\ current \notin plan.set
  <2> DEFINE j == [me EXCEPT !.pc = "lock"]
  <2>1. me \in Jobs /\ job \in [Actors -> Jobs] /\ User \in Actors
    BY Typed, WhoIsWho DEF me
  <2>2. job' = [job EXCEPT ![User] = j] /\ j.pc = "lock" /\ j.at = me.at /\ j.read = me.read /\ j.new = me.new
    BY <1>4, <2>1 DEF GoTo, me, Jobs
  <2>3. me.read # Absent => me.at \in Ids /\ me.read.tok <= issued[me.at] /\ me.new <= issued[me.at]
    BY <2>1 DEF TokensInv, KnownTokens, me
  <2>4. auth.id \notin plan.set
    BY <1>1, <1>4 DEF TokensInv, PageActionKnows, Settled
  <2> HIDE DEF j
  <2>5. SureOfPage(j)
    BY <1>1, <1>4, <2>2, <2>3, <2>4 DEF SureOfPage, Settled, TokensInv, Narrow
  <2>6. plan'.set \in SUBSET Ids
    BY <1>4 DEF IInv, PlanOK, Plans
  <2> QED BY <1>1, <2>2, <2>5, <2>6, PageGoesOn, SameLibraryRests
<1> QED BY <1>2, <1>3, <1>4

\* switchAccount reads its target.
LEMMA LockForSwitchKeepsTokens ==
  ASSUME ManagerConstants, Restricted, IInv, TokensInv, NEW i \in Ids, LockForSwitch(i)
  PROVE  TokensInv'
<1> DEFINE yes == TRUE
           no == FALSE
<1>1. /\ me.pc = "lock" /\ plan.op = "switch" /\ i \in plan.set /\ Free(i)
      /\ UNCHANGED <<store, current, auth, sync, server, ghosts>>
      /\ \/ Done
         \/ /\ CanExport(i) /\ plan' = plan
            /\ \E pc \in Fresh(i, store[i], "auth", yes) : job' = [job EXCEPT ![User] = At(i, pc, "switch", store[i], no)]
  BY DEF LockForSwitch, Hold
<1>2. CASE Done
  BY <1>1, <1>2, DoneKeepsTokens, SameLibraryRests
<1>3. ASSUME CanExport(i), plan' = plan, NEW pc \in Fresh(i, store[i], "auth", yes),
             job' = [job EXCEPT ![User] = At(i, pc, "switch", store[i], no)]
      PROVE  TokensInv'
  <2>1. yes \in BOOLEAN /\ no \in BOOLEAN
    OBVIOUS
  <2> HIDE DEF yes, no
  <2>2. /\ pc \in {"rotate", "auth"} \/ pc = "idle"
        /\ pc = "rotate" => store[i].tok \in expired[i]
        /\ pc = "auth" => store[i].tok \notin expired[i]
    BY <2>1, FreshReads
  <2>3. store[i] # Absent /\ job[i].pc = "idle" /\ ~Renewing(i)
    BY <1>1, <1>3, NobodyRenews DEF CanExport, Free
  <2>4. store[i].tok \in Nat /\ store[i].tok <= issued[i] /\ store[i].tok \notin spent[i] /\ issued[i] \in Nat
    BY <2>3, ReadsTheLibrary, Typed
  <2>5. auth.id \notin plan.set
    BY <1>1 DEF TokensInv, PageActionKnows, Settled
  <2>6. Works(i, store[i].tok)
    BY <1>1, <2>3, <2>4 DEF Works, TokensInv, OthersAreSafe, Settled, Safe
  <2>7. job[i].pc \notin Locking /\ job[i].kind # "forced"
    BY <2>3 DEF TokensInv, Narrow, Idle, Blank, Locking
  <2> DEFINE j == At(i, pc, "switch", store[i], no)
  <2>8. /\ j.pc = pc /\ j.new = 0 /\ (pc = "idle" => j.read = Absent)
        /\ pc # "idle" => j.at = i /\ j.read = store[i]
    BY <2>2, WentOn
  <2> HIDE DEF j
  <2>9. SureOfPage(j)
    <3>1. /\ plan'.op = "switch" /\ ~plan'.tx /\ i \in plan'.set /\ auth.id \notin plan'.set /\ i # auth.id
          /\ me.pc \in Settled
      BY <1>1, <1>3, <2>5 DEF TokensInv, Narrow, Settled
    <3>2. CASE pc = "idle"
      BY <2>8, <3>1, <3>2 DEF SureOfPage, Settled
    <3>3. CASE pc = "rotate"
      BY <2>3, <2>4, <2>8, <3>1, <3>3 DEF SureOfPage
    <3>4. CASE pc = "auth"
      BY <1>1, <2>2, <2>3, <2>4, <2>6, <2>7, <2>8, <3>1, <3>4 DEF SureOfPage
    <3> QED BY <2>2, <3>2, <3>3, <3>4
  <2>10. plan'.set \in SUBSET Ids
    BY <1>3 DEF IInv, PlanOK, Plans
  <2> QED BY <1>1, <1>3, <2>9, <2>10, PageGoesOn, SameLibraryRests DEF j
<1> QED BY <1>1, <1>2, <1>3

\* removeAccount removes its account, and ends.
LEMMA LockForRemoveKeepsTokens ==
  ASSUME ManagerConstants, IInv, TokensInv, NEW i \in Ids, LockForRemove(i)
  PROVE  TokensInv'
<1>1. /\ me.pc = "lock" /\ job[i].pc = "idle" /\ Done /\ UNCHANGED <<current, auth, sync, server, ghosts>>
      /\ store' = store \/ store' = [store EXCEPT ![i] = Absent]
  BY DEF LockForRemove, Free
<1>2. LibraryRests
  BY <1>1, Typed DEF LibraryRests
<1> QED BY <1>1, <1>2, DoneKeepsTokens

\* A refused token marks the account, and the switch fails.
LEMMA UserRefusedKeepsTokens ==
  ASSUME ManagerConstants, IInv, TokensInv, UserRefused
  PROVE  TokensInv'
<1>1. /\ me.pc = "refused" /\ Thrown(User) /\ UNCHANGED <<current, auth, sync, server, ghosts>>
      /\ store' = Updated(me.at, [store[me.at] EXCEPT !.status = "needsReauth"])
  BY DEF UserRefused, Rejected, TokensInv, Narrow
<1>2. LibraryRests
  <2>1. me.at \in Ids /\ store \in [Ids -> RealAccount \cup {Absent}]
    BY <1>1, Typed DEF TokensInv, Narrow, IInv, PlanOK, Plans
  <2> DEFINE a == [store[me.at] EXCEPT !.status = "needsReauth"]
  <2>2. store[me.at] # Absent => a \in RealAccount /\ a.tok = store[me.at].tok /\ a.status # "transferred"
    BY <2>1 DEF RealAccount
  <2>3. store' = store \/ (store[me.at] # Absent /\ store' = [store EXCEPT ![me.at] = a])
    BY <1>1 DEF Updated
  <2> HIDE DEF a
  <2> QED BY <2>1, <2>2, <2>3, WhoIsWho DEF LibraryRests
<1> QED BY <1>1, <1>2, ThrownIsDone, DoneKeepsTokens

\* The new tokens are in the library, and Codex is about to get them.
LEMMA UserSaveKeepsTokens ==
  ASSUME ManagerConstants, IInv, TokensInv, UserSave
  PROVE  TokensInv'
<1> DEFINE i == me.at
           new == me.new
           account == Refreshed(User)
           no == FALSE
           held == At(i, "auth", "switch", account, no)
<1>0. /\ User \in Actors /\ Actors = Ids \cup {User} /\ User \notin Ids
      /\ store \in [Ids -> RealAccount \cup {Absent}] /\ job \in [Actors -> Jobs] /\ issued \in [Ids -> Nat]
      /\ \A a \in RealAccount : a # Absent /\ a.tok \in Nat
  BY WhoIsWho, Typed
<1>1. /\ me.pc = "rotated" /\ UNCHANGED <<current, auth, sync, server, ghosts>> /\ plan.op = "switch"
      /\ i \in plan.set /\ i \in Ids
  BY DEF UserSave, TokensInv, Narrow, IInv, PlanOK, Plans
<1>2. /\ new \in live[i] /\ new \notin expired[i] /\ new \notin spent[i]
      /\ new \in Nat /\ new # 0 /\ new <= issued[i]
  <2>1. me.read # Absent /\ new # 0 /\ new \in Nat
    BY <1>0, <1>1, Typed DEF Holds, me
  <2>2. new \in live[i] /\ new \notin expired[i]
    BY <1>0, <1>1 DEF TokensInv, JobsKnow, me
  <2> QED BY <1>0, <1>1, <2>1, <2>2 DEF TokensInv, KnownTokens, SpentIsDead, me
<1>3. account \in RealAccount /\ account.tok = new /\ account.status = "active"
  <2>1. new \in Tokens
    BY <1>0 DEF Jobs, me
  <2> QED BY <1>2, <2>1 DEF Refreshed, RealAccount, Tokens, ManagerConstants, me
<1>4. job[i].pc = "idle" /\ job[i].kind # "forced"
  BY <1>1 DEF TokensInv, LockIsHeld, Locking, Narrow, Idle, Blank
<1>5. i # auth.id /\ auth.id \notin plan.set /\ current = auth.id
  BY <1>1 DEF TokensInv, PageActionKnows, Settled
<1>6. PICK j : /\ job' = [job EXCEPT ![User] = j] /\ j.new = 0
               /\ \/ /\ j.pc = "idle" /\ j.read = Absent /\ plan' = NoPlan
                     /\ store[i] = Absent /\ store' = store
                  \/ /\ j.pc = "auth" /\ j.at = i /\ j.read = account /\ plan' = plan
                     /\ store[i] # Absent /\ store' = [store EXCEPT ![i] = account]
  <2>1. CASE store[i] = Absent
    <3>1. Idle.pc = "idle" /\ Idle.read = Absent /\ Idle.new = 0
      BY DEF Idle, Blank
    <3>2. store' = store /\ Done
      BY <2>1 DEF UserSave, Updated
    <3> QED BY <2>1, <3>1, <3>2 DEF Done
  <2>2. CASE store[i] # Absent
    <3>1. job' = [job EXCEPT ![User] = held] /\ plan' = plan /\ store' = [store EXCEPT ![i] = account]
      BY <1>1, <2>2 DEF UserSave, Hold, Updated
    <3> HIDE DEF account, i, no
    <3>2. held.pc = "auth" /\ held.at = i /\ held.read = account /\ held.new = 0
      BY WentOn
    <3> HIDE DEF held
    <3> QED BY <2>2, <3>1, <3>2
  <2> QED BY <2>1, <2>2
<1> HIDE DEF account
<1>7. /\ UNCHANGED <<current, auth, sync, issued, live, expired, handed, spent, gone>>
      /\ me' = j /\ (\A k \in Ids : job'[k] = job[k])
      /\ \A k \in Ids : k # i => store'[k] = store[k]
  BY <1>0, <1>1, <1>6 DEF server, ghosts, me
<1>8. \A k \in Ids : k # i => (Renewing(k)' <=> Renewing(k))
  BY <1>1, <1>6, <1>7 DEF Renewing
<1>9. store'[i] = Absent \/ (store'[i].tok = new /\ store'[i].status = "active")
  BY <1>0, <1>1, <1>3, <1>6
<1>10. Narrow'
  <2>1. NoPlan.op = "none" /\ ~NoPlan.tx
    BY DEF NoPlan
  <2> QED BY <1>0, <1>1, <1>4, <1>6, <1>7, <1>9, <2>1 DEF TokensInv, Narrow, Settled
<1>11. KnownTokens'
  BY <1>0, <1>1, <1>2, <1>3, <1>6, <1>7, <1>9 DEF TokensInv, KnownTokens
<1>12. LockIsHeld'
  BY <1>6, <1>7 DEF LockIsHeld, Locking
<1>13. LoginWorks' /\ SpentIsDead' /\ LoginLasts'
  BY <1>7 DEF TokensInv, LoginWorks, Works, SpentIsDead, LoginLasts
<1>14. OthersAreSafe'
  <2>1. ASSUME NEW k \in Ids \ gone PROVE Safe(k)'
    BY <1>1, <1>2, <1>7, <1>8, <1>9, <2>1 DEF TokensInv, OthersAreSafe, Settled, Safe
  <2> QED BY <1>7, <2>1 DEF OthersAreSafe
<1>15. StoreIsUnspent'
  <2>1. ASSUME NEW k \in Ids, store'[k] # Absent, store'[k].tok \in spent'[k] PROVE Renewing(k)'
    BY <1>2, <1>7, <1>8, <1>9, <2>1 DEF TokensInv, StoreIsUnspent
  <2> QED BY <2>1 DEF StoreIsUnspent
<1>16. SyncKnows'
  BY <1>0, <1>1, <1>5, <1>6, <1>7 DEF TokensInv, SyncKnows, Narrow, Settled
<1>17. PageActionKnows'
  BY <1>0, <1>1, <1>2, <1>3, <1>4, <1>5, <1>6, <1>7, <1>9 DEF PageActionKnows, Works, Writing, Settled, Locking
<1>18. JobsKnow'
  <2>1. \A p \in Actors : p = User \/ p \in Ids
    BY <1>0
  <2> QED BY <1>0, <1>1, <1>5, <1>6, <1>7, <2>1 DEF TokensInv, JobsKnow, me
<1> QED BY <1>10, <1>11, <1>12, <1>13, <1>14, <1>15, <1>16, <1>17, <1>18 DEF TokensInv

\* Codex is logged in with the account switched to, or the file could not be written.
LEMMA UserAuthKeepsTokens ==
  ASSUME ManagerConstants, IInv, TokensInv, UserAuth
  PROVE  TokensInv'
<1> DEFINE i == me.at
           t == me.read.tok
           login == [id |-> i, tok |-> t]
           j == [me EXCEPT !.pc = "current"]
<1>0. /\ User \in Actors /\ Actors = Ids \cup {User} /\ User \notin Ids /\ User # Timer /\ NoId \notin Ids
      /\ job \in [Actors -> Jobs] /\ me \in Jobs /\ issued \in [Ids -> Nat]
  BY WhoIsWho, Typed DEF me
<1>1. /\ me.pc = "auth" /\ UNCHANGED <<store, current, sync, server, ghosts>> /\ plan.op = "switch"
      /\ i \in plan.set /\ i \in Ids
      /\ \/ auth' = login /\ GoTo("current") /\ plan' = plan
         \/ auth' = auth /\ Thrown(User)
  <2>1. me.pc = "auth" /\ plan.op = "switch" /\ i \in plan.set /\ i \in Ids
    BY DEF UserAuth, TokensInv, Narrow, IInv, PlanOK, Plans
  <2> QED BY <1>0, <2>1 DEF UserAuth, Exports
<1>2. CASE auth' = auth /\ Thrown(User)
  BY <1>1, <1>2, ThrownIsDone, DoneKeepsTokens, SameLibraryRests
<1>3. CASE auth' = login /\ GoTo("current") /\ plan' = plan
  <2>1. job' = [job EXCEPT ![User] = j] /\ j.pc = "current" /\ j.at = i /\ j.read = me.read /\ j.new = me.new
    BY <1>0, <1>3 DEF GoTo, me, Jobs
  <2> HIDE DEF j
  <2>2. /\ UNCHANGED <<store, current, sync, plan, issued, live, expired, handed, spent, gone>>
        /\ me' = j /\ (\A k \in Ids : job'[k] = job[k]) /\ auth'.id = i /\ auth'.tok = t
    BY <1>0, <1>1, <1>3, <2>1 DEF server, ghosts, me
  <2>3. /\ me.read # Absent /\ t \notin expired[i] /\ store[i] # Absent /\ store[i].tok = t
        /\ job[i].pc \notin Locking /\ job[i].kind # "forced" /\ Works(i, t)
        /\ current = auth.id /\ auth.id \notin plan.set
    BY <1>1 DEF TokensInv, PageActionKnows, Writing, Settled
  <2>4. sync.pc # "idle" => sync.cred = auth /\ sync.by # User /\ sync.cred.id # i
    <3>1. sync.pc # "idle" => sync.cred = auth
      BY <1>1 DEF TokensInv, SyncKnows, Settled
    <3>2. sync.pc # "idle" => sync.by # User
      BY <1>0, <1>1, Awaiting DEF me
    <3> QED BY <1>1, <2>3, <3>1, <3>2
  <2>5. \A k \in Ids : Renewing(k)' <=> Renewing(k)
    BY <1>1, <2>1, <2>2 DEF Renewing
  <2>6. Narrow'
    BY <1>0, <1>1, <2>1, <2>2 DEF TokensInv, Narrow
  <2>7. KnownTokens'
    <3>1. me.read # Absent => me.at \in Ids /\ me.read.tok <= issued[me.at] /\ me.new <= issued[me.at]
      BY <1>0 DEF TokensInv, KnownTokens, me
    <3>2. auth'.tok <= issued'[auth'.id] /\ (sync'.pc # "idle" => sync'.cred.tok <= issued'[sync'.cred.id])
      BY <1>1, <2>2, <2>3 DEF TokensInv, KnownTokens
    <3>3. ASSUME NEW p \in Actors, job'[p].read # Absent
          PROVE  job'[p].at \in Ids /\ job'[p].read.tok <= issued'[job'[p].at] /\ job'[p].new <= issued'[job'[p].at]
      BY <1>0, <2>1, <2>2, <3>1, <3>3 DEF TokensInv, KnownTokens
    <3> QED BY <2>2, <3>2, <3>3 DEF TokensInv, KnownTokens
  <2>8. LockIsHeld' /\ LoginWorks' /\ SpentIsDead' /\ LoginLasts'
    BY <2>1, <2>2, <2>3 DEF TokensInv, LockIsHeld, Locking, LoginWorks, Works, SpentIsDead, LoginLasts
  <2>9. OthersAreSafe'
    BY <1>1, <2>2, <2>5 DEF TokensInv, OthersAreSafe, Safe, Settled
  <2>10. StoreIsUnspent'
    BY <2>2, <2>5 DEF TokensInv, StoreIsUnspent
  <2>11. SyncKnows'
    <3>1. sync.pc = "idle" \/ sync.by # User
      BY <2>4
    <3>2. sync.pc = "read" => /\ sync.cred.tok \notin spent[sync.cred.id]
                              /\ sync.cred.id \in gone \/ sync.cred.tok \in live[sync.cred.id]
      BY <2>4 DEF TokensInv, LoginWorks, Works
    <3>3. (\E p \in Actors : job'[p].pc = "synced") => sync.pc = "idle"
      BY <1>0, <2>1, <2>2 DEF TokensInv, SyncKnows
    <3> QED BY <2>1, <2>2, <3>1, <3>2, <3>3 DEF SyncKnows, Settled
  <2>12. PageActionKnows'
    BY <1>1, <1>3, <2>1, <2>2, <2>3, <2>4 DEF PageActionKnows, Writing, Settled
  <2>13. JobsKnow'
    <3>1. \A p \in Actors : p = User \/ p \in Ids
      BY <1>0
    <3>2. \A p \in Ids : job[p].pc \in Locking => job[p].at # i
      BY <2>3 DEF TokensInv, Narrow, Locking
    <3> QED BY <1>0, <1>1, <2>1, <2>2, <2>3, <3>1, <3>2 DEF TokensInv, JobsKnow, Locking
  <2> QED BY <2>6, <2>7, <2>8, <2>9, <2>10, <2>11, <2>12, <2>13 DEF TokensInv
<1> QED BY <1>1, <1>2, <1>3

\* The account switched to is the current one.
LEMMA UserCurrentKeepsTokens ==
  ASSUME ManagerConstants, IInv, TokensInv, UserCurrent
  PROVE  TokensInv'
<1> DEFINE i == me.at
<1>0. /\ User \in Actors /\ Actors = Ids \cup {User} /\ User \notin Ids /\ User # Timer /\ NoId \notin Ids
      /\ job \in [Actors -> Jobs]
  BY WhoIsWho, Typed
<1>1. /\ me.pc = "current" /\ UNCHANGED <<store, auth, sync, server, ghosts>> /\ plan.op = "switch" /\ i \in Ids
  BY DEF UserCurrent, TokensInv, Narrow, IInv, PlanOK, Plans
<1>2. /\ me.read.tok \notin expired[i] /\ job[i].kind # "forced" /\ auth.id = i /\ auth.tok = me.read.tok
      /\ store[i] # Absent /\ store[i].status # "transferred"
  BY <1>1 DEF TokensInv, Narrow, PageActionKnows, Writing
<1>3. current' = i /\ Done
  BY <1>0, <1>1, <1>2 DEF UserCurrent, Selectable
<1>4. /\ UNCHANGED <<store, auth, sync, issued, live, expired, handed, spent, gone>>
      /\ me' = Idle /\ (\A k \in Ids : job'[k] = job[k]) /\ job'[User] = Idle /\ plan' = NoPlan
  BY <1>0, <1>1, <1>3 DEF server, ghosts, me, Done
<1>5. Idle.pc = "idle" /\ Idle.read = Absent
  BY DEF Idle, Blank
<1>6. sync.pc # "idle" => sync.by # User
  BY <1>0, <1>1, Awaiting DEF me
<1>7. \A k \in Ids : Renewing(k)' <=> Renewing(k)
  BY <1>1, <1>4, <1>5 DEF Renewing
<1>8. Narrow'
  <2>1. NoPlan.op = "none" /\ ~NoPlan.tx
    BY DEF NoPlan
  <2> QED BY <1>0, <1>4, <1>5, <2>1 DEF TokensInv, Narrow
<1>9. KnownTokens'
  BY <1>0, <1>4, <1>5 DEF TokensInv, KnownTokens
<1>10. LockIsHeld' /\ LoginWorks' /\ SpentIsDead'
  BY <1>4, <1>5 DEF TokensInv, LockIsHeld, Locking, LoginWorks, Works, SpentIsDead
<1>11. OthersAreSafe'
  <2>1. sync.pc # "mark" \/ sync.by # User
    BY <1>6
  <2> QED BY <1>4, <1>5, <1>7, <2>1 DEF TokensInv, OthersAreSafe, Safe, Settled
<1>12. StoreIsUnspent'
  BY <1>4, <1>7 DEF TokensInv, StoreIsUnspent
<1>13. SyncKnows'
  BY <1>0, <1>4, <1>5, <1>6 DEF TokensInv, SyncKnows, Settled
<1>14. PageActionKnows' /\ LoginLasts'
  BY <1>2, <1>4, <1>5 DEF PageActionKnows, Writing, Settled, LoginLasts
<1>15. JobsKnow'
  BY <1>0, <1>2, <1>4, <1>5 DEF TokensInv, JobsKnow
<1> QED BY <1>8, <1>9, <1>10, <1>11, <1>12, <1>13, <1>14, <1>15 DEF TokensInv

\* The steps of the exports and of restore are out of reach.
LEMMA PageActionKeepsTokens ==
  ASSUME ManagerConstants, Restricted, IInv, TokensInv, PageAction
  PROVE  TokensInv'
<1>1. plan.op \notin Exports /\ me.pc \in Settled \cup {"idle", "sync", "current"}
  BY DEF TokensInv, Narrow, Exports
<1>2. CASE \E op \in Ops, set \in (SUBSET Ids) \ {{}} : UserStart(op, set)
  BY <1>2, UserStartKeepsTokens
<1>3. CASE \E i \in Ids : LockForSwitch(i) \/ LockForRemove(i) \/ LockForExport(i)
  BY <1>1, <1>3, LockForSwitchKeepsTokens, LockForRemoveKeepsTokens DEF LockForExport
<1>4. ~UserRefreshed
  BY <1>1 DEF UserRefreshed
<1>5. ~UserMark /\ ~UserFallback /\ ~LockForFallback
  BY <1>1 DEF UserMark, UserFallback, LockForFallback, Settled
<1>6. ~UserFile /\ ~UserUndo /\ ~UserUndoAuth /\ ~UserUndoCurrent
  BY <1>1 DEF UserFile, UserUndo, UserUndoAuth, UserUndoCurrent, Settled
<1> QED BY <1>2, <1>3, <1>4, <1>5, <1>6, UserSyncedKeepsTokens, UserSaveKeepsTokens, UserRefusedKeepsTokens,
           UserAuthKeepsTokens, UserCurrentKeepsTokens DEF PageAction

-----------------------------------------------------------------------------
(* The server, Codex and the token endpoint *)

\* A token that is issued is new to everybody.
LEMMA NewToken ==
  ASSUME ManagerConstants, IInv, NEW i \in Ids, NEW used, Issue(i, used)
  PROVE  /\ issued[i] \in Nat /\ issued' \in [Ids -> Nat]
         /\ issued'[i] = issued[i] + 1 /\ \A k \in Ids : k # i => issued'[k] = issued[k] /\ live'[k] = live[k]
         /\ live'[i] = (live[i] \ {used}) \cup {issued[i] + 1}
         /\ issued[i] + 1 \notin live[i] \cup expired[i] \cup spent[i]
         /\ \A k \in Ids : issued[k] <= issued'[k]
<1>1. /\ issued \in [Ids -> Nat] /\ live \in [Ids -> SUBSET Nat]
      /\ \A t \in live[i] \cup expired[i] \cup spent[i] : t \in Nat /\ t <= issued[i]
  BY Typed
<1>2. /\ issued' = [issued EXCEPT ![i] = @ + 1]
      /\ live' = [live EXCEPT ![i] = (@ \ {used}) \cup {issued[i] + 1}]
  BY DEF Issue
<1>3. issued[i] + 1 \notin live[i] \cup expired[i] \cup spent[i]
  BY <1>1
<1>4. issued' \in [Ids -> Nat] /\ issued'[i] = issued[i] + 1 /\ \A k \in Ids : k # i => issued'[k] = issued[k]
  BY <1>1, <1>2
<1>5. live'[i] = (live[i] \ {used}) \cup {issued[i] + 1} /\ \A k \in Ids : k # i => live'[k] = live[k]
  BY <1>1, <1>2
<1> QED BY <1>1, <1>3, <1>4, <1>5

\* Tokens stay known when others are issued.
LEMMA StillKnown ==
  ASSUME IInv, NEW i \in Ids, NEW t \in Nat, t <= issued[i], issued[i] \in Nat, issued'[i] \in Nat, issued[i] <= issued'[i]
  PROVE  t <= issued'[i]
OBVIOUS

\* An operation presents a token only when the files are at rest.
LEMMA RotatingIsAlone ==
  ASSUME ManagerConstants, Restricted, IInv, TokensInv, NEW p \in Actors, Rotate(p)
  PROVE  LET i == job[p].at IN
         /\ job[p].pc = "rotate" /\ i \in Ids /\ job[p] \in Jobs /\ job[p].read \in RealAccount
         /\ sync.pc = "idle" /\ me.pc \notin Writing
         /\ p \in Ids => i = p
         /\ p = User => plan.op = "switch" /\ i \in plan.set /\ auth.id \notin plan.set /\ job[i].pc = "idle"
         /\ \A q \in Actors : q # p /\ job[q].pc \in Locking => job[q].at # i
         /\ ~Renewing(i)
         /\ job[p].read.tok \in Nat /\ job[p].read.tok <= issued[i] /\ job[p].new \in Nat /\ job[p].new <= issued[i]
         /\ job[p].read.tok \notin spent[i] /\ (i = auth.id => job[p].read.tok # auth.tok)
<1> DEFINE i == job[p].at
<1>0. Actors = Ids \cup {User} /\ User \notin Ids /\ NoId \notin Ids /\ \A a \in RealAccount : a # Absent /\ a.tok \in Nat
  BY WhoIsWho
<1>1. job[p].pc = "rotate" /\ FilesAtRest
  BY DEF Rotate, Restricted
<1>2. i \in Ids /\ job[p] \in Jobs /\ job[p].read \in RealAccount /\ job[p].new \in Nat
  BY <1>1, Typed DEF Holds
<1>3. sync.pc = "idle" /\ me.pc \notin Writing
  BY <1>1 DEF FilesAtRest, Writing, me
<1>4. p \in Ids => i = p
  BY <1>1 DEF TokensInv, Narrow
<1>5. p = User => plan.op = "switch" /\ i \in plan.set /\ auth.id \notin plan.set /\ job[i].pc = "idle"
  BY <1>1 DEF TokensInv, Narrow, PageActionKnows, LockIsHeld, Settled, Locking, me
<1>6. \A q \in Actors : q # p /\ job[q].pc \in Locking => job[q].at # i
  <2>1. ASSUME NEW q \in Ids, job[q].pc \in Locking PROVE job[q].at = q
    BY <2>1 DEF TokensInv, Narrow, Locking
  <2>2. job[User].pc \in Locking => job[job[User].at].pc = "idle"
    BY DEF TokensInv, LockIsHeld, me
  <2> QED BY <1>0, <1>1, <1>4, <1>5, <2>1, <2>2 DEF Locking
<1>7. ~Renewing(i)
  <2>1. i \in Actors /\ User \in Actors
    BY <1>0, <1>2
  <2>2. job[i].pc # "rotated"
    <3>1. CASE p \in Ids
      BY <1>1, <1>4, <3>1
    <3>2. CASE p = User
      BY <1>5, <3>2
    <3> QED BY <1>0, <3>1, <3>2
  <2> QED BY <1>1, <1>6, <2>1, <2>2 DEF Renewing, Locking, me
<1>8. job[p].read.tok <= issued[i] /\ job[p].new <= issued[i]
  BY <1>0, <1>2 DEF TokensInv, KnownTokens
<1>9. job[p].read.tok \notin spent[i] /\ (i = auth.id => job[p].read.tok # auth.tok)
  BY <1>1 DEF TokensInv, JobsKnow
<1> QED BY <1>0, <1>1, <1>2, <1>3, <1>4, <1>5, <1>6, <1>7, <1>8, <1>9

\* A token is exchanged, and the answer arrives.
LEMMA RotatedKeepsTokens ==
  ASSUME ManagerConstants, Restricted, IInv, TokensInv, NEW p \in Actors, Rotate(p),
         NEW i \in Ids, i = job[p].at, NEW t, t = job[p].read.tok, NEW n, n = issued[i] + 1,
         Issue(i, t), spent' = [spent EXCEPT ![i] = @ \cup {t}],
         job' = [job EXCEPT ![p].pc = "rotated", ![p].new = n],
         UNCHANGED <<plan, gone>>
  PROVE  TokensInv'
<1> DEFINE j == [job[p] EXCEPT !.pc = "rotated", !.new = n]
<1>0. /\ User \in Actors /\ Actors = Ids \cup {User} /\ User \notin Ids /\ job \in [Actors -> Jobs]
      /\ spent \in [Ids -> SUBSET Nat] /\ issued \in [Ids -> Nat] /\ store \in [Ids -> RealAccount \cup {Absent}]
      /\ (\A a \in RealAccount : a # Absent /\ a.tok \in Nat) /\ auth.tok \in Nat
  BY WhoIsWho, Typed DEF IInv, StoreOK, RealLogin, Login, Tokens, ManagerConstants
<1>1. /\ job[p].pc = "rotate" /\ i \in Ids /\ job[p] \in Jobs /\ job[p].read \in RealAccount
      /\ sync.pc = "idle" /\ me.pc \notin Writing /\ (p \in Ids => i = p)
      /\ p = User => plan.op = "switch" /\ i \in plan.set /\ auth.id \notin plan.set /\ job[i].pc = "idle"
      /\ \A q \in Actors : q # p /\ job[q].pc \in Locking => job[q].at # i
      /\ ~Renewing(i) /\ t \in Nat /\ t <= issued[i] /\ t \notin spent[i] /\ (i = auth.id => t # auth.tok)
  BY RotatingIsAlone
<1>2. /\ issued[i] \in Nat /\ issued' \in [Ids -> Nat] /\ issued'[i] = n
      /\ \A k \in Ids : k # i => issued'[k] = issued[k] /\ live'[k] = live[k]
      /\ live'[i] = (live[i] \ {t}) \cup {n} /\ n \notin live[i] \cup expired[i] \cup spent[i]
      /\ \A k \in Ids : issued[k] <= issued'[k]
  BY <1>1, NewToken
<1>3. /\ job' = [job EXCEPT ![p] = j] /\ j.pc = "rotated" /\ j.new = n /\ j.at = i /\ j.read = job[p].read
      /\ j.kind = job[p].kind /\ j.cur = job[p].cur
  BY <1>0, <1>1 DEF Jobs
<1>4. UNCHANGED <<store, current, auth, sync, expired, handed>>
  BY DEF Rotate
<1>5. spent'[i] = spent[i] \cup {t} /\ \A k \in Ids : k # i => spent'[k] = spent[k]
  BY <1>0, <1>1
<1> HIDE DEF j
<1>6. job'[p] = j /\ \A q \in Actors : q # p => job'[q] = job[q]
  BY <1>0, <1>3
<1>7. /\ me' = IF p = User THEN j ELSE me
  BY <1>0, <1>6 DEF me
<1>8. Renewing(i)'
  BY <1>0, <1>1, <1>3, <1>6, <1>7 DEF Renewing
<1>9. \A k \in Ids : Renewing(k) => Renewing(k)'
  BY <1>0, <1>1, <1>3, <1>6, <1>7, <1>8 DEF Renewing, me
<1>10. Narrow'
  BY <1>0, <1>1, <1>3, <1>4, <1>6, <1>7 DEF TokensInv, Narrow, Settled, me
<1>11. KnownTokens'
  <2>1. \A k \in Ids : store[k] # Absent => store[k].tok \in Nat /\ store[k].tok <= issued'[k]
    BY <1>0, <1>2, StillKnown DEF TokensInv, KnownTokens
  <2>2. auth.tok <= issued'[auth.id]
    BY <1>0, <1>2, StillKnown DEF TokensInv, KnownTokens, Narrow
  <2>3. ASSUME NEW q \in Actors, job'[q].read # Absent
        PROVE  job'[q].at \in Ids /\ job'[q].read.tok <= issued'[job'[q].at] /\ job'[q].new <= issued'[job'[q].at]
    <3>1. CASE q = p
      <4>1. t <= issued'[i] /\ n <= issued'[i]
        BY <1>0, <1>1, <1>2
      <4> QED BY <1>1, <1>3, <1>6, <3>1, <4>1
    <3>2. CASE q # p
      <4>1. job'[q] = job[q] /\ job[q] \in Jobs /\ job[q].new \in Nat
        BY <1>0, <1>6, <3>2, Typed
      <4>2. job[q].read \in RealAccount
        BY <2>3, <4>1 DEF Jobs
      <4>3. job[q].at \in Ids /\ job[q].read.tok <= issued[job[q].at] /\ job[q].new <= issued[job[q].at]
        BY <2>3, <4>1 DEF TokensInv, KnownTokens
      <4> QED BY <1>0, <1>2, <4>1, <4>2, <4>3, StillKnown
    <3> QED BY <3>1, <3>2
  <2> QED BY <1>1, <1>4, <2>1, <2>2, <2>3 DEF KnownTokens
<1>12. LockIsHeld'
  <2>1. CASE p = User
    BY <1>0, <1>1, <1>3, <1>6, <1>7, <2>1 DEF LockIsHeld
  <2>2. CASE p # User
    <3>1. me.pc \in Locking => me.at # p
      BY <1>0, <1>1, <2>2 DEF me
    <3>2. me.pc \in Locking => me.at \in Actors
      BY <1>0 DEF TokensInv, Narrow, IInv, PlanOK, Plans, Locking
    <3> QED BY <1>6, <1>7, <2>2, <3>1, <3>2 DEF TokensInv, LockIsHeld
  <2> QED BY <2>1, <2>2
<1>13. LoginWorks'
  BY <1>1, <1>2, <1>4, <1>5 DEF TokensInv, LoginWorks, Works, Narrow
<1>14. OthersAreSafe'
  <2>1. ASSUME NEW k \in Ids \ {i}, Safe(k) PROVE Safe(k)'
    BY <1>2, <1>4, <1>9, <2>1 DEF Safe
  <2>2. Safe(i)'
    BY <1>8 DEF Safe
  <2> QED BY <1>1, <1>3, <1>4, <1>7, <2>1, <2>2 DEF TokensInv, OthersAreSafe, Settled, me
<1>15. StoreIsUnspent'
  <2>1. ASSUME NEW k \in Ids \ {i}, store'[k] # Absent, store'[k].tok \in spent'[k] PROVE Renewing(k)'
    BY <1>4, <1>5, <1>9, <2>1 DEF TokensInv, StoreIsUnspent
  <2> QED BY <1>8, <2>1 DEF StoreIsUnspent
<1>16. SpentIsDead'
  BY <1>1, <1>2, <1>5 DEF TokensInv, SpentIsDead
<1>17. SyncKnows'
  BY <1>1, <1>4 DEF SyncKnows
<1>18. PageActionKnows'
  BY <1>1, <1>3, <1>4, <1>7 DEF TokensInv, PageActionKnows, Writing, Settled, me
<1>19. LoginLasts'
  BY <1>4 DEF TokensInv, LoginLasts
<1>20. JobsKnow'
  <2>1. ASSUME NEW q \in Actors, q # p, job[q].pc \in Locking
        PROVE  job'[q] = job[q] /\ job[q].at # i /\ job[q].at \in Ids
    BY <1>1, <1>6, <2>1, Typed DEF Holds, Locking
  <2>2. i = auth.id => n # auth.tok
    BY <1>0, <1>2 DEF TokensInv, KnownTokens
  <2>3. ASSUME NEW q \in Actors, job'[q].pc = "rotate"
        PROVE  job'[q].read.tok \notin spent'[job'[q].at] /\ (job'[q].at = auth'.id => job'[q].read.tok # auth'.tok)
    <3>1. q # p /\ job'[q] = job[q]
      BY <1>3, <1>6, <2>3
    <3>2. job[q].pc = "rotate" /\ job[q].at \in Ids \ {i}
      BY <2>1, <2>3, <3>1 DEF Locking
    <3> QED BY <1>4, <1>5, <3>1, <3>2 DEF TokensInv, JobsKnow
  <2>4. ASSUME NEW q \in Actors, job'[q].pc = "rotated"
        PROVE  /\ job'[q].new \in live'[job'[q].at] /\ job'[q].new \notin expired'[job'[q].at]
               /\ job'[q].at = auth'.id => job'[q].new # auth'.tok
    <3>1. CASE q = p
      BY <1>2, <1>3, <1>4, <1>6, <2>2, <3>1
    <3>2. CASE q # p
      <4>1. job'[q] = job[q] /\ job[q].pc = "rotated"
        BY <1>6, <2>4, <3>2
      <4>2. job[q].at \in Ids \ {i}
        BY <2>1, <3>2, <4>1 DEF Locking
      <4> QED BY <1>2, <1>4, <4>1, <4>2 DEF TokensInv, JobsKnow
    <3> QED BY <3>1, <3>2
  <2>5. ASSUME NEW k \in Ids
        PROVE  /\ job'[k].kind = job[k].kind
               /\ job'[k].pc \in {"quota", "sync", "synced"} => job'[k] = job[k]
    BY <1>0, <1>3, <1>6
  <2>6. ASSUME NEW k \in Ids
        PROVE  /\ job'[k].pc = "quota" /\ ~job'[k].cur => job'[k].read.tok \notin expired'[k]
               /\ job'[k].kind = "retry" /\ job'[k].pc \in {"sync", "synced"} => job'[k].cur
               /\ job'[k].kind = "forced" /\ auth'.id = k /\ store'[k] # Absent /\ store'[k].tok = auth'.tok =>
                    /\ sync'.pc # "idle" => sync'.cred.id = k
                    /\ job'[k].pc = "synced" => current' = k
    <3>1. job'[k].pc = "quota" /\ ~job'[k].cur => job'[k].read.tok \notin expired'[k]
      BY <1>4, <2>5 DEF TokensInv, JobsKnow
    <3>2. job'[k].kind = "retry" /\ job'[k].pc \in {"sync", "synced"} => job'[k].cur
      BY <2>5 DEF TokensInv, JobsKnow
    <3>3. job'[k].pc = "synced" => job[k].pc = "synced"
      BY <2>5
    <3>4. ASSUME job'[k].kind = "forced", auth'.id = k, store'[k] # Absent, store'[k].tok = auth'.tok
          PROVE  (sync'.pc # "idle" => sync'.cred.id = k) /\ (job'[k].pc = "synced" => current' = k)
      <4>1. job[k].kind = "forced" /\ auth.id = k /\ store[k] # Absent /\ store[k].tok = auth.tok
        BY <1>4, <2>5, <3>4
      <4> QED BY <1>4, <3>3, <4>1 DEF TokensInv, JobsKnow
    <3> QED BY <3>1, <3>2, <3>4
  <2> QED BY <2>3, <2>4, <2>6 DEF JobsKnow
<1> QED BY <1>10, <1>11, <1>12, <1>13, <1>14, <1>15, <1>16, <1>17, <1>18, <1>19, <1>20 DEF TokensInv

\* A token is exchanged, and the answer is lost.
LEMMA LostKeepsTokens ==
  ASSUME ManagerConstants, Restricted, IInv, TokensInv, NEW p \in Actors, Rotate(p),
         NEW i \in Ids, i = job[p].at, NEW t, t = job[p].read.tok, NEW n, n = issued[i] + 1,
         Issue(i, t), gone' = gone \cup {i}, Thrown(p), spent' = spent
  PROVE  TokensInv'
<1>0. /\ User \in Actors /\ Actors = Ids \cup {User} /\ User \notin Ids /\ job \in [Actors -> Jobs]
      /\ issued \in [Ids -> Nat] /\ store \in [Ids -> RealAccount \cup {Absent}]
      /\ (\A a \in RealAccount : a # Absent /\ a.tok \in Nat) /\ auth.tok \in Nat
  BY WhoIsWho, Typed DEF IInv, StoreOK, RealLogin, Login, Tokens, ManagerConstants
<1>1. /\ job[p].pc = "rotate" /\ sync.pc = "idle" /\ me.pc \notin Writing /\ (p \in Ids => i = p)
      /\ \A q \in Actors : q # p /\ job[q].pc \in Locking => job[q].at # i
      /\ ~Renewing(i) /\ (i = auth.id => t # auth.tok)
  BY RotatingIsAlone
<1>2. /\ issued[i] \in Nat /\ issued' \in [Ids -> Nat] /\ issued'[i] = n
      /\ \A k \in Ids : k # i => issued'[k] = issued[k] /\ live'[k] = live[k]
      /\ live'[i] = (live[i] \ {t}) \cup {n} /\ n \notin live[i] \cup expired[i] \cup spent[i]
      /\ \A k \in Ids : issued[k] <= issued'[k]
  BY NewToken
<1>3. job' = [job EXCEPT ![p] = Idle] /\ plan' = IF p = User THEN NoPlan ELSE plan
  BY DEF Thrown, TokensInv, Narrow
<1>4. UNCHANGED <<store, current, auth, sync, expired, handed>>
  BY DEF Rotate
<1>5. Idle.pc = "idle" /\ Idle.read = Absent /\ Idle.kind = "none"
  BY DEF Idle, Blank
<1>6. job'[p] = Idle /\ \A q \in Actors : q # p => job'[q] = job[q]
  BY <1>0, <1>3
<1>7. me' = IF p = User THEN Idle ELSE me
  BY <1>0, <1>6 DEF me
<1>8. ASSUME NEW k \in Ids PROVE Renewing(k)' <=> Renewing(k)
  <2>1. job'[k].pc = "rotated" <=> job[k].pc = "rotated"
    BY <1>0, <1>1, <1>5, <1>6
  <2>2. me'.pc = "rotated" /\ me'.at = k <=> me.pc = "rotated" /\ me.at = k
    BY <1>1, <1>5, <1>7 DEF me
  <2> QED BY <2>1, <2>2 DEF Renewing
<1>9. Narrow'
  <2>1. NoPlan.op = "none" /\ ~NoPlan.tx
    BY DEF NoPlan
  <2> QED BY <1>0, <1>1, <1>3, <1>4, <1>5, <1>6, <1>7, <2>1 DEF TokensInv, Narrow
<1>10. KnownTokens'
  <2>1. \A k \in Ids : store[k] # Absent => store[k].tok \in Nat /\ store[k].tok <= issued'[k]
    BY <1>0, <1>2, StillKnown DEF TokensInv, KnownTokens
  <2>2. auth.tok <= issued'[auth.id]
    BY <1>0, <1>2, StillKnown DEF TokensInv, KnownTokens, Narrow
  <2>3. ASSUME NEW q \in Actors, job'[q].read # Absent
        PROVE  job'[q].at \in Ids /\ job'[q].read.tok <= issued'[job'[q].at] /\ job'[q].new <= issued'[job'[q].at]
    <3>1. job'[q] = job[q] /\ job[q] \in Jobs /\ job[q].new \in Nat
      BY <1>0, <1>5, <1>6, <2>3, Typed
    <3>2. job[q].read \in RealAccount
      BY <2>3, <3>1 DEF Jobs
    <3>3. job[q].at \in Ids /\ job[q].read.tok <= issued[job[q].at] /\ job[q].new <= issued[job[q].at]
      BY <2>3, <3>1 DEF TokensInv, KnownTokens
    <3> QED BY <1>0, <1>2, <3>1, <3>2, <3>3, StillKnown
  <2> QED BY <1>1, <1>4, <2>1, <2>2, <2>3 DEF KnownTokens
<1>11. LockIsHeld'
  <2>1. CASE p = User
    BY <1>5, <1>7, <2>1 DEF LockIsHeld, Locking
  <2>2. CASE p # User
    <3>1. me.pc \in Locking => me.at # p /\ me.at \in Actors
      BY <1>0, <1>1, <2>2 DEF me, TokensInv, Narrow, IInv, PlanOK, Plans, Locking
    <3> QED BY <1>6, <1>7, <2>2, <3>1 DEF TokensInv, LockIsHeld
  <2> QED BY <2>1, <2>2
<1>12. LoginWorks' /\ SpentIsDead'
  BY <1>1, <1>2, <1>4 DEF TokensInv, LoginWorks, Works, Narrow, SpentIsDead
<1>13. OthersAreSafe'
  <2>1. ASSUME NEW k \in Ids \ {i}, Safe(k) PROVE Safe(k)'
    BY <1>2, <1>4, <1>8, <2>1 DEF Safe
  <2> QED BY <1>1, <1>4, <1>5, <1>7, <2>1 DEF TokensInv, OthersAreSafe, Settled, me
<1>14. StoreIsUnspent'
  BY <1>4, <1>8 DEF TokensInv, StoreIsUnspent
<1>15. SyncKnows'
  BY <1>1, <1>4 DEF SyncKnows
<1>16. PageActionKnows'
  BY <1>1, <1>3, <1>4, <1>5, <1>7 DEF TokensInv, PageActionKnows, Writing, Settled, me
<1>17. LoginLasts'
  BY <1>4 DEF TokensInv, LoginLasts
<1>18. JobsKnow'
  <2>1. ASSUME NEW q \in Actors, job'[q].pc # "idle" PROVE q # p /\ job'[q] = job[q]
    BY <1>5, <1>6, <2>1
  <2>2. ASSUME NEW q \in Actors, job'[q].pc = "rotate"
        PROVE  job'[q].read.tok \notin spent'[job'[q].at] /\ (job'[q].at = auth'.id => job'[q].read.tok # auth'.tok)
    BY <1>4, <2>1, <2>2 DEF TokensInv, JobsKnow
  <2>3. ASSUME NEW q \in Actors, job'[q].pc = "rotated"
        PROVE  /\ job'[q].new \in live'[job'[q].at] /\ job'[q].new \notin expired'[job'[q].at]
               /\ job'[q].at = auth'.id => job'[q].new # auth'.tok
    <3>1. q # p /\ job'[q] = job[q]
      BY <2>1, <2>3
    <3>2. job[q].at \in Ids \ {i}
      BY <1>1, <2>3, <3>1, Typed DEF Holds, Locking
    <3> QED BY <1>2, <1>4, <2>3, <3>1, <3>2 DEF TokensInv, JobsKnow
  <2>4. ASSUME NEW k \in Ids PROVE job'[k] = Idle \/ job'[k] = job[k]
    BY <1>0, <1>6
  <2> QED BY <1>0, <1>1, <1>4, <1>5, <2>2, <2>3, <2>4 DEF TokensInv, JobsKnow
<1> QED BY <1>9, <1>10, <1>11, <1>12, <1>13, <1>14, <1>15, <1>16, <1>17, <1>18 DEF TokensInv

\* A token is refused, or never arrives.
LEMMA RefusedKeepsTokens ==
  ASSUME ManagerConstants, Restricted, IInv, TokensInv, NEW p \in Actors, Rotate(p),
         \/ job' = [job EXCEPT ![p].pc = "refused"] /\ plan' = plan
         \/ Thrown(p),
         UNCHANGED <<issued, live, spent, gone>>
  PROVE  TokensInv'
<1> DEFINE refused == [job[p] EXCEPT !.pc = "refused"]
<1>0. User \in Actors /\ Actors = Ids \cup {User} /\ User \notin Ids /\ job \in [Actors -> Jobs]
  BY WhoIsWho, Typed
<1>1. /\ job[p].pc = "rotate" /\ job[p].at \in Ids /\ job[p] \in Jobs
      /\ job[p].read.tok <= issued[job[p].at] /\ job[p].new <= issued[job[p].at]
      /\ sync.pc = "idle" /\ me.pc \notin Writing /\ (p \in Ids => job[p].at = p)
      /\ p = User => plan.op = "switch" /\ job[p].at \in plan.set /\ auth.id \notin plan.set
      /\ \A q \in Actors : q # p /\ job[q].pc \in Locking => job[q].at # job[p].at
  BY RotatingIsAlone
<1>2. UNCHANGED <<store, current, auth, sync, server, ghosts>>
  BY DEF Rotate, server, ghosts
<1>3. refused \in Jobs /\ refused.pc = "refused" /\ refused.at = job[p].at /\ refused.read = job[p].read
      /\ refused.kind = job[p].kind /\ refused.new = job[p].new
  BY <1>1 DEF Jobs, Steps
<1>4. (job' = [job EXCEPT ![p] = refused] /\ plan' = plan) \/ Thrown(p)
  BY <1>0
<1>5. CASE p \in Ids
  <2>1. /\ ~(me.pc \in Locking /\ me.at = p) /\ UNCHANGED plan
        /\ job' = [job EXCEPT ![p] = refused] \/ job' = [job EXCEPT ![p] = Idle]
    BY <1>0, <1>1, <1>4, <1>5 DEF Thrown, me
  <2> HIDE DEF refused
  <2>2. Sure(p, refused)
    BY <1>1, <1>2, <1>3, <1>5 DEF Sure
  <2>3. Updates(p)
    BY <1>1, <1>2, <1>5 DEF Updates, TokensInv, Narrow
  <2> QED BY <1>2, <1>3, <1>5, <2>1, <2>2, <2>3, RestIsSure, JobGoesOn
<1>6. CASE p = User
  <2>1. LibraryRests /\ me.pc = "rotate"
    BY <1>1, <1>2, <1>6, SameLibraryRests DEF me
  <2>2. CASE Thrown(p)
    BY <1>2, <1>6, <2>1, <2>2, ThrownIsDone, DoneKeepsTokens
  <2>3. CASE job' = [job EXCEPT ![p] = refused] /\ plan' = plan
    <3> HIDE DEF refused
    <3>1. SureOfPage(refused)
      BY <1>1, <1>3, <1>6, <2>1, <2>3 DEF SureOfPage, Settled, TokensInv, Narrow
    <3>2. plan'.set \in SUBSET Ids
      BY <2>3 DEF IInv, PlanOK, Plans
    <3> QED BY <1>2, <1>6, <2>1, <2>3, <3>1, <3>2, PageGoesOn
  <2> QED BY <1>4, <2>2, <2>3
<1> QED BY <1>0, <1>5, <1>6

\* Whoever presents a token, and whatever becomes of it.
LEMMA RotateKeepsTokens ==
  ASSUME ManagerConstants, Restricted, IInv, TokensInv, NEW p \in Actors, Rotate(p)
  PROVE  TokensInv'
<1>1. job[p].at \in Ids
  BY RotatingIsAlone
<1>2. PICK i \in {job[p].at}, t \in {job[p].read.tok}, n \in {issued[job[p].at] + 1} : i \in Ids
  BY <1>1
<1>3. \/ /\ Issue(i, t) /\ spent' = [spent EXCEPT ![i] = @ \cup {t}] /\ UNCHANGED <<plan, gone>>
         /\ job' = [job EXCEPT ![p].pc = "rotated", ![p].new = n]
      \/ Issue(i, t) /\ gone' = gone \cup {i} /\ Thrown(p) /\ spent' = spent
      \/ /\ \/ job' = [job EXCEPT ![p].pc = "refused"] /\ plan' = plan
            \/ Thrown(p)
         /\ UNCHANGED <<issued, live, spent, gone>>
  BY <1>2 DEF Rotate
<1> QED BY <1>2, <1>3, RotatedKeepsTokens, LostKeepsTokens, RefusedKeepsTokens

\* Codex has another login, with a token nobody else has: its own next one, or that of an account logged in to.
LEMMA LoginKeepsTokens ==
  ASSUME ManagerConstants, IInv, TokensInv, NEW i \in Ids, NEW n, n = issued[i] + 1, NEW used, Issue(i, used),
         me.pc = "idle", auth'.id = i, auth'.tok = n, gone \subseteq gone',
         used # 0 => i = auth.id /\ used = auth.tok,
         auth.id = i \/ auth.id \in gone' \/ (store[auth.id] # Absent /\ store[auth.id].tok = auth.tok),
         UNCHANGED <<store, current, sync, job, plan, expired, handed, spent>>
  PROVE  TokensInv'
<1>0. /\ User \in Actors /\ Actors = Ids \cup {User} /\ User \notin Ids /\ User # Timer
      /\ job \in [Actors -> Jobs] /\ issued \in [Ids -> Nat] /\ store \in [Ids -> RealAccount \cup {Absent}]
      /\ (\A a \in RealAccount : a # Absent /\ a.tok \in Nat)
      /\ auth.id \in Ids /\ auth.tok \in Nat /\ sync.cred.tok \in Nat
      /\ \A k \in Ids : \A t \in live[k] : t \in Nat /\ t # 0
  <2>1. auth.tok \in Nat /\ sync.cred.tok \in Nat /\ auth.id \in Ids
    BY DEF IInv, StoreOK, SyncOK, RealLogin, Login, Tokens, ManagerConstants, TokensInv, Narrow
  <2>2. \A k \in Ids : \A t \in live[k] : t \in Nat /\ t # 0
    BY DEF IInv, ServerOK, Tokens, ManagerConstants
  <2> QED BY <2>1, <2>2, WhoIsWho, Typed
<1>1. sync.pc # "idle" => sync.by # User
  BY <1>0, Awaiting DEF me
<1>2. /\ issued[i] \in Nat /\ issued' \in [Ids -> Nat] /\ issued'[i] = n
      /\ \A k \in Ids : k # i => issued'[k] = issued[k] /\ live'[k] = live[k]
      /\ live'[i] = (live[i] \ {used}) \cup {n} /\ n \notin live[i] \cup expired[i] \cup spent[i]
      /\ \A k \in Ids : issued[k] <= issued'[k]
  BY NewToken
<1>3. me' = me /\ \A k \in Ids : (Renewing(k)' <=> Renewing(k))
  BY DEF me, Renewing
<1>4. Narrow'
  BY <1>3 DEF TokensInv, Narrow
<1>5. KnownTokens'
  <2>1. \A k \in Ids : store[k] # Absent => store[k].tok \in Nat /\ store[k].tok <= issued'[k]
    BY <1>0, <1>2, StillKnown DEF TokensInv, KnownTokens
  <2>2. sync.pc # "idle" => sync.cred.tok <= issued'[sync.cred.id]
    BY <1>0, <1>2, StillKnown DEF TokensInv, KnownTokens, Narrow
  <2>3. ASSUME NEW q \in Actors, job[q].read # Absent
        PROVE  job[q].at \in Ids /\ job[q].read.tok <= issued'[job[q].at] /\ job[q].new <= issued'[job[q].at]
    <3>1. job[q] \in Jobs /\ job[q].new \in Nat
      BY <1>0, Typed
    <3>2. job[q].read \in RealAccount
      BY <2>3, <3>1 DEF Jobs
    <3>3. job[q].at \in Ids /\ job[q].read.tok <= issued[job[q].at] /\ job[q].new <= issued[job[q].at]
      BY <2>3 DEF TokensInv, KnownTokens
    <3> QED BY <1>0, <1>2, <3>1, <3>2, <3>3, StillKnown
  <2> QED BY <1>2, <2>1, <2>2, <2>3 DEF KnownTokens
<1>6. LockIsHeld' /\ LoginWorks' /\ SpentIsDead' /\ LoginLasts'
  BY <1>0, <1>2, <1>3 DEF TokensInv, LockIsHeld, LoginWorks, Works, SpentIsDead, LoginLasts
<1>7. OthersAreSafe'
  <2>1. ASSUME NEW k \in Ids \ {i}, k \notin gone' PROVE Safe(k)'
    <3>1. Safe(k)
      <4>1. CASE k = auth.id
        BY <2>1, <4>1 DEF TokensInv, LoginWorks, Works, Safe
      <4>2. CASE k # auth.id
        BY <2>1, <4>2 DEF TokensInv, OthersAreSafe
      <4> QED BY <4>1, <4>2
    <3> QED BY <1>2, <1>3, <2>1, <3>1 DEF Safe
  <2>2. ~(sync.by = User /\ sync.pc = "mark")
    BY <1>1
  <2> QED BY <1>3, <2>1, <2>2 DEF OthersAreSafe, Settled
<1>8. StoreIsUnspent'
  BY <1>3 DEF TokensInv, StoreIsUnspent
<1>9. store[i] = Absent \/ store[i].tok # n
  BY <1>0, <1>2 DEF TokensInv, KnownTokens
<1>10. SyncKnows'
  <2>1. ASSUME sync.pc = "read"
        PROVE  \/ sync.cred.id \in gone' \/ sync.cred.tok \in live'[sync.cred.id]
               \/ i = sync.cred.id /\ (store[i] = Absent \/ store[i].tok # n)
    <3>1. CASE sync.cred.id = i
      BY <1>9, <3>1
    <3>2. CASE sync.cred.id # i
      <4>1. sync.cred.id \in Ids
        BY <2>1 DEF TokensInv, Narrow
      <4> QED BY <1>2, <2>1, <3>2, <4>1 DEF TokensInv, SyncKnows
    <3> QED BY <3>1, <3>2
  <2> QED BY <1>1, <1>3, <2>1 DEF TokensInv, SyncKnows, Settled
<1>11. PageActionKnows'
  BY <1>3 DEF PageActionKnows, Settled, Writing
<1>12. JobsKnow'
  <2>1. ASSUME NEW q \in Actors, job[q].pc \in Locking
        PROVE  /\ job[q].at \in Ids /\ (job[q].at = i => job[q].read.tok # n)
               /\ job[q].at = i /\ job[q].pc = "rotated" => job[q].new # n
    <3>1. job[q].at \in Ids /\ job[q].read \in RealAccount /\ job[q].new \in Nat
      BY <2>1, Typed DEF Holds, Locking
    <3> QED BY <1>0, <1>2, <3>1 DEF TokensInv, KnownTokens
  <2>2. ASSUME NEW q \in Actors, job[q].pc = "rotated" PROVE job[q].new \in live'[job[q].at]
    <3>1. job[q].new \in live[job[q].at] /\ (job[q].at = auth.id => job[q].new # auth.tok) /\ job[q].at \in Ids
      BY <2>1, <2>2 DEF TokensInv, JobsKnow, Locking
    <3> QED BY <1>0, <1>2, <3>1
  <2> QED BY <1>9, <2>1, <2>2 DEF TokensInv, JobsKnow, Locking
<1> QED BY <1>4, <1>5, <1>6, <1>7, <1>8, <1>10, <1>11, <1>12 DEF TokensInv

\* Access with a token is over, which no operation that has just looked at it meets.
LEMMA ExpireKeepsTokens ==
  ASSUME ManagerConstants, Restricted, IInv, TokensInv, NEW i \in Ids, NEW t \in Tokens, Expire(i, t)
  PROVE  TokensInv'
<1>0. /\ User \in Actors /\ Actors = Ids \cup {User} /\ User \notin Ids /\ job \in [Actors -> Jobs]
      /\ expired \in [Ids -> SUBSET Nat]
  BY WhoIsWho, Typed
<1>1. /\ UNCHANGED <<store, current, auth, sync, job, plan, issued, live, handed, spent, gone>> /\ me' = me
      /\ expired' = [expired EXCEPT ![i] = @ \cup {t}] /\ ~InHand(i, t)
  BY DEF Expire, ghosts, Restricted, me
<1>2. expired'[i] = expired[i] \cup {t} /\ \A k \in Ids : k # i => expired'[k] = expired[k]
  BY <1>0, <1>1
<1>3. ASSUME NEW p \in Actors, job[p].at = i, job[p].read # Absent PROVE t # job[p].read.tok /\ t # job[p].new
  BY <1>1, <1>3 DEF InHand
<1>4. auth.id = i /\ auth.tok = t => current = i /\ sync.pc = "idle"
  <2>1. auth = [id |-> auth.id, tok |-> auth.tok]
    BY DEF IInv, StoreOK, RealLogin, Login
  <2> QED BY <1>1, <2>1 DEF InHand
<1>5. \A k \in Ids : Renewing(k)' <=> Renewing(k)
  BY <1>1 DEF Renewing
<1>6. Narrow' /\ KnownTokens' /\ LockIsHeld' /\ LoginWorks' /\ SpentIsDead'
  BY <1>1 DEF TokensInv, Narrow, KnownTokens, LockIsHeld, LoginWorks, Works, SpentIsDead
<1>7. OthersAreSafe' /\ StoreIsUnspent' /\ SyncKnows'
  BY <1>1, <1>5 DEF TokensInv, OthersAreSafe, Safe, StoreIsUnspent, SyncKnows
<1>8. PageActionKnows'
  <2>1. me.pc \in Writing => me.at \in Ids /\ me.read.tok \notin expired'[me.at]
    <3>1. me.pc \in Writing => me.at \in Ids
      BY DEF TokensInv, Narrow, Writing, IInv, PlanOK, Plans
    <3> QED BY <1>0, <1>2, <1>3, <3>1 DEF TokensInv, PageActionKnows, Writing, me
  <2> QED BY <1>1, <2>1 DEF TokensInv, PageActionKnows, Works
<1>9. LoginLasts'
  BY <1>1, <1>2, <1>4 DEF TokensInv, LoginLasts
<1>10. JobsKnow'
  <2>1. ASSUME NEW p \in Actors, job[p].pc \in {"rotated", "quota"} PROVE job[p].at \in Ids /\ job[p].read # Absent
    BY <2>1, WhoIsWho, Typed DEF Holds
  <2>2. \A k \in Ids : job[k].pc = "quota" => job[k].at = k
    BY DEF TokensInv, Narrow
  <2> QED BY <1>0, <1>1, <1>2, <1>3, <2>1, <2>2 DEF TokensInv, JobsKnow
<1> QED BY <1>6, <1>7, <1>8, <1>9, <1>10 DEF TokensInv

\* The server, Codex or another device acts; no token was handed to another device.
LEMMA OutsideKeepsTokens ==
  ASSUME ManagerConstants, Restricted, IInv, TokensInv, Outside
  PROVE  TokensInv'
<1>1. CASE CodexRotates
  <2>0. auth.id \in Ids /\ auth \in Login
    BY DEF TokensInv, Narrow, IInv, StoreOK, RealLogin
  <2>1. PICK i \in {auth.id}, n \in {issued[auth.id] + 1} : i \in Ids
    BY <2>0
  <2>2. /\ me.pc = "idle" /\ Issue(i, auth.tok) /\ auth' = [auth EXCEPT !.tok = n]
        /\ UNCHANGED <<store, current, sync, job, plan, expired, handed, spent, gone>>
    BY <1>1, <2>1 DEF CodexRotates, Restricted, me, ghosts
  <2>3. auth'.id = i /\ auth'.tok = n
    BY <2>0, <2>1, <2>2 DEF Login
  <2> QED BY <2>1, <2>2, <2>3, LoginKeepsTokens
<1>2. ASSUME NEW i \in Ids, CodexLogsIn(i) PROVE TokensInv'
  <2>1. PICK n : n = issued[i] + 1
    OBVIOUS
  <2>2. /\ me.pc = "idle" /\ Issue(i, 0) /\ auth'.id = i /\ auth'.tok = n /\ gone \subseteq gone'
        /\ UNCHANGED <<store, current, sync, job, plan, expired, handed, spent>>
    BY <1>2, <2>1 DEF CodexLogsIn, Restricted, me
  <2>3. auth.id = i \/ auth.id \in gone' \/ (store[auth.id] # Absent /\ store[auth.id].tok = auth.tok)
    <3>1. auth.id # NoId
      BY WhoIsWho DEF TokensInv, Narrow
    <3> QED BY <1>2, <3>1 DEF CodexLogsIn
  <2> QED BY <2>1, <2>2, <2>3, LoginKeepsTokens
<1>3. ASSUME NEW i \in Ids PROVE ~Received(i)
  <2>1. handed[i] = 0 /\ 0 \notin live[i]
    BY DEF TokensInv, Narrow, IInv, ServerOK, Tokens, ManagerConstants
  <2> QED BY <2>1 DEF Received
<1> QED BY <1>1, <1>2, <1>3, ExpireKeepsTokens DEF Outside

-----------------------------------------------------------------------------
(* The sync *)

\* A run reads auth.json.
LEMMA SyncReadKeepsTokens ==
  ASSUME ManagerConstants, IInv, TokensInv, NEW p \in Actors \cup {Timer}, SyncRead(p)
  PROVE  TokensInv'
<1>1. /\ sync.pc = "idle" /\ (\A q \in Actors : job[q].pc # "synced")
      /\ sync'.by = p /\ sync'.pc = "read" /\ sync'.cred = auth
      /\ UNCHANGED <<store, current, auth, job, plan, issued, live, expired, handed, spent, gone>> /\ me' = me
  BY DEF SyncRead, server, ghosts, me
<1>2. \A k \in Ids : Renewing(k)' <=> Renewing(k)
  BY <1>1 DEF Renewing
<1>3. Narrow' /\ KnownTokens' /\ LockIsHeld' /\ LoginWorks' /\ SpentIsDead' /\ LoginLasts'
  BY <1>1 DEF TokensInv, Narrow, KnownTokens, LockIsHeld, LoginWorks, Works, SpentIsDead, LoginLasts
<1>4. OthersAreSafe' /\ StoreIsUnspent'
  BY <1>1, <1>2 DEF TokensInv, OthersAreSafe, Safe, StoreIsUnspent
<1>5. SyncKnows'
  BY <1>1 DEF TokensInv, SyncKnows, LoginWorks, Works
<1>6. PageActionKnows'
  BY <1>1 DEF TokensInv, PageActionKnows, Works
<1>7. JobsKnow'
  BY <1>1 DEF TokensInv, JobsKnow
<1> QED BY <1>3, <1>4, <1>5, <1>6, <1>7 DEF TokensInv

\* The login is news for the library.
LEMMA SyncRenewedKeepsTokens ==
  ASSUME ManagerConstants, IInv, TokensInv, SyncRenewed
  PROVE  TokensInv'
<1>0. /\ User \in Actors /\ Actors = Ids \cup {User} /\ User \notin Ids /\ User # Timer /\ job \in [Actors -> Jobs]
      /\ store \in [Ids -> RealAccount \cup {Absent}] /\ (\A a \in RealAccount : a # Absent)
  BY WhoIsWho, Typed
<1>1. PICK i \in {sync.cred.id}, t \in {sync.cred.tok} : i \in Ids
  BY DEF SyncRenewed, Compare, TokensInv, Narrow
<1> DEFINE a == [status |-> "active", tok |-> t]
<1>2. /\ sync.pc = "read" /\ sync'.pc = "mark" /\ sync'.by = sync.by /\ sync'.cred = sync.cred
      /\ store' = [store EXCEPT ![i] = a]
      /\ UNCHANGED <<current, auth, job, plan, issued, live, expired, handed, spent, gone>> /\ me' = me
  BY <1>1 DEF SyncRenewed, Compare, server, ghosts, me, IInv, SyncOK
<1>3. /\ \A k \in Ids : k # i => store'[k] = store[k]
      /\ store'[i] = a /\ a # Absent /\ a.tok = t /\ a.status # "transferred"
  BY <1>0, <1>1, <1>2 DEF IInv, SyncOK, RealLogin, Login, ManagerConstants, Account
<1> HIDE DEF a
<1>4. \A k \in Ids : Renewing(k)' <=> Renewing(k)
  BY <1>2 DEF Renewing
<1>5. /\ i \in gone \/ t \in live[i] \/ auth.id = i
      /\ me.pc \in Settled \/ sync.by = User => auth.id = i /\ auth.tok = t
  BY <1>1, <1>2 DEF TokensInv, SyncKnows
<1>a. t \notin spent[i]
  BY <1>1, <1>2 DEF TokensInv, SyncKnows
<1>6. Narrow' /\ LockIsHeld' /\ LoginWorks' /\ SpentIsDead' /\ LoginLasts'
  BY <1>1, <1>2, <1>3 DEF TokensInv, Narrow, LockIsHeld, LoginWorks, Works, SpentIsDead, LoginLasts
<1>7. KnownTokens'
  BY <1>1, <1>2, <1>3 DEF TokensInv, KnownTokens
<1>8. OthersAreSafe'
  <2>1. ASSUME NEW k \in Ids \ gone, k # i,
               k # auth.id \/ me.pc \in Settled \/ sync.by = User
        PROVE  Safe(k)'
    <3>1. k # auth.id \/ me.pc \in Settled
      BY <1>5, <2>1
    <3>2. Safe(k)
      BY <2>1, <3>1 DEF TokensInv, OthersAreSafe
    <3> QED BY <1>2, <1>3, <1>4, <2>1, <3>2 DEF Safe
  <2>2. ASSUME i \notin gone, i # auth.id \/ me.pc \in Settled \/ sync.by = User PROVE Safe(i)'
    <3>1. t \in live[i]
      BY <1>5, <2>2 DEF TokensInv, LoginWorks, Works
    <3> QED BY <1>2, <1>3, <3>1 DEF Safe
  <2> QED BY <1>2, <2>1, <2>2 DEF OthersAreSafe
<1>9. StoreIsUnspent'
  <2>1. ASSUME NEW k \in Ids, store'[k] # Absent, store'[k].tok \in spent[k] PROVE Renewing(k)'
    BY <1>3, <1>4, <1>a, <2>1 DEF TokensInv, StoreIsUnspent
  <2> QED BY <1>2, <2>1 DEF StoreIsUnspent
<1>10. SyncKnows'
  BY <1>0, <1>2 DEF TokensInv, SyncKnows
<1>11. PageActionKnows'
  <2>1. me.pc \in Writing => me.at \in Ids
    BY DEF TokensInv, Narrow, Writing, IInv, PlanOK, Plans
  <2>2. me.pc = "auth" => me.at # i
    BY <1>5 DEF TokensInv, PageActionKnows, Narrow, Settled
  <2>3. me.pc = "current" /\ me.at = i => t = me.read.tok
    BY <1>1, <1>2 DEF TokensInv, PageActionKnows
  <2>4. me.pc \in Writing => store'[me.at] # Absent /\ store'[me.at].tok = me.read.tok
    BY <1>3, <2>1, <2>2, <2>3 DEF TokensInv, PageActionKnows, Writing
  <2> QED BY <1>2, <2>1, <2>4 DEF TokensInv, PageActionKnows, Works
<1>12. JobsKnow'
  <2>1. ASSUME NEW k \in Ids, job[k].kind = "forced", auth.id = k, store'[k] # Absent, store'[k].tok = auth.tok
        PROVE  sync.cred.id = k /\ job[k].pc # "synced"
    <3>1. job[k].pc # "synced"
      BY <1>0, <1>2 DEF TokensInv, SyncKnows
    <3> QED BY <1>1, <1>2, <1>3, <2>1, <3>1 DEF TokensInv, JobsKnow
  <2> QED BY <1>2, <2>1 DEF TokensInv, JobsKnow
<1> QED BY <1>6, <1>7, <1>8, <1>9, <1>10, <1>11, <1>12 DEF TokensInv

\* A run ends: the marker follows the login it has read, or its operation fails.
LEMMA SyncEndKeepsTokens ==
  ASSUME ManagerConstants, IInv, TokensInv, NEW ok \in BOOLEAN, SyncEnd(ok), sync.pc # "idle",
         UNCHANGED <<store, auth, server, ghosts>>,
         current' = IF ok THEN sync.cred.id ELSE current, ~ok => current # sync.cred.id,
         sync.by = User /\ auth.id \notin gone => Safe(auth.id)
  PROVE  TokensInv'
<1>0. /\ User \in Actors /\ Actors = Ids \cup {User} /\ User \notin Ids /\ User # Timer /\ Timer \notin Ids
      /\ job \in [Actors -> Jobs] /\ auth.id \in Ids
  BY WhoIsWho, Typed DEF TokensInv, Narrow
<1> DEFINE p == sync.by
           j == IF ok THEN [job[p] EXCEPT !.pc = "synced"] ELSE Idle
<1>1. p # Timer => p \in Actors /\ job[p].pc = "sync" /\ job[p] \in Jobs
  BY <1>0, Awaiting
<1>2. UNCHANGED <<store, auth, issued, live, expired, handed, spent, gone>> /\ sync'.pc = "idle"
  BY DEF server, ghosts, SyncEnd, Quiet
<1>3. Idle.pc = "idle" /\ Idle.read = Absent /\ Idle.kind = "none"
  BY DEF Idle, Blank
<1>4. /\ plan' = IF p = User /\ ~ok THEN NoPlan ELSE plan
      /\ p = Timer => job' = job
      /\ p # Timer => job' = [job EXCEPT ![p] = j]
  BY <1>0, <1>1 DEF SyncEnd
<1>5. p # Timer /\ ok => /\ j.pc = "synced" /\ j.at = job[p].at /\ j.read = job[p].read /\ j.new = job[p].new
                         /\ j.kind = job[p].kind /\ j.cur = job[p].cur
  BY <1>1 DEF Jobs
<1>6. ~ok => j = Idle
  OBVIOUS
<1> HIDE DEF j
<1>7. /\ p # Timer => job'[p] = j
      /\ \A q \in Actors : q # p => job'[q] = job[q]
  BY <1>0, <1>1, <1>4
<1>8. me' = IF p = User THEN j ELSE me
  BY <1>0, <1>7 DEF me
<1>9. p = User => me.pc = "sync"
  BY <1>0, <1>1 DEF me
<1>10. \A q \in Actors : job[q].pc # "synced"
  BY DEF TokensInv, SyncKnows
<1> HIDE DEF p
<1>11. ASSUME NEW k \in Ids PROVE Renewing(k)' <=> Renewing(k)
  <2>1. job'[k].pc = "rotated" <=> job[k].pc = "rotated"
    BY <1>0, <1>1, <1>3, <1>5, <1>6, <1>7
  <2>2. me'.pc = "rotated" /\ me'.at = k <=> me.pc = "rotated" /\ me.at = k
    BY <1>0, <1>3, <1>5, <1>6, <1>8, <1>9
  <2> QED BY <2>1, <2>2 DEF Renewing
<1>12. Narrow'
  <2>1. NoPlan.op = "none" /\ ~NoPlan.tx
    BY DEF NoPlan
  <2>2. plan'.op \in {"none", "switch", "remove"} /\ ~plan'.tx
    BY <1>4, <2>1 DEF TokensInv, Narrow
  <2>3. ASSUME NEW k \in Ids
        PROVE  IF job'[k].pc = "idle" THEN job'[k] = Idle ELSE job'[k].at = k /\ store'[k] # Absent
    <3>1. job[k].pc = "idle" => job[k] = Idle
      BY DEF TokensInv, Narrow
    <3>2. job[k].pc # "idle" => job[k].at = k /\ store[k] # Absent
      BY DEF TokensInv, Narrow
    <3>3. CASE k = p /\ ok
      BY <1>0, <1>1, <1>2, <1>5, <1>7, <3>2, <3>3
    <3>4. CASE k = p /\ ~ok
      BY <1>0, <1>3, <1>6, <1>7, <3>4
    <3>5. CASE k # p
      BY <1>0, <1>2, <1>7, <3>1, <3>2, <3>5
    <3> QED BY <3>3, <3>4, <3>5
  <2>4. /\ me'.pc \in Settled \cup {"idle", "sync", "current"} /\ (me'.pc # "idle" => plan'.op # "none")
        /\ me'.pc \in {"rotate", "rotated", "refused", "auth", "current"} => plan'.op = "switch" /\ me'.at \in plan'.set
    <3>1. CASE p = User
      BY <1>0, <1>3, <1>4, <1>5, <1>6, <1>8, <1>9, <3>1 DEF TokensInv, Narrow, Settled
    <3>2. CASE p # User
      BY <1>4, <1>8, <3>2 DEF TokensInv, Narrow
    <3> QED BY <3>1, <3>2
  <2> QED BY <1>2, <2>2, <2>3, <2>4 DEF TokensInv, Narrow
<1>13. KnownTokens'
  <2>1. ASSUME NEW q \in Actors, job'[q].read # Absent
        PROVE  job'[q].at \in Ids /\ job'[q].read.tok <= issued[job'[q].at] /\ job'[q].new <= issued[job'[q].at]
    <3>1. job'[q].read = job[q].read /\ job'[q].at = job[q].at /\ job'[q].new = job[q].new
      BY <1>0, <1>1, <1>3, <1>5, <1>6, <1>7, <2>1
    <3> QED BY <2>1, <3>1 DEF TokensInv, KnownTokens
  <2> QED BY <1>2, <2>1 DEF TokensInv, KnownTokens
<1>14. LockIsHeld'
  <2>1. CASE p = User
    BY <1>0, <1>3, <1>5, <1>6, <1>8, <2>1 DEF LockIsHeld, Locking
  <2>2. CASE p # User
    <3>1. me.pc \in Locking => me.at \in Actors /\ job[me.at].pc = "idle"
      BY <1>0 DEF TokensInv, LockIsHeld, Narrow, Locking, IInv, PlanOK, Plans
    <3>2. me.pc \in Locking => job'[me.at] = job[me.at]
      BY <1>0, <1>1, <1>7, <2>2, <3>1 DEF TokensInv, Narrow, Locking
    <3> QED BY <1>8, <2>2, <3>1, <3>2 DEF LockIsHeld
  <2> QED BY <2>1, <2>2
<1>15. LoginWorks' /\ SpentIsDead'
  BY <1>2 DEF TokensInv, LoginWorks, Works, SpentIsDead
<1>16. OthersAreSafe'
  <2>1. ASSUME NEW k \in Ids, Safe(k) PROVE Safe(k)'
    BY <1>2, <1>11, <2>1 DEF Safe
  <2>2. ASSUME NEW k \in Ids \ gone, k # auth.id \/ me.pc \in Settled \/ p = User PROVE Safe(k)
    BY <2>2 DEF TokensInv, OthersAreSafe, p
  <2> QED BY <1>2, <1>8, <2>1, <2>2 DEF OthersAreSafe
<1>17. StoreIsUnspent'
  BY <1>2, <1>11 DEF TokensInv, StoreIsUnspent
<1>18. SyncKnows'
  BY <1>2 DEF SyncKnows
<1>19. PageActionKnows'
  <2>1. me.pc \in Settled \/ p = User => sync.cred = auth
    BY DEF TokensInv, SyncKnows, p
  <2>2. me'.pc \in Settled => current' = auth'.id
    BY <1>2, <1>3, <1>6, <1>8, <2>1 DEF TokensInv, PageActionKnows, Settled
  <2>3. CASE p = User
    BY <1>0, <1>2, <1>3, <1>5, <1>6, <1>8, <2>2, <2>3 DEF PageActionKnows, Settled, Writing
  <2>4. CASE p # User
    <3>1. me.pc \in Writing => me.at \in Ids
      BY DEF TokensInv, Narrow, Writing, IInv, PlanOK, Plans
    <3>2. ASSUME NEW k \in Ids, job[k].pc \notin Locking, job[k].kind # "forced"
          PROVE  job'[k].pc \notin Locking /\ job'[k].kind # "forced"
      BY <1>0, <1>1, <1>3, <1>5, <1>6, <1>7, <3>2 DEF Locking
    <3>3. me' = me /\ plan' = plan
      BY <1>4, <1>8, <2>4
    <3> QED BY <1>2, <2>2, <3>1, <3>2, <3>3 DEF TokensInv, PageActionKnows, Works, Writing
  <2> QED BY <2>3, <2>4
<1>20. LoginLasts'
  BY <1>2 DEF TokensInv, LoginLasts
<1>21. JobsKnow'
  <2>1. ASSUME NEW q \in Actors, job'[q].pc \in {"rotate", "rotated", "quota", "sync"} PROVE job'[q] = job[q]
    BY <1>0, <1>1, <1>3, <1>5, <1>6, <1>7, <2>1
  <2>2. ASSUME NEW q \in Actors, job'[q].pc = "synced"
        PROVE  q = p /\ ok /\ job[q].pc = "sync" /\ job'[q].cur = job[q].cur
    BY <1>0, <1>1, <1>3, <1>5, <1>6, <1>7, <1>10, <2>2
  <2>3. ASSUME NEW q \in Actors, job'[q].kind \in {"retry", "forced"} PROVE job'[q].kind = job[q].kind
    BY <1>0, <1>1, <1>3, <1>5, <1>6, <1>7, <2>3
  <2>4. ASSUME NEW k \in Ids, job'[k].kind = "retry", job'[k].pc \in {"sync", "synced"} PROVE job'[k].cur
    BY <1>0, <2>1, <2>2, <2>3, <2>4 DEF TokensInv, JobsKnow
  <2>5. ASSUME NEW k \in Ids, job'[k].kind = "forced", auth.id = k, store[k] # Absent, store[k].tok = auth.tok,
               job'[k].pc = "synced"
        PROVE  current' = k
    BY <1>0, <2>2, <2>3, <2>5 DEF TokensInv, JobsKnow
  <2> QED BY <1>0, <1>2, <2>1, <2>4, <2>5 DEF TokensInv, JobsKnow
<1> QED BY <1>12, <1>13, <1>14, <1>15, <1>16, <1>17, <1>18, <1>19, <1>20, <1>21 DEF TokensInv

\* The library has the login already.
LEMMA SyncUnchangedKeepsTokens ==
  ASSUME ManagerConstants, IInv, TokensInv, SyncUnchanged
  PROVE  TokensInv'
<1> DEFINE yes == TRUE
<1>1. /\ sync.pc = "read" /\ SyncEnd(yes) /\ UNCHANGED <<store, auth, server, ghosts>>
      /\ current' = sync.cred.id /\ yes \in BOOLEAN
  BY DEF SyncUnchanged, Compare
<1>2. sync.by = User /\ auth.id \notin gone => Safe(auth.id)
  <2>1. sync.by = User => sync.cred = auth
    BY <1>1 DEF TokensInv, SyncKnows
  <2>2. ~Renewed(sync.cred.id, sync.cred.tok)
    BY DEF SyncUnchanged
  <2>3. sync.cred.id \in Ids
    BY <1>1 DEF TokensInv, Narrow
  <2>4. store[sync.cred.id] # Absent => store[sync.cred.id] \in RealAccount
    BY <2>3, Typed
  <2>5. store[sync.cred.id] # Absent => store[sync.cred.id].tok = sync.cred.tok
    BY <2>2, <2>4 DEF Renewed, RealAccount
  <2> QED BY <2>1, <2>5 DEF TokensInv, LoginWorks, Works, Safe
<1>3. current' = IF yes THEN sync.cred.id ELSE current
  BY <1>1
<1>4. ~yes => current # sync.cred.id
  OBVIOUS
<1> HIDE DEF yes
<1> QED BY <1>1, <1>2, <1>3, <1>4, SyncEndKeepsTokens

\* The marker follows, if the account is still there.
LEMMA SyncMarkKeepsTokens ==
  ASSUME ManagerConstants, IInv, TokensInv, SyncMark
  PROVE  TokensInv'
<1> DEFINE ok == current = sync.cred.id \/ Selectable(sync.cred.id)
<1>1. /\ sync.pc = "mark" /\ SyncEnd(ok) /\ UNCHANGED <<store, auth, server, ghosts>> /\ ok \in BOOLEAN
      /\ current' = IF ok THEN sync.cred.id ELSE current
      /\ ~ok => current # sync.cred.id
  BY DEF SyncMark
<1> HIDE DEF ok
<1>2. sync.by = User /\ auth.id \notin gone => Safe(auth.id)
  BY <1>1 DEF TokensInv, OthersAreSafe, Narrow
<1> QED BY <1>1, <1>2, SyncEndKeepsTokens

\* No run meets an empty auth.json or the login of a transferred account.
LEMMA SyncKeepsTokens ==
  ASSUME ManagerConstants, IInv, TokensInv, Sync
  PROVE  TokensInv'
<1>1. sync.pc = "read" => /\ sync.cred.id # NoId
                          /\ store[sync.cred.id] # Absent => store[sync.cred.id].status # "transferred"
  BY WhoIsWho DEF TokensInv, Narrow
<1>2. ~SyncEmpty
  BY <1>1 DEF SyncEmpty, Compare
<1>3. ASSUME SyncTransferred PROVE FALSE
  <2> DEFINE i == sync.cred.id
             a == [status |-> "transferred", tok |-> sync.cred.tok]
  <2>1. sync.pc = "read" /\ store[i] = a
    BY <1>3 DEF SyncTransferred, Compare
  <2>2. sync.cred.tok \in Tokens
    BY DEF IInv, SyncOK, Login
  <2>3. a \in Account /\ a.status = "transferred"
    BY <2>2 DEF Account
  <2>4. a # Absent
    BY <2>3 DEF ManagerConstants
  <2> HIDE DEF a
  <2> QED BY <1>1, <2>1, <2>3, <2>4
<1> QED BY <1>2, <1>3, SyncReadKeepsTokens, SyncRenewedKeepsTokens, SyncUnchangedKeepsTokens, SyncMarkKeepsTokens
        DEF Sync, SyncApply

-----------------------------------------------------------------------------
(* The theorems *)

\* Initially every account and the login have their first token, and nobody is under way.
LEMMA InitTokensInv ==
  ASSUME ManagerConstants, Init
  PROVE  TokensInv
<1>1. /\ \A p \in Actors : job[p] = Idle
      /\ \A i \in Ids : store[i].status = "active" /\ store[i].tok = 1 /\ issued[i] = 1 /\ live[i] = {1}
                        /\ expired[i] = {} /\ spent[i] = {} /\ handed[i] = 0
      /\ current \in Ids /\ auth.id = current /\ auth.tok = 1 /\ sync.pc = "idle" /\ plan = NoPlan
  BY DEF Init, Quiet
<1>2. Idle.pc = "idle" /\ Idle.kind = "none" /\ Idle.read = Absent
  BY DEF Idle, Blank
<1>3. NoPlan.op = "none" /\ ~NoPlan.tx
  BY DEF NoPlan
<1>4. me = Idle /\ Ids \subseteq Actors
  BY <1>1 DEF me, Actors
<1>5. Narrow
  BY <1>1, <1>2, <1>3, <1>4 DEF Narrow
<1>6. KnownTokens /\ LockIsHeld
  BY <1>1, <1>2, <1>4 DEF KnownTokens, LockIsHeld, Locking
<1>7. LoginWorks /\ OthersAreSafe /\ StoreIsUnspent /\ SpentIsDead
  BY <1>1 DEF LoginWorks, Works, OthersAreSafe, Safe, StoreIsUnspent, SpentIsDead
<1>8. SyncKnows /\ PageActionKnows /\ LoginLasts
  BY <1>1, <1>2, <1>4 DEF SyncKnows, PageActionKnows, LoginLasts, Settled, Writing
<1>9. JobsKnow
  BY <1>1, <1>2, <1>4 DEF JobsKnow
<1> QED BY <1>5, <1>6, <1>7, <1>8, <1>9 DEF TokensInv

\* A step that changes nothing.
LEMMA StutterKeepsTokens ==
  ASSUME TokensInv, UNCHANGED vars
  PROVE  TokensInv'
<1>1. /\ UNCHANGED <<store, current, auth, sync, job, plan, issued, live, expired, handed, spent, gone>>
      /\ me' = me
  BY DEF vars, server, ghosts, me
<1>2. Narrow' /\ KnownTokens' /\ LockIsHeld'
  BY <1>1 DEF TokensInv, Narrow, KnownTokens, LockIsHeld
<1>3. LoginWorks' /\ OthersAreSafe' /\ StoreIsUnspent' /\ SpentIsDead'
  BY <1>1 DEF TokensInv, LoginWorks, Works, OthersAreSafe, Safe, StoreIsUnspent, SpentIsDead, Renewing
<1>4. SyncKnows' /\ PageActionKnows' /\ LoginLasts' /\ JobsKnow'
  BY <1>1 DEF TokensInv, SyncKnows, PageActionKnows, Works, LoginLasts, JobsKnow
<1> QED BY <1>2, <1>3, <1>4 DEF TokensInv

\* No step of a job loses a token.
LEMMA JobKeepsTokens ==
  ASSUME ManagerConstants, Restricted, IInv, TokensInv, NEW i \in Ids, Job(i)
  PROVE  TokensInv'
BY StartRefreshKeepsTokens, StartWakeupKeepsTokens, JobSyncedKeepsTokens, JobGivenKeepsTokens,
   JobQuotaKeepsTokens, JobSaveKeepsTokens, JobRefusedKeepsTokens DEF Job

\* Where every token is: the inductive invariant of the rotation of tokens.
THEOREM TokensInvariant ==
  ASSUME ManagerConstants, Restricted
  PROVE  Spec => [](IInv /\ TokensInv)
<1>1. Init => TokensInv
  BY InitTokensInv
<1>2. IInv /\ TokensInv /\ [Next]_vars => TokensInv'
  <2> SUFFICES ASSUME IInv, TokensInv, [Next]_vars PROVE TokensInv'
    OBVIOUS
  <2>1. CASE Sync
    BY <2>1, SyncKeepsTokens
  <2>2. ASSUME NEW i \in Ids, Job(i) PROVE TokensInv'
    BY <2>2, JobKeepsTokens
  <2>3. CASE PageAction
    BY <2>3, PageActionKeepsTokens
  <2>4. ASSUME NEW p \in Actors, Rotate(p) PROVE TokensInv'
    BY <2>4, RotateKeepsTokens
  <2>5. CASE Outside
    BY <2>5, OutsideKeepsTokens
  <2> QED BY <2>1, <2>2, <2>3, <2>4, <2>5, StutterKeepsTokens DEF Next
<1> QED BY <1>1, <1>2, AccountManagerInvariant, PTL DEF Spec

\* An active account keeps a refresh token the server accepts, in the library, in auth.json or in a
\* running operation, whatever refreshes, wake-ups, switches, removals, syncs and Codex do meanwhile.
THEOREM ALiveTokenIsKept ==
  ASSUME ManagerConstants, Restricted
  PROVE  Spec => []KeepsALiveToken
<1>1. IInv /\ TokensInv => KeepsALiveToken
  <2> SUFFICES ASSUME IInv, TokensInv, NEW i \in Ids \ gone, store[i] # Absent
               PROVE  HeldTokens(i) \cap live[i] # {}
    BY DEF KeepsALiveToken
  <2>1. CASE i = auth.id
    <3>1. auth.tok \in live[i]
      BY <2>1 DEF TokensInv, LoginWorks, Works
    <3>2. auth.tok \in HeldTokens(i)
      BY <2>1 DEF HeldTokens
    <3> QED BY <3>1, <3>2
  <2>2. CASE store[i].tok \in live[i]
    BY <2>2 DEF HeldTokens
  <2>3. CASE Renewing(i)
    <3>1. PICK p \in Actors : job[p].pc = "rotated" /\ job[p].at = i
      BY <2>3, WhoIsWho, Typed DEF Renewing, me, TokensInv, Narrow, Idle, Blank
    <3>2. job[p].read # Absent
      BY <3>1, WhoIsWho, Typed DEF Holds
    <3>3. job[p].new \in live[i]
      BY <3>1 DEF TokensInv, JobsKnow
    <3>4. job[p].new \in HeldTokens(i)
      <4>1. p \in {q \in Actors : job[q].at = i /\ job[q].read # Absent}
        BY <3>1, <3>2
      <4>2. job[p].new \in UNION {{job[q].new, job[q].read.tok} : q \in {r \in Actors : job[r].at = i /\ job[r].read # Absent}}
        BY <4>1
      <4> QED BY <4>2 DEF HeldTokens
    <3> QED BY <3>3, <3>4
  <2> QED BY <2>1, <2>2, <2>3 DEF TokensInv, OthersAreSafe, Safe
<1> QED BY <1>1, TokensInvariant, PTL

\* No refresh token is presented after it was exchanged, Codex is logged in with tokens that work, and
\* every variable keeps its type.
THEOREM TokensAreUsedOnce ==
  ASSUME ManagerConstants, Restricted
  PROVE  Spec => TokensLiveOn
<1> DEFINE Once == \A p \in Actors : Rotate(p) => job[p].read.tok \notin spent[job[p].at]
           Good == (UserAuth \/ UserUndoAuth) /\ auth' # auth /\ auth'.id # NoId /\ auth'.id \notin gone
                      => auth'.tok \in live[auth'.id]
<1>1. TokensInv => Once
  BY DEF TokensInv, JobsKnow, Rotate
<1>2. ManagerConstants /\ IInv /\ TokensInv => Good
  <2> SUFFICES ASSUME ManagerConstants, IInv, TokensInv, UserAuth \/ UserUndoAuth,
                      auth' # auth, auth'.id \notin gone
               PROVE  auth'.tok \in live[auth'.id]
    OBVIOUS
  <2>1. ~UserUndoAuth
    BY DEF TokensInv, Narrow, UserUndoAuth, Settled
  <2>2. UserAuth
    BY <2>1
  <2>3. me.pc = "auth" /\ me.at # NoId
    BY <2>2, WhoIsWho DEF UserAuth, TokensInv, Narrow, IInv, PlanOK, Plans
  <2>4. auth'.id = me.at /\ auth'.tok = me.read.tok
    BY <2>2, <2>3 DEF UserAuth
  <2> QED BY <2>3, <2>4 DEF TokensInv, PageActionKnows, Works
<1>3. Spec => [][Once]_vars
  BY <1>1, TokensInvariant, PTL DEF Spec
<1>4. Spec => [][Good]_vars
  BY <1>2, TokensInvariant, PTL DEF Spec
<1>5. Spec => []TypeOK
  BY AccountManagerTypeCorrect
<1> QED BY <1>3, <1>4, <1>5 DEF TokensLiveOn, NoTokenPresentedTwice, WritesALiveToken
================================================================================
