---------------------------- MODULE AccountManager ----------------------------
(***************************************************************************)
(* The life of OAuth credentials in src/account-manager.mjs and its    *)
(* account-manager/ modules.  A refresh token works once: presenting it    *)
(* consumes it and returns the next one.  Four parties hold tokens: the    *)
(* account library (store), the Codex login file (auth), the injector's    *)
(* asynchronous operations and Codex itself.  Every await is a point where *)
(* the others may act, so each operation is a sequence of actions:         *)
(*                                                                         *)
(*   job[i]   refreshAccount or withWakeupAccount of account i; it holds   *)
(*            the account's lock (refreshLocks) from its start to its end  *)
(*   job[User] the page action that runs: switch, remove, restore, or one  *)
(*            of the two exports (page actions run one at a time)          *)
(*   sync     the chain officialSyncPromise, one run at a time             *)
(*   Codex    rotates its own login, or logs in anew (external)            *)
(*                                                                         *)
(* A token of an account is its number in order of issue.  The store's     *)
(* operations are atomic here: AccountStore models their steps.  Temporary *)
(* and API-key accounts, which have no token to rotate, are left out.      *)
(***************************************************************************)
EXTENDS Naturals, FiniteSets, TLC

CONSTANTS
  Ids,         \* accounts
  NoId,        \* no account (currentAccountId = null, an empty auth.json)
  User,        \* the page action, as an actor next to the accounts' jobs
  Timer,       \* a sync started by the 60 s timer or the auth.json watcher
  Absent,      \* the library has no such account
  Ops,         \* the page actions of this instance
  Opaque,      \* access tokens may have no readable expiry, or be revoked early
  Racing,      \* the injector's file accesses may overlap a network answer, and its
               \* page actions a write of auth.json by Codex
  MaxTokens,   \* bound: tokens the server issues per account
  MaxJobs,     \* bound: refreshes and wake-ups in a behaviour
  MaxOps,      \* bound: page actions in a behaviour
  MaxFaults    \* bound: lost answers and failed writes in a behaviour

Operations == {"switch", "remove", "restore", "temporary", "handoff"}

Exports == {"temporary", "handoff"}
Wakeups == {"wakeup", "forced"}  \* getCredentials called first, or with forceRefresh
Tokens  == 0 .. MaxTokens
Account == [status : {"active", "needsReauth", "transferred"}, tok : Tokens]
Login   == [id : Ids \cup {NoId}, tok : Tokens]

ASSUME ManagerConstants ==
  /\ {NoId, User, Timer, Absent} \cap Ids = {} /\ User # Timer /\ Absent \notin Account
  /\ Ops \subseteq Operations
  /\ Opaque \in BOOLEAN /\ Racing \in BOOLEAN
  /\ MaxTokens \in Nat \ {0}
  /\ MaxJobs \in Nat /\ MaxOps \in Nat /\ MaxFaults \in Nat

VARIABLES
  store,    \* the account library
  current,  \* store.index.currentAccountId
  auth,     \* auth.json
  sync,     \* the running sync: who awaits it, where it is, what it read
  job,      \* the jobs and the page action: where each is and what it has read
  plan,     \* what the page action works on
  issued, live, expired,  \* the server: tokens issued, unused, with access over
  handed,   \* tokens a handoff file carries away, 0 if none
  spent,    \* ghost: tokens the injector exchanged for their successor
  gone,     \* ghost: accounts hit by a lost answer, another device, a new login or a
            \* failed rollback
  jobs, ops, faults  \* counters of the bounds

server == <<issued, live, expired>>
ghosts == <<handed, spent, gone>>
bounds == <<jobs, ops, faults>>
vars   == <<store, current, auth, sync, job, plan, server, ghosts, bounds>>

Actors == Ids \cup {User}
Blank(pc, kind, i) == [pc |-> pc, kind |-> kind, at |-> i, read |-> Absent, new |-> 0, cur |-> FALSE]
Idle   == Blank("idle", "none", NoId)
NoPlan == [op |-> "none", set |-> {}, todo |-> {}, tx |-> FALSE,
           snaps |-> [i \in Ids |-> Absent], was |-> NoId]
NoLogin == [id |-> NoId, tok |-> 0]
Quiet  == [by |-> Timer, pc |-> "idle", cred |-> NoLogin]

Fault == faults < MaxFaults /\ faults' = faults + 1

Init ==
  /\ store = [i \in Ids |-> [status |-> "active", tok |-> 1]]
  /\ current \in Ids
  /\ auth = [id |-> current, tok |-> 1]
  /\ sync = Quiet /\ plan = NoPlan
  /\ job = [p \in Actors |-> Idle]
  /\ issued = [i \in Ids |-> 1] /\ live = [i \in Ids |-> {1}] /\ expired = [i \in Ids |-> {}]
  /\ handed = [i \in Ids |-> 0] /\ spent = [i \in Ids |-> {}] /\ gone = {}
  /\ jobs = 0 /\ ops = 0 /\ faults = 0

\* store.update: rejected for an account that is no longer there.
Updated(i, account) == IF store[i] = Absent THEN store ELSE [store EXCEPT ![i] = account]
Rejected(i) == Updated(i, [store[i] EXCEPT !.status = "needsReauth"])

\* store.setCurrent's check.
Selectable(i) == i # NoId => store[i] # Absent /\ store[i].status # "transferred"

\* No operation is between its accesses to auth.json and to the library.
FilesAtRest == sync.pc = "idle" /\ job[User].pc \notin {"auth", "current", "undoAuth", "undoCurrent"}

\* withAccountLock: a job holds its account, the page action the one it refreshes
\* (restoreTransferredAccount takes no lock).
Locking == {"rotate", "rotated"}

\* Broken on purpose: the page action's lock does not bind the jobs.
FreeOfJob(i) == job[i].pc = "idle"

Free(i) ==
  /\ job[i].pc = "idle"
  /\ ~(job[User].at = i /\ job[User].pc \in Locking /\ plan.op # "restore")

-----------------------------------------------------------------------------
(* The token endpoint, and the access that runs out *)

\* The server answers a refresh token with the next one, once.
Issue(i, used) ==
  /\ issued[i] < MaxTokens
  /\ issued' = [issued EXCEPT ![i] = @ + 1]
  /\ live' = [live EXCEPT ![i] = (@ \ {used}) \cup {issued[i] + 1}]

\* ensureFreshTokens looks five minutes ahead, so a token that an operation has
\* just found fresh outlives it, unless its expiry cannot be read.
InHand(i, t) ==
  \/ \E p \in Actors :
       job[p].at = i /\ job[p].read # Absent /\ t \in {job[p].read.tok, job[p].new}
  \/ auth = [id |-> i, tok |-> t] /\ (current # i \/ sync.pc # "idle")

Expire(i, t) ==
  /\ t \in live[i] \ expired[i]
  /\ Opaque \/ ~InHand(i, t)
  /\ expired' = [expired EXCEPT ![i] = @ \cup {t}]
  /\ UNCHANGED <<store, current, auth, sync, job, plan, issued, live, ghosts, bounds>>

\* Codex refreshes its own login and rewrites auth.json.
CodexRotates ==
  /\ Racing \/ job[User].pc = "idle"
  /\ auth.id # NoId /\ auth.tok \in live[auth.id]
  /\ Issue(auth.id, auth.tok)
  /\ auth' = [auth EXCEPT !.tok = issued[auth.id] + 1]
  /\ UNCHANGED <<store, current, sync, job, plan, expired, ghosts, bounds>>

\* The user logs in to Codex outside the panel: the login in auth.json is gone
\* unless the library has it by now.
CodexLogsIn(i) ==
  /\ Racing \/ job[User].pc = "idle"
  /\ Issue(i, 0)
  /\ auth' = [id |-> i, tok |-> issued[i] + 1]
  /\ gone' = IF auth.id = NoId \/ auth.id = i THEN gone
             ELSE IF store[auth.id] # Absent /\ store[auth.id].tok = auth.tok THEN gone
             ELSE gone \cup {auth.id}
  /\ UNCHANGED <<store, current, sync, job, plan, expired, handed, spent, bounds>>

\* Another device imports the handoff file, which refreshes its token.
Received(i) ==
  /\ handed[i] \in live[i]
  /\ live' = [live EXCEPT ![i] = @ \ {handed[i]}]
  /\ gone' = gone \cup {i}
  /\ UNCHANGED <<store, current, auth, sync, job, plan, issued, expired, handed, spent, bounds>>

-----------------------------------------------------------------------------
(* syncCurrentAccountFromOfficialCredentials *)

\* The operation that awaited a run goes on in the microtasks after its end, before the
\* next run of the chain has read the file.
SyncRead(p) ==
  /\ sync.pc = "idle" /\ \A q \in Actors : job[q].pc # "synced"
  /\ p # Timer => job[p].pc = "sync"
  /\ sync' = [by |-> p, pc |-> "read", cred |-> auth]
  /\ UNCHANGED <<store, current, auth, job, plan, server, ghosts, bounds>>

\* The run ends; the operation that awaited it goes on, or fails with it.
SyncEnd(ok) ==
  /\ sync' = Quiet
  /\ job' = IF sync.by = Timer THEN job
            ELSE [job EXCEPT ![sync.by] = IF ok THEN [@ EXCEPT !.pc = "synced"] ELSE Idle]
  /\ plan' = IF sync.by = User /\ ~ok THEN NoPlan ELSE plan

\* The file's content is compared with the library of this moment.
Compare == sync.pc = "read" /\ UNCHANGED <<auth, server, ghosts, bounds>>

\* Nobody is logged in: nothing to do.
SyncEmpty ==
  /\ Compare /\ sync.cred.id = NoId
  /\ SyncEnd(TRUE)
  /\ UNCHANGED <<store, current>>

\* The login of a transferred account, which only Codex still has: it stays out.
SyncTransferred ==
  LET i == sync.cred.id IN
  /\ Compare /\ i # NoId /\ store[i] = [status |-> "transferred", tok |-> sync.cred.tok]
  /\ current' = IF current = i THEN NoId ELSE current
  /\ SyncEnd(TRUE)
  /\ UNCHANGED store

\* Broken on purpose: only a new or a rejected account is worth a write.
RenewedStatus(i, t) == store[i] \notin [status : {"active", "transferred"}, tok : Tokens]

\* The login is news for the library: another token, a new or a rejected account.
Renewed(i, t) == store[i] \notin [status : {"active", "transferred"}, tok : {t}]

SyncRenewed ==
  LET i == sync.cred.id
      t == sync.cred.tok
  IN
  /\ Compare /\ i # NoId /\ Renewed(i, t)
  /\ store' = [store EXCEPT ![i] = [status |-> "active", tok |-> t]]
  /\ sync' = [sync EXCEPT !.pc = "mark"]
  /\ UNCHANGED <<current, job, plan>>

\* The library has the login already: only the marker follows.
SyncUnchanged ==
  LET i == sync.cred.id IN
  /\ Compare /\ i # NoId /\ ~Renewed(i, sync.cred.tok) /\ store[i].status = "active"
  /\ current' = i
  /\ SyncEnd(TRUE)
  /\ UNCHANGED store

SyncApply == SyncEmpty \/ SyncTransferred \/ SyncRenewed \/ SyncUnchanged

\* After the upsert: the marker follows, if it has to.
SyncMark ==
  LET ok == current = sync.cred.id \/ Selectable(sync.cred.id) IN
  /\ sync.pc = "mark"
  /\ current' = IF ok THEN sync.cred.id ELSE current
  /\ SyncEnd(ok)
  /\ UNCHANGED <<store, auth, server, ghosts, bounds>>

-----------------------------------------------------------------------------
(* refreshTokens, for whoever presents a refresh token *)

\* refreshStoredTokens' result.
Refreshed(p) == [status |-> "active", tok |-> job[p].new]

\* Broken on purpose: a handoff that throws leaves its marks.
ThrownAway(p) ==
  /\ job' = [job EXCEPT ![p] = Idle]
  /\ plan' = IF p = User THEN NoPlan ELSE plan

\* What is left of an operation that throws: a job ends, a page action ends or,
\* once a handoff has marked accounts, turns to its rollback.
Thrown(p) ==
  IF p = User /\ plan.tx
  THEN /\ job' = [job EXCEPT ![p] = Blank("undo", "none", NoId)]
       /\ plan' = [plan EXCEPT !.todo = plan.set]
  ELSE /\ job' = [job EXCEPT ![p] = Idle]
       /\ plan' = IF p = User THEN NoPlan ELSE plan

\* The server takes the token and its answer arrives, or is lost on the way; or
\* it refuses a token that was used before; or the request never arrives.
Rotate(p) ==
  LET i == job[p].at
      t == job[p].read.tok
  IN
  /\ job[p].pc = "rotate"
  /\ Racing \/ FilesAtRest
  /\ \/ /\ t \in live[i] /\ Issue(i, t)
        /\ spent' = [spent EXCEPT ![i] = @ \cup {t}]
        /\ job' = [job EXCEPT ![p].pc = "rotated", ![p].new = issued[i] + 1]
        /\ UNCHANGED <<plan, gone, faults>>
     \/ /\ t \in live[i] /\ Issue(i, t) /\ Fault
        /\ gone' = gone \cup {i}
        /\ Thrown(p) /\ UNCHANGED spent
     \/ /\ t \notin live[i]
        /\ job' = [job EXCEPT ![p].pc = "refused"]
        /\ UNCHANGED <<plan, issued, live, spent, gone, faults>>
     \/ /\ Thrown(p)
        /\ UNCHANGED <<issued, live, spent, gone, faults>>
  /\ UNCHANGED <<store, current, auth, sync, expired, handed, jobs, ops>>

-----------------------------------------------------------------------------
(* refreshAccount and withWakeupAccount *)

\* ensureFreshTokens: where a reader of the account goes next; "sure" is
\* refreshIfExpirationUnknown.
Fresh(i, account, ready, sure) ==
  IF account.status # "active" THEN {"idle"}
  ELSE IF account.tok \in expired[i] THEN IF Opaque /\ ~sure THEN {"rotate", ready} ELSE {"rotate"}
  ELSE IF Opaque /\ sure THEN {"rotate", ready} ELSE {ready}

\* Credentials given to a wake-up run are its own: the job keeps only the lock.
At(i, pc, kind, account, cur) ==
  CASE pc = "idle"  -> Idle
    [] pc = "given" -> Blank(pc, kind, i)
    [] OTHER -> [pc |-> pc, kind |-> kind, at |-> i, read |-> account, new |-> 0, cur |-> cur]

\* refreshAccountOnce reads the account and whether it is the current one.
StartRefresh(i) ==
  /\ Free(i) /\ jobs < MaxJobs /\ jobs' = jobs + 1
  /\ store[i] # Absent /\ store[i].status # "transferred"
  /\ \E pc \in IF current = i THEN {"sync"} ELSE Fresh(i, store[i], "quota", FALSE) :
       job' = [job EXCEPT ![i] = At(i, pc, "refresh", store[i], current = i)]
  /\ UNCHANGED <<store, current, auth, sync, plan, server, ghosts, ops, faults>>

\* getCredentials syncs before it reads the account.
StartWakeup(i) ==
  /\ Free(i) /\ jobs < MaxJobs /\ jobs' = jobs + 1
  /\ store[i] # Absent
  /\ job' = [job EXCEPT ![i] = At(i, "sync", "wakeup", Absent, FALSE)]
  /\ UNCHANGED <<store, current, auth, sync, plan, server, ghosts, ops, faults>>

\* The sync is over: the job reads the account again.
JobSynced(i) ==
  LET j == job[i]
      account == IF store[i] = Absent THEN j.read ELSE store[i]
      cur == current = i
  IN
  /\ j.pc = "synced"
  /\ \E pc \in CASE j.kind \in Wakeups ->
                    IF store[i] = Absent \/ account.status # "active" THEN {"idle"}
                    ELSE IF cur THEN {"given", "idle"}  \* Codex renews that one
                    ELSE IF j.kind = "forced" THEN {"rotate"}
                    ELSE Fresh(i, account, "given", TRUE)
               [] j.kind = "retry" ->  \* only a token Codex has renewed is tried
                    IF store[i] = Absent \/ account.tok = j.read.tok THEN {"idle"} ELSE {"quota"}
               [] OTHER -> IF cur THEN {"quota"} ELSE Fresh(i, account, "quota", FALSE) :
       job' = [job EXCEPT ![i] = At(i, pc, j.kind, account, IF j.kind = "retry" THEN j.cur ELSE cur)]
  /\ UNCHANGED <<store, current, auth, sync, plan, server, ghosts, bounds>>

\* The server turned the credentials down and the run asks for others; or it is over.
JobGiven(i) ==
  /\ job[i].pc = "given"
  /\ \/ /\ Racing \/ FilesAtRest
        /\ job' = [job EXCEPT ![i] = At(i, "sync", "forced", Absent, FALSE)]
     \/ job' = [job EXCEPT ![i] = Idle]
  /\ UNCHANGED <<store, current, auth, sync, plan, server, ghosts, bounds>>

\* fetchQuota answers and the account is active; or it answers 401, once, and the
\* token is renewed, by a sync if the account was the current one.
JobQuota(i) ==
  LET j == job[i] IN
  /\ j.pc = "quota"
  /\ \/ /\ j.read.tok \notin expired[i]
        /\ store' = Updated(i, [store[i] EXCEPT !.status = "active"])
        /\ job' = [job EXCEPT ![i] = Idle]
     \/ /\ j.read.tok \in expired[i] /\ j.kind = "refresh"
        /\ job' = [job EXCEPT ![i] = At(i, IF j.cur THEN "sync" ELSE "rotate", "retry", j.read, j.cur)]
        /\ UNCHANGED store
     \/ /\ job' = [job EXCEPT ![i] = Idle]  \* any other answer, or a second 401
        /\ UNCHANGED store
  /\ UNCHANGED <<current, auth, sync, plan, server, ghosts, bounds>>

\* refreshStoredTokens: the new tokens are saved and the account is active.
JobSave(i) ==
  LET account == Refreshed(i)
      next == IF store[i] = Absent THEN "idle"
              ELSE IF job[i].kind \in Wakeups THEN "given" ELSE "quota"
  IN
  /\ job[i].pc = "rotated"
  /\ store' = Updated(i, account)
  /\ job' = [job EXCEPT ![i] = At(i, next, @.kind, account, @.cur)]
  /\ UNCHANGED <<current, auth, sync, plan, server, ghosts, bounds>>

\* A refused token: the account needs a new login.
JobRefused(i) ==
  /\ job[i].pc = "refused"
  /\ store' = Rejected(i)
  /\ job' = [job EXCEPT ![i] = Idle]
  /\ UNCHANGED <<current, auth, sync, plan, server, ghosts, bounds>>

-----------------------------------------------------------------------------
(* The page actions *)

me == job[User]

\* What a page action that starts works on.
Planned(op, set) == [NoPlan EXCEPT !.op = op, !.set = set, !.todo = set]

\* The page action goes on at pc, with what it holds.
GoTo(pc) == job' = [job EXCEPT ![User].pc = pc]
Done == job' = [job EXCEPT ![User] = Idle] /\ plan' = NoPlan
Hold(i, account, pc) == job' = [job EXCEPT ![User] = At(i, pc, plan.op, account, FALSE)]

CanExport(i) == store[i] # Absent /\ store[i].status = "active"

UserStart(op, set) ==
  /\ me.pc = "idle" /\ ops < MaxOps /\ ops' = ops + 1
  /\ op \in Exports \/ Cardinality(set) = 1
  /\ op = "restore" => \A i \in set : store[i] # Absent /\ store[i].status = "transferred"
  /\ plan' = Planned(op, set)
  /\ job' = [job EXCEPT ![User] =
       IF op = "restore" THEN LET i == CHOOSE x \in set : TRUE IN At(i, "rotate", op, store[i], FALSE)
                         ELSE At(NoId, "sync", op, Absent, FALSE)]
  /\ UNCHANGED <<store, current, auth, sync, server, ghosts, jobs, faults>>

\* The checks made after the first sync.
UserSynced ==
  /\ me.pc = "synced"
  /\ IF \A i \in plan.set : IF plan.op \in Exports THEN CanExport(i)
                             ELSE store[i] # Absent /\ current # i
     THEN GoTo("lock") /\ UNCHANGED plan
     ELSE Done
  /\ UNCHANGED <<store, current, auth, sync, server, ghosts, bounds>>

\* switchAccount reads the target under its lock.
LockForSwitch(i) ==
  /\ me.pc = "lock" /\ plan.op = "switch" /\ i \in plan.set /\ Free(i)
  /\ IF CanExport(i)
     THEN /\ \E pc \in Fresh(i, store[i], "auth", TRUE) : Hold(i, store[i], pc)
          /\ UNCHANGED plan
     ELSE Done
  /\ UNCHANGED <<store, current, auth, sync, server, ghosts, bounds>>

\* removeAccount removes under the lock; the store refuses the current account.
LockForRemove(i) ==
  /\ me.pc = "lock" /\ plan.op = "remove" /\ i \in plan.set /\ Free(i)
  /\ store' = IF current = i THEN store ELSE [store EXCEPT ![i] = Absent]
  /\ Done
  /\ UNCHANGED <<current, auth, sync, server, ghosts, bounds>>

\* transferAccounts refreshes the selected accounts one after the other.
LockForExport(i) ==
  /\ me.pc = "lock" /\ plan.op \in Exports /\ i \in plan.todo /\ Free(i)
  /\ IF CanExport(i)
     THEN Hold(i, store[i], "rotate") /\ plan' = [plan EXCEPT !.todo = @ \ {i}]
     ELSE Done
  /\ UNCHANGED <<store, current, auth, sync, server, ghosts, bounds>>

\* The new tokens are saved; the lock is released.
UserSave ==
  LET i == me.at
      account == Refreshed(User)
  IN
  /\ me.pc = "rotated"
  /\ store' = Updated(i, account)
  /\ IF plan.op = "restore" \/ store[i] = Absent THEN Done
     ELSE /\ Hold(i, account, IF \/ plan.op = "switch"
                                \/ plan.tx
                                \/ (plan.op = "temporary" /\ i = current)
                             THEN "auth" ELSE "lock")
          /\ UNCHANGED plan
  /\ UNCHANGED <<current, auth, sync, server, ghosts, bounds>>

\* A refused token marks the account, unless it is the handoff's fallback.
UserRefused ==
  /\ me.pc = "refused"
  /\ store' = IF plan.tx THEN store ELSE Rejected(me.at)
  /\ Thrown(User)
  /\ UNCHANGED <<current, auth, sync, server, ghosts, bounds>>

\* Broken on purpose: only a handoff of one account looks at the login.
LoggedInAlone == IF plan.set = {current} THEN current ELSE NoId

\* The exported account Codex is logged in with, if any.
LoggedIn == IF current \in plan.set THEN current ELSE NoId

\* All selected accounts are refreshed: a handoff takes its snapshots.
UserRefreshed ==
  /\ me.pc = "lock" /\ plan.op \in Exports /\ plan.todo = {}
  /\ IF plan.op = "temporary" THEN GoTo("file") /\ UNCHANGED plan
     ELSE /\ GoTo("mark")
          /\ plan' = [plan EXCEPT !.tx = TRUE, !.todo = plan.set,
                       !.snaps = [i \in Ids |-> IF i \in plan.set THEN store[i] ELSE Absent],
                       !.was = LoggedIn]
  /\ UNCHANGED <<store, current, auth, sync, server, ghosts, bounds>>

\* Each exported account is marked; then the login is handed to another account
\* if it was one of them.
UserMark ==
  /\ me.pc = "mark"
  /\ \/ \E i \in plan.todo :
          /\ store' = Updated(i, [store[i] EXCEPT !.status = "transferred"])
          /\ plan' = [plan EXCEPT !.todo = @ \ {i}]
          /\ UNCHANGED <<job, faults>>
     \/ /\ plan.todo # {} /\ Fault /\ Thrown(User)
        /\ UNCHANGED store
     \/ /\ plan.todo = {}
        /\ GoTo(IF plan.was = NoId THEN "file" ELSE "fallback")
        /\ UNCHANGED <<store, plan, faults>>
  /\ UNCHANGED <<current, auth, sync, server, ghosts, jobs, ops>>

UserFallback ==
  LET others == {i \in Ids \ plan.set : CanExport(i)} IN
  /\ me.pc = "fallback"
  /\ IF others = {} THEN Hold(NoId, Absent, "auth")
                    ELSE \E i \in others : Hold(i, Absent, "lockFallback")
  /\ UNCHANGED <<store, current, auth, sync, plan, server, ghosts, bounds>>

LockForFallback ==
  LET i == me.at IN
  /\ me.pc = "lockFallback" /\ Free(i)
  /\ IF CanExport(i)
     THEN /\ \E pc \in Fresh(i, store[i], "auth", TRUE) : Hold(i, store[i], pc)
          /\ UNCHANGED plan
     ELSE Thrown(User)
  /\ UNCHANGED <<store, current, auth, sync, server, ghosts, bounds>>

\* writeOfficialCredentials (or clearOfficialCredentials): the file may fail, and
\* the exports also fail when the keychain does, after the file.
UserAuth ==
  LET login == IF me.at = NoId THEN NoLogin ELSE [id |-> me.at, tok |-> me.read.tok] IN
  /\ me.pc = "auth"
  /\ \/ /\ auth' = login
        /\ GoTo(IF plan.op = "temporary" THEN "lock" ELSE "current")
        /\ UNCHANGED <<plan, faults>>
     \/ /\ Fault /\ Thrown(User)
        /\ auth' = auth \/ (plan.op \in Exports /\ auth' = login)
  /\ UNCHANGED <<store, current, sync, server, ghosts, jobs, ops>>

UserCurrent ==
  /\ me.pc = "current"
  /\ IF ~Selectable(me.at) THEN Thrown(User) /\ UNCHANGED current
     ELSE /\ current' = me.at
          /\ IF plan.op = "switch" THEN Done ELSE GoTo("file") /\ UNCHANGED plan
  /\ UNCHANGED <<store, auth, sync, server, ghosts, bounds>>

\* The transfer file is written last.
UserFile ==
  /\ me.pc = "file"
  /\ \/ /\ Done
        /\ handed' = [i \in Ids |-> IF plan.tx /\ i \in plan.set THEN plan.snaps[i].tok ELSE handed[i]]
        /\ UNCHANGED faults
     \/ /\ Fault /\ Thrown(User) /\ UNCHANGED handed
  /\ UNCHANGED <<store, current, auth, sync, server, spent, gone, jobs, ops>>

\* The rollback: snapshots back into the library, then the login and the marker;
\* each part is tried and its failure ignored.
UserUndo ==
  /\ me.pc = "undo"
  /\ \/ \E i \in plan.todo :
          /\ plan' = [plan EXCEPT !.todo = @ \ {i}]
          /\ \/ store' = [store EXCEPT ![i] = plan.snaps[i]] /\ UNCHANGED <<gone, faults>>
             \/ Fault /\ gone' = gone \cup {i} /\ UNCHANGED store
          /\ UNCHANGED job
     \/ /\ plan.todo = {} /\ UNCHANGED <<store, gone, faults>>
        /\ IF plan.was = NoId THEN Done
           ELSE Hold(plan.was, plan.snaps[plan.was], "undoAuth") /\ UNCHANGED plan
  /\ UNCHANGED <<current, auth, sync, server, handed, spent, jobs, ops>>

UserUndoAuth ==
  /\ me.pc = "undoAuth"
  /\ \/ auth' = [id |-> me.at, tok |-> me.read.tok] /\ UNCHANGED faults
     \/ Fault /\ UNCHANGED auth
  /\ GoTo("undoCurrent")
  /\ UNCHANGED <<store, current, sync, plan, server, ghosts, jobs, ops>>

UserUndoCurrent ==
  /\ me.pc = "undoCurrent"
  /\ current' = IF Selectable(me.at) THEN me.at ELSE current
  /\ Done
  /\ UNCHANGED <<store, auth, sync, server, ghosts, bounds>>

-----------------------------------------------------------------------------
Sync == (\E p \in Actors \cup {Timer} : SyncRead(p)) \/ SyncApply \/ SyncMark

Job(i) == StartRefresh(i) \/ StartWakeup(i) \/ JobSynced(i) \/ JobGiven(i)
            \/ JobQuota(i) \/ JobSave(i) \/ JobRefused(i)

PageAction ==
  \/ \E op \in Ops, set \in (SUBSET Ids) \ {{}} : UserStart(op, set)
  \/ \E i \in Ids : LockForSwitch(i) \/ LockForRemove(i) \/ LockForExport(i)
  \/ UserSynced \/ UserSave \/ UserRefused \/ UserRefreshed \/ UserMark
  \/ UserFallback \/ LockForFallback \/ UserAuth \/ UserCurrent \/ UserFile
  \/ UserUndo \/ UserUndoAuth \/ UserUndoCurrent

Outside ==
  \/ CodexRotates
  \/ \E i \in Ids : CodexLogsIn(i) \/ Received(i) \/ \E t \in Tokens : Expire(i, t)

Next ==
  \/ Sync
  \/ \E i \in Ids : Job(i)
  \/ PageAction
  \/ \E p \in Actors : Rotate(p)
  \/ Outside

Spec == Init /\ [][Next]_vars

\* Promises settle and the timer fires: the sync chain keeps running.
FairSpec == Spec /\ WF_vars(Sync)

-----------------------------------------------------------------------------
\* Every variable has its type.
TypeOK ==
  /\ store \in [Ids -> Account \cup {Absent}]
  /\ current \in Ids \cup {NoId}
  /\ auth \in Login
  /\ sync \in [by : Actors \cup {Timer}, pc : {"idle", "read", "mark"}, cred : Login]
  /\ \A p \in Actors : /\ job[p].at \in Ids \cup {NoId}
                       /\ job[p].read \in Account \cup {Absent}
                       /\ job[p].pc \in Locking => job[p].at # NoId /\ job[p].read # Absent
  /\ plan.set \in SUBSET Ids /\ plan.todo \subseteq plan.set
  /\ issued \in [Ids -> Tokens] /\ handed \in [Ids -> Tokens]
  /\ \A i \in Ids : live[i] \cup expired[i] \cup spent[i] \subseteq 1 .. issued[i]
  /\ gone \in SUBSET Ids

\* The injector never presents a refresh token that it has itself exchanged:
\* timer refreshes, wake-ups and page actions of one account never spend the same
\* token twice, whatever the sync writes into the library between their steps.
NoTokenPresentedTwice ==
  [][\A p \in Actors : Rotate(p) => job[p].read.tok \notin spent[job[p].at]]_vars

\* The token is held somewhere the account can still be used from.
HeldTokens(i) ==
  {store[i].tok}
    \cup (IF auth.id = i THEN {auth.tok} ELSE {})
    \cup UNION {{job[p].new, job[p].read.tok} : p \in {q \in Actors : job[q].at = i /\ job[q].read # Absent}}
    \cup (IF plan.snaps[i] = Absent THEN {} ELSE {plan.snaps[i].tok})

\* An active account of the library keeps a refresh token the server accepts,
\* in the library, in auth.json or in a running operation, unless the network
\* lost an answer or another device took the account over.
KeepsALiveToken ==
  \A i \in Ids \ gone :
    store[i] # Absent /\ store[i].status = "active" => HeldTokens(i) \cap live[i] # {}

\* The injector logs Codex in with credentials that work: what it writes into
\* auth.json is a token the server has not exchanged yet.
WritesALiveToken ==
  [][(UserAuth \/ UserUndoAuth) /\ auth' # auth /\ auth'.id # NoId /\ auth'.id \notin gone
       => auth'.tok \in live[auth'.id]]_vars

\* A refresh token is neither spent twice nor lost: no request presents one that the server has
\* rotated away, and Codex is switched to an account with a token that lives.
TokensLiveOn == []TypeOK /\ NoTokenPresentedTwice /\ WritesALiveToken

\* A handoff happens entirely or not at all: when no page action is running, an
\* account is marked as transferred only if a transfer file with it was written;
\* one that fails half-way leaves no account behind unusable, unless the write that
\* rolls it back fails too, which the code ignores.
NoHalfHandoff ==
  job[User].pc = "idle" =>
    \A i \in Ids \ gone : store[i] # Absent /\ store[i].status = "transferred" => handed[i] # 0

\* When the transfer file is written, Codex is not logged in with an account in it.
ExportedLoginIsLeft ==
  [][UserFile /\ handed' # handed => auth.id \notin plan.set]_vars

\* The marker follows the login: when auth.json comes to rest on an account of
\* the library, that account is shown as the current one in the end.
MarkerFollowsLogin ==
  \A i \in Ids :
    <>[](auth.id = i /\ store[i] # Absent /\ store[i].status = "active") => <>[](current = i)

\* Neither a transfer nor a sync loses track of the account Codex is logged in with: a written
\* transfer file does not hold it, and it becomes the current one; see AccountManager.
LoginIsFollowed == []TypeOK /\ ExportedLoginIsLeft /\ MarkerFollowsLogin

\* Accounts are interchangeable.
Symmetry == Permutations(Ids)
=============================================================================
