----------------------------- MODULE AccountStore -----------------------------
(***************************************************************************)
(* The encrypted account library of src/account-store.mjs: one file        *)
(* per account, an index file naming the accounts and the current one, a   *)
(* key file, and a promise chain (writeQueue) that runs one write at a     *)
(* time.  Every file is written to a temporary name and renamed            *)
(* (atomicWrite), so a write either replaces the whole file or fails and   *)
(* leaves it alone; the process may be killed between any two writes.      *)
(*                                                                         *)
(* An account's content is abstracted to its authStatus and to a counter   *)
(* "n" that stands for every field an update derives from the latest       *)
(* content (tokenGeneration, wakeup.scheduledTimes, ...).                  *)
(***************************************************************************)
EXTENDS Naturals, Sequences, FiniteSets

CONSTANTS
  Ids,          \* account ids
  NoId,         \* currentAccountId = null
  Absent,       \* no content: not in the Map, or no file
  NoIndex,      \* accounts.json does not exist
  Cockpit,      \* accounts a legacy Cockpit directory offers at first start
  MaxRequests,  \* bound: write operations requested in a behaviour
  MaxQueue,     \* bound: operations waiting in writeQueue
  MaxFailures,  \* bound: failing file operations in a behaviour
  MaxCrashes    \* bound: kills of the process in a behaviour

ASSUME StoreConstants ==
  /\ NoId \notin Ids
  /\ Cockpit \subseteq Ids
  /\ MaxRequests \in Nat /\ MaxQueue \in Nat
  /\ MaxFailures \in Nat /\ MaxCrashes \in Nat

Status == {"active", "transferred"}

Content == [status : Status, n : Nat]

ASSUME NullConstants == Absent \notin Content /\ NoIndex \notin [ids : SUBSET Ids, current : Ids \cup {NoId}]

\* One operation of the store's interface.  "upsert" is a partial account (the
\* fields it does not name keep their value), "bump" and "transfer" are update()
\* with a function of the latest content and with a fixed patch.
Op == [kind : {"upsert", "bump", "transfer", "remove"}, id : Ids]
        \cup [kind : {"setCurrent"}, id : Ids \cup {NoId}]

VARIABLES
  accounts,  \* this.accounts
  current,   \* this.index.currentAccountId
  key,       \* this.encryptionKey has been read or created
  queue,     \* operations of writeQueue not settled yet, the running one first
  pc,        \* where the running operation (or the start of the process) is
  draft,     \* the content the running operation writes, or the removed one
  files,     \* accounts/<id>.json
  index,     \* accounts.json
  keyFile,   \* account-storage.key exists
  todo,      \* Cockpit accounts the first start has still to copy
  torn,      \* ghost: accounts whose file rollback failed (the error says so)
  acked,     \* ghost: bumps reported as done since the account was created
  requests, failures, crashes  \* counters of the bounds

memory == <<accounts, current, key>>
disk   == <<files, index, keyFile>>
bounds == <<requests, failures, crashes>>
vars   == <<memory, queue, pc, draft, disk, todo, torn, acked, bounds>>

Running == pc \notin {"down", "import"}
Head1   == Head(queue)

Present(map) == {i \in Ids : map[i] # Absent}

\* Broken on purpose: a partial account replaces the stored one.
PatchedAnew(op) ==
  CASE op.kind = "upsert"   -> [status |-> "active", n |-> 0]
    [] op.kind = "bump"     -> [accounts[op.id] EXCEPT !.n = @ + 1]
    [] op.kind = "transfer" -> [accounts[op.id] EXCEPT !.status = "transferred"]
    [] OTHER                -> accounts[op.id]

\* normalizeAccount({...previous, ...account}): what the operation writes.
Patched(op) ==
  LET previous == accounts[op.id]
      fresh    == [status |-> "active", n |-> 0]
  IN  CASE op.kind = "upsert"   -> IF previous = Absent THEN fresh
                                   ELSE [previous EXCEPT !.status = "active"]
        [] op.kind = "bump"     -> [previous EXCEPT !.n = @ + 1]
        [] op.kind = "transfer" -> [previous EXCEPT !.status = "transferred"]
        [] op.kind \in {"setCurrent", "remove"} -> previous

\* The checks made when the operation's turn comes, on the content of that moment.
Accepted(op) ==
  CASE op.kind = "upsert"              -> TRUE
    [] op.kind \in {"bump", "transfer"} -> accounts[op.id] # Absent
    [] op.kind = "remove"              -> accounts[op.id] # Absent /\ op.id # current
    [] op.kind = "setCurrent"          ->
         op.id # NoId => /\ accounts[op.id] # Absent
                         /\ accounts[op.id].status # "transferred"

NextCurrent == IF Head1.kind = "setCurrent" THEN Head1.id ELSE current

NextAccounts ==
  IF Head1.id = NoId THEN accounts
  ELSE [accounts EXCEPT ![Head1.id] = IF Head1.kind = "remove" THEN Absent ELSE draft]

IndexOf(map, cur) == [ids |-> Present(map), current |-> cur]

-----------------------------------------------------------------------------
Init ==
  /\ accounts = [i \in Ids |-> Absent] /\ current = NoId /\ key = FALSE
  /\ queue = <<>> /\ pc = "down" /\ draft = Absent
  /\ files = [i \in Ids |-> Absent] /\ index = NoIndex /\ keyFile = FALSE
  /\ todo = {} /\ torn = {} /\ acked = [i \in Ids |-> 0]
  /\ requests = 0 /\ failures = 0 /\ crashes = 0

Fail == failures < MaxFailures /\ failures' = failures + 1

\* enqueueWrite: a caller's operation joins the chain.
Request(op) ==
  /\ Running /\ requests < MaxRequests /\ Len(queue) < MaxQueue
  /\ queue' = Append(queue, op)
  /\ requests' = requests + 1
  /\ UNCHANGED <<memory, pc, draft, disk, todo, torn, acked, failures, crashes>>

\* Broken on purpose: the settled operation is not forgotten.
SettleInPlace == pc' = "idle" /\ draft' = Absent /\ UNCHANGED queue
\* The running operation's promise settles and the next one may start: the
\* chain continues after a rejection too (.catch(() => undefined)).
Settle == queue' = Tail(queue) /\ pc' = "idle" /\ draft' = Absent

Begin ==
  /\ pc = "idle" /\ queue # <<>>
  /\ IF ~Accepted(Head1) THEN Settle
     ELSE /\ pc' = IF Head1.kind = "remove" \/ Head1.id = NoId THEN "index" ELSE "account"
          /\ draft' = IF Head1.id = NoId THEN Absent ELSE Patched(Head1)
          /\ UNCHANGED queue
  /\ UNCHANGED <<memory, disk, todo, torn, acked, bounds>>

\* readOrCreateKey, before the first account file is written.
EnsureKey ==
  /\ pc = "account" /\ ~key
  /\ \/ /\ key' = TRUE /\ keyFile' = TRUE
        /\ UNCHANGED <<queue, pc, draft, failures>>
     \/ /\ Fail /\ Settle  \* it cannot be read, or not be created
        /\ UNCHANGED <<key, keyFile>>
  /\ UNCHANGED <<accounts, current, files, index, todo, torn, acked, requests, crashes>>

\* writeAccount: the account file is replaced, or the operation is rejected.
WriteAccount ==
  /\ pc = "account" /\ key
  /\ \/ /\ files' = [files EXCEPT ![Head1.id] = draft] /\ pc' = "index"
        /\ UNCHANGED <<queue, draft, failures>>
     \/ /\ Fail /\ Settle
        /\ UNCHANGED files
  /\ UNCHANGED <<memory, index, keyFile, todo, torn, acked, requests, crashes>>

\* writeIndex: the index file is replaced and only then the memory follows.
WriteIndex ==
  /\ pc = "index"
  /\ \/ /\ accounts' = NextAccounts
        /\ current' = NextCurrent
        /\ index' = IndexOf(NextAccounts, NextCurrent)
        /\ IF Head1.kind = "remove"
           THEN pc' = "unlink" /\ UNCHANGED <<queue, draft>>
           ELSE Settle
        /\ torn' = IF Head1.kind = "remove" THEN torn ELSE torn \ {Head1.id}
        /\ acked' = CASE Head1.kind = "bump"   -> [acked EXCEPT ![Head1.id] = @ + 1]
                      [] Head1.kind = "remove" -> [acked EXCEPT ![Head1.id] = 0]
                      [] OTHER                 -> acked
        /\ UNCHANGED failures
     \/ /\ Fail
        /\ IF Head1.kind = "remove" \/ Head1.id = NoId
           THEN Settle
           ELSE pc' = "undo" /\ UNCHANGED <<queue, draft>>
        /\ UNCHANGED <<accounts, current, index, torn, acked>>
  /\ UNCHANGED <<key, files, keyFile, todo, requests, crashes>>

\* Broken on purpose: the failed write's file is removed, or left where it is.
UndoByRemoving ==
  /\ pc = "undo" /\ files' = [files EXCEPT ![Head1.id] = Absent] /\ Settle
  /\ UNCHANGED <<memory, index, keyFile, todo, torn, acked, bounds>>
UndoNothing ==
  /\ pc = "undo" /\ Settle
  /\ UNCHANGED <<memory, disk, todo, torn, acked, bounds>>

\* upsertOnce's catch: put the previous file back, or remove the new one.
UndoAccount ==
  /\ pc = "undo"
  /\ \/ files' = [files EXCEPT ![Head1.id] = accounts[Head1.id]]
        /\ torn' = torn \ {Head1.id}
        /\ UNCHANGED failures
     \/ /\ Fail
        /\ torn' = torn \cup {Head1.id}
        /\ UNCHANGED files
  /\ Settle
  /\ UNCHANGED <<memory, index, keyFile, todo, acked, requests, crashes>>

\* removeOnce: the file goes after the index no longer names it.
Unlink ==
  /\ pc = "unlink"
  /\ \/ /\ files' = [files EXCEPT ![Head1.id] = Absent] /\ Settle
        /\ torn' = torn \ {Head1.id}
        /\ UNCHANGED failures
     \/ /\ Fail /\ pc' = "reindex"
        /\ UNCHANGED <<files, queue, draft, torn>>
  /\ UNCHANGED <<memory, index, keyFile, todo, acked, requests, crashes>>

\* removeOnce's catch: the index and the memory get the account back.
Reindex ==
  /\ pc = "reindex"
  /\ \/ /\ accounts' = [accounts EXCEPT ![Head1.id] = draft]
        /\ index' = IndexOf(accounts', current)
        /\ acked' = [acked EXCEPT ![Head1.id] = draft.n]
        /\ UNCHANGED failures
     \/ /\ Fail
        /\ UNCHANGED <<accounts, index, acked>>
  /\ Settle
  /\ UNCHANGED <<current, key, files, keyFile, todo, torn, requests, crashes>>

-----------------------------------------------------------------------------
\* loadOwnData accepts the files: every indexed account can be read and decrypted.
Readable ==
  index # NoIndex =>
    /\ \A i \in index.ids : files[i] # Absent
    /\ index.ids # {} => keyFile

\* What loadOwnData would make of the files, for one account.
Reloaded(i) == IF index # NoIndex /\ i \in index.ids THEN files[i] ELSE Absent

ReloadedCurrent ==
  LET c == IF index = NoIndex THEN NoId ELSE index.current
  IN  IF c = NoId \/ Reloaded(c) = Absent \/ Reloaded(c).status = "transferred"
      THEN NoId ELSE c

\* initialize with an index: load it, or fail and stop to protect the data.
LoadOwnData ==
  /\ pc = "down" /\ index # NoIndex /\ Readable
  /\ accounts' = [i \in Ids |-> Reloaded(i)]
  /\ current' = ReloadedCurrent
  /\ key' = TRUE /\ keyFile' = TRUE  \* an empty index may still create the key
  /\ pc' = "idle"
  /\ UNCHANGED <<queue, draft, files, index, todo, torn, acked, bounds>>

\* initialize without an index: offer the legacy accounts, if there are any.
FirstStart ==
  /\ pc = "down" /\ index = NoIndex
  /\ todo' = Cockpit
  /\ pc' = IF Cockpit = {} THEN "idle" ELSE "import"
  /\ UNCHANGED <<memory, queue, draft, disk, torn, acked, bounds>>

\* importCockpitData: one legacy account is copied, or logged and skipped.
ImportOne(i) ==
  /\ pc = "import" /\ i \in todo
  /\ todo' = todo \ {i}
  /\ \/ /\ key' = TRUE /\ keyFile' = TRUE
        /\ files' = [files EXCEPT ![i] = [status |-> "active", n |-> 0]]
        /\ accounts' = [accounts EXCEPT ![i] = files'[i]]
        /\ UNCHANGED failures
     \/ /\ Fail
        /\ UNCHANGED <<key, keyFile, files, accounts>>
  /\ UNCHANGED <<current, queue, pc, draft, index, torn, acked, requests, crashes>>

\* importCockpitData: the index is written once, with Cockpit's current account
\* when it was copied.
FinishImport ==
  /\ pc = "import" /\ todo = {}
  /\ pc' = "idle"
  /\ IF Present(accounts) = {} THEN UNCHANGED <<current, index>>
     ELSE \E c \in Present(accounts) \cup {NoId} :
            current' = c /\ index' = IndexOf(accounts, c)
  /\ UNCHANGED <<accounts, key, queue, draft, files, keyFile, todo, torn, acked, bounds>>

\* The process is killed, or a start-up error ends it: the memory is gone.
Crash ==
  /\ pc # "down" /\ crashes < MaxCrashes
  /\ crashes' = crashes + 1
  /\ accounts' = [i \in Ids |-> Absent] /\ current' = NoId /\ key' = FALSE
  /\ queue' = <<>> /\ pc' = "down" /\ draft' = Absent
  /\ todo' = {} /\ torn' = {}
  /\ UNCHANGED <<disk, acked, requests, failures>>

Write == Begin \/ EnsureKey \/ WriteAccount \/ WriteIndex \/ UndoAccount \/ Unlink \/ Reindex

Start == LoadOwnData \/ FirstStart \/ (\E i \in Ids : ImportOne(i)) \/ FinishImport

Next == (\E op \in Op : Request(op)) \/ Write \/ Start \/ Crash

Spec == Init /\ [][Next]_vars

\* The chain's callbacks run as long as the process lives; requests, failures,
\* kills and starts are not owed.
FairSpec == Spec /\ WF_vars(Write)

-----------------------------------------------------------------------------
Step == {"account", "index", "undo", "unlink", "reindex"}

MemoryType ==
  /\ accounts \in [Ids -> Content \cup {Absent}]
  /\ current \in Ids \cup {NoId} /\ key \in BOOLEAN

DiskType ==
  /\ files \in [Ids -> Content \cup {Absent}] /\ keyFile \in BOOLEAN
  /\ index \in [ids : SUBSET Ids, current : Ids \cup {NoId}] \cup {NoIndex}

QueueType ==
  /\ queue \in Seq(Op)
  /\ pc \in {"down", "import", "idle"} \cup Step
  /\ pc \in Step => queue # <<>>
  /\ draft \in Content \cup {Absent}

GhostType ==
  /\ todo \in SUBSET Ids /\ torn \in SUBSET Ids
  /\ acked \in [Ids -> Nat]

BoundType == requests \in Nat /\ failures \in Nat /\ crashes \in Nat

\* Every variable has its type, and a write step has an operation to work on.
TypeOK == MemoryType /\ DiskType /\ QueueType /\ GhostType /\ BoundType

\* Whatever fails and whenever the process dies, the next start can read every
\* account the index names: loadOwnData never stops with "stopped to protect
\* the data" because of the store's own writes.
AlwaysReadable == Readable

\* A kill loses nothing but the operation that was running: reading the files
\* again gives every other account exactly as the memory holds it, unless its
\* caller was told that the rollback failed.  The running one differs only while
\* its file is written and the index is not.
CrashLosesOnlyInFlight ==
  Running =>
    \A i \in Ids : Reloaded(i) = accounts[i] \/ i \in torn
                     \/ (pc \in {"index", "undo"} /\ Head1.kind # "remove" /\ Head1.id = i)

\* An update whose caller was told "done" is in the account after every later
\* write, rollback and restart: updates work on the latest content, and none is
\* lost to another one or to a partial account.
NoAcknowledgedUpdateLost ==
  Running =>
    \A i \in Ids : acked[i] > 0 => accounts[i] # Absent /\ accounts[i].n >= acked[i]

\* The account shown as the current one is in the library, in memory and after a
\* restart, however removals and selections interleave.
CurrentIsStored ==
  /\ current # NoId => accounts[current] # Absent
  /\ pc \in Step \cup {"idle"} /\ index # NoIndex /\ current # NoId
       => index.current = current

-----------------------------------------------------------------------------
(* The strengthening that is inductive *)

\* Before the library is loaded there is nothing in memory but what was imported.
NotLoaded ==
  /\ pc = "down" => current = NoId /\ \A i \in Ids : accounts[i] = Absent
  /\ pc = "import" => /\ current = NoId /\ index = NoIndex
                      /\ \A i \in Ids : accounts[i] # Absent => files[i] = accounts[i]

\* The index file names the accounts in memory, and the current one if there is one.
IndexFollowsMemory ==
  Running =>
    /\ index = NoIndex => current = NoId /\ \A i \in Ids : accounts[i] = Absent
    /\ index # NoIndex => /\ \A i \in Ids : i \in index.ids <=> accounts[i] # Absent
                          /\ current # NoId => index.current = current

\* Accounts can be decrypted as long as there are any.
KeyIsKept ==
  /\ key => keyFile
  /\ \A i \in Ids : accounts[i] # Absent => keyFile

\* What the running operation has established at each of its steps.
StepKnows ==
  LET id == Head1.id IN
  /\ pc \in {"account", "undo"} => Head1.kind # "remove" /\ id \in Ids /\ draft # Absent
  /\ pc = "index" /\ Head1.kind = "remove" =>
       accounts[id] # Absent /\ id # current /\ draft = accounts[id]
  /\ pc = "index" /\ Head1.kind # "remove" /\ id \in Ids =>
       draft # Absent /\ files[id] = draft /\ keyFile
  /\ pc \in {"unlink", "reindex"} =>
       /\ Head1.kind = "remove" /\ id # current /\ accounts[id] = Absent
       /\ draft # Absent /\ files[id] # Absent /\ keyFile
       /\ files[id] = draft \/ id \in torn

CurrentIsKnown == current # NoId => accounts[current] # Absent

IInv ==
  /\ TypeOK /\ NotLoaded /\ IndexFollowsMemory /\ KeyIsKept /\ StepKnows
  /\ AlwaysReadable /\ CrashLosesOnlyInFlight /\ CurrentIsKnown

\* The chain never stalls: with no further kill, requested writes all settle,
\* whether they succeed or fail.
WritesSettle == (queue # <<>>) ~> (queue = <<>>)

(***************************************************************************)
(* The store seen as the library it promises to be: what the memory holds  *)
(* while the program runs, and what it would load otherwise.               *)
(***************************************************************************)
Lib == [i \in Ids |-> IF Running THEN accounts[i] ELSE Reloaded(i)]
Cur == IF Running THEN current ELSE ReloadedCurrent
Chosen == IF index = NoIndex THEN NoId ELSE index.current
Out == IF pc \in {"unlink", "reindex"} THEN draft ELSE Absent

\* An account is in doubt if its file could not be put back, until its next write begins.
Overwritten(i) == pc \in {"index", "undo"} /\ Head1.kind # "remove" /\ Head1.id = i
Doubted(i) == i \in torn /\ ~Overwritten(i) /\ accounts[i] # Absent /\ files[i] # accounts[i]
Doubt == [i \in Ids |-> IF Doubted(i) THEN {files[i]} ELSE {}]

L == INSTANCE AccountLibrary WITH
       Offered <- Cockpit, up <- Running, new <- index = NoIndex, lib <- Lib, cur <- Cur,
       chosen <- Chosen, jobs <- queue, out <- Out, doubt <- Doubt

\* The store implements the library of AccountLibrary: whatever operations fail and whenever the
\* program is killed, callers and the next start see updates that happen one at a time, in order, as
\* a whole or not at all (account-store.mjs enqueueWrite, upsertOnce, removeOnce, initialize).
ImplementsLibrary == L!Spec
=============================================================================
