-------------------------- MODULE AccountStoreProofs --------------------------
(***************************************************************************)
(* The account library can be loaded again at every moment, loses only the *)
(* write that was running, and never selects an account it has not got:    *)
(* for any accounts, any number of operations, failures and kills.         *)
(*                                                                         *)
(* IInv is inductive.  What a write step knows (StepKnows) is what the     *)
(* steps before it have established; IndexFollowsMemory ties the index     *)
(* file to the memory, and CrashLosesOnlyInFlight the account files.       *)
(* The second part shows that no acknowledged update is lost (AInv) and    *)
(* that the store implements the library of AccountLibrary (RInv).         *)
(***************************************************************************)
EXTENDS MCAccountStore, TLAPS

(* What keeps an acknowledged update in the account: an inductive invariant *)

\* The file of an account is never behind the memory.
FilesAreAhead ==
  Running =>
    \A i \in Ids : accounts[i] # Absent => files[i] # Absent /\ files[i].n >= accounts[i].n

\* What the operation under way writes, or has taken out, is never behind either.
DraftIsAhead ==
  LET id == Head1.id IN
  /\ pc \in {"account", "index"} /\ id # NoId /\ Head1.kind # "remove" /\ accounts[id] # Absent
       => draft.n >= accounts[id].n + (IF Head1.kind = "bump" THEN 1 ELSE 0)
  /\ pc \in {"account", "index"} /\ Head1.kind = "bump" => accounts[id] # Absent
  /\ pc \in {"unlink", "reindex"} => files[id].n >= draft.n

\* Acknowledged updates are in the files of the accounts the index names.
AckedIsOnDisk == \A i \in Ids : acked[i] > 0 => Reloaded(i) # Absent /\ Reloaded(i).n >= acked[i]

AInv == IInv /\ FilesAreAhead /\ DraftIsAhead /\ AckedIsOnDisk /\ NoAcknowledgedUpdateLost

(* What the mapping needs to know: a second inductive invariant *)

Updates(c) == {[c EXCEPT !.status = "active"], [c EXCEPT !.n = @ + 1], [c EXCEPT !.status = "transferred"]}

\* The checks an operation passed, and what it made of the account, hold until it ends.
StepStaysAccepted ==
  /\ pc \in {"account", "index", "undo"} =>
       /\ Accepted(Head1)
       /\ Head1.id # NoId => draft = Patched(Head1)
  /\ pc = "undo" => files[Head1.id] = draft
  /\ pc \in {"unlink", "reindex"} => index # NoIndex /\ index.current = current

\* A file that could not be put back holds one update of the account, whatever came in between.
DoubtIsOneUpdate ==
  /\ \A i \in Ids : Doubted(i) => files[i] \in Updates(accounts[i])
  /\ pc \in {"unlink", "reindex"} /\ files[Head1.id] # draft => files[Head1.id] \in Updates(draft)

\* Only what Cockpit offers is imported, as it was first written.
ImportIsOffered ==
  pc = "import" =>
    /\ todo \subseteq Cockpit
    /\ \A i \in Ids : accounts[i] # Absent => i \in Cockpit /\ accounts[i] = [status |-> "active", n |-> 0]

NothingIsQueued == ~Running => queue = <<>>

RInv == IInv /\ StepStaysAccepted /\ DoubtIsOneUpdate /\ ImportIsOffered /\ NothingIsQueued

USE StoreConstants, NullConstants

\* The operations in the queue have an account, or select none.
LEMMA OpFields ==
  ASSUME NEW op \in Op
  PROVE  /\ op.id \in Ids \cup {NoId}
         /\ op.kind # "setCurrent" => op.id \in Ids
         /\ op.kind \in {"upsert", "bump", "transfer", "remove", "setCurrent"}
BY DEF Op

\* Taking the settled operation off the queue leaves a queue.
LEMMA QueueFacts ==
  ASSUME NEW q \in Seq(Op), q # <<>>
  PROVE  Head(q) \in Op /\ Tail(q) \in Seq(Op)
OBVIOUS

\* normalizeAccount gives an account back, whatever it is called with.
LEMMA PatchedType ==
  ASSUME TypeOK, NEW op \in Op, op.id \in Ids, Accepted(op)
  PROVE  /\ Patched(op) \in Content
         /\ op.kind \in {"setCurrent", "remove"} => Patched(op) = accounts[op.id]
<1>1. op.kind \in {"upsert", "bump", "transfer", "remove", "setCurrent"}
  BY OpFields
<1>2. accounts[op.id] \in Content \cup {Absent}
  BY DEF TypeOK, MemoryType
<1>3. op.id # NoId
  OBVIOUS
<1>4. op.kind # "upsert" => accounts[op.id] \in Content
  BY <1>1, <1>2, <1>3 DEF Accepted
<1>. QED
  BY <1>1, <1>2, <1>4 DEF Patched, Content, Status

\* What a write step works on.
LEMMA StepFacts ==
  ASSUME IInv, pc \in Step
  PROVE  /\ Head1 \in Op /\ Tail(queue) \in Seq(Op)
         /\ Head1.id \in Ids \cup {NoId} /\ (Head1.kind # "setCurrent" => Head1.id \in Ids)
         /\ pc \in {"account", "undo", "unlink", "reindex"} => Head1.id \in Ids /\ draft \in Content
<1>1. queue \in Seq(Op) /\ queue # <<>> /\ draft \in Content \cup {Absent}
  BY DEF IInv, TypeOK, QueueType
<1>2. Head1 \in Op /\ Tail(queue) \in Seq(Op)
  BY <1>1, QueueFacts DEF Head1
<1>3. Head1.id \in Ids \cup {NoId} /\ (Head1.kind # "setCurrent" => Head1.id \in Ids)
  BY <1>2, OpFields
<1>4. pc \in {"account", "undo", "unlink", "reindex"} => Head1.id \in Ids /\ draft # Absent
  BY <1>3 DEF IInv, StepKnows
<1>. QED
  BY <1>1, <1>2, <1>3, <1>4

\* writeIndex writes the ids of the accounts it is given.
LEMMA IndexOfFacts ==
  ASSUME NEW map, NEW cur \in Ids \cup {NoId}
  PROVE  /\ IndexOf(map, cur) \in [ids : SUBSET Ids, current : Ids \cup {NoId}]
         /\ IndexOf(map, cur) # NoIndex
         /\ IndexOf(map, cur).current = cur /\ IndexOf(map, cur).ids \subseteq Ids
         /\ \A i \in Ids : i \in IndexOf(map, cur).ids <=> map[i] # Absent
<1>1. IndexOf(map, cur) \in [ids : SUBSET Ids, current : Ids \cup {NoId}]
  BY DEF IndexOf, Present
<1>. QED
  BY <1>1 DEF IndexOf, Present

\* The library and the marker that writeIndex makes valid.
LEMMA NextFacts ==
  ASSUME IInv, pc = "index"
  PROVE  /\ NextAccounts \in [Ids -> Content \cup {Absent}]
         /\ NextCurrent \in Ids \cup {NoId}
         /\ \A i \in Ids : NextAccounts[i] =
              IF i # Head1.id THEN accounts[i]
              ELSE IF Head1.kind = "remove" THEN Absent ELSE draft
<1>1. /\ accounts \in [Ids -> Content \cup {Absent}] /\ current \in Ids \cup {NoId}
      /\ draft \in Content \cup {Absent} /\ pc \in Step
  BY DEF IInv, TypeOK, MemoryType, QueueType, Step
<1>2. Head1.id \in Ids \cup {NoId}
  BY <1>1, StepFacts
<1>. QED
  BY <1>1, <1>2 DEF NextAccounts, NextCurrent

\* A first account, as an upsert or an import writes it.
LEMMA FreshContent == [status |-> "active", n |-> 0] \in Content
BY DEF Content, Status

-----------------------------------------------------------------------------
\* The library starts empty.
LEMMA InitIInv == Init => IInv
<1>. SUFFICES ASSUME Init PROVE IInv
  OBVIOUS
<1>1. MemoryType
  BY DEF Init, MemoryType
<1>2. DiskType
  BY DEF Init, DiskType
<1>3. QueueType
  BY DEF Init, QueueType, Step
<1>4. GhostType
  BY DEF Init, GhostType
<1>5. BoundType
  BY DEF Init, BoundType
<1>6. NotLoaded /\ IndexFollowsMemory /\ KeyIsKept /\ StepKnows
  BY DEF Init, NotLoaded, IndexFollowsMemory, Running, KeyIsKept, StepKnows
<1>7. AlwaysReadable /\ CrashLosesOnlyInFlight /\ CurrentIsKnown
  BY DEF Init, AlwaysReadable, Readable, CrashLosesOnlyInFlight, Running, CurrentIsKnown
<1>. QED
  BY <1>1, <1>2, <1>3, <1>4, <1>5, <1>6, <1>7 DEF IInv, TypeOK

\* Every step keeps the inductive invariant.
LEMMA NextIInv == IInv /\ [Next]_vars => IInv'
<1>. SUFFICES ASSUME IInv, [Next]_vars PROVE IInv'
  OBVIOUS
<1>t. /\ TypeOK /\ MemoryType /\ DiskType /\ QueueType /\ GhostType /\ BoundType
      /\ NotLoaded /\ IndexFollowsMemory /\ KeyIsKept /\ StepKnows
      /\ AlwaysReadable /\ CrashLosesOnlyInFlight /\ CurrentIsKnown
  BY DEF IInv, TypeOK
<1>1. ASSUME NEW op \in Op, Request(op) PROVE IInv'
  <2>1. MemoryType' /\ DiskType' /\ GhostType' /\ NotLoaded' /\ IndexFollowsMemory' /\ KeyIsKept' /\
     AlwaysReadable' /\ CurrentIsKnown'
    BY <1>1, <1>t DEF Request, MemoryType, DiskType, GhostType, NotLoaded, IndexFollowsMemory,
       KeyIsKept, AlwaysReadable, Readable, CurrentIsKnown, memory, disk
  <2>2. QueueType'
    BY <1>1, <1>t DEF Request, QueueType
  <2>3. BoundType'
    BY <1>1, <1>t DEF Request, BoundType
  <2>4. StepKnows'
    BY <1>1, <1>t DEF Request, StepKnows, Head1, QueueType, memory, disk
  <2>5. CrashLosesOnlyInFlight'
    BY <1>1, <1>t DEF Request, CrashLosesOnlyInFlight, Reloaded, Head1, QueueType, memory, disk
  <2>. QED
    BY <2>1, <2>2, <2>3, <2>4, <2>5 DEF IInv, TypeOK
<1>2. CASE Begin
  <2>1. MemoryType' /\ DiskType' /\ GhostType' /\ BoundType' /\ KeyIsKept' /\ AlwaysReadable' /\
     CurrentIsKnown'
    BY <1>2, <1>t DEF Begin, MemoryType, DiskType, GhostType, BoundType, KeyIsKept, AlwaysReadable,
       Readable, CurrentIsKnown, memory, disk, bounds
  <2>2. QueueType'
    BY <1>2, <1>t, PatchedType, OpFields DEF Begin, QueueType, Step, Head1, TypeOK, Settle, Fail,
       memory, bounds
  <2>3. NotLoaded'
    BY <1>2, <1>t DEF Begin, NotLoaded, Settle, Fail
  <2>4. IndexFollowsMemory'
    BY <1>2, <1>t DEF Begin, IndexFollowsMemory, Running, Step, memory, disk
  <2>5. StepKnows'
    BY <1>2, <1>t, QueueFacts, PatchedType, OpFields DEF Begin, StepKnows, Head1, QueueType,
       Accepted, Step, TypeOK, Settle, Fail, memory, disk, bounds
  <2>6. CrashLosesOnlyInFlight'
    BY <1>2, <1>t DEF Begin, CrashLosesOnlyInFlight, Reloaded, Running, Step, memory, disk
  <2>. QED
    BY <2>1, <2>2, <2>3, <2>4, <2>5, <2>6 DEF IInv, TypeOK
<1>3. CASE EnsureKey
  <2>1. GhostType' /\ CurrentIsKnown'
    BY <1>3, <1>t DEF EnsureKey, GhostType, CurrentIsKnown
  <2>2. MemoryType'
    BY <1>3, <1>t, StepFacts DEF EnsureKey, MemoryType, Step, Settle, Fail, memory, disk, bounds
  <2>3. DiskType'
    BY <1>3, <1>t, StepFacts DEF EnsureKey, DiskType, Step, Settle, Fail, memory, disk, bounds
  <2>4. QueueType'
    BY <1>3, <1>t DEF EnsureKey, QueueType, Step, Settle
  <2>5. BoundType'
    BY <1>3, <1>t DEF EnsureKey, BoundType, Fail
  <2>6. NotLoaded'
    BY <1>3, <1>t DEF EnsureKey, NotLoaded, Settle
  <2>7. IndexFollowsMemory'
    BY <1>3, <1>t DEF EnsureKey, IndexFollowsMemory, Running
  <2>8. KeyIsKept'
    BY <1>3, <1>t DEF EnsureKey, KeyIsKept
  <2>9. StepKnows'
    BY <1>3, <1>t DEF EnsureKey, StepKnows, Head1, Settle
  <2>10. AlwaysReadable'
    BY <1>3, <1>t DEF EnsureKey, AlwaysReadable, Readable
  <2>11. CrashLosesOnlyInFlight'
    BY <1>3, <1>t DEF EnsureKey, CrashLosesOnlyInFlight, Reloaded, Running
  <2>. QED
    BY <2>1, <2>2, <2>3, <2>4, <2>5, <2>6, <2>7, <2>8, <2>9, <2>10, <2>11 DEF IInv, TypeOK
<1>4. CASE WriteAccount
  <2>1. MemoryType' /\ GhostType' /\ KeyIsKept' /\ CurrentIsKnown'
    BY <1>4, <1>t DEF WriteAccount, MemoryType, GhostType, KeyIsKept, CurrentIsKnown, memory
  <2>2. DiskType'
    BY <1>4, <1>t, StepFacts DEF WriteAccount, DiskType, Step
  <2>3. QueueType'
    BY <1>4, <1>t DEF WriteAccount, QueueType, Step, Settle
  <2>4. BoundType'
    BY <1>4, <1>t DEF WriteAccount, BoundType, Fail
  <2>5. NotLoaded'
    BY <1>4, <1>t DEF WriteAccount, NotLoaded, Settle
  <2>6. IndexFollowsMemory'
    BY <1>4, <1>t DEF WriteAccount, IndexFollowsMemory, Running, memory
  <2>7. StepKnows'
    BY <1>4, <1>t DEF WriteAccount, StepKnows, Head1, DiskType, KeyIsKept, Settle
  <2>8. AlwaysReadable'
    BY <1>4, <1>t DEF WriteAccount, AlwaysReadable, Readable, DiskType, StepKnows
  <2>9. CrashLosesOnlyInFlight'
    BY <1>4, <1>t DEF WriteAccount, CrashLosesOnlyInFlight, Reloaded, Running, Head1, DiskType,
       StepKnows, memory
  <2>. QED
    BY <2>1, <2>2, <2>3, <2>4, <2>5, <2>6, <2>7, <2>8, <2>9 DEF IInv, TypeOK
<1>5. CASE WriteIndex
  <2>1. MemoryType'
    BY <1>5, <1>t, NextFacts DEF WriteIndex, MemoryType
  <2>2. DiskType'
    BY <1>5, <1>t, NextFacts, IndexOfFacts DEF WriteIndex, DiskType
  <2>3. QueueType'
    BY <1>5, <1>t, StepFacts DEF WriteIndex, QueueType, Step, Settle, Fail, memory, disk, bounds
  <2>4. GhostType'
    BY <1>5, <1>t DEF WriteIndex, GhostType
  <2>5. BoundType'
    BY <1>5, <1>t DEF WriteIndex, BoundType, Fail
  <2>6. NotLoaded'
    BY <1>5, <1>t DEF WriteIndex, NotLoaded, Settle
  <2>7. IndexFollowsMemory'
    BY <1>5, <1>t, NextFacts, IndexOfFacts DEF WriteIndex, IndexFollowsMemory, Running
  <2>8. KeyIsKept'
    BY <1>5, <1>t, NextFacts DEF WriteIndex, KeyIsKept, StepKnows
  <2>9. StepKnows'
    BY <1>5, <1>t, StepFacts, NextFacts DEF WriteIndex, StepKnows, Head1, Step, IndexFollowsMemory,
       Running, AlwaysReadable, Readable, CrashLosesOnlyInFlight, Reloaded, NextCurrent, Settle
  <2>10. AlwaysReadable'
    BY <1>5, <1>t, NextFacts, IndexOfFacts DEF WriteIndex, AlwaysReadable, Readable, StepKnows,
       IndexFollowsMemory, Running
  <2>11. CrashLosesOnlyInFlight'
    BY <1>5, <1>t, NextFacts, IndexOfFacts DEF WriteIndex, CrashLosesOnlyInFlight, Reloaded,
       Running, Head1, StepKnows
  <2>12. CurrentIsKnown'
    BY <1>5, <1>t, NextFacts DEF WriteIndex, CurrentIsKnown, StepKnows, NextCurrent
  <2>. QED
    BY <2>1, <2>2, <2>3, <2>4, <2>5, <2>6, <2>7, <2>8, <2>9, <2>10, <2>11, <2>12 DEF IInv, TypeOK
<1>6. CASE UndoAccount
  <2>1. MemoryType' /\ KeyIsKept' /\ CurrentIsKnown'
    BY <1>6, <1>t DEF UndoAccount, MemoryType, KeyIsKept, CurrentIsKnown, memory
  <2>2. DiskType'
    BY <1>6, <1>t DEF UndoAccount, DiskType, MemoryType
  <2>3. QueueType'
    BY <1>6, <1>t DEF UndoAccount, QueueType, Step, Settle
  <2>4. GhostType'
    BY <1>6, <1>t, StepFacts DEF UndoAccount, GhostType, Step
  <2>5. BoundType'
    BY <1>6, <1>t DEF UndoAccount, BoundType, Fail
  <2>6. NotLoaded'
    BY <1>6, <1>t DEF UndoAccount, NotLoaded, Settle
  <2>7. IndexFollowsMemory'
    BY <1>6, <1>t DEF UndoAccount, IndexFollowsMemory, Running, memory
  <2>8. StepKnows'
    BY <1>6, <1>t DEF UndoAccount, StepKnows, Settle
  <2>9. AlwaysReadable'
    BY <1>6, <1>t DEF UndoAccount, AlwaysReadable, Readable, IndexFollowsMemory, Running, DiskType
  <2>10. CrashLosesOnlyInFlight'
    BY <1>6, <1>t DEF UndoAccount, CrashLosesOnlyInFlight, Reloaded, Running, IndexFollowsMemory,
       DiskType, memory
  <2>. QED
    BY <2>1, <2>2, <2>3, <2>4, <2>5, <2>6, <2>7, <2>8, <2>9, <2>10 DEF IInv, TypeOK
<1>7. CASE Unlink
  <2>1. MemoryType' /\ KeyIsKept' /\ CurrentIsKnown'
    BY <1>7, <1>t DEF Unlink, MemoryType, KeyIsKept, CurrentIsKnown, memory
  <2>2. DiskType'
    BY <1>7, <1>t DEF Unlink, DiskType
  <2>3. QueueType'
    BY <1>7, <1>t DEF Unlink, QueueType, Step, Settle
  <2>4. GhostType'
    BY <1>7, <1>t DEF Unlink, GhostType
  <2>5. BoundType'
    BY <1>7, <1>t DEF Unlink, BoundType, Fail
  <2>6. NotLoaded'
    BY <1>7, <1>t DEF Unlink, NotLoaded, Settle
  <2>7. IndexFollowsMemory'
    BY <1>7, <1>t DEF Unlink, IndexFollowsMemory, Running, memory
  <2>8. StepKnows'
    BY <1>7, <1>t DEF Unlink, StepKnows, Head1, Settle, memory
  <2>9. AlwaysReadable'
    BY <1>7, <1>t DEF Unlink, AlwaysReadable, Readable, StepKnows, IndexFollowsMemory, Running,
       DiskType
  <2>10. CrashLosesOnlyInFlight'
    BY <1>7, <1>t DEF Unlink, CrashLosesOnlyInFlight, Reloaded, Running, StepKnows, DiskType, memory
  <2>. QED
    BY <2>1, <2>2, <2>3, <2>4, <2>5, <2>6, <2>7, <2>8, <2>9, <2>10 DEF IInv, TypeOK
<1>8. CASE Reindex
  <2>1. MemoryType'
    BY <1>8, <1>t, StepFacts DEF Reindex, MemoryType, Step
  <2>2. DiskType'
    BY <1>8, <1>t, IndexOfFacts DEF Reindex, DiskType, MemoryType
  <2>3. QueueType'
    BY <1>8, <1>t DEF Reindex, QueueType, Step, Settle
  <2>4. GhostType'
    BY <1>8, <1>t, StepFacts DEF Reindex, GhostType, Step, Content
  <2>5. BoundType'
    BY <1>8, <1>t DEF Reindex, BoundType, Fail
  <2>6. NotLoaded'
    BY <1>8, <1>t DEF Reindex, NotLoaded, Settle
  <2>7. IndexFollowsMemory'
    BY <1>8, <1>t, IndexOfFacts DEF Reindex, IndexFollowsMemory, Running, DiskType
  <2>8. KeyIsKept'
    BY <1>8, <1>t DEF Reindex, KeyIsKept, StepKnows
  <2>9. StepKnows'
    BY <1>8, <1>t DEF Reindex, StepKnows, Settle
  <2>10. AlwaysReadable'
    BY <1>8, <1>t, IndexOfFacts DEF Reindex, AlwaysReadable, Readable, StepKnows, MemoryType,
       IndexFollowsMemory, Running
  <2>11. CrashLosesOnlyInFlight'
    BY <1>8, <1>t, IndexOfFacts DEF Reindex, CrashLosesOnlyInFlight, Reloaded, Running, StepKnows,
       MemoryType
  <2>12. CurrentIsKnown'
    BY <1>8, <1>t DEF Reindex, CurrentIsKnown, StepKnows, MemoryType
  <2>. QED
    BY <2>1, <2>2, <2>3, <2>4, <2>5, <2>6, <2>7, <2>8, <2>9, <2>10, <2>11, <2>12 DEF IInv, TypeOK
<1>9. CASE LoadOwnData
  <2>1. GhostType' /\ BoundType'
    BY <1>9, <1>t DEF LoadOwnData, GhostType, BoundType, memory, disk, bounds
  <2>2. MemoryType'
    BY <1>9, <1>t DEF LoadOwnData, MemoryType, Reloaded, ReloadedCurrent, DiskType
  <2>3. DiskType'
    BY <1>9, <1>t DEF LoadOwnData, DiskType
  <2>4. QueueType'
    BY <1>9, <1>t DEF LoadOwnData, QueueType, Step
  <2>5. NotLoaded'
    BY <1>9, <1>t DEF LoadOwnData, NotLoaded
  <2>6. IndexFollowsMemory'
    BY <1>9, <1>t DEF LoadOwnData, IndexFollowsMemory, Reloaded, ReloadedCurrent, Readable
  <2>7. KeyIsKept'
    BY <1>9, <1>t DEF LoadOwnData, KeyIsKept
  <2>8. StepKnows'
    BY <1>9, <1>t DEF LoadOwnData, StepKnows
  <2>9. AlwaysReadable'
    BY <1>9, <1>t DEF LoadOwnData, AlwaysReadable, Readable
  <2>10. CrashLosesOnlyInFlight'
    BY <1>9, <1>t DEF LoadOwnData, CrashLosesOnlyInFlight, Reloaded
  <2>11. CurrentIsKnown'
    BY <1>9, <1>t DEF LoadOwnData, CurrentIsKnown, ReloadedCurrent, DiskType
  <2>. QED
    BY <2>1, <2>2, <2>3, <2>4, <2>5, <2>6, <2>7, <2>8, <2>9, <2>10, <2>11 DEF IInv, TypeOK
<1>10. CASE FirstStart
  <2>1. MemoryType' /\ DiskType' /\ BoundType' /\ KeyIsKept' /\ AlwaysReadable' /\ CurrentIsKnown'
    BY <1>10, <1>t DEF FirstStart, MemoryType, DiskType, BoundType, KeyIsKept, AlwaysReadable,
       Readable, CurrentIsKnown, memory, disk, bounds
  <2>2. QueueType'
    BY <1>10, <1>t DEF FirstStart, QueueType, Step
  <2>3. GhostType'
    BY <1>10, <1>t DEF FirstStart, GhostType
  <2>4. NotLoaded'
    BY <1>10, <1>t DEF FirstStart, NotLoaded, memory, disk
  <2>5. IndexFollowsMemory'
    BY <1>10, <1>t DEF FirstStart, IndexFollowsMemory, NotLoaded, memory, disk
  <2>6. StepKnows'
    BY <1>10, <1>t DEF FirstStart, StepKnows
  <2>7. CrashLosesOnlyInFlight'
    BY <1>10, <1>t DEF FirstStart, CrashLosesOnlyInFlight, Reloaded, NotLoaded, memory, disk
  <2>. QED
    BY <2>1, <2>2, <2>3, <2>4, <2>5, <2>6, <2>7 DEF IInv, TypeOK
<1>11. ASSUME NEW i \in Ids, ImportOne(i) PROVE IInv'
  <2>1. QueueType'
    BY <1>11, <1>t DEF ImportOne, QueueType
  <2>2. MemoryType'
    <3>1. CASE UNCHANGED accounts
      BY <1>11, <1>t, <3>1 DEF ImportOne, MemoryType, Fail
    <3>2. CASE accounts' = [accounts EXCEPT ![i] = [status |-> "active", n |-> 0]]
      <4>1. accounts' \in [Ids -> Content \cup {Absent}]
        BY <1>t, <3>2, FreshContent DEF MemoryType
      <4>. QED
        BY <1>11, <1>t, <4>1 DEF ImportOne, MemoryType, Fail
    <3>. QED
      BY <1>11, <1>t, <3>1, <3>2 DEF ImportOne, DiskType
  <2>3. DiskType'
    <3>1. CASE UNCHANGED files
      BY <1>11, <1>t, <3>1 DEF ImportOne, DiskType, Fail
    <3>2. CASE files' = [files EXCEPT ![i] = [status |-> "active", n |-> 0]]
      <4>1. files' \in [Ids -> Content \cup {Absent}]
        BY <1>t, <3>2, FreshContent DEF DiskType
      <4>. QED
        BY <1>11, <1>t, <4>1 DEF ImportOne, DiskType, Fail
    <3>. QED
      BY <1>11, <3>1, <3>2 DEF ImportOne
  <2>4. GhostType'
    BY <1>11, <1>t DEF ImportOne, GhostType
  <2>5. BoundType'
    BY <1>11, <1>t DEF ImportOne, BoundType, Fail, memory, disk, bounds
  <2>6. NotLoaded'
    BY <1>11, <1>t DEF ImportOne, NotLoaded, MemoryType, DiskType
  <2>7. IndexFollowsMemory'
    BY <1>11, <1>t DEF ImportOne, IndexFollowsMemory, Running, Step
  <2>8. KeyIsKept'
    BY <1>11, <1>t DEF ImportOne, KeyIsKept
  <2>9. StepKnows'
    BY <1>11, <1>t DEF ImportOne, StepKnows
  <2>10. AlwaysReadable'
    BY <1>11, <1>t, FreshContent DEF ImportOne, AlwaysReadable, Readable, DiskType
  <2>11. CrashLosesOnlyInFlight'
    BY <1>11, <1>t DEF ImportOne, CrashLosesOnlyInFlight, Running
  <2>12. CurrentIsKnown'
    BY <1>11, <1>t, FreshContent DEF ImportOne, CurrentIsKnown, MemoryType, DiskType
  <2>. QED
    BY <2>1, <2>2, <2>3, <2>4, <2>5, <2>6, <2>7, <2>8, <2>9, <2>10, <2>11, <2>12 DEF IInv, TypeOK
<1>12. CASE FinishImport
  <2>1. GhostType' /\ BoundType' /\ KeyIsKept'
    BY <1>12, <1>t DEF FinishImport, GhostType, BoundType, KeyIsKept, memory, disk, bounds
  <2>2. MemoryType'
    BY <1>12, <1>t DEF FinishImport, MemoryType, Present
  <2>3. DiskType'
    BY <1>12, <1>t, IndexOfFacts DEF FinishImport, DiskType, Present
  <2>4. QueueType'
    BY <1>12, <1>t DEF FinishImport, QueueType, Step
  <2>5. NotLoaded'
    BY <1>12, <1>t DEF FinishImport, NotLoaded
  <2>6. IndexFollowsMemory'
    BY <1>12, <1>t, IndexOfFacts DEF FinishImport, IndexFollowsMemory, NotLoaded, Present
  <2>7. StepKnows'
    BY <1>12, <1>t DEF FinishImport, StepKnows
  <2>8. AlwaysReadable'
    BY <1>12, <1>t, IndexOfFacts DEF FinishImport, AlwaysReadable, Readable, NotLoaded, KeyIsKept,
       Present, memory, disk
  <2>9. CrashLosesOnlyInFlight'
    BY <1>12, <1>t, IndexOfFacts DEF FinishImport, CrashLosesOnlyInFlight, Reloaded, NotLoaded,
       Present
  <2>10. CurrentIsKnown'
    BY <1>12, <1>t DEF FinishImport, CurrentIsKnown, Present
  <2>. QED
    BY <2>1, <2>2, <2>3, <2>4, <2>5, <2>6, <2>7, <2>8, <2>9, <2>10 DEF IInv, TypeOK
<1>13. CASE Crash
  <2>1. DiskType' /\ AlwaysReadable'
    BY <1>13, <1>t DEF Crash, DiskType, AlwaysReadable, Readable, memory, disk, bounds
  <2>2. MemoryType'
    BY <1>13, <1>t DEF Crash, MemoryType, memory, disk, bounds
  <2>3. QueueType'
    BY <1>13, <1>t DEF Crash, QueueType, Step, memory
  <2>4. GhostType'
    BY <1>13, <1>t DEF Crash, GhostType, memory
  <2>5. BoundType'
    BY <1>13, <1>t DEF Crash, BoundType, memory
  <2>6. NotLoaded'
    BY <1>13, <1>t DEF Crash, NotLoaded, memory
  <2>7. IndexFollowsMemory'
    BY <1>13, <1>t DEF Crash, IndexFollowsMemory, Running, Step, memory
  <2>8. KeyIsKept'
    BY <1>13, <1>t DEF Crash, KeyIsKept, memory
  <2>9. StepKnows'
    BY <1>13, <1>t DEF Crash, StepKnows
  <2>10. CrashLosesOnlyInFlight'
    BY <1>13, <1>t DEF Crash, CrashLosesOnlyInFlight, Running
  <2>11. CurrentIsKnown'
    BY <1>13, <1>t DEF Crash, CurrentIsKnown, memory
  <2>. QED
    BY <2>1, <2>2, <2>3, <2>4, <2>5, <2>6, <2>7, <2>8, <2>9, <2>10, <2>11 DEF IInv, TypeOK
<1>14. CASE UNCHANGED vars
  <2>1. MemoryType' /\ DiskType' /\ QueueType' /\ GhostType' /\ BoundType' /\ NotLoaded' /\
     IndexFollowsMemory' /\ KeyIsKept' /\ StepKnows' /\ AlwaysReadable' /\ CrashLosesOnlyInFlight' /\
     CurrentIsKnown'
    BY <1>14, <1>t DEF vars, MemoryType, DiskType, QueueType, GhostType, BoundType, NotLoaded,
       IndexFollowsMemory, Running, KeyIsKept, StepKnows, Head1, AlwaysReadable, Readable,
       CrashLosesOnlyInFlight, Reloaded, CurrentIsKnown, memory, disk, bounds
  <2>. QED
    BY <2>1 DEF IInv, TypeOK
<1>. QED
  BY <1>1, <1>2, <1>3, <1>4, <1>5, <1>6, <1>7, <1>8, <1>9, <1>10, <1>11, <1>12, <1>13, <1>14
     DEF Next, Write, Start

-----------------------------------------------------------------------------
\* The strengthened invariant holds in every state of every behaviour.
THEOREM StoreInvariant == Spec => []IInv
<1>1. Init => IInv
  BY InitIInv
<1>2. IInv /\ [Next]_vars => IInv'
  BY NextIInv
<1>. QED
  BY <1>1, <1>2, PTL DEF Spec

\* The memory, the files, the queue and the operation under way keep their types.
THEOREM TypeCorrect == Spec => []TypeOK
<1>1. IInv => TypeOK
  BY DEF IInv
<1>. QED
  BY <1>1, StoreInvariant, PTL

\* Whatever fails and whenever the process is killed, loadOwnData can read every
\* account the index names: the store never locks itself out.
THEOREM LibraryStaysReadable == Spec => []AlwaysReadable
<1>1. IInv => AlwaysReadable
  BY DEF IInv
<1>. QED
  BY <1>1, StoreInvariant, PTL

\* A kill at any moment costs at most the write that was running.
THEOREM CrashIsHarmless == Spec => []CrashLosesOnlyInFlight
<1>1. IInv => CrashLosesOnlyInFlight
  BY DEF IInv
<1>. QED
  BY <1>1, StoreInvariant, PTL

\* The current account is one of the library's, in memory and in the index file.
THEOREM CurrentStaysStored == Spec => []CurrentIsStored
<1>1. IInv => CurrentIsStored
  BY DEF IInv, CurrentIsStored, CurrentIsKnown, IndexFollowsMemory, Running, Step
<1>. QED
  BY <1>1, StoreInvariant, PTL

-----------------------------------------------------------------------------
(* What was acknowledged, and the library the store implements *)

\* An update never lowers the counter, and a bump raises it.
LEMMA PatchedIsAhead ==
  ASSUME TypeOK, NEW op \in Op, op.id \in Ids, Accepted(op), op.kind # "remove", accounts[op.id] # Absent
  PROVE  Patched(op).n >= accounts[op.id].n + (IF op.kind = "bump" THEN 1 ELSE 0)
<1>1. accounts[op.id] \in Content
  BY DEF TypeOK, MemoryType
<1>2. accounts[op.id].n \in Nat
  BY <1>1 DEF Content
<1>3. op.kind \in {"upsert", "bump", "transfer", "setCurrent"}
  BY OpFields
<1>. QED
  BY <1>1, <1>2, <1>3 DEF Patched, Content

\* The counters compared by AInv are numbers.
LEMMA CountersAreNumbers ==
  ASSUME TypeOK
  PROVE  /\ \A i \in Ids : acked[i] \in Nat
         /\ \A i \in Ids : accounts[i] # Absent => accounts[i].n \in Nat
         /\ \A i \in Ids : files[i] # Absent => files[i].n \in Nat
         /\ draft # Absent => draft.n \in Nat
<1>1. /\ \A i \in Ids : acked[i] \in Nat
      /\ \A i \in Ids : accounts[i] \in Content \cup {Absent}
      /\ \A i \in Ids : files[i] \in Content \cup {Absent}
      /\ draft \in Content \cup {Absent}
  BY DEF TypeOK, MemoryType, DiskType, GhostType, QueueType
<1>2. \A c \in Content : c.n \in Nat
  BY DEF Content
<1>. QED
  BY <1>1, <1>2

\* A store as it is opened has acknowledged nothing yet.
LEMMA InitAInv == Init => AInv
<1>. SUFFICES ASSUME Init PROVE AInv
  OBVIOUS
<1>1. IInv
  BY InitIInv
<1>2. FilesAreAhead /\ DraftIsAhead /\ AckedIsOnDisk /\ NoAcknowledgedUpdateLost
  BY DEF Init, FilesAreAhead, DraftIsAhead, AckedIsOnDisk, NoAcknowledgedUpdateLost, Running
<1>. QED
  BY <1>1, <1>2 DEF AInv

\* While the program runs, the files hold what was acknowledged because they are not behind the memory.
LEMMA FilesHoldTheAcked ==
  TypeOK /\ Running /\ IndexFollowsMemory /\ FilesAreAhead /\ NoAcknowledgedUpdateLost => AckedIsOnDisk
<1>. SUFFICES ASSUME TypeOK, Running, IndexFollowsMemory, FilesAreAhead, NoAcknowledgedUpdateLost,
                     NEW i \in Ids, acked[i] > 0
              PROVE  Reloaded(i) # Absent /\ Reloaded(i).n >= acked[i]
  BY DEF AckedIsOnDisk
<1>1. accounts[i] # Absent /\ accounts[i].n >= acked[i]
  BY DEF NoAcknowledgedUpdateLost
<1>2. index # NoIndex /\ i \in index.ids
  BY <1>1 DEF IndexFollowsMemory
<1>3. files[i] # Absent /\ files[i].n >= accounts[i].n
  BY <1>1 DEF FilesAreAhead
<1>4. acked[i] \in Nat /\ accounts[i].n \in Nat /\ files[i].n \in Nat
  BY <1>1, <1>3, CountersAreNumbers
<1>. QED
  BY <1>1, <1>2, <1>3, <1>4 DEF Reloaded

\* Every step keeps the acknowledged updates.
LEMMA NextAInv == AInv /\ [Next]_vars => AInv'
<1>. SUFFICES ASSUME AInv, [Next]_vars PROVE AInv'
  OBVIOUS
<1>t. /\ IInv /\ TypeOK /\ MemoryType /\ DiskType /\ QueueType /\ GhostType
      /\ NotLoaded /\ IndexFollowsMemory /\ StepKnows
      /\ FilesAreAhead /\ DraftIsAhead /\ AckedIsOnDisk /\ NoAcknowledgedUpdateLost
  BY DEF AInv, IInv, TypeOK
<1>i. IInv' /\ TypeOK' /\ IndexFollowsMemory'
  BY <1>t, NextIInv DEF IInv
<1>n. /\ \A i \in Ids : acked[i] \in Nat
      /\ \A i \in Ids : accounts[i] # Absent => accounts[i].n \in Nat
      /\ \A i \in Ids : files[i] # Absent => files[i].n \in Nat
      /\ draft # Absent => draft.n \in Nat
  BY <1>t, CountersAreNumbers
<1>d. Running' /\ FilesAreAhead' /\ DraftIsAhead' /\ NoAcknowledgedUpdateLost' => AInv'
  <2>1. (TypeOK /\ Running /\ IndexFollowsMemory /\ FilesAreAhead /\ NoAcknowledgedUpdateLost => AckedIsOnDisk)'
    BY FilesHoldTheAcked, PTL
  <2>. QED
    BY <1>i, <2>1 DEF AInv
<1>e. pc \in Step => Running
  BY DEF Step, Running
<1>1. ASSUME NEW op \in Op, Request(op) PROVE AInv'
  <2>1. FilesAreAhead' /\ NoAcknowledgedUpdateLost' /\ Running'
    BY <1>1, <1>t DEF Request, FilesAreAhead, NoAcknowledgedUpdateLost, Running, memory, disk
  <2>2. DraftIsAhead'
    BY <1>1, <1>t DEF Request, DraftIsAhead, Head1, QueueType, Step, memory, disk
  <2>. QED
    BY <1>d, <2>1, <2>2
<1>2. CASE Begin
  <2>1. FilesAreAhead' /\ NoAcknowledgedUpdateLost' /\ Running'
    BY <1>2, <1>t DEF Begin, FilesAreAhead, NoAcknowledgedUpdateLost, Running, Settle, memory, disk
  <2>2. DraftIsAhead'
    <3>1. CASE ~Accepted(Head1)
      BY <1>2, <3>1 DEF Begin, Settle, DraftIsAhead
    <3>2. CASE Accepted(Head1)
      <4>1. Head1 \in Op /\ Head1' = Head1 /\ UNCHANGED accounts
        BY <1>2, <1>t, <3>2, QueueFacts DEF Begin, Head1, QueueType, memory
      <4>2. pc' \in {"account", "index"} /\ (Head1.id # NoId => draft' = Patched(Head1))
        BY <1>2, <3>2 DEF Begin
      <4>3. Head1.id # NoId => Head1.id \in Ids
        BY <4>1, OpFields
      <4>4. Head1.kind = "bump" => accounts[Head1.id] # Absent
        BY <3>2 DEF Accepted
      <4>5. Head1.id # NoId /\ Head1.kind # "remove" /\ accounts[Head1.id] # Absent =>
              Patched(Head1).n >= accounts[Head1.id].n + (IF Head1.kind = "bump" THEN 1 ELSE 0)
        BY <1>t, <3>2, <4>1, <4>3, PatchedIsAhead
      <4>. QED
        BY <4>1, <4>2, <4>4, <4>5 DEF DraftIsAhead
    <3>. QED
      BY <3>1, <3>2
  <2>. QED
    BY <1>d, <2>1, <2>2
<1>3. CASE EnsureKey
  <2>1. FilesAreAhead' /\ NoAcknowledgedUpdateLost' /\ Running'
    BY <1>3, <1>t DEF EnsureKey, FilesAreAhead, NoAcknowledgedUpdateLost, Running, Settle
  <2>2. DraftIsAhead'
    BY <1>3, <1>t DEF EnsureKey, DraftIsAhead, Head1, Settle
  <2>. QED
    BY <1>d, <2>1, <2>2
<1>4. CASE WriteAccount
  <2>1. NoAcknowledgedUpdateLost' /\ Running'
    BY <1>4, <1>t DEF WriteAccount, NoAcknowledgedUpdateLost, Running, Settle, memory
  <2>2. DraftIsAhead'
    BY <1>4, <1>t DEF WriteAccount, DraftIsAhead, Head1, Settle, memory
  <2>3. FilesAreAhead'
    <3>. SUFFICES ASSUME NEW i \in Ids, accounts[i] # Absent
                  PROVE  files'[i] # Absent /\ files'[i].n >= accounts[i].n
      BY <1>4 DEF WriteAccount, FilesAreAhead, memory
    <3>1. files[i] # Absent /\ files[i].n >= accounts[i].n
      BY <1>4, <1>t DEF WriteAccount, FilesAreAhead, Running
    <3>2. CASE files' = [files EXCEPT ![Head1.id] = draft] /\ i = Head1.id
      <4>1. draft # Absent /\ files'[i] = draft
        BY <1>4, <1>t, <3>2 DEF WriteAccount, StepKnows, DiskType
      <4>2. draft.n >= accounts[i].n + (IF Head1.kind = "bump" THEN 1 ELSE 0)
        BY <1>4, <1>t, <3>2, StoreConstants DEF WriteAccount, DraftIsAhead, StepKnows
      <4>. QED
        BY <1>n, <4>1, <4>2
    <3>3. CASE ~(files' = [files EXCEPT ![Head1.id] = draft] /\ i = Head1.id)
      BY <1>4, <1>t, <3>1, <3>3 DEF WriteAccount, DiskType
    <3>. QED
      BY <3>2, <3>3
  <2>. QED
    BY <1>d, <2>1, <2>2, <2>3
<1>5. CASE WriteIndex
  <2>1. Running' /\ pc \in Step
    BY <1>5 DEF WriteIndex, Running, Settle, Step
  <2>2. CASE UNCHANGED <<accounts, acked>> /\ pc' \in {"idle", "undo"}
    <3>1. FilesAreAhead' /\ NoAcknowledgedUpdateLost'
      BY <1>5, <1>t, <1>e, <2>1, <2>2 DEF WriteIndex, FilesAreAhead, NoAcknowledgedUpdateLost
    <3>2. DraftIsAhead'
      BY <2>2 DEF DraftIsAhead
    <3>. QED
      BY <1>d, <2>1, <3>1, <3>2
  <2>3. CASE /\ accounts' = NextAccounts
             /\ acked' = CASE Head1.kind = "bump"   -> [acked EXCEPT ![Head1.id] = @ + 1]
                           [] Head1.kind = "remove" -> [acked EXCEPT ![Head1.id] = 0]
                           [] OTHER                 -> acked
             /\ IF Head1.kind = "remove" THEN pc' = "unlink" /\ UNCHANGED <<queue, draft>> ELSE Settle
    <3>1. pc = "index" /\ UNCHANGED files
      BY <1>5 DEF WriteIndex
    <3>2. \A i \in Ids : accounts'[i] = IF i # Head1.id THEN accounts[i]
                                        ELSE IF Head1.kind = "remove" THEN Absent ELSE draft
      BY <1>t, <2>3, <3>1, NextFacts
    <3>3. FilesAreAhead'
      <4>. SUFFICES ASSUME NEW i \in Ids, accounts'[i] # Absent
                    PROVE  files[i] # Absent /\ files[i].n >= accounts'[i].n
        BY <3>1 DEF FilesAreAhead
      <4>1. CASE i # Head1.id
        BY <1>t, <1>e, <2>1, <3>2, <4>1 DEF FilesAreAhead
      <4>2. CASE i = Head1.id
        <5>1. Head1.kind # "remove" /\ accounts'[i] = draft
          BY <3>2, <4>2
        <5>2. draft # Absent /\ files[i] = draft
          BY <1>t, <3>1, <4>2, <5>1 DEF StepKnows
        <5>. QED
          BY <1>n, <5>1, <5>2
      <4>. QED
        BY <4>1, <4>2
    <3>4. DraftIsAhead'
      <4>1. CASE Head1.kind # "remove"
        BY <2>3, <4>1 DEF Settle, DraftIsAhead
      <4>2. CASE Head1.kind = "remove"
        <5>1. Head1 \in Op /\ Head1.id \in Ids /\ accounts[Head1.id] # Absent /\ draft = accounts[Head1.id]
          BY <1>t, <2>1, <3>1, <4>2, StepFacts DEF StepKnows
        <5>2. files[Head1.id].n >= draft.n
          BY <1>t, <1>e, <2>1, <5>1 DEF FilesAreAhead
        <5>3. UNCHANGED <<files, draft, queue>> /\ pc' = "unlink"
          BY <2>3, <3>1, <4>2
        <5>. QED
          BY <5>2, <5>3 DEF DraftIsAhead, Head1
      <4>. QED
        BY <4>1, <4>2
    <3>5. NoAcknowledgedUpdateLost'
      <4>. SUFFICES ASSUME NEW i \in Ids, acked'[i] > 0
                    PROVE  accounts'[i] # Absent /\ accounts'[i].n >= acked'[i]
        BY DEF NoAcknowledgedUpdateLost
      <4>1. acked[i] > 0 => accounts[i] # Absent /\ accounts[i].n >= acked[i]
        BY <1>t, <1>e, <2>1 DEF NoAcknowledgedUpdateLost
      <4>3. CASE i # Head1.id
        BY <1>t, <2>3, <3>2, <4>1, <4>3 DEF GhostType
      <4>4. CASE i = Head1.id /\ Head1.kind = "remove"
        BY <1>t, <2>3, <4>4 DEF GhostType
      <4>5. CASE i = Head1.id /\ Head1.kind # "remove"
        <5>1. draft # Absent /\ accounts'[i] = draft /\ i # NoId
          BY <1>t, <3>1, <3>2, <4>5, StoreConstants DEF StepKnows
        <5>2. accounts[i] # Absent => draft.n >= accounts[i].n + (IF Head1.kind = "bump" THEN 1 ELSE 0)
          BY <1>t, <3>1, <4>5, <5>1 DEF DraftIsAhead
        <5>3. Head1.kind = "bump" => accounts[i] # Absent
          BY <1>t, <3>1, <4>5 DEF DraftIsAhead
        <5>4. acked'[i] = acked[i] + (IF Head1.kind = "bump" THEN 1 ELSE 0)
          BY <1>t, <1>n, <2>3, <4>5 DEF GhostType
        <5>. QED
          BY <1>n, <4>1, <5>1, <5>2, <5>3, <5>4
      <4>. QED
        BY <4>3, <4>4, <4>5
    <3>. QED
      BY <1>d, <2>1, <3>3, <3>4, <3>5
  <2>. QED
    BY <1>5, <2>2, <2>3 DEF WriteIndex, Settle
<1>6. CASE UndoAccount
  <2>1. NoAcknowledgedUpdateLost' /\ Running'
    BY <1>6, <1>t DEF UndoAccount, NoAcknowledgedUpdateLost, Running, Settle, memory
  <2>2. DraftIsAhead'
    BY <1>6 DEF UndoAccount, DraftIsAhead, Settle
  <2>3. FilesAreAhead'
    BY <1>6, <1>t, <1>n DEF UndoAccount, FilesAreAhead, Running, DiskType, memory
  <2>. QED
    BY <1>d, <2>1, <2>2, <2>3
<1>7. CASE Unlink
  <2>1. NoAcknowledgedUpdateLost' /\ Running'
    BY <1>7, <1>t DEF Unlink, NoAcknowledgedUpdateLost, Running, Settle, memory
  <2>2. DraftIsAhead'
    BY <1>7, <1>t DEF Unlink, DraftIsAhead, Head1, Settle, memory
  <2>3. FilesAreAhead'
    BY <1>7, <1>t DEF Unlink, FilesAreAhead, Running, DiskType, StepKnows, memory
  <2>. QED
    BY <1>d, <2>1, <2>2, <2>3
<1>8. CASE Reindex
  <2>1. Running' /\ DraftIsAhead'
    BY <1>8 DEF Reindex, Running, DraftIsAhead, Settle
  <2>2. files[Head1.id] # Absent /\ draft # Absent /\ files[Head1.id].n >= draft.n
    BY <1>8, <1>t DEF Reindex, StepKnows, DraftIsAhead
  <2>3. FilesAreAhead'
    BY <1>8, <1>t, <2>2 DEF Reindex, FilesAreAhead, Running, MemoryType
  <2>4. NoAcknowledgedUpdateLost'
    BY <1>8, <1>t, <1>n, <2>2 DEF Reindex, NoAcknowledgedUpdateLost, Running, MemoryType, GhostType
  <2>. QED
    BY <1>d, <2>1, <2>3, <2>4
<1>9. CASE LoadOwnData
  <2>1. Running' /\ DraftIsAhead'
    BY <1>9 DEF LoadOwnData, Running, DraftIsAhead
  <2>2. FilesAreAhead'
    BY <1>9, <1>n DEF LoadOwnData, FilesAreAhead, Reloaded
  <2>3. NoAcknowledgedUpdateLost'
    BY <1>9, <1>t DEF LoadOwnData, NoAcknowledgedUpdateLost, AckedIsOnDisk
  <2>. QED
    BY <1>d, <2>1, <2>2, <2>3
<1>10. CASE FirstStart
  <2>1. UNCHANGED <<accounts, acked, files, index>> /\ index = NoIndex /\ pc = "down"
    BY <1>10 DEF FirstStart, memory, disk
  <2>2. FilesAreAhead'
    BY <1>t, <2>1 DEF FilesAreAhead, NotLoaded
  <2>3. DraftIsAhead'
    BY <1>10 DEF FirstStart, DraftIsAhead
  <2>4. AckedIsOnDisk' /\ NoAcknowledgedUpdateLost'
    BY <1>t, <2>1 DEF AckedIsOnDisk, NoAcknowledgedUpdateLost, Reloaded
  <2>. QED
    BY <1>i, <2>2, <2>3, <2>4 DEF AInv
<1>11. ASSUME NEW i \in Ids, ImportOne(i) PROVE AInv'
  <2>1. FilesAreAhead' /\ DraftIsAhead' /\ NoAcknowledgedUpdateLost'
    BY <1>11 DEF ImportOne, Running, FilesAreAhead, DraftIsAhead, NoAcknowledgedUpdateLost
  <2>2. AckedIsOnDisk'
    BY <1>11, <1>t DEF ImportOne, NotLoaded, AckedIsOnDisk, Reloaded
  <2>. QED
    BY <1>i, <2>1, <2>2 DEF AInv
<1>12. CASE FinishImport
  <2>1. UNCHANGED <<accounts, acked, files>> /\ Running' /\ pc = "import" /\ DraftIsAhead'
    BY <1>12 DEF FinishImport, Running, DraftIsAhead, memory, disk
  <2>2. FilesAreAhead'
    BY <1>t, <1>n, <2>1 DEF FilesAreAhead, NotLoaded
  <2>3. NoAcknowledgedUpdateLost'
    BY <1>t, <1>n, <2>1 DEF NotLoaded, AckedIsOnDisk, NoAcknowledgedUpdateLost, Reloaded
  <2>. QED
    BY <1>d, <2>1, <2>2, <2>3
<1>13. CASE Crash
  <2>1. FilesAreAhead' /\ DraftIsAhead' /\ NoAcknowledgedUpdateLost'
    BY <1>13 DEF Crash, Running, FilesAreAhead, DraftIsAhead, NoAcknowledgedUpdateLost
  <2>2. AckedIsOnDisk'
    BY <1>13, <1>t DEF Crash, AckedIsOnDisk, Reloaded, disk
  <2>. QED
    BY <1>i, <2>1, <2>2 DEF AInv
<1>14. CASE UNCHANGED vars
  BY <1>14, <1>t, <1>i DEF vars, memory, disk, AInv, FilesAreAhead, DraftIsAhead, AckedIsOnDisk,
     NoAcknowledgedUpdateLost, Running, Reloaded, Head1
<1>. QED
  BY <1>1, <1>2, <1>3, <1>4, <1>5, <1>6, <1>7, <1>8, <1>9, <1>10, <1>11, <1>12, <1>13, <1>14
     DEF Next, Write, Start

\* The strengthened invariant holds in every state of every behaviour.
LEMMA AcknowledgedInvariant == Spec => []AInv
BY InitAInv, NextAInv, PTL DEF Spec

\* An update whose caller was told "done" stays in the account: whatever later writes, rollbacks, kills
\* and restarts come, no update works on old content and none is lost.
THEOREM NothingAcknowledgedIsLost == Spec => []NoAcknowledgedUpdateLost
<1>1. AInv => NoAcknowledgedUpdateLost
  BY DEF AInv
<1>. QED
  BY <1>1, AcknowledgedInvariant, PTL

-----------------------------------------------------------------------------
(* The refinement *)

\* What the upsert, the bump and the transfer make of an account that is there.
LEMMA PatchedIsOneUpdate ==
  ASSUME NEW op \in Op, op.id \in Ids, Accepted(op), op.kind # "remove", accounts[op.id] # Absent
  PROVE  Patched(op) = accounts[op.id] \/ Patched(op) \in Updates(accounts[op.id])
<1>1. op.kind \in {"upsert", "bump", "transfer", "setCurrent"}
  BY OpFields
<1>. QED
  BY <1>1 DEF Patched, Updates

\* The refinement invariant holds of the store as it is first opened.
LEMMA InitRInv == Init => RInv
<1>. SUFFICES ASSUME Init PROVE RInv
  OBVIOUS
<1>1. IInv
  BY InitIInv
<1>2. StepStaysAccepted /\ DoubtIsOneUpdate /\ ImportIsOffered /\ NothingIsQueued
  BY DEF Init, NothingIsQueued, StepStaysAccepted, DoubtIsOneUpdate, Doubted, ImportIsOffered
<1>. QED
  BY <1>1, <1>2 DEF RInv

\* Every step keeps what the mapping needs to know.
LEMMA NextRInv == RInv /\ [Next]_vars => RInv'
<1>. SUFFICES ASSUME RInv, [Next]_vars PROVE RInv'
  OBVIOUS
<1>t. /\ IInv /\ TypeOK /\ MemoryType /\ DiskType /\ QueueType /\ GhostType
      /\ NotLoaded /\ IndexFollowsMemory /\ StepKnows /\ CrashLosesOnlyInFlight
      /\ StepStaysAccepted /\ DoubtIsOneUpdate /\ ImportIsOffered /\ NothingIsQueued
  BY DEF RInv, IInv, TypeOK
<1>i. IInv' /\ TypeOK'
  BY <1>t, NextIInv DEF IInv
<1>q. NothingIsQueued'
  <2>1. Running /\ Write => Running'
    BY DEF Running, Write, Begin, EnsureKey, WriteAccount, WriteIndex, UndoAccount, Unlink, Reindex, Settle
  <2>2. Write => Running
    BY DEF Running, Write, Begin, EnsureKey, WriteAccount, WriteIndex, UndoAccount, Unlink, Reindex
  <2>3. ASSUME NEW op \in Op, Request(op) PROVE Running'
    BY <2>3 DEF Request, Running
  <2>4. Start => UNCHANGED queue /\ (~Running' => ~Running)
    BY DEF Start, LoadOwnData, FirstStart, ImportOne, FinishImport, Running
  <2>. QED
    BY <1>t, <2>1, <2>2, <2>3, <2>4 DEF Next, Crash, vars, NothingIsQueued, Running
<1>d. StepStaysAccepted' /\ DoubtIsOneUpdate' /\ ImportIsOffered' => RInv'
  BY <1>i, <1>q DEF RInv
<1>f. pc \in {"account", "index", "undo", "unlink", "reindex"} => Head1.id \in Ids \cup {NoId}
  BY <1>t, StepFacts DEF Step
<1>1. ASSUME NEW op \in Op, Request(op) PROVE RInv'
  <2>1. StepStaysAccepted'
    <3>1. pc \in {"account", "index", "undo", "unlink", "reindex"} => Head1' = Head1
      BY <1>1, <1>t DEF Request, Head1, QueueType, Step
    <3>. QED
      BY <1>1, <1>t, <3>1 DEF Request, StepStaysAccepted, Accepted, Patched, memory, disk
  <2>2. DoubtIsOneUpdate'
    <3>1. pc \in {"account", "index", "undo", "unlink", "reindex"} => Head1' = Head1
      BY <1>1, <1>t DEF Request, Head1, QueueType, Step
    <3>. QED
      BY <1>1, <1>t, <3>1 DEF Request, DoubtIsOneUpdate, Doubted, Overwritten, memory, disk
  <2>3. ImportIsOffered'
    BY <1>1, <1>t DEF Request, ImportIsOffered, memory
  <2>. QED
    BY <1>d, <2>1, <2>2, <2>3
<1>2. CASE Begin
  <2>1. StepStaysAccepted'
    BY <1>2, <1>t DEF Begin, StepStaysAccepted, Accepted, Patched, Head1, Settle, memory, disk
  <2>2. DoubtIsOneUpdate'
    <3>1. \A i \in Ids : Doubted(i)' => Doubted(i)
      BY <1>2 DEF Begin, Doubted, Overwritten, memory, disk
    <3>. QED
      BY <1>2, <1>t, <3>1 DEF Begin, DoubtIsOneUpdate, Settle, memory, disk
  <2>3. ImportIsOffered'
    BY <1>2 DEF Begin, ImportIsOffered, Settle
  <2>. QED
    BY <1>d, <2>1, <2>2, <2>3
<1>3. CASE EnsureKey
  <2>1. StepStaysAccepted'
    BY <1>3, <1>t DEF EnsureKey, StepStaysAccepted, Accepted, Patched, Head1, Settle
  <2>2. DoubtIsOneUpdate'
    BY <1>3, <1>t DEF EnsureKey, DoubtIsOneUpdate, Doubted, Overwritten, Settle
  <2>3. ImportIsOffered'
    BY <1>3 DEF EnsureKey, ImportIsOffered, Settle
  <2>. QED
    BY <1>d, <2>1, <2>2, <2>3
<1>4. CASE WriteAccount
  <2>1. StepStaysAccepted'
    BY <1>4, <1>t DEF WriteAccount, StepStaysAccepted, Accepted, Patched, Head1, Settle, memory
  <2>2. DoubtIsOneUpdate'
    <3>1. ASSUME NEW i \in Ids, Doubted(i)' PROVE files'[i] = files[i] /\ Doubted(i)
      BY <1>4, <1>t, <3>1 DEF WriteAccount, Doubted, Overwritten, Head1, Settle, DiskType, StepKnows, memory
    <3>2. pc' \notin {"unlink", "reindex"} /\ UNCHANGED accounts
      BY <1>4 DEF WriteAccount, Settle, memory
    <3>. QED
      BY <1>t, <3>1, <3>2 DEF DoubtIsOneUpdate
  <2>3. ImportIsOffered'
    BY <1>4 DEF WriteAccount, ImportIsOffered, Settle
  <2>. QED
    BY <1>d, <2>1, <2>2, <2>3
<1>5. CASE WriteIndex
  <2>1. StepStaysAccepted'
    <3>1. CASE UNCHANGED <<accounts, current>> /\ pc' \in {"idle", "undo"}
      <4>1. pc' = "undo" => Head1' = Head1 /\ Head1.id # NoId /\ Head1.kind # "remove" /\ UNCHANGED <<draft, files>>
        BY <1>5, <3>1 DEF WriteIndex, Head1, Settle
      <4>2. pc' = "undo" => Head1.id \in Ids /\ files[Head1.id] = draft
        BY <1>5, <1>t, <1>f, <4>1 DEF WriteIndex, StepKnows
      <4>. QED
        BY <1>5, <1>t, <3>1, <4>1, <4>2 DEF WriteIndex, StepStaysAccepted, Accepted, Patched
    <3>2. CASE pc' = "unlink" /\ Head1.kind = "remove" /\ current' = NextCurrent /\ index' = IndexOf(NextAccounts, NextCurrent)
      <4>1. current' \in Ids \cup {NoId} /\ NextCurrent = current'
        BY <1>i, <3>2 DEF TypeOK, MemoryType
      <4>. QED
        BY <3>2, <4>1, IndexOfFacts DEF StepStaysAccepted
    <3>3. CASE pc' = "idle"
      BY <3>3 DEF StepStaysAccepted
    <3>. QED
      BY <1>5, <3>1, <3>2, <3>3 DEF WriteIndex, Settle
  <2>2. DoubtIsOneUpdate'
    <3>1. ASSUME NEW i \in Ids, Doubted(i)' PROVE Doubted(i) /\ accounts'[i] = accounts[i]
      <4>1. CASE UNCHANGED <<accounts, torn>> /\ pc' = "idle" /\ (Head1.kind = "remove" \/ Head1.id = NoId)
        BY <1>5, <3>1, <4>1, StoreConstants DEF WriteIndex, Doubted, Overwritten
      <4>2. CASE UNCHANGED <<accounts, torn>> /\ pc' = "undo" /\ UNCHANGED queue
        BY <1>5, <3>1, <4>2 DEF WriteIndex, Doubted, Overwritten, Head1
      <4>3. CASE accounts' = NextAccounts /\ pc' = "idle" /\ Head1.kind # "remove" /\ torn' = torn \ {Head1.id}
        <5>1. i # Head1.id
          BY <3>1, <4>3 DEF Doubted
        <5>2. accounts'[i] = accounts[i]
          BY <1>5, <1>t, <4>3, <5>1, NextFacts DEF WriteIndex
        <5>. QED
          BY <1>5, <3>1, <4>3, <5>1, <5>2 DEF WriteIndex, Doubted, Overwritten
      <4>4. CASE accounts' = NextAccounts /\ Head1.kind = "remove" /\ UNCHANGED torn
        <5>1. accounts'[i] = accounts[i]
          BY <1>5, <1>t, <3>1, <4>4, NextFacts DEF WriteIndex, Doubted
        <5>. QED
          BY <1>5, <3>1, <4>4, <5>1 DEF WriteIndex, Doubted, Overwritten
      <4>. QED
        BY <1>5, <4>1, <4>2, <4>3, <4>4 DEF WriteIndex, Settle
    <3>2. CASE pc' = "unlink"
      <4>1. Head1.kind = "remove" /\ UNCHANGED <<files, draft, queue>> /\ pc = "index"
        BY <1>5, <3>2 DEF WriteIndex, Settle
      <4>2. Head1.id \in Ids /\ accounts[Head1.id] # Absent /\ draft = accounts[Head1.id]
        BY <1>t, <4>1, StepFacts DEF StepKnows, Step
      <4>3. Reloaded(Head1.id) = files[Head1.id]
        BY <1>t, <4>1, <4>2 DEF Reloaded, IndexFollowsMemory, Running
      <4>4. files[Head1.id] # draft => Doubted(Head1.id)
        BY <1>t, <4>1, <4>2, <4>3 DEF CrashLosesOnlyInFlight, Running, Doubted, Overwritten
      <4>. QED
        BY <1>t, <3>1, <4>1, <4>2, <4>4 DEF DoubtIsOneUpdate, Head1
    <3>3. CASE pc' # "unlink"
      <4>1. pc' \in {"idle", "undo"} /\ UNCHANGED files
        BY <1>5, <3>3 DEF WriteIndex, Settle
      <4>. QED
        BY <1>t, <3>1, <4>1 DEF DoubtIsOneUpdate
    <3>. QED
      BY <3>2, <3>3
  <2>3. ImportIsOffered'
    BY <1>5 DEF WriteIndex, ImportIsOffered, Settle
  <2>. QED
    BY <1>d, <2>1, <2>2, <2>3
<1>6. CASE UndoAccount
  <2>1. StepStaysAccepted' /\ ImportIsOffered'
    BY <1>6 DEF UndoAccount, StepStaysAccepted, ImportIsOffered, Settle
  <2>2. DoubtIsOneUpdate'
    <3>1. Head1 \in Op /\ Head1.id \in Ids /\ Head1.kind # "remove" /\ draft = Patched(Head1) /\ files[Head1.id] = draft
      BY <1>6, <1>t, StepFacts, StoreConstants DEF UndoAccount, StepKnows, StepStaysAccepted, Step
    <3>2. Accepted(Head1)
      BY <1>6, <1>t DEF UndoAccount, StepStaysAccepted
    <3>3. ASSUME NEW i \in Ids, Doubted(i)' PROVE files'[i] \in Updates(accounts[i])
      <4>1. CASE i # Head1.id
        <5>1. Doubted(i) /\ files'[i] = files[i]
          BY <1>6, <1>t, <3>3, <4>1 DEF UndoAccount, Doubted, Overwritten, DiskType, memory
        <5>. QED
          BY <1>t, <5>1 DEF DoubtIsOneUpdate
      <4>2. CASE i = Head1.id
        <5>1. UNCHANGED files /\ accounts[i] # Absent /\ files[i] # accounts[i]
          BY <1>6, <1>t, <3>3, <4>2 DEF UndoAccount, Doubted, DiskType, memory
        <5>. QED
          BY <3>1, <3>2, <4>2, <5>1, PatchedIsOneUpdate
      <4>. QED
        BY <4>1, <4>2
    <3>4. pc' = "idle" /\ UNCHANGED accounts
      BY <1>6 DEF UndoAccount, Settle, memory
    <3>. QED
      BY <3>3, <3>4 DEF DoubtIsOneUpdate
  <2>. QED
    BY <1>d, <2>1, <2>2
<1>7. CASE Unlink
  <2>1. StepStaysAccepted' /\ ImportIsOffered'
    BY <1>7, <1>t DEF Unlink, StepStaysAccepted, ImportIsOffered, Settle, memory
  <2>2. ASSUME NEW i \in Ids, Doubted(i)' PROVE Doubted(i) /\ files'[i] = files[i]
    BY <1>7, <1>t, <2>2 DEF Unlink, Doubted, Overwritten, DiskType, StepKnows, memory
  <2>3. UNCHANGED accounts /\ (pc' = "idle" \/ (pc' = "reindex" /\ UNCHANGED <<files, draft, queue>>)) /\ pc = "unlink"
    BY <1>7 DEF Unlink, Settle, memory
  <2>4. DoubtIsOneUpdate'
    BY <1>t, <2>2, <2>3 DEF DoubtIsOneUpdate, Head1
  <2>. QED
    BY <1>d, <2>1, <2>4
<1>8. CASE Reindex
  <2>1. StepStaysAccepted' /\ ImportIsOffered'
    BY <1>8 DEF Reindex, StepStaysAccepted, ImportIsOffered, Settle
  <2>2. pc' = "idle" /\ UNCHANGED files /\ Head1.id \in Ids
    BY <1>8, <1>t, StepFacts DEF Reindex, Settle, Step
  <2>3. ASSUME NEW i \in Ids, Doubted(i)' PROVE files'[i] \in Updates(accounts'[i])
    <3>1. CASE accounts'[i] = accounts[i]
      BY <1>8, <1>t, <2>2, <2>3, <3>1 DEF Reindex, DoubtIsOneUpdate, Doubted, Overwritten
    <3>2. CASE accounts'[i] # accounts[i]
      <4>1. i = Head1.id /\ accounts'[i] = draft
        BY <1>8, <1>t, <2>2, <3>2 DEF Reindex, MemoryType
      <4>2. files[i] # draft
        BY <2>2, <2>3, <4>1 DEF Doubted
      <4>. QED
        BY <1>8, <1>t, <2>2, <4>1, <4>2 DEF Reindex, DoubtIsOneUpdate
    <3>. QED
      BY <3>1, <3>2
  <2>4. DoubtIsOneUpdate'
    BY <2>2, <2>3 DEF DoubtIsOneUpdate
  <2>. QED
    BY <1>d, <2>1, <2>4
<1>9. CASE LoadOwnData
  <2>1. StepStaysAccepted' /\ ImportIsOffered'
    BY <1>9 DEF LoadOwnData, StepStaysAccepted, ImportIsOffered
  <2>2. \A i \in Ids : ~Doubted(i)'
    BY <1>9 DEF LoadOwnData, Doubted, Reloaded
  <2>3. DoubtIsOneUpdate'
    BY <1>9, <2>2 DEF LoadOwnData, DoubtIsOneUpdate
  <2>. QED
    BY <1>d, <2>1, <2>3
<1>10. CASE FirstStart
  <2>1. StepStaysAccepted' /\ ImportIsOffered'
    BY <1>10, <1>t DEF FirstStart, StepStaysAccepted, ImportIsOffered, NotLoaded, memory
  <2>2. \A i \in Ids : ~Doubted(i)'
    BY <1>10, <1>t DEF FirstStart, Doubted, NotLoaded, memory
  <2>3. DoubtIsOneUpdate'
    BY <1>10, <2>2 DEF FirstStart, DoubtIsOneUpdate
  <2>. QED
    BY <1>d, <2>1, <2>3
<1>11. ASSUME NEW i \in Ids, ImportOne(i) PROVE RInv'
  <2>1. StepStaysAccepted'
    BY <1>11 DEF ImportOne, StepStaysAccepted
  <2>2. ImportIsOffered'
    BY <1>11, <1>t DEF ImportOne, ImportIsOffered, MemoryType, DiskType
  <2>3. \A j \in Ids : ~Doubted(j)'
    BY <1>11, <1>t DEF ImportOne, Doubted, NotLoaded, MemoryType, DiskType
  <2>4. DoubtIsOneUpdate'
    BY <1>11, <2>3 DEF ImportOne, DoubtIsOneUpdate
  <2>. QED
    BY <1>d, <2>1, <2>2, <2>4
<1>12. CASE FinishImport
  <2>1. StepStaysAccepted' /\ ImportIsOffered'
    BY <1>12 DEF FinishImport, StepStaysAccepted, ImportIsOffered
  <2>2. \A i \in Ids : ~Doubted(i)'
    BY <1>12, <1>t DEF FinishImport, Doubted, NotLoaded
  <2>3. DoubtIsOneUpdate'
    BY <1>12, <2>2 DEF FinishImport, DoubtIsOneUpdate
  <2>. QED
    BY <1>d, <2>1, <2>3
<1>13. CASE Crash
  <2>1. StepStaysAccepted' /\ ImportIsOffered'
    BY <1>13 DEF Crash, StepStaysAccepted, ImportIsOffered
  <2>2. DoubtIsOneUpdate'
    BY <1>13 DEF Crash, DoubtIsOneUpdate, Doubted
  <2>. QED
    BY <1>d, <2>1, <2>2
<1>14. CASE UNCHANGED vars
  BY <1>14, <1>t, <1>d DEF vars, memory, disk, StepStaysAccepted, DoubtIsOneUpdate, Doubted, Overwritten,
     ImportIsOffered, Accepted, Patched, Head1
<1>. QED
  BY <1>1, <1>2, <1>3, <1>4, <1>5, <1>6, <1>7, <1>8, <1>9, <1>10, <1>11, <1>12, <1>13, <1>14
     DEF Next, Write, Start

\* While the program runs the library is the memory.
LEMMA RunningLibrary == TypeOK /\ Running => Lib = accounts /\ Cur = current
BY DEF TypeOK, MemoryType, Lib, Cur

\* Doubts change only where a doubt begins or ends, or its file is replaced.
LEMMA SameDoubts ==
  ASSUME \A i \in Ids : (Doubted(i)' <=> Doubted(i)) /\ (Doubted(i) => files'[i] = files[i])
  PROVE  Doubt' = Doubt
BY DEF Doubt

\* The initial states are initial states of the library.
LEMMA InitRefines == Init => L!Init
<1>. SUFFICES ASSUME Init PROVE L!Init
  OBVIOUS
<1>1. ~Running /\ Chosen = NoId /\ Out = Absent
  BY DEF Init, Running, Chosen, Out
<1>2. Lib = [i \in Ids |-> Absent] /\ Cur = NoId
  BY <1>1 DEF Init, Lib, Cur, Reloaded, ReloadedCurrent
<1>3. Doubt = [i \in Ids |-> {}]
  BY DEF Init, Doubt, Doubted
<1>. QED
  BY <1>1, <1>2, <1>3 DEF Init, L!Init, L!NoDoubt

\* Every step of the store is a step of the library, or the library does not see it.
LEMMA NextRefines == RInv /\ RInv' /\ [Next]_vars => [L!Next]_(L!vars)
<1>. SUFFICES ASSUME RInv, RInv', [Next]_vars PROVE L!Next \/ UNCHANGED L!vars
  OBVIOUS
<1>t. /\ IInv /\ TypeOK /\ MemoryType /\ DiskType /\ QueueType /\ GhostType
      /\ NotLoaded /\ IndexFollowsMemory /\ StepKnows /\ CrashLosesOnlyInFlight
      /\ StepStaysAccepted /\ DoubtIsOneUpdate /\ ImportIsOffered
  BY DEF RInv, IInv, TypeOK
<1>m. /\ Running => Lib = accounts /\ Cur = current
      /\ Running' => Lib' = accounts' /\ Cur' = current'
  <2>1. TypeOK'
    BY DEF RInv, IInv
  <2>2. (TypeOK /\ Running => Lib = accounts /\ Cur = current)'
    BY RunningLibrary, PTL
  <2>. QED
    BY <1>t, <2>1, <2>2, RunningLibrary
<1>1. ASSUME NEW op \in Op, Request(op) PROVE L!Ask
  <2>1. /\ Running /\ Running' /\ UNCHANGED <<memory, pc, draft, disk, torn>> /\ queue' = Append(queue, op)
    BY <1>1 DEF Request, Running
  <2>2. pc \in {"index", "undo"} => Head1' = Head1
    BY <1>1, <1>t DEF Request, Head1, QueueType, Step
  <2>3. Doubt' = Doubt
    BY <2>1, <2>2, SameDoubts DEF Doubted, Overwritten, memory, disk
  <2>4. UNCHANGED <<Lib, Cur, Chosen, Out, index = NoIndex, Running>>
    BY <1>m, <2>1 DEF memory, disk, Chosen, Out
  <2>. QED
    BY <2>1, <2>3, <2>4 DEF L!Ask, Op
<1>2. CASE Begin
  <2>1. /\ Running /\ Running' /\ pc = "idle" /\ UNCHANGED <<memory, disk, torn>> /\ queue # <<>>
    BY <1>2 DEF Begin, Running, Settle
  <2>2. Doubt' = Doubt
    <3>1. pc' = "index" => Head1' = Head1 /\ (Head1.kind = "remove" \/ Head1.id = NoId)
      BY <1>2 DEF Begin, Settle, Head1
    <3>2. \A i \in Ids : ~Overwritten(i) /\ ~Overwritten(i)'
      BY <1>2, <2>1, <3>1, StoreConstants DEF Overwritten, Begin, Settle
    <3>. QED
      BY <2>1, <3>2, SameDoubts DEF Doubted, memory, disk
  <2>3. UNCHANGED <<Lib, Cur, Chosen, Out, index = NoIndex, Running>> /\ Out = Absent
    BY <1>2, <1>m, <2>1 DEF memory, disk, Chosen, Out, Begin, Settle
  <2>4. CASE Settle
    BY <2>1, <2>2, <2>3, <2>4 DEF Settle, L!Next, L!Refused, L!Working, L!Done
  <2>5. CASE UNCHANGED queue
    BY <2>1, <2>2, <2>3, <2>5 DEF L!vars
  <2>. QED
    BY <1>2, <2>4, <2>5 DEF Begin
<1>3. CASE EnsureKey
  <2>1. /\ Running /\ Running' /\ pc = "account" /\ UNCHANGED <<accounts, current, files, index, torn>> /\ queue # <<>>
    BY <1>3, <1>t DEF EnsureKey, Running, Settle, QueueType, Step
  <2>2. Doubt' = Doubt
    BY <1>3, <2>1, SameDoubts DEF Doubted, Overwritten, EnsureKey, Settle
  <2>3. UNCHANGED <<Lib, Cur, Chosen, Out, index = NoIndex, Running>> /\ Out = Absent
    BY <1>3, <1>m, <2>1 DEF Chosen, Out, EnsureKey, Settle
  <2>4. CASE Settle
    BY <2>1, <2>2, <2>3, <2>4 DEF Settle, L!Next, L!Refused, L!Working, L!Done
  <2>5. CASE UNCHANGED queue
    BY <2>1, <2>2, <2>3, <2>5 DEF L!vars
  <2>. QED
    BY <1>3, <2>4, <2>5 DEF EnsureKey
<1>4. CASE WriteAccount
  <2>1. /\ Running /\ Running' /\ pc = "account" /\ UNCHANGED <<memory, index, torn>> /\ queue # <<>>
        /\ Head1.id \in Ids /\ Head1.kind # "remove" /\ Head1.id # NoId
    BY <1>4, <1>t, StepFacts, StoreConstants DEF WriteAccount, Running, Settle, QueueType, Step, StepKnows
  <2>2. UNCHANGED <<Lib, Cur, Chosen, Out, index = NoIndex, Running>> /\ Out = Absent
    BY <1>4, <1>m, <2>1 DEF Chosen, Out, WriteAccount, Settle, memory
  <2>3. CASE Settle /\ UNCHANGED files
    <3>1. Doubt' = Doubt
      BY <2>1, <2>3, SameDoubts DEF Doubted, Overwritten, Settle, memory
    <3>. QED
      BY <2>1, <2>2, <2>3, <3>1 DEF Settle, L!Next, L!Refused, L!Working, L!Done
  <2>4. CASE UNCHANGED queue /\ pc' = "index" /\ files' = [files EXCEPT ![Head1.id] = draft]
    <3>1. \A i \in Ids : Doubted(i)' <=> Doubted(i) /\ i # Head1.id
      BY <1>t, <2>1, <2>4 DEF Doubted, Overwritten, Head1, DiskType, memory
    <3>2. \A i \in Ids : i # Head1.id => files'[i] = files[i]
      BY <1>t, <2>4 DEF DiskType
    <3>3. Doubt' = [Doubt EXCEPT ![Head1.id] = {}]
      BY <3>1, <3>2 DEF Doubt
    <3>. QED
      BY <2>1, <2>2, <2>4, <3>3 DEF L!Next, L!Cleared, L!Working, L!Job, Head1
  <2>. QED
    BY <1>4, <2>3, <2>4 DEF WriteAccount
<1>5. CASE WriteIndex
  <2>1. /\ Running /\ Running' /\ pc = "index" /\ UNCHANGED files /\ queue # <<>> /\ Out = Absent
        /\ Head1 \in Op /\ Head1.id \in Ids \cup {NoId}
    BY <1>5, <1>t, StepFacts DEF WriteIndex, Running, Settle, QueueType, Step, Out
  <2>2. CASE UNCHANGED <<accounts, current, index, torn>> /\ Settle /\ (Head1.kind = "remove" \/ Head1.id = NoId)
    <3>1. Doubt' = Doubt
      BY <2>1, <2>2, SameDoubts, StoreConstants DEF Doubted, Overwritten, Settle
    <3>2. UNCHANGED <<Lib, Cur, Chosen, Out, index = NoIndex, Running>>
      BY <1>m, <2>1, <2>2 DEF Chosen, Out, Settle
    <3>. QED
      BY <2>1, <2>2, <3>1, <3>2 DEF Settle, L!Next, L!Refused, L!Working, L!Done
  <2>3. CASE UNCHANGED <<accounts, current, index, torn>> /\ pc' = "undo" /\ UNCHANGED <<queue, draft>>
    <3>1. Doubt' = Doubt
      BY <2>1, <2>3, SameDoubts DEF Doubted, Overwritten, Head1
    <3>2. UNCHANGED <<Lib, Cur, Chosen, Out, index = NoIndex, Running>>
      BY <1>m, <2>1, <2>3 DEF Chosen, Out
    <3>. QED
      BY <2>1, <2>3, <3>1, <3>2 DEF L!vars
  <2>4. CASE /\ accounts' = NextAccounts /\ current' = NextCurrent
             /\ index' = IndexOf(NextAccounts, NextCurrent)
             /\ Head1.kind # "remove" /\ Settle /\ torn' = torn \ {Head1.id}
    <3>1. index' # NoIndex /\ Chosen' = current' /\ current' = NextCurrent
      BY <1>t, <2>1, <2>4, NextFacts, IndexOfFacts DEF Chosen
    <3>2. /\ Lib = accounts /\ Cur = current /\ Lib' = accounts' /\ Cur' = current'
          /\ L!Done /\ Running' = Running /\ Out' = Out /\ (index' = NoIndex) = FALSE
      BY <1>m, <2>1, <2>4, <3>1 DEF L!Done, Settle, Out
    <3>3. L!Job = Head1 /\ L!Working
      BY <2>1 DEF L!Job, Head1, L!Working
    <3>4. \A i \in Ids : i # Head1.id => accounts'[i] = accounts[i]
      BY <1>t, <2>1, <2>4, NextFacts
    <3>5. \A i \in Ids : (Doubted(i)' <=> Doubted(i)) /\ (i = Head1.id => ~Doubted(i))
      BY <1>t, <2>1, <2>4, <3>4 DEF Doubted, Overwritten, Settle, GhostType
    <3>6. Doubt' = Doubt /\ (Head1.id \in Ids => Doubt = [Doubt EXCEPT ![Head1.id] = {}])
      BY <2>1, <3>5, SameDoubts DEF Doubt
    <3>7. Accepted(Head1) /\ (Head1.id # NoId => draft = Patched(Head1))
      BY <1>t, <2>1 DEF StepStaysAccepted
    <3>8. CASE Head1.kind = "setCurrent"
      <4>1. accounts' = accounts
        <5>1. CASE Head1.id = NoId
          BY <2>4, <5>1 DEF NextAccounts
        <5>2. CASE Head1.id # NoId
          BY <1>t, <2>4, <3>7, <3>8, <5>2 DEF NextAccounts, Patched, MemoryType
        <5>. QED
          BY <5>1, <5>2
      <4>2. current' = Head1.id
        BY <3>1, <3>8 DEF NextCurrent
      <4>3. Head1.id # NoId => L!Stored /\ Lib[Head1.id].status # "transferred"
        BY <3>2, <3>3, <3>7, <3>8 DEF Accepted, L!Stored
      <4>4. L!Choose
        BY <2>1, <3>1, <3>2, <3>3, <3>6, <3>8, <4>1, <4>2, <4>3 DEF L!Choose
      <4>. QED
        BY <4>4 DEF L!Next
    <3>9. CASE Head1.kind # "setCurrent"
      <4>1. Head1.kind \in {"upsert", "bump", "transfer"} /\ Head1.id \in Ids /\ Head1.id # NoId
        BY <2>1, <2>4, <3>9, OpFields, StoreConstants
      <4>2. accounts' = [accounts EXCEPT ![Head1.id] = Patched(Head1)] /\ current' = current
        BY <2>4, <3>1, <3>7, <3>9, <4>1 DEF NextAccounts, NextCurrent
      <4>3. Patched(Head1) = L!Updated(Head1.kind, accounts[Head1.id])
        BY <4>1 DEF Patched, L!Updated, L!Fresh
      <4>4. Lib' = [Lib EXCEPT ![L!Job.id] = L!Updated(L!Job.kind, @)]
        BY <3>2, <3>3, <4>2, <4>3
      <4>5. L!Job.kind # "upsert" => L!Stored
        BY <3>2, <3>3, <3>7, <4>1 DEF Accepted, L!Stored
      <4>6. L!Update
        BY <2>1, <3>1, <3>2, <3>3, <3>6, <4>1, <4>2, <4>4, <4>5 DEF L!Update
      <4>. QED
        BY <4>6 DEF L!Next
    <3>. QED
      BY <3>8, <3>9
  <2>5. CASE /\ accounts' = NextAccounts /\ current' = NextCurrent
             /\ index' = IndexOf(NextAccounts, NextCurrent)
             /\ Head1.kind = "remove" /\ pc' = "unlink" /\ UNCHANGED <<queue, draft, torn>>
    <3>1. Head1.id \in Ids /\ accounts[Head1.id] # Absent /\ Head1.id # current /\ draft = accounts[Head1.id]
      BY <1>t, <2>1, <2>5, OpFields DEF StepKnows
    <3>2. accounts' = [accounts EXCEPT ![Head1.id] = Absent]
      BY <2>5, <3>1, StoreConstants DEF NextAccounts
    <3>3. current' = current /\ Chosen' = current
      BY <1>t, <2>5, IndexOfFacts DEF NextCurrent, Chosen, MemoryType
    <3>4. index # NoIndex /\ index' # NoIndex
      BY <1>t, <2>1, <2>5, <3>1, <3>3, IndexOfFacts DEF IndexFollowsMemory, MemoryType
    <3>5. \A i \in Ids : Doubted(i)' <=> Doubted(i) /\ i # Head1.id
      BY <1>t, <2>1, <2>5, <3>2 DEF Doubted, Overwritten, Head1, MemoryType
    <3>6. Doubt' = [Doubt EXCEPT ![Head1.id] = {}]
      BY <2>1, <3>5 DEF Doubt
    <3>7. Out' = draft
      BY <2>5 DEF Out
    <3>8. /\ Lib = accounts /\ Cur = current /\ Lib' = accounts' /\ Cur' = current
          /\ UNCHANGED <<Running, index = NoIndex, queue>>
      BY <1>m, <2>1, <2>5, <3>3, <3>4
    <3>9. L!Job = Head1
      BY DEF L!Job, Head1
    <3>10. Lib' = [Lib EXCEPT ![L!Job.id] = Absent] /\ Out' = Lib[L!Job.id]
      BY <3>1, <3>2, <3>7, <3>8, <3>9
    <3>11. L!Working /\ L!Job.kind = "remove" /\ L!Stored /\ L!Job.id # Cur
      BY <2>1, <2>5, <3>1, <3>8, <3>9, StoreConstants DEF L!Working, L!Stored
    <3>12. L!TakeOut
      BY <2>1, <3>3, <3>6, <3>8, <3>9, <3>10, <3>11 DEF L!TakeOut
    <3>. QED
      BY <3>12 DEF L!Next
  <2>. QED
    BY <1>5, <2>2, <2>3, <2>4, <2>5 DEF WriteIndex
<1>6. CASE UndoAccount
  <2>1. /\ Running /\ Running' /\ pc = "undo" /\ UNCHANGED <<memory, index>> /\ queue # <<>> /\ Settle
        /\ Head1 \in Op /\ Head1.id \in Ids /\ Head1.id # NoId /\ Head1.kind # "remove" /\ Out = Absent /\ Out' = Absent
    BY <1>6, <1>t, StepFacts, StoreConstants DEF UndoAccount, Running, Settle, QueueType, Step, StepKnows, Out
  <2>p. PICK id \in Ids : id = Head1.id
    BY <2>1
  <2>2. /\ Lib = accounts /\ UNCHANGED <<Lib, Cur, Chosen, Out, index = NoIndex, Running>>
    BY <1>m, <2>1 DEF Chosen, memory
  <2>3. L!Job = Head1 /\ L!Working /\ L!Done
    BY <2>1 DEF L!Job, Head1, L!Working, L!Done, Settle
  <2>4. \A i \in Ids : i # Head1.id => (Doubted(i)' <=> Doubted(i)) /\ files'[i] = files[i]
    BY <1>6, <1>t, <2>1 DEF UndoAccount, Doubted, Overwritten, Settle, DiskType, memory
  <2>5. ~Doubted(id)
    BY <2>1, <2>p DEF Doubted, Overwritten
  <2>6. CASE ~Doubted(id)'
    <3>1. Doubt' = Doubt
      BY <2>4, <2>5, <2>6, <2>p, SameDoubts
    <3>. QED
      BY <2>1, <2>2, <2>3, <3>1 DEF L!Next, L!Refused
  <2>7. CASE Doubted(id)'
    <3>1. UNCHANGED files /\ accounts[Head1.id] # Absent /\ files[Head1.id] # accounts[Head1.id]
      BY <1>6, <1>t, <2>1, <2>7, <2>p DEF UndoAccount, Doubted, DiskType, memory
    <3>2. files[Head1.id] = Patched(Head1)
      BY <1>t, <2>1 DEF StepStaysAccepted
    <3>3. Head1.kind \in {"upsert", "bump", "transfer"}
      BY <2>1, <3>1, <3>2, OpFields DEF Patched
    <3>4. files[Head1.id] = L!Updated(Head1.kind, accounts[Head1.id])
      BY <3>1, <3>2, <3>3 DEF Patched, L!Updated, L!Fresh
    <3>5. Doubt' = [Doubt EXCEPT ![Head1.id] = {files[Head1.id]}]
      BY <2>1, <2>4, <2>7, <2>p, <3>1 DEF Doubt
    <3>6. L!Refused
      BY <2>1, <2>2, <2>3, <3>1, <3>3, <3>4, <3>5 DEF L!Refused, L!Stored
    <3>. QED
      BY <3>6 DEF L!Next
  <2>. QED
    BY <2>6, <2>7
<1>7. CASE Unlink
  <2>1. /\ Running /\ Running' /\ pc = "unlink" /\ UNCHANGED <<memory, index>> /\ queue # <<>>
        /\ Out = draft /\ draft # Absent /\ Head1.id \in Ids /\ accounts[Head1.id] = Absent
    BY <1>7, <1>t, StepFacts DEF Unlink, Running, Settle, QueueType, Step, StepKnows, Out
  <2>2. Doubt' = Doubt
    <3>1. \A i \in Ids : (Doubted(i)' <=> Doubted(i)) /\ (Doubted(i) => files'[i] = files[i])
      BY <1>7, <1>t, <2>1 DEF Unlink, Doubted, Overwritten, Settle, DiskType, memory
    <3>. QED
      BY <3>1, SameDoubts
  <2>3. UNCHANGED <<Lib, Cur, Chosen, index = NoIndex, Running>>
    BY <1>m, <2>1 DEF Chosen, memory
  <2>4. CASE Settle
    BY <2>1, <2>2, <2>3, <2>4 DEF Settle, Out, L!Next, L!Removed, L!Working, L!Done
  <2>5. CASE pc' = "reindex" /\ UNCHANGED <<queue, draft>>
    BY <2>1, <2>2, <2>3, <2>5 DEF Out, L!vars
  <2>. QED
    BY <1>7, <2>4, <2>5 DEF Unlink
<1>8. CASE Reindex
  <2>1. /\ Running /\ Running' /\ pc = "reindex" /\ UNCHANGED <<current, files, torn>> /\ queue # <<>> /\ Settle
        /\ Out = draft /\ draft # Absent /\ Head1.id \in Ids /\ accounts[Head1.id] = Absent /\ Out' = Absent
        /\ index # NoIndex /\ index.current = current
    BY <1>8, <1>t, StepFacts DEF Reindex, Running, Settle, QueueType, Step, StepKnows, StepStaysAccepted, Out
  <2>p. PICK id \in Ids : id = Head1.id
    BY <2>1
  <2>2. L!Job = Head1 /\ L!Working /\ L!Done
    BY <2>1 DEF L!Job, Head1, L!Working, L!Done, Settle
  <2>3. \A i \in Ids : ~Overwritten(i) /\ ~Overwritten(i)'
    BY <2>1 DEF Overwritten, Settle
  <2>4. CASE UNCHANGED <<accounts, index>>
    <3>1. Doubt' = Doubt
      BY <2>1, <2>3, <2>4, SameDoubts DEF Doubted
    <3>2. UNCHANGED <<Lib, Cur, Chosen, index = NoIndex, Running>>
      BY <1>m, <2>1, <2>4 DEF Chosen
    <3>. QED
      BY <2>1, <2>2, <3>1, <3>2 DEF L!Next, L!Removed
  <2>5. CASE accounts' = [accounts EXCEPT ![Head1.id] = draft] /\ index' = IndexOf(accounts', current)
    <3>1. index' # NoIndex /\ index'.current = current
      BY <1>t, <2>5, IndexOfFacts DEF MemoryType
    <3>2. /\ Lib = accounts /\ Lib' = accounts' /\ UNCHANGED <<Cur, Chosen, index = NoIndex, Running>>
      BY <1>m, <2>1, <3>1 DEF Chosen
    <3>3. Lib' = [Lib EXCEPT ![L!Job.id] = Out]
      BY <2>1, <2>2, <2>5, <3>2
    <3>4. \A i \in Ids : i # Head1.id => (Doubted(i)' <=> Doubted(i))
      BY <1>t, <2>1, <2>3, <2>5 DEF Doubted, MemoryType
    <3>5. Doubted(id)' => files[Head1.id] \in Updates(draft)
      BY <1>t, <2>1, <2>5, <2>p DEF Doubted, DoubtIsOneUpdate, MemoryType
    <3>6. Updates(draft) = {L!Updated(kind, draft) : kind \in {"upsert", "bump", "transfer"}}
      BY <2>1 DEF Updates, L!Updated
    <3>7. Doubt' = [Doubt EXCEPT ![Head1.id] = IF Doubted(id)' THEN {files[Head1.id]} ELSE {}]
      BY <2>1, <2>p, <3>4 DEF Doubt
    <3>8. (IF Doubted(id)' THEN {files[Head1.id]} ELSE {})
             \in SUBSET {L!Updated(kind, Out) : kind \in {"upsert", "bump", "transfer"}}
      BY <2>1, <3>5, <3>6
    <3>9. L!Removed
      BY <2>1, <2>2, <3>2, <3>3, <3>7, <3>8 DEF L!Removed
    <3>. QED
      BY <3>9 DEF L!Next
  <2>. QED
    BY <1>8, <2>4, <2>5 DEF Reindex
<1>9. CASE LoadOwnData
  <2>1. ~Running /\ Running' /\ pc = "down" /\ index # NoIndex /\ UNCHANGED <<queue, files, index>>
        /\ Out = Absent /\ Out' = Absent
    BY <1>9 DEF LoadOwnData, Running, Out
  <2>2. /\ Lib' = Lib /\ Cur' = Cur
    BY <1>9, <1>m, <2>1 DEF LoadOwnData, Lib, Cur
  <2>3. Doubt' = Doubt
    <3>1. \A i \in Ids : ~Doubted(i) /\ ~Doubted(i)'
      BY <1>9, <1>t, <2>1 DEF LoadOwnData, Doubted, NotLoaded, Reloaded
    <3>. QED
      BY <3>1, SameDoubts
  <2>4. Chosen' = Chosen /\ UNCHANGED (index = NoIndex)
    BY <2>1 DEF Chosen
  <2>5. L!Open
    BY <2>1, <2>2, <2>3, <2>4 DEF L!Open
  <2>. QED
    BY <2>5 DEF L!Next
<1>10. CASE FirstStart
  <2>1. ~Running /\ pc = "down" /\ index = NoIndex /\ UNCHANGED <<memory, queue, disk, torn>>
        /\ Out = Absent /\ Out' = Absent
    BY <1>10 DEF FirstStart, Running, Out
  <2>2. Doubt' = Doubt
    <3>1. \A i \in Ids : ~Doubted(i) /\ ~Doubted(i)'
      BY <1>t, <2>1 DEF Doubted, NotLoaded, memory
    <3>. QED
      BY <3>1, SameDoubts
  <2>3. Chosen' = Chosen /\ UNCHANGED (index = NoIndex)
    BY <2>1 DEF Chosen, disk
  <2>4. Lib = [i \in Ids |-> Absent] /\ Cur = NoId
    BY <2>1 DEF Lib, Cur, Reloaded, ReloadedCurrent
  <2>5. CASE Running'
    <3>1. accounts = [i \in Ids |-> Absent] /\ current = NoId /\ UNCHANGED <<accounts, current>>
      BY <1>t, <2>1 DEF NotLoaded, MemoryType, memory
    <3>2. L!Open
      BY <1>m, <2>1, <2>2, <2>3, <2>4, <2>5, <3>1 DEF L!Open
    <3>. QED
      BY <3>2 DEF L!Next
  <2>6. CASE ~Running'
    <3>1. Lib' = [i \in Ids |-> Absent] /\ Cur' = NoId
      BY <2>1, <2>6 DEF Lib, Cur, Reloaded, ReloadedCurrent, disk
    <3>. QED
      BY <2>1, <2>2, <2>3, <2>4, <2>6, <3>1 DEF L!vars, Running
  <2>. QED
    BY <2>5, <2>6
<1>11. ASSUME NEW i \in Ids, ImportOne(i) PROVE UNCHANGED L!vars
  <2>1. ~Running /\ ~Running' /\ index = NoIndex /\ UNCHANGED <<queue, index>> /\ Out' = Out
    BY <1>11, <1>t DEF ImportOne, Running, NotLoaded, Out
  <2>2. Lib = [j \in Ids |-> Absent] /\ Lib' = [j \in Ids |-> Absent]
    BY <2>1 DEF Lib, Reloaded
  <2>4. Cur' = Cur /\ Chosen' = Chosen /\ UNCHANGED (index = NoIndex)
    BY <2>1 DEF Cur, Chosen, ReloadedCurrent
  <2>3. Doubt' = Doubt
    <3>1. \A j \in Ids : ~Doubted(j) /\ ~Doubted(j)'
      BY <1>11, <1>t DEF ImportOne, Doubted, NotLoaded, MemoryType, DiskType
    <3>. QED
      BY <3>1, SameDoubts
  <2>. QED
    BY <2>1, <2>2, <2>3, <2>4 DEF L!vars, Running
<1>12. CASE FinishImport
  <2>1. ~Running /\ Running' /\ pc = "import" /\ index = NoIndex /\ UNCHANGED <<accounts, queue, files, torn>>
        /\ Out = Absent /\ Out' = Absent /\ current = NoId
    BY <1>12, <1>t DEF FinishImport, Running, NotLoaded, Out
  <2>2. Doubt' = Doubt
    <3>1. \A i \in Ids : ~Doubted(i) /\ ~Doubted(i)'
      BY <1>t, <2>1 DEF Doubted, NotLoaded
    <3>. QED
      BY <3>1, SameDoubts
  <2>3. Lib = [i \in Ids |-> Absent] /\ Cur = NoId /\ Chosen = NoId
    BY <2>1 DEF Lib, Cur, Chosen, Reloaded, ReloadedCurrent
  <2>4. CASE Present(accounts) = {} /\ UNCHANGED <<current, index>>
    <3>1. Lib' = Lib /\ Cur' = Cur
      BY <1>m, <1>t, <2>1, <2>3, <2>4 DEF Present, MemoryType
    <3>2. Chosen' = Chosen /\ UNCHANGED (index = NoIndex)
      BY <2>4 DEF Chosen
    <3>3. L!Open
      BY <2>1, <2>2, <3>1, <3>2 DEF L!Open
    <3>. QED
      BY <3>3 DEF L!Next
  <2>5. ASSUME NEW c \in Present(accounts) \cup {NoId}, current' = c, index' = IndexOf(accounts, c)
        PROVE  L!Open
    <3>1. c \in Ids \cup {NoId}
      BY DEF Present
    <3>2. index' # NoIndex /\ Chosen' = c
      BY <2>5, <3>1, IndexOfFacts DEF Chosen
    <3>3. Present(accounts) \in SUBSET Cockpit
      BY <1>t, <2>1 DEF Present, ImportIsOffered
    <3>4. accounts = [i \in Ids |-> IF i \in Present(accounts) THEN L!Fresh ELSE Absent]
      BY <1>t, <2>1 DEF Present, ImportIsOffered, MemoryType, L!Fresh
    <3>. QED
      BY <1>m, <2>1, <2>2, <2>5, <3>2, <3>3, <3>4 DEF L!Open
  <2>. QED
    BY <1>12, <2>4, <2>5 DEF FinishImport, L!Next
<1>13. CASE Crash
  <2>1. /\ UNCHANGED disk /\ ~Running' /\ Out' = Absent /\ queue' = <<>> /\ pc # "down"
        /\ \A i \in Ids : accounts'[i] = Absent
    BY <1>13 DEF Crash, Running, Out
  <2>2. /\ Chosen' = Chosen /\ UNCHANGED (index = NoIndex)
        /\ Lib' = [i \in Ids |-> Reloaded(i)] /\ Cur' = ReloadedCurrent
    BY <2>1 DEF Chosen, Lib, Cur, Reloaded, ReloadedCurrent, disk
  <2>3. Doubt' = [i \in Ids |-> {}]
    BY <2>1 DEF Doubt, Doubted
  <2>4. CASE Running
    <3>1. /\ Lib = accounts
      BY <1>m, <2>4
    <3>2. ASSUME NEW i \in Ids PROVE Lib'[i] \in L!MayFind(i)
      <4>1. Lib'[i] = Reloaded(i)
        BY <2>2
      <4>2. CASE Reloaded(i) = accounts[i]
        BY <3>1, <4>1, <4>2 DEF L!MayFind
      <4>3. CASE Reloaded(i) # accounts[i]
        <5>1. accounts[i] # Absent /\ Reloaded(i) = files[i]
          BY <1>t, <2>4, <4>3 DEF IndexFollowsMemory, Reloaded
        <5>2. CASE ~Overwritten(i)
          <6>1. Doubted(i)
            BY <1>t, <2>4, <4>3, <5>1, <5>2 DEF CrashLosesOnlyInFlight, Doubted, Overwritten
          <6>2. Doubt[i] = {files[i]}
            BY <6>1 DEF Doubt
          <6>. QED
            BY <4>1, <5>1, <6>2 DEF L!MayFind
        <5>3. CASE Overwritten(i)
          <6>1. pc \in {"index", "undo"} /\ Head1.kind # "remove" /\ Head1.id = i /\ i # NoId
            BY <5>3, StoreConstants DEF Overwritten
          <6>2. Head1 \in Op /\ queue # <<>> /\ Accepted(Head1) /\ draft = Patched(Head1) /\ files[i] = draft
            BY <1>t, <6>1, StepFacts DEF Step, QueueType, StepStaysAccepted, StepKnows
          <6>3. Head1.kind \in {"upsert", "bump", "transfer"}
            BY <4>3, <5>1, <6>1, <6>2, OpFields DEF Patched
          <6>4. files[i] = L!Updated(Head1.kind, accounts[i])
            BY <5>1, <6>1, <6>2, <6>3 DEF Patched, L!Updated, L!Fresh
          <6>. QED
            BY <2>4, <3>1, <4>1, <5>1, <6>1, <6>2, <6>3, <6>4 DEF L!MayFind, L!Working, L!Job, Head1
        <5>. QED
          BY <5>2, <5>3
      <4>. QED
        BY <4>2, <4>3
    <3>3. Lib' \in [Ids -> UNION {L!MayFind(i) : i \in Ids}]
      BY <2>2, <3>2
    <3>4. Cur' = IF Chosen # NoId /\ Lib'[Chosen] # Absent /\ Lib'[Chosen].status # "transferred"
                 THEN Chosen ELSE NoId
      <4>1. Chosen \in Ids \cup {NoId}
        BY <1>t DEF Chosen, DiskType
      <4>. QED
        BY <2>2, <4>1 DEF ReloadedCurrent, Chosen
    <3>5. L!Killed
      BY <2>1, <2>2, <2>3, <2>4, <3>2, <3>3, <3>4 DEF L!Killed, L!NoDoubt, Running
    <3>. QED
      BY <3>5 DEF L!Next
  <2>5. CASE ~Running
    <3>1. pc = "import" /\ index = NoIndex /\ queue = <<>> /\ Out = Absent
      BY <1>t, <2>1, <2>5 DEF Running, NotLoaded, Out, RInv, NothingIsQueued
    <3>2. \A i \in Ids : ~Doubted(i)
      BY <1>t, <3>1 DEF Doubted, NotLoaded
    <3>3. Lib = [i \in Ids |-> Reloaded(i)] /\ Cur = ReloadedCurrent /\ Doubt = [i \in Ids |-> {}]
      BY <2>5, <3>2 DEF Lib, Cur, Doubt
    <3>. QED
      BY <2>1, <2>2, <2>3, <2>5, <3>1, <3>3 DEF L!vars, Running
  <2>. QED
    BY <2>4, <2>5
<1>14. CASE UNCHANGED vars
  BY <1>14 DEF vars, memory, disk, L!vars, Running, Lib, Cur, Chosen, Out, Doubt, Doubted, Overwritten, Head1,
     Reloaded, ReloadedCurrent
<1>15. ASSUME Write PROVE L!Next \/ UNCHANGED L!vars
  BY <1>2, <1>3, <1>4, <1>5, <1>6, <1>7, <1>8, <1>15 DEF Write
<1>16. ASSUME Start PROVE L!Next \/ UNCHANGED L!vars
  BY <1>9, <1>10, <1>11, <1>12, <1>16 DEF Start
<1>. QED
  BY <1>1, <1>13, <1>14, <1>15, <1>16 DEF Next, L!Next

\* The store implements the library: callers and the next start see updates that happen one at a time,
\* in the order they were asked for, each as a whole or not at all, whatever fails and whenever the
\* program is killed (account-store.mjs enqueueWrite, upsertOnce, removeOnce, initialize).
THEOREM StoreImplementsLibrary == Spec => ImplementsLibrary
<1>1. RInv /\ [Next]_vars => RInv'
  BY NextRInv
<1>2. RInv /\ RInv' /\ [Next]_vars => [L!Next]_(L!vars)
  BY NextRefines
<1>. QED
  BY <1>1, <1>2, InitRInv, InitRefines, PTL DEF Spec, ImplementsLibrary, L!Spec

(***************************************************************************)
(* The main loop of the injector: nothing outlives the stop, and the       *)
(* quotas go on being refreshed until then, whatever restarts overlap.     *)
(***************************************************************************)

\* The loop waits for its own restart, and is where it waits as long as that goes on.
LoopWaits == restart["loop"] # "none" => loop = "recover"

LoopInv == LoopLeavesNothing /\ LoopWaits

LEMMA LoopBounds == I!LoopConstants
BY Constants

\* What the variables of the loop hold, in parts.
RoundTypes ==
  /\ codex \in {"up", "down"} /\ cdp \in {"none", "opening", "open", "dead"}
  /\ loop \in {"top", "recover", "running", "looked", "sync", "find", "connect", "update", "drain", "delay",
               "quit", "ended"}
  /\ running \in BOOLEAN /\ seen \in BOOLEAN /\ late \in BOOLEAN /\ recovery \in BOOLEAN
WorkTypes ==
  /\ clicks \in [I!Clicks -> [kind : I!Kinds, at : {"new", "page", "taken", "begun", "lost"}]]
  /\ restarting \in BOOLEAN
  /\ restart \in [I!Owners -> {"none", "prepare", "ask", "kill", "start", "reset", "sync"}]
  /\ batch \in [pc : {"none", "idle", "run", "change", "restart"}, kind : I!Kinds]
  /\ detections \subseteq I!Clicks /\ safe \in {"none", "waiting", "forced", "restarting"}
QuotaTypes ==
  /\ busy \in BOOLEAN /\ quota \in [pc : {"none", "work", "over"}, again : BOOLEAN] /\ timer \in BOOLEAN
  /\ owed \in BOOLEAN /\ stopped \in BOOLEAN /\ exit \in {"none", "sync", "flush", "exit", "gone"}
  /\ events \in 0 .. MaxEvents

LEMMA PartsType == RoundTypes' /\ WorkTypes' /\ QuotaTypes' => I!TypeOK'
BY DEF RoundTypes, WorkTypes, QuotaTypes, I!TypeOK

LEMMA TypeParts == I!TypeOK => RoundTypes /\ WorkTypes /\ QuotaTypes
BY DEF RoundTypes, WorkTypes, QuotaTypes, I!TypeOK

LEMMA MovedType ==
  ASSUME I!TypeOK, NEW from, NEW to \in {"page", "taken", "begun", "lost"}
  PROVE  I!Moved(from, to) \in [I!Clicks -> [kind : I!Kinds, at : {"new", "page", "taken", "begun", "lost"}]]
BY DEF I!TypeOK, I!Moved

\* The restart of an owner ends or goes on.
LEMMA OverKeeps ==
  ASSUME LoopInv, NEW o \in I!Owners, restart[o] # "none", NEW connection, I!Over(o, connection)
  PROVE  /\ restarting' \in BOOLEAN /\ LoopWaits'
         /\ restart' \in [I!Owners -> {"none", "prepare", "ask", "kill", "start", "reset", "sync"}]
         /\ batch' \in [pc : {"none", "idle", "run", "change", "restart"}, kind : I!Kinds]
         /\ safe' \in {"none", "waiting", "forced", "restarting"}
         /\ loop' \in {"top", "recover", "running", "looked", "sync", "find", "connect", "update", "drain",
                       "delay", "quit", "ended"}
         /\ loop' = "ended" => loop = "ended"
<1>1. /\ restart' = [restart EXCEPT ![o] = "none"]
      /\ restart \in [I!Owners -> {"none", "prepare", "ask", "kill", "start", "reset", "sync"}]
  BY DEF LoopInv, LoopLeavesNothing, I!TypeOK, I!Over
<1>2. loop' = loop \/ (o = "loop" /\ loop' \in {"running", "sync"})
  BY DEF I!Over, I!Checked
<1>3. LoopWaits'
  BY <1>1, <1>2 DEF LoopInv, LoopWaits, I!Owners
<1>4. batch' \in [pc : {"none", "idle", "run", "change", "restart"}, kind : I!Kinds]
  BY DEF LoopInv, LoopLeavesNothing, I!TypeOK, I!Over
<1>. QED
  BY <1>1, <1>2, <1>3, <1>4 DEF LoopInv, LoopLeavesNothing, I!TypeOK, I!Over

LEMMA GoesToKeeps ==
  ASSUME LoopInv, NEW o \in I!Owners, restart[o] # "none", NEW to \in {"ask", "kill", "start", "reset", "sync"},
         I!GoesTo(o, to)
  PROVE  /\ restarting' = restarting /\ batch' = batch /\ safe' = safe /\ loop' = loop
         /\ restart' \in [I!Owners -> {"none", "prepare", "ask", "kill", "start", "reset", "sync"}]
         /\ LoopWaits'
BY DEF LoopInv, LoopLeavesNothing, LoopWaits, I!TypeOK, I!GoesTo

\* A refresh that is asked for is not forgotten.
LEMMA DemandFacts ==
  ASSUME quota \in [pc : {"none", "work", "over"}, again : BOOLEAN], I!Demand
  PROVE  /\ quota' \in [pc : {"none", "work", "over"}, again : BOOLEAN] /\ owed' \in BOOLEAN
         /\ quota'.pc # "none" /\ (owed' => quota'.again)
<1>1. CASE quota.pc # "none"
  <2>1. quota' = [quota EXCEPT !.again = TRUE] /\ owed' = TRUE
    BY <1>1 DEF I!Demand
  <2>. QED
    BY <2>1, <1>1
<1>2. CASE quota.pc = "none"
  <2>1. quota' = [pc |-> "work", again |-> FALSE] /\ owed' = FALSE
    BY <1>2 DEF I!Demand
  <2>. QED
    BY <2>1
<1>. QED
  BY <1>1, <1>2

LEMMA QuotaLoopInv ==
  ASSUME LoopInv, I!Quota \/ I!LoginChanged \/ I!CatalogBegins \/ I!CatalogEnds
  PROVE  LoopInv'
<1>u. USE DEF LoopInv, LoopLeavesNothing, LoopWaits, I!NothingIsLeft, I!QuotaGoesOn,
          I!rounds, I!restarts, I!work, I!quotas, I!ending
<1>q. quota \in [pc : {"none", "work", "over"}, again : BOOLEAN]
  BY DEF I!TypeOK
<1>p. RoundTypes /\ WorkTypes /\ QuotaTypes
  BY TypeParts
<1>t. RoundTypes' /\ WorkTypes' /\ QuotaTypes' /\ I!NothingIsLeft' /\ I!QuotaGoesOn' /\ LoopWaits' => LoopInv'
  BY PartsType DEF LoopInv, LoopLeavesNothing
<1>1. CASE I!QuotaWorked
  <2>1. UNCHANGED <<codex, clicks, cdp, loop, running, seen, late, recovery, restarting, restart, batch, detections,
                    safe, busy, timer, stopped, exit, events>>
    BY <1>1 DEF I!QuotaWorked
  <2>2. \/ quota' = [quota EXCEPT !.again = FALSE] /\ owed' = FALSE /\ quota.pc = "work"
        \/ quota' = [quota EXCEPT !.pc = "over"] /\ owed' = owed
    BY <1>1 DEF I!QuotaWorked
  <2>3. /\ quota' \in [pc : {"none", "work", "over"}, again : BOOLEAN] /\ quota'.pc # "none"
        /\ owed' \in BOOLEAN /\ (owed' => quota'.again)
    <3>1. CASE quota' = [quota EXCEPT !.again = FALSE] /\ owed' = FALSE /\ quota.pc = "work"
      BY <3>1, <1>q
    <3>2. CASE quota' = [quota EXCEPT !.pc = "over"] /\ owed' = owed
      <4>1. quota'.pc = "over" /\ quota'.again = quota.again
        BY <3>2, <1>q
      <4>2. quota' \in [pc : {"none", "work", "over"}, again : BOOLEAN]
        BY <3>2, <1>q
      <4>3. owed' \in BOOLEAN /\ (owed' => quota'.again)
        BY <3>2, <4>1, <1>p DEF QuotaTypes
      <4>. QED
        BY <4>1, <4>2, <4>3
    <3>. QED
      BY <2>2, <3>1, <3>2
  <2>4. QuotaTypes'
    BY <2>1, <2>3, <1>p DEF QuotaTypes
  <2>5. RoundTypes' /\ WorkTypes'
    BY <2>1, <1>p DEF RoundTypes, WorkTypes
  <2>6. I!NothingIsLeft' /\ I!QuotaGoesOn' /\ LoopWaits'
    BY <2>1, <2>3
  <2>. QED
    BY <2>4, <2>5, <2>6, <1>t
<1>2. CASE I!QuotaOver
  <2>1. UNCHANGED <<codex, clicks, cdp, loop, running, seen, late, recovery, restarting, restart, batch, detections,
                    safe, busy, owed, stopped, exit, events>>
    BY <1>2 DEF I!QuotaOver
  <2>2. quota' = [quota EXCEPT !.pc = "none"] /\ timer' = ~stopped /\ timer' \in BOOLEAN
    BY <1>2 DEF I!QuotaOver
  <2>3. quota' \in [pc : {"none", "work", "over"}, again : BOOLEAN] /\ quota'.again = quota.again
    BY <2>2, <1>q
  <2>4. QuotaTypes'
    BY <2>1, <2>2, <2>3, <1>p DEF QuotaTypes
  <2>5. RoundTypes' /\ WorkTypes'
    BY <2>1, <1>p DEF RoundTypes, WorkTypes
  <2>6. I!NothingIsLeft' /\ I!QuotaGoesOn' /\ LoopWaits'
    BY <2>1, <2>2, <2>3
  <2>. QED
    BY <2>4, <2>5, <2>6, <1>t
<1>3. CASE I!TimerFires
  <2>1. UNCHANGED <<codex, clicks, cdp, loop, running, seen, late, recovery, restarting, restart, batch, detections,
                    safe, busy, stopped, exit, events>> /\ timer' = FALSE
    BY <1>3 DEF I!TimerFires
  <2>2. quota' \in [pc : {"none", "work", "over"}, again : BOOLEAN] /\ owed' \in BOOLEAN
        /\ quota'.pc # "none" /\ (owed' => quota'.again)
    BY <1>3, <1>q, DemandFacts DEF I!TimerFires
  <2>4. QuotaTypes'
    BY <2>1, <2>2, <1>p DEF QuotaTypes
  <2>5. RoundTypes' /\ WorkTypes'
    BY <2>1, <1>p DEF RoundTypes, WorkTypes
  <2>6. I!NothingIsLeft' /\ I!QuotaGoesOn' /\ LoopWaits'
    BY <2>1, <2>2
  <2>. QED
    BY <2>4, <2>5, <2>6, <1>t
<1>4. CASE I!LoginChanged
  <2>1. quota' \in [pc : {"none", "work", "over"}, again : BOOLEAN] /\ owed' \in BOOLEAN
        /\ quota'.pc # "none" /\ (owed' => quota'.again)
    BY <1>4, <1>q, DemandFacts DEF I!LoginChanged
  <2>2. events' \in 0 .. MaxEvents /\ busy' = TRUE
    BY <1>4, <1>p, LoopBounds DEF I!LoginChanged, I!Event, I!LoopConstants, QuotaTypes
  <2>3. UNCHANGED <<codex, clicks, cdp, loop, running, seen, late, recovery, restarting, restart, batch, detections,
                    safe, timer, stopped, exit>>
    BY <1>4 DEF I!LoginChanged
  <2>4. QuotaTypes'
    BY <2>1, <2>2, <2>3, <1>p DEF QuotaTypes
  <2>5. RoundTypes' /\ WorkTypes'
    BY <2>3, <1>p DEF RoundTypes, WorkTypes
  <2>6. I!NothingIsLeft' /\ I!QuotaGoesOn' /\ LoopWaits'
    BY <2>1, <2>2, <2>3
  <2>. QED
    BY <2>4, <2>5, <2>6, <1>t
<1>5. CASE I!CatalogBegins
  <2>1. UNCHANGED <<codex, clicks, cdp, loop, running, seen, late, recovery, restarting, restart, batch, detections,
                    safe, quota, timer, owed, stopped, exit>> /\ busy' = TRUE
    BY <1>5 DEF I!CatalogBegins
  <2>2. events' \in 0 .. MaxEvents
    BY <1>5, <1>p, LoopBounds DEF I!CatalogBegins, I!Event, I!LoopConstants, QuotaTypes
  <2>4. QuotaTypes'
    BY <2>1, <2>2, <1>p DEF QuotaTypes
  <2>5. RoundTypes' /\ WorkTypes'
    BY <2>1, <1>p DEF RoundTypes, WorkTypes
  <2>6. I!NothingIsLeft' /\ I!QuotaGoesOn' /\ LoopWaits'
    BY <2>1, <2>2
  <2>. QED
    BY <2>4, <2>5, <2>6, <1>t
<1>6. CASE I!CatalogEnds
  <2>1. UNCHANGED <<codex, clicks, cdp, loop, running, seen, late, recovery, restarting, restart, batch, detections,
                    safe, quota, timer, owed, stopped, exit, events>> /\ busy' = FALSE
    BY <1>6 DEF I!CatalogEnds
  <2>4. QuotaTypes'
    BY <2>1, <1>p DEF QuotaTypes
  <2>5. RoundTypes' /\ WorkTypes'
    BY <2>1, <1>p DEF RoundTypes, WorkTypes
  <2>6. I!NothingIsLeft' /\ I!QuotaGoesOn' /\ LoopWaits'
    BY <2>1
  <2>. QED
    BY <2>4, <2>5, <2>6, <1>t
<1>. QED
  BY <1>1, <1>2, <1>3, <1>4, <1>5, <1>6 DEF I!Quota

LEMMA AroundLoopInv ==
  ASSUME LoopInv,
         \/ I!CodexExits \/ I!CodexStarts \/ I!RecoveryAsked \/ I!DeadlinePasses
         \/ \E c \in I!Clicks : I!Click(c) \/ I!Detected(c)
  PROVE  LoopInv'
<1>u. USE DEF LoopInv, LoopLeavesNothing, LoopWaits, I!TypeOK, I!NothingIsLeft, I!QuotaGoesOn,
          I!rounds, I!restarts, I!work, I!quotas, I!ending
<1>1. CASE I!CodexExits
  BY <1>1, MovedType, LoopBounds DEF I!CodexExits, I!Gone, I!Event, I!LoopConstants
<1>2. CASE I!CodexStarts
  BY <1>2, LoopBounds DEF I!CodexStarts, I!Event, I!LoopConstants
<1>3. CASE I!RecoveryAsked
  BY <1>3, LoopBounds DEF I!RecoveryAsked, I!Event, I!LoopConstants
<1>4. CASE I!DeadlinePasses
  BY <1>4 DEF I!DeadlinePasses
<1>5. ASSUME NEW c \in I!Clicks, I!Click(c) PROVE LoopInv'
  <2>1. clicks' \in [I!Clicks -> [kind : I!Kinds, at : {"new", "page", "taken", "begun", "lost"}]]
    BY <1>5 DEF I!Click
  <2>. QED
    BY <1>5, <2>1 DEF I!Click
<1>6. ASSUME NEW c \in I!Clicks, I!Detected(c) PROVE LoopInv'
  BY <1>6 DEF I!Detected, I!BatchRest
<1>. QED
  BY <1>1, <1>2, <1>3, <1>4, <1>5, <1>6

\* A restart that ends after the stop arms no timer and leaves no connection.
LEMMA RestartLoopInv ==
  ASSUME LoopInv, NEW o \in I!Owners, I!Restart(o)
  PROVE  LoopInv'
<1>1. restart[o] # "none"
  BY DEF I!Restart, I!Prepared, I!Asked, I!Killed, I!Started, I!Reset, I!Synced
<1>2. UNCHANGED <<running, seen, late, recovery, detections, busy, quota, owed, stopped, exit>>
  BY DEF I!Restart, I!Prepared, I!Asked, I!Killed, I!Started, I!Reset, I!Synced, I!RestartRest, I!ending
<1>3. events' \in 0 .. MaxEvents
  BY LoopBounds DEF LoopInv, LoopLeavesNothing, I!TypeOK, I!Restart, I!Prepared, I!Asked, I!Killed, I!Started, I!Reset,
     I!Synced, I!Event, I!LoopConstants
<1>4. \/ I!Over(o, cdp) \/ I!Over(o, "none")
      \/ \E to \in {"ask", "kill", "start", "reset", "sync"} : I!GoesTo(o, to)
  BY DEF I!Restart, I!Prepared, I!Asked, I!Killed, I!Started, I!Reset, I!Synced
<1>5. /\ restarting' \in BOOLEAN /\ LoopWaits'
      /\ restart' \in [I!Owners -> {"none", "prepare", "ask", "kill", "start", "reset", "sync"}]
      /\ batch' \in [pc : {"none", "idle", "run", "change", "restart"}, kind : I!Kinds]
      /\ safe' \in {"none", "waiting", "forced", "restarting"}
      /\ loop' \in {"top", "recover", "running", "looked", "sync", "find", "connect", "update", "drain",
                    "delay", "quit", "ended"}
      /\ loop' = "ended" => loop = "ended"
  <2>1. CASE \E connection : I!Over(o, connection)
    BY <1>1, <2>1, OverKeeps
  <2>2. CASE \E to \in {"ask", "kill", "start", "reset", "sync"} : I!GoesTo(o, to)
    BY <1>1, <2>2, GoesToKeeps DEF LoopInv, LoopLeavesNothing, I!TypeOK
  <2>. QED
    BY <1>4, <2>1, <2>2
<1>6. /\ codex' \in {"up", "down"} /\ cdp' \in {cdp, "none", "dead"} /\ (cdp = "none" => cdp' = "none")
      /\ clicks' \in {clicks, I!Moved("page", "lost")}
      /\ timer' \in {timer, ~stopped}
  BY DEF LoopInv, LoopLeavesNothing, I!TypeOK, I!Restart, I!Prepared, I!Asked, I!Killed, I!Started, I!Reset, I!Synced,
     I!Gone
<1>7. clicks' \in [I!Clicks -> [kind : I!Kinds, at : {"new", "page", "taken", "begun", "lost"}]]
  BY <1>6, MovedType DEF LoopInv, LoopLeavesNothing, I!TypeOK
<1>8. I!TypeOK'
  <2>1. /\ codex \in {"up", "down"} /\ cdp \in {"none", "opening", "open", "dead"} /\ timer \in BOOLEAN
        /\ running \in BOOLEAN /\ seen \in BOOLEAN /\ late \in BOOLEAN /\ recovery \in BOOLEAN
        /\ detections \subseteq I!Clicks /\ busy \in BOOLEAN /\ quota \in [pc : {"none", "work", "over"}, again : BOOLEAN]
        /\ owed \in BOOLEAN /\ stopped \in BOOLEAN /\ exit \in {"none", "sync", "flush", "exit", "gone"}
    BY DEF LoopInv, LoopLeavesNothing, I!TypeOK
  <2>2. timer' \in BOOLEAN /\ cdp' \in {"none", "opening", "open", "dead"}
    BY <1>6, <2>1
  <2>. QED
    BY <1>2, <1>3, <1>5, <1>6, <1>7, <2>1, <2>2 DEF I!TypeOK
<1>9. I!NothingIsLeft' /\ I!QuotaGoesOn'
  BY <1>2, <1>5, <1>6 DEF LoopInv, LoopLeavesNothing, I!TypeOK, I!NothingIsLeft, I!QuotaGoesOn
<1>. QED
  BY <1>5, <1>8, <1>9 DEF LoopInv, LoopLeavesNothing

LEMMA BatchLoopInv ==
  ASSUME LoopInv, I!Batch \/ I!SafeBegins \/ I!SafeFails
  PROVE  LoopInv'
<1>r. UNCHANGED <<codex, cdp, loop, running, seen, late, recovery, busy, quota, timer, owed, stopped, exit>>
  BY DEF I!Batch, I!BatchIdle, I!Act, I!Changed, I!BatchOver, I!BatchRest, I!SafeBegins, I!SafeFails, I!rounds,
     I!quotas, I!ending
<1>e. events' \in 0 .. MaxEvents
  BY LoopBounds DEF LoopInv, LoopLeavesNothing, I!TypeOK, I!Batch, I!BatchIdle, I!Act, I!Changed, I!BatchOver,
     I!SafeBegins, I!SafeFails, I!Event, I!LoopConstants
<1>b. /\ restarting' \in BOOLEAN /\ restart'["loop"] = restart["loop"]
      /\ restart' \in [I!Owners -> {"none", "prepare", "ask", "kill", "start", "reset", "sync"}]
  <2>1. \/ UNCHANGED <<restarting, restart>>
        \/ \E o \in {"batch", "safe"} : I!Begins(o)
    BY DEF I!Batch, I!BatchIdle, I!Act, I!Begun, I!Changed, I!BatchOver, I!SafeBegins, I!SafeFails, I!restarts
  <2>. QED
    <3>1. restarting \in BOOLEAN
          /\ restart \in [I!Owners -> {"none", "prepare", "ask", "kill", "start", "reset", "sync"}]
      BY DEF LoopInv, LoopLeavesNothing, I!TypeOK
    <3>2. ASSUME NEW o \in {"batch", "safe"}, I!Begins(o)
          PROVE  /\ restarting' = TRUE /\ restart'["loop"] = restart["loop"]
                 /\ restart' \in [I!Owners -> {"none", "prepare", "ask", "kill", "start", "reset", "sync"}]
      BY <3>1, <3>2 DEF I!Begins, I!Owners
    <3>. QED
      BY <2>1, <3>1, <3>2
<1>s. safe' \in {"none", "waiting", "forced", "restarting"}
  BY DEF LoopInv, LoopLeavesNothing, I!TypeOK, I!Batch, I!BatchIdle, I!Act, I!Begun, I!Changed, I!BatchOver,
     I!SafeBegins, I!SafeFails
<1>d. detections' \subseteq I!Clicks
  BY DEF LoopInv, LoopLeavesNothing, I!TypeOK, I!Batch, I!BatchIdle, I!Act, I!Begun, I!Changed, I!BatchOver,
     I!SafeBegins, I!SafeFails
<1>a. batch' \in [pc : {"none", "idle", "run", "change", "restart"}, kind : I!Kinds]
  <2>1. CASE \E c \in I!Clicks : I!Act(c)
    BY <2>1 DEF LoopInv, LoopLeavesNothing, I!TypeOK, I!Act, I!Begun, I!Awaits, I!Kinds
  <2>2. CASE I!BatchIdle \/ I!Changed \/ I!BatchOver \/ I!SafeBegins \/ I!SafeFails
    BY <2>2 DEF LoopInv, LoopLeavesNothing, I!TypeOK, I!BatchIdle, I!Changed, I!BatchOver, I!SafeBegins, I!SafeFails,
       I!Kinds
  <2>. QED
    BY <2>1, <2>2 DEF I!Batch
<1>c. clicks' \in [I!Clicks -> [kind : I!Kinds, at : {"new", "page", "taken", "begun", "lost"}]]
  <2>1. CASE \E c \in I!Clicks : I!Act(c)
    BY <2>1 DEF LoopInv, LoopLeavesNothing, I!TypeOK, I!Act
  <2>2. CASE I!BatchIdle \/ I!Changed \/ I!BatchOver \/ I!SafeBegins \/ I!SafeFails
    BY <2>2, MovedType DEF LoopInv, LoopLeavesNothing, I!TypeOK, I!BatchIdle, I!Changed, I!BatchOver, I!SafeBegins,
       I!SafeFails
  <2>. QED
    BY <2>1, <2>2 DEF I!Batch
<1>1. I!TypeOK'
  BY <1>r, <1>e, <1>b, <1>s, <1>d, <1>a, <1>c DEF LoopInv, LoopLeavesNothing, I!TypeOK
<1>. QED
  BY <1>r, <1>b, <1>1 DEF LoopInv, LoopLeavesNothing, LoopWaits, I!NothingIsLeft, I!QuotaGoesOn

LEMMA StopLoopInv ==
  ASSUME LoopInv, I!Exit \/ I!Signalled
  PROVE  LoopInv'
<1>1. /\ UNCHANGED <<codex, clicks, running, seen, late, recovery, restarting, restart, batch, detections, busy,
                     quota, owed>>
      /\ loop' \in {loop, "ended"} /\ (loop' # loop => loop = "quit" /\ I!StopNow)
      /\ exit' \in {"none", "sync", "flush", "exit", "gone"}
  BY DEF I!Exit, I!ExitSynced, I!ExitFlushed, I!Exits, I!Signalled, I!StopRest, I!restarts
<1>2. I!StopNow \/ UNCHANGED <<cdp, safe, timer, stopped>>
  BY DEF I!Exit, I!ExitSynced, I!ExitFlushed, I!Exits, I!Signalled
<1>3. events' \in 0 .. MaxEvents
  BY LoopBounds DEF LoopInv, LoopLeavesNothing, I!TypeOK, I!Exit, I!ExitSynced, I!ExitFlushed, I!Exits, I!Signalled,
     I!Event, I!LoopConstants
<1>4. /\ cdp' \in {cdp, "none"} /\ timer' \in {timer, FALSE} /\ safe' \in {safe, "none"} /\ stopped' \in BOOLEAN
      /\ stopped' => I!StopNow \/ UNCHANGED <<cdp, safe, timer, stopped>>
  BY <1>1, <1>2 DEF LoopInv, LoopLeavesNothing, I!TypeOK, I!StopNow
<1>5. I!TypeOK'
  <2>1. /\ loop' \in {"top", "recover", "running", "looked", "sync", "find", "connect", "update", "drain", "delay",
                      "quit", "ended"}
        /\ cdp' \in {"none", "opening", "open", "dead"} /\ timer' \in BOOLEAN
        /\ safe' \in {"none", "waiting", "forced", "restarting"}
    BY <1>1, <1>4 DEF LoopInv, LoopLeavesNothing, I!TypeOK
  <2>. QED
    BY <1>1, <1>3, <1>4, <2>1 DEF LoopInv, LoopLeavesNothing, I!TypeOK
<1>6. I!NothingIsLeft' /\ I!QuotaGoesOn'
  BY <1>1, <1>2 DEF LoopInv, LoopLeavesNothing, I!TypeOK, I!NothingIsLeft, I!QuotaGoesOn, I!StopNow
<1>7. LoopWaits'
  BY <1>1 DEF LoopInv, LoopWaits
<1>. QED
  BY <1>5, <1>6, <1>7 DEF LoopInv, LoopLeavesNothing

LEMMA EndedLoopInv ==
  ASSUME LoopInv, I!Ended
  PROVE  LoopInv'
<1>p. RoundTypes /\ WorkTypes /\ QuotaTypes /\ I!NothingIsLeft /\ I!QuotaGoesOn /\ LoopWaits
  BY TypeParts DEF LoopInv, LoopLeavesNothing
<1>1. /\ loop = "top" /\ loop' = "ended" /\ stopped' = TRUE /\ timer' = FALSE /\ cdp' = "none"
      /\ safe' \in {safe, "none"}
      /\ UNCHANGED <<codex, clicks, running, seen, late, recovery, restarting, restart, batch, detections, busy,
                     quota, owed, exit, events>>
  BY DEF I!Ended, I!At, I!StopNow, I!LoopRest, I!restarts
<1>4. RoundTypes'
  BY <1>1, <1>p DEF RoundTypes
<1>5. WorkTypes'
  BY <1>1, <1>p DEF WorkTypes
<1>6. QuotaTypes'
  BY <1>1, <1>p DEF QuotaTypes
<1>7. I!NothingIsLeft' /\ I!QuotaGoesOn'
  BY <1>1, <1>p DEF I!NothingIsLeft, I!QuotaGoesOn
<1>8. LoopWaits'
  BY <1>1, <1>p DEF LoopWaits
<1>. QED
  BY <1>4, <1>5, <1>6, <1>7, <1>8, PartsType DEF LoopInv, LoopLeavesNothing

LEMMA RecoverLoopInv ==
  ASSUME LoopInv, I!Recover
  PROVE  LoopInv'
<1>p. RoundTypes /\ WorkTypes /\ QuotaTypes /\ I!NothingIsLeft /\ I!QuotaGoesOn /\ LoopWaits
  BY TypeParts DEF LoopInv, LoopLeavesNothing
<1>1. /\ loop' = "recover" /\ recovery' = FALSE /\ restarting' = TRUE
      /\ restart' \in [I!Owners -> {"none", "prepare", "ask", "kill", "start", "reset", "sync"}]
      /\ UNCHANGED <<codex, clicks, cdp, running, seen, late, batch, detections, safe, busy, quota, timer, owed,
                     stopped, exit, events>>
  <2>1. restart' = [restart EXCEPT !["loop"] = "prepare"]
    BY DEF I!Recover, I!Begins
  <2>2. restart' \in [I!Owners -> {"none", "prepare", "ask", "kill", "start", "reset", "sync"}]
    BY <1>p, <2>1 DEF WorkTypes
  <2>. QED
    BY <2>2 DEF I!Recover, I!Begins, I!At, I!LoopRest, I!ending
<1>4. RoundTypes'
  BY <1>1, <1>p DEF RoundTypes
<1>5. WorkTypes'
  BY <1>1, <1>p DEF WorkTypes
<1>6. QuotaTypes'
  BY <1>1, <1>p DEF QuotaTypes
<1>7. I!NothingIsLeft' /\ I!QuotaGoesOn'
  BY <1>1, <1>p DEF I!NothingIsLeft, I!QuotaGoesOn
<1>8. LoopWaits'
  BY <1>1, <1>p DEF LoopWaits
<1>. QED
  BY <1>4, <1>5, <1>6, <1>7, <1>8, PartsType DEF LoopInv, LoopLeavesNothing

LEMMA FollowedLoopInv ==
  ASSUME LoopInv, I!Followed
  PROVE  LoopInv'
<1>p. RoundTypes /\ WorkTypes /\ QuotaTypes /\ I!NothingIsLeft /\ I!QuotaGoesOn /\ LoopWaits
  BY TypeParts DEF LoopInv, LoopLeavesNothing
<1>1. /\ loop = "looked" /\ running' = FALSE /\ seen' \in BOOLEAN
      /\ UNCHANGED <<codex, clicks, late, recovery, restarting, restart, batch, detections, busy, quota, owed,
                     events>>
      /\ \/ loop' = "sync" /\ UNCHANGED <<cdp, safe, timer, stopped, exit>>
         \/ loop' = "quit" /\ exit' = "sync" /\ UNCHANGED <<cdp, safe, timer, stopped>>
         \/ /\ loop' = "ended" /\ stopped' = TRUE /\ timer' = FALSE /\ cdp' = "none"
            /\ safe' \in {safe, "none"} /\ exit' = exit
  BY <1>p DEF I!Followed, I!At, I!StopNow, I!LoopRest, I!restarts, I!ending, RoundTypes
<1>4. RoundTypes'
  BY <1>1, <1>p DEF RoundTypes
<1>5. WorkTypes'
  BY <1>1, <1>p DEF WorkTypes
<1>6. QuotaTypes'
  BY <1>1, <1>p DEF QuotaTypes
<1>7. I!NothingIsLeft' /\ I!QuotaGoesOn'
  BY <1>1, <1>p DEF I!NothingIsLeft, I!QuotaGoesOn
<1>8. LoopWaits'
  BY <1>1, <1>p DEF LoopWaits
<1>. QED
  BY <1>4, <1>5, <1>6, <1>7, <1>8, PartsType DEF LoopInv, LoopLeavesNothing

\* The loop itself: what it connects to is left only while it goes on.
LEMMA RoundLoopInv ==
  ASSUME LoopInv, I!Loop
  PROVE  LoopInv'
<1>u. USE DEF LoopInv, LoopLeavesNothing, LoopWaits, I!TypeOK, I!NothingIsLeft, I!QuotaGoesOn, I!StopNow, I!LoopRest,
          I!RoundRest, I!restarts, I!ending, I!At, I!Thrown
<1>1. CASE I!Ended
  BY <1>1, EndedLoopInv
<1>2. CASE I!Recover
  BY <1>2, RecoverLoopInv
<1>3. CASE I!Check
  BY <1>3 DEF I!Check, I!Checked
<1>4. CASE I!Looked
  BY <1>4 DEF I!Looked
<1>5. CASE I!Followed
  BY <1>5, FollowedLoopInv
<1>6. CASE I!Found
  BY <1>6 DEF I!Found
<1>7. CASE I!Connect
  BY <1>7, LoopBounds DEF I!Connect, I!Event, I!LoopConstants
<1>8. CASE I!Connected
  BY <1>8, LoopBounds DEF I!Connected, I!Event, I!LoopConstants
<1>9. CASE I!Updated
  BY <1>9, LoopBounds DEF I!Updated, I!Event, I!LoopConstants
<1>10. CASE I!Drained
  <2>1. clicks' \in [I!Clicks -> [kind : I!Kinds, at : {"new", "page", "taken", "begun", "lost"}]]
    BY <1>10, MovedType DEF I!Drained
  <2>2. batch' \in [pc : {"none", "idle", "run", "change", "restart"}, kind : I!Kinds]
    BY <1>10 DEF I!Drained
  <2>. QED
    BY <1>10, <2>1, <2>2, LoopBounds DEF I!Drained, I!Event, I!LoopConstants
<1>11. CASE I!Delayed
  BY <1>11 DEF I!Delayed
<1>. QED
  BY <1>1, <1>2, <1>3, <1>4, <1>5, <1>6, <1>7, <1>8, <1>9, <1>10, <1>11 DEF I!Loop

LEMMA InitLoopInv == MCInit => LoopInv
<1>. SUFFICES ASSUME I!Init PROVE LoopInv
  BY DEF MCInit
<1>1. clicks \in [I!Clicks -> [kind : I!Kinds, at : {"new", "page", "taken", "begun", "lost"}]]
  BY DEF I!Init
<1>2. /\ restart \in [I!Owners -> {"none", "prepare", "ask", "kill", "start", "reset", "sync"}]
      /\ restart["loop"] = "none"
  BY DEF I!Init, I!Owners
<1>3. /\ batch \in [pc : {"none", "idle", "run", "change", "restart"}, kind : I!Kinds]
      /\ quota \in [pc : {"none", "work", "over"}, again : BOOLEAN] /\ quota.pc = "work"
  BY DEF I!Init, I!Kinds
<1>4. events \in 0 .. MaxEvents
  BY LoopBounds DEF I!Init, I!LoopConstants
<1>5. I!TypeOK
  BY <1>1, <1>2, <1>3, <1>4 DEF I!Init, I!TypeOK
<1>. QED
  BY <1>2, <1>3, <1>5 DEF I!Init, LoopInv, LoopLeavesNothing, LoopWaits, I!NothingIsLeft, I!QuotaGoesOn

LEMMA NextLoopInv == LoopInv /\ [MCNext]_all => LoopInv'
<1>1. CASE LoopInv /\ I!Next
  BY <1>1, QuotaLoopInv, AroundLoopInv, RestartLoopInv, BatchLoopInv, StopLoopInv, RoundLoopInv DEF I!Next
<1>2. CASE LoopInv /\ UNCHANGED loopVars
  BY <1>2 DEF loopVars, LoopInv, LoopLeavesNothing, LoopWaits, I!TypeOK, I!NothingIsLeft, I!QuotaGoesOn
<1>. QED
  BY <1>1, <1>2 DEF MCNext, OfStore, OfLoop, OfLogin, all

\* The loop of the injector leaves neither a connection nor a timer when it has been stopped, however the
\* restarts of the batch, the safe restart and the loop itself overlap with the stop, and refreshes the
\* quotas until then, forgetting no request (injector.mjs stop, scheduleQuotaRefresh, runQuotaRefresh).
THEOREM InjectorLoopLeavesNothing == MCSpec => []LoopLeavesNothing
<1>1. LoopInv => LoopLeavesNothing
  BY DEF LoopInv
<1>. QED
  BY <1>1, InitLoopInv, NextLoopInv, PTL DEF MCSpec

(***************************************************************************)
(* The login and the import: what is added is what was asked for.          *)
(***************************************************************************)

\* The timer that takes an operation off the panel is armed for one that is over.
ClearingFits == clearing = "this" => operation # "loading"

\* A login that is under way has a number.
LoginIsNumbered == login.pc # "none" => login.n # 0

LoginInv == A!TypeOK /\ A!CodeIsOwn /\ A!TemporaryHasNoRefresh /\ ClearingFits /\ LoginIsNumbered

LEMMA LoginBounds == A!LoginConstants
BY Constants

\* What an update makes of the account: a temporary one has no refresh token, and an active one keeps
\* the token it lives on.
LEMMA UpsertedFacts ==
  ASSUME A!TypeOK, A!TemporaryHasNoRefresh, NEW refresh \in BOOLEAN, NEW mode \in A!Modes
  PROVE  LET next == A!Upserted(refresh, mode) IN
         /\ next \in [status : A!Statuses, refresh : {"none", "live", "dead"}]
         /\ next.status = "temporary" => next.refresh = "none"
         /\ account.status = "active" /\ account.refresh = "live" => next.status = "active" /\ next.refresh = "live"
BY DEF A!TypeOK, A!TemporaryHasNoRefresh, A!Upserted, A!Statuses, A!Modes

\* The login in the browser
LEMMA BrowserKeepsLogin ==
  ASSUME LoginInv, A!Begin \/ A!Login \/ A!Cancel \/ (\E n \in tabs : A!Callback(n)) \/ A!Lingers \/ A!LetsGo
  PROVE  /\ LoginInv'
         /\ login.pc = "exchange" /\ controller = "aborted" => login'.pc # "save"
         /\ operation = "loading" => operation' # "none"
<1>u. USE DEF LoginInv, A!CodeIsOwn, ClearingFits, LoginIsNumbered, A!LoginRest, A!Shows, A!ShowsAtLast, A!Throws,
          A!Trouble
<1>l. login \in [pc : {"none", "listen", "wait", "exchange", "save"} \cup A!Closing,
                 n : 0 .. MaxLogins, code : 0 .. MaxLogins]
  BY DEF A!TypeOK
<1>t. trouble' \in 0 .. MaxTrouble
  <2>1. trouble' = trouble \/ A!Trouble
    BY DEF A!Begin, A!Login, A!Listens, A!Exchanged, A!Saved, A!Closes, A!TimesOut, A!Cancel, A!Callback, A!Lingers,
       A!LetsGo
  <2>. QED
    BY <2>1, LoginBounds DEF A!TypeOK, A!LoginConstants
<1>1. CASE A!Begin
  <2>1. login' \in [pc : {"none", "listen", "wait", "exchange", "save"} \cup A!Closing,
                    n : 0 .. MaxLogins, code : 0 .. MaxLogins]
        /\ login'.code = 0
    BY <1>1, <1>l, LoginBounds DEF A!Begin, A!LoginConstants
  <2>. QED
    BY <1>1, <1>t, <2>1 DEF A!Begin, A!TypeOK, A!TemporaryHasNoRefresh
<1>2. CASE A!Listens
  <2>1. login.n \in 1 .. MaxLogins
    BY <1>2 DEF A!Listens, A!TypeOK
  <2>. QED
    BY <1>2, <1>l, <1>t, <2>1 DEF A!Listens, A!TypeOK, A!TemporaryHasNoRefresh, A!Closing
<1>3. CASE A!Exchanged
  <2>1. /\ account' \in [status : A!Statuses, refresh : {"none", "live", "dead"}]
        /\ account'.status = "temporary" => account'.refresh = "none"
    BY <1>3, UpsertedFacts DEF A!Exchanged, A!TypeOK, A!TemporaryHasNoRefresh, A!Modes
  <2>. QED
    BY <1>3, <1>l, <1>t, <2>1 DEF A!Exchanged, A!TypeOK, A!TemporaryHasNoRefresh, A!Closing
<1>4. CASE A!Saved
  BY <1>4, <1>l, <1>t DEF A!Saved, A!TypeOK, A!TemporaryHasNoRefresh, A!Closing
<1>5. CASE A!Closes
  <2>1. login' \in [pc : {"none", "listen", "wait", "exchange", "save"} \cup A!Closing,
                    n : 0 .. MaxLogins, code : 0 .. MaxLogins]
        /\ login'.code = 0 /\ login'.pc = "none" /\ login.pc # "exchange"
    <3>1. login' = [login EXCEPT !.pc = "none", !.code = 0] /\ login.pc # "exchange"
      BY <1>5 DEF A!Closes, A!Closing
    <3>2. 0 \in 0 .. MaxLogins
      BY LoginBounds DEF A!LoginConstants
    <3>. QED
      BY <3>1, <3>2, <1>l
  <2>2. operation' \in {"none", "loading", "success", "error"} /\ clearing' \in {"none", "this", "earlier"}
        /\ ClearingFits' /\ (operation = "loading" => operation' # "none")
    BY <1>5 DEF A!Closes, A!TypeOK
  <2>3. UNCHANGED <<account, controller, tabs, held, import, imports, trouble>>
    BY <1>5 DEF A!Closes
  <2>. QED
    BY <2>1, <2>2, <2>3 DEF A!TypeOK, A!TemporaryHasNoRefresh
<1>6. CASE A!TimesOut
  BY <1>6, <1>l, <1>t DEF A!TimesOut, A!TypeOK, A!TemporaryHasNoRefresh, A!Closing
<1>7. CASE A!Cancel
  BY <1>7, <1>l, <1>t DEF A!Cancel, A!TypeOK, A!TemporaryHasNoRefresh, A!Closing
<1>8. ASSUME NEW n \in tabs, A!Callback(n)
      PROVE  /\ LoginInv'
             /\ login.pc = "exchange" /\ controller = "aborted" => login'.pc # "save"
             /\ operation = "loading" => operation' # "none"
  <2>1. /\ login' \in [pc : {"none", "listen", "wait", "exchange", "save"} \cup A!Closing,
                       n : 0 .. MaxLogins, code : 0 .. MaxLogins]
        /\ login'.code \in {0, login'.n} /\ login'.n = login.n /\ login.n # 0 /\ login.pc # "exchange"
    BY <1>8, <1>l DEF A!Callback, A!Closing
  <2>2. /\ operation' \in {"none", "loading", "success", "error"} /\ clearing' \in {"none", "this", "earlier"}
        /\ ClearingFits' /\ (operation = "loading" => operation' # "none")
        /\ controller' \in {"none", "live", "aborted"}
    BY <1>8 DEF A!Callback, A!TypeOK
  <2>3. tabs' \subseteq 1 .. MaxLogins /\ UNCHANGED <<account, held, import, imports>>
    BY <1>8 DEF A!Callback, A!TypeOK
  <2>. QED
    BY <1>t, <2>1, <2>2, <2>3 DEF A!TypeOK, A!TemporaryHasNoRefresh
<1>9. CASE A!Lingers \/ A!LetsGo
  <2>1. UNCHANGED <<account, login, controller, tabs, operation, clearing, import, imports>> /\ held' \in Nat
    BY <1>9 DEF A!Lingers, A!LetsGo, A!TypeOK
  <2>. QED
    BY <1>t, <2>1 DEF A!TypeOK, A!TemporaryHasNoRefresh
<1>. QED
  BY <1>1, <1>2, <1>3, <1>4, <1>5, <1>6, <1>7, <1>8, <1>9 DEF A!Login

\* The import, what happens to the account elsewhere, and the panel
LEMMA ImportKeepsLogin ==
  ASSUME LoginInv, A!Import \/ A!Candidate \/ A!Renewed \/ A!Stored \/ A!Imported \/ A!Cleared \/ A!Elsewhere
  PROVE  LoginInv' /\ login' = login /\ (operation = "loading" => operation' # "none")
<1>u. USE DEF LoginInv, A!CodeIsOwn, ClearingFits, LoginIsNumbered, A!ImportRest, A!Shows, A!ShowsAtLast, A!Ends,
          A!Trouble
<1>i. import \in [pc : {"idle", "next", "renew", "store", "stored"}, mode : A!Modes,
                  access : BOOLEAN, refresh : BOOLEAN]
  BY DEF A!TypeOK
<1>t. trouble' \in 0 .. MaxTrouble /\ imports' \in 0 .. MaxImports
  <2>1. (trouble' = trouble \/ A!Trouble) /\ (imports' = imports \/ (imports < MaxImports /\ imports' = imports + 1))
    BY DEF A!Import, A!Candidate, A!Renewed, A!Stored, A!Imported, A!Cleared, A!Elsewhere
  <2>. QED
    BY <2>1, LoginBounds DEF A!TypeOK, A!LoginConstants
<1>d. A!Idle \in [pc : {"idle", "next", "renew", "store", "stored"}, mode : A!Modes,
                  access : BOOLEAN, refresh : BOOLEAN]
  BY DEF A!Idle, A!Modes
<1>1. CASE A!Import
  <2>1. import' \in [pc : {"idle", "next", "renew", "store", "stored"}, mode : A!Modes,
                     access : BOOLEAN, refresh : BOOLEAN]
    BY <1>1, <1>d DEF A!Import
  <2>. QED
    BY <1>1, <1>t, <2>1 DEF A!Import, A!TypeOK, A!TemporaryHasNoRefresh
<1>2. CASE A!Candidate
  <2>1. import' \in [pc : {"idle", "next", "renew", "store", "stored"}, mode : A!Modes,
                     access : BOOLEAN, refresh : BOOLEAN]
    BY <1>2, <1>d, <1>i DEF A!Candidate
  <2>. QED
    BY <1>2, <1>t, <2>1 DEF A!Candidate, A!TypeOK, A!TemporaryHasNoRefresh
<1>3. CASE A!Renewed \/ A!Imported
  BY <1>3, <1>d, <1>i, <1>t DEF A!Renewed, A!Imported, A!TypeOK, A!TemporaryHasNoRefresh
<1>4. CASE A!Stored
  <2>1. /\ account' \in [status : A!Statuses, refresh : {"none", "live", "dead"}]
        /\ account'.status = "temporary" => account'.refresh = "none"
    BY <1>4, <1>i, UpsertedFacts DEF A!Stored, A!TypeOK, A!TemporaryHasNoRefresh
  <2>. QED
    BY <1>4, <1>d, <1>i, <1>t, <2>1 DEF A!Stored, A!TypeOK, A!TemporaryHasNoRefresh
<1>5. CASE A!Cleared
  BY <1>5, <1>t DEF A!Cleared, A!TypeOK, A!TemporaryHasNoRefresh
<1>6. CASE A!Elsewhere
  <2>1. /\ account' \in [status : A!Statuses, refresh : {"none", "live", "dead"}]
        /\ account'.status = "temporary" => account'.refresh = "none"
    BY <1>6 DEF A!Elsewhere, A!TypeOK, A!Statuses
  <2>. QED
    BY <1>6, <1>t, <2>1 DEF A!Elsewhere, A!TypeOK, A!TemporaryHasNoRefresh
<1>. QED
  BY <1>1, <1>2, <1>3, <1>4, <1>5, <1>6

\* Whatever is added costs an active account no token, for the account as it is just then.
LEMMA AddingKeeps ==
  ASSUME LoginInv, A!Exchanged \/ A!Stored, account.status = "active", account.refresh = "live"
  PROVE  account'.refresh = "live" /\ account'.status = "active"
<1>1. import.refresh \in BOOLEAN /\ import.mode \in A!Modes /\ "plain" \in A!Modes
  BY DEF LoginInv, A!TypeOK, A!Modes
<1>2. \/ account' = account
      \/ \E refresh \in BOOLEAN, mode \in A!Modes : account' = A!Upserted(refresh, mode)
  BY <1>1 DEF A!Exchanged, A!Stored
<1>3. ASSUME NEW refresh \in BOOLEAN, NEW mode \in A!Modes, account' = A!Upserted(refresh, mode)
      PROVE  account'.refresh = "live" /\ account'.status = "active"
  BY <1>3, UpsertedFacts DEF LoginInv
<1>. QED
  BY <1>2, <1>3

\* An account is added only by the login or the import that was begun for it and not cancelled, never at
\* the cost of a token the library lives on, and never without the panel saying so (account-manager.mjs
\* beginOAuthLogin, cancelOAuthLogin, #setOperation, clearOperationAfter; accounts.mjs upsertOAuthTokens).
THEOREM AccountsAreAddedSafely == MCSpec => AddedSafely
<1>1. MCInit => LoginInv
  <2>1. ASSUME A!Init PROVE A!TypeOK
    BY <2>1, LoginBounds DEF A!Init, A!TypeOK, A!Statuses, A!Idle, A!Modes, A!LoginConstants
  <2>. QED
    BY <2>1 DEF MCInit, A!Init, LoginInv, A!CodeIsOwn, A!TemporaryHasNoRefresh, ClearingFits,
       LoginIsNumbered
<1>2. LoginInv /\ [MCNext]_all =>
        /\ LoginInv'
        /\ [(A!Exchanged \/ A!Stored) /\ account.status = "active" /\ account.refresh = "live"
              => account'.refresh = "live" /\ account'.status = "active"]_account
        /\ [login.pc = "exchange" /\ controller = "aborted" => login'.pc # "save"]_(A!vars)
        /\ [operation = "loading" => operation' # "none"]_(A!vars)
  <2>1. CASE LoginInv /\ A!Next
    BY <2>1, BrowserKeepsLogin, ImportKeepsLogin, AddingKeeps DEF A!Next
  <2>2. CASE LoginInv /\ UNCHANGED loginVars
    BY <2>2 DEF loginVars, A!vars, LoginInv, A!TypeOK, A!CodeIsOwn, A!TemporaryHasNoRefresh, ClearingFits,
       LoginIsNumbered
  <2>. QED
    BY <2>1, <2>2 DEF MCNext, OfStore, OfLoop, OfLogin, all
<1>3. LoginInv => A!TypeOK /\ A!CodeIsOwn /\ A!TemporaryHasNoRefresh
  BY DEF LoginInv
<1>. QED
  BY <1>1, <1>2, <1>3, PTL DEF MCSpec, AddedSafely, A!AddingKeepsTokens, A!CancelledAddsNothing, A!OperationStands
================================================================================
