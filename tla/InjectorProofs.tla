----------------------------- MODULE InjectorProofs -----------------------------
(***************************************************************************)
(* What the injector's process promises beside its main loop: a safe       *)
(* restart cuts off no turn it has waited for, and a stopping injector     *)
(* reports no failure; each time of each day is attempted at most once per *)
(* account, for any accounts, times and length of the day, whatever is     *)
(* saved, claimed, refused by the disk, stopped, killed and started again; *)
(* and a wake-up request leaves nothing behind.                            *)
(***************************************************************************)
EXTENDS MCInjector, TLAPS

-----------------------------------------------------------------------------
(* The safe restart, for any turns, any number of observations and faults  *)

\* The places before the outcome of the wait is known.
WaitingPcs == {"begin", "create", "capture", "inspect", "sleep"}

\* What the gate looks up are the turns it has seen, and it waits while too few
\* observations in a row were stable.
GateFollows ==
  /\ seen = tracked
  /\ pc \in WaitingPcs => stable < Observations

\* A wait that ended by itself has found all turns saved: one that was stopped has
\* either failed or left the abort standing.
WaitEndedReady ==
  pc = "closing" /\ ~failing /\ ~aborted => \A t \in seen : turns[t] = "saved"

IInv == TypeOK /\ GateFollows /\ WaitEndedReady

\* The initial state satisfies the invariant.
LEMMA InitIInv == ASSUME RestartConstants PROVE Init => IInv
<1>. SUFFICES ASSUME Init PROVE IInv
  OBVIOUS
<1>1. 0 \in 0 .. Observations /\ 0 < Observations
  BY DEF RestartConstants
<1>2. turns \in [Turns -> {"new", "active", "ended", "saved"}]
  BY DEF Init
<1>. QED
  BY <1>1, <1>2 DEF Init, IInv, TypeOK, GateFollows, WaitEndedReady, WaitingPcs

-----------------------------------------------------------------------------
(* The steps around the pending request *)

\* A turn of Codex that is saved stays saved.
LEMMA TurnKeeps == ASSUME IInv, NEW t \in Turns, TurnGoesOn(t) PROVE IInv'
<1>. USE DEF IInv
<1>1. turns' \in [Turns -> {"new", "active", "ended", "saved"}]
  BY DEF TypeOK, TurnGoesOn
<1>2. \A u \in Turns : turns[u] = "saved" => turns'[u] = "saved"
  BY DEF TypeOK, TurnGoesOn
<1>3. TypeOK'
  BY <1>1 DEF TypeOK, TurnGoesOn, gate, bounds
<1>4. GateFollows'
  BY DEF GateFollows, TurnGoesOn, gate
<1>5. WaitEndedReady'
  BY <1>2 DEF WaitEndedReady, TypeOK, TurnGoesOn, gate
<1>. QED
  BY <1>3, <1>4, <1>5

\* A new request starts with an empty gate.
LEMMA RequestKeeps == ASSUME RestartConstants, IInv, Request PROVE IInv'
<1>1. 0 \in 0 .. Observations /\ 0 < Observations
  BY DEF RestartConstants
<1>. QED
  BY <1>1 DEF IInv, TypeOK, GateFollows, WaitEndedReady, WaitingPcs, Request

\* A force aborts the wait, whatever it was going to find.
LEMMA ForceKeeps == ASSUME IInv, ForceRestart PROVE IInv'
BY DEF IInv, TypeOK, GateFollows, WaitEndedReady, ForceRestart, gate, bounds

\* So does a stop of the injector.
LEMMA CloseKeeps == ASSUME IInv, Close PROVE IInv'
BY DEF IInv, TypeOK, GateFollows, WaitEndedReady, Close, gate, bounds

-----------------------------------------------------------------------------
(* The steps of the pending request *)

\* The wait begins, or has been stopped before.
LEMMA BeginKeeps == ASSUME IInv, Begin PROVE IInv'
BY DEF IInv, TypeOK, GateFollows, WaitEndedReady, WaitingPcs, Begin, Caught, gate, bounds

\* The inspector is there, or cannot be made.
LEMMA CreatedKeeps == ASSUME IInv, Created PROVE IInv'
BY DEF IInv, TypeOK, GateFollows, WaitEndedReady, WaitingPcs, Created, Caught, Fault, gate, bounds

\* Every turn found active is looked up from now on.
LEMMA CaptureKeeps == ASSUME IInv, Capture PROVE IInv'
BY DEF IInv, TypeOK, GateFollows, WaitEndedReady, WaitingPcs, Capture, bounds

\* An inspection ends the wait only with all turns saved.
LEMMA InspectedKeeps == ASSUME RestartConstants, IInv, Inspected PROVE IInv'
<1>. USE DEF IInv
<1>1. CASE Caught /\ UNCHANGED <<phase, signature, stable>>
  BY <1>1 DEF TypeOK, GateFollows, WaitEndedReady, WaitingPcs, Inspected, Caught
<1>2. CASE ~(Caught /\ UNCHANGED <<phase, signature, stable>>)
  <2>. DEFINE ready == capture = {} /\ \A t \in tracked : turns[t] = "saved"
              count == IF ~ready THEN 0 ELSE IF stable > 0 /\ signature = tracked THEN stable + 1 ELSE 1
  <2>1. /\ phase' = "waiting"
        /\ signature' = IF ready THEN tracked ELSE {}
        /\ stable' = count
        /\ pc' = IF count >= Observations THEN "closing" ELSE "sleep"
        /\ UNCHANGED <<turns, aborted, forced, inspector, tracked, capture, seen, closed, failing>>
    BY <1>2 DEF Inspected, Fault
  <2>2. pc = "inspect" /\ stable < Observations /\ stable \in Nat /\ Observations \in Nat /\ Observations > 0
    BY DEF Inspected, GateFollows, WaitingPcs, TypeOK, RestartConstants
  <2>3. count \in 0 .. Observations /\ (~ready => count = 0)
    BY <2>2
  <2>4. pc' = "closing" => ready
    BY <2>1, <2>2, <2>3
  <2>5. pc' = "sleep" => stable' < Observations
    BY <2>1, <2>2, <2>3
  <2>6. GateFollows' /\ WaitEndedReady'
    BY <2>1, <2>4, <2>5 DEF GateFollows, WaitEndedReady, WaitingPcs
  <2>7. TypeOK'
    BY <2>1, <2>3 DEF TypeOK
  <2>. QED
    BY <2>6, <2>7
<1>. QED
  BY <1>1, <1>2

\* After the pause the gate looks again, unless it was stopped.
LEMMA WakeKeeps == ASSUME IInv, Wake PROVE IInv'
BY DEF IInv, TypeOK, GateFollows, WaitEndedReady, WaitingPcs, Wake, Caught, gate, bounds

\* The outcome is decided once, when the inspector is closed.
LEMMA ClosedKeeps == ASSUME IInv, Closed PROVE IInv'
<1>1. PICK closeFails \in BOOLEAN :
        /\ inspector' = IF inspector = "open" THEN "closed" ELSE inspector
        /\ failing' = (failing \/ (~forced /\ (closeFails \/ aborted)))
  BY DEF Closed
<1>2. failing' \in BOOLEAN
  BY <1>1 DEF IInv, TypeOK
<1>3. inspector' \in {"none", "open", "closed"}
  BY <1>1 DEF IInv, TypeOK
<1>4. pc' \in {"reject", "restart"} /\ phase' \in {phase, "restarting"}
      /\ UNCHANGED <<turns, aborted, forced, gate, closed, requests>>
  BY DEF Closed
<1>. QED
  BY <1>2, <1>3, <1>4 DEF IInv, TypeOK, GateFollows, WaitEndedReady, WaitingPcs, gate

\* What follows the outcome leaves the gate alone.
LEMMA OutcomeKeeps == ASSUME IInv, Restarted \/ Reject \/ Finish PROVE IInv'
BY DEF IInv, TypeOK, GateFollows, WaitEndedReady, WaitingPcs, Restarted, Reject, Finish, Fault, gate, bounds

\* A step that changes nothing keeps the invariant.
LEMMA StutterKeeps == IInv /\ UNCHANGED vars => IInv'
BY DEF IInv, vars, gate, bounds, TypeOK, GateFollows, WaitEndedReady

\* The strengthened invariant is inductive.
THEOREM SafeRestartInvariant == ASSUME RestartConstants PROVE Spec => []IInv
<1>1. Init => IInv
  BY InitIInv
<1>2. IInv /\ [Next]_vars => IInv'
  BY TurnKeeps, RequestKeeps, ForceKeeps, CloseKeeps, BeginKeeps, CreatedKeeps, CaptureKeeps, InspectedKeeps,
     WakeKeeps, ClosedKeeps, OutcomeKeeps, StutterKeeps DEF Next, Pending
<1>. QED
  BY <1>1, <1>2, PTL DEF Spec

\* createSafeRestartCoordinator: a restart the user did not force comes when every turn the gate has
\* seen is in the history database, and every variable keeps its type.
THEOREM WaitedTurnsAreKept == ASSUME RestartConstants PROVE Spec => RestartsKeepTurns
<1>1. IInv => TypeOK
  BY DEF IInv
<1>2. IInv /\ [Next]_vars => [Closed /\ pc' = "restart" /\ ~forced => \A t \in seen : turns[t] = "saved"]_vars
  <2>1. ASSUME IInv, Closed, pc' = "restart", ~forced
        PROVE  \A t \in seen : turns[t] = "saved"
    <3>1. ~failing'
      BY <2>1 DEF Closed
    <3>2. PICK closeFails \in BOOLEAN : failing' = (failing \/ (~forced /\ (closeFails \/ aborted)))
      BY <2>1 DEF Closed
    <3>3. ~failing /\ ~aborted
      BY <2>1, <3>1, <3>2
    <3>. QED
      BY <2>1, <3>3 DEF IInv, WaitEndedReady, Closed
  <2>. QED
    BY <2>1
<1>. QED
  BY <1>1, <1>2, SafeRestartInvariant, PTL DEF Spec, RestartsKeepTurns, NoTrackedTurnLost

-----------------------------------------------------------------------------
(* The end of the injector *)

\* close() has aborted the request, and no force comes after it.
StopIsSilent == closed /\ pc # "idle" => aborted /\ ~forced

\* close: as long as no page action reaches force() after it, a stopping injector
\* reports no failure of the restart it cancels.
THEOREM StopReportsNothing ==
  ASSUME RestartConstants, ~LateActions PROVE Spec => NoFailureAfterClose
<1>1. Init => StopIsSilent
  BY DEF Init, StopIsSilent
<1>2. IInv /\ StopIsSilent /\ [Next]_vars => StopIsSilent'
  <2>1. ASSUME StopIsSilent, Request \/ ForceRestart \/ Close \/ \E t \in Turns : TurnGoesOn(t)
        PROVE  StopIsSilent'
    BY <2>1 DEF StopIsSilent, Request, ForceRestart, Close, TurnGoesOn
  <2>2. ASSUME StopIsSilent, Begin \/ Created \/ Capture \/ Inspected \/ Wake
        PROVE  StopIsSilent'
    BY <2>2 DEF StopIsSilent, Begin, Created, Capture, Inspected, Wake
  <2>3. ASSUME StopIsSilent, Closed \/ Restarted \/ Reject \/ Finish
        PROVE  StopIsSilent'
    BY <2>3 DEF StopIsSilent, Closed, Restarted, Reject, Finish
  <2>4. ASSUME StopIsSilent, UNCHANGED vars
        PROVE  StopIsSilent'
    BY <2>4 DEF StopIsSilent, vars
  <2>. QED
    BY <2>1, <2>2, <2>3, <2>4 DEF Next, Pending
<1>3. StopIsSilent /\ [Next]_vars => [closed => ~(phase # "failed" /\ phase' = "failed")]_vars
  <2>1. ASSUME StopIsSilent, closed, phase # "failed", phase' = "failed", Next
        PROVE  FALSE
    <3>1. ~Request /\ ~ForceRestart /\ ~Close /\ ~\E t \in Turns : TurnGoesOn(t)
      BY <2>1 DEF Request, ForceRestart, Close, TurnGoesOn
    <3>2. ~Begin /\ ~Created /\ ~Capture /\ ~Inspected /\ ~Wake /\ ~Closed /\ ~Restarted /\ ~Finish
      BY <2>1 DEF Begin, Created, Capture, Inspected, Wake, Closed, Restarted, Finish
    <3>3. ~Reject
      BY <2>1 DEF Reject, StopIsSilent
    <3>. QED
      BY <2>1, <3>1, <3>2, <3>3 DEF Next, Pending
  <2>. QED
    BY <2>1 DEF vars
<1>. QED
  BY <1>1, <1>2, <1>3, SafeRestartInvariant, PTL DEF Spec, NoFailureAfterClose
-----------------------------------------------------------------------------
(* The daily wake-up.  The library's record of an account covers every     *)
(* slot that was claimed: those of its day it names, and all of the days   *)
(* before (Covered).  The record never goes back, because a claim never    *)
(* speaks of a day before it.                                              *)

Job == [id : Ids, slot : W!Slot]
Queued == [id : Ids, slot : W!Slot \cup {NoSlot}]

\* The account's record knows of the slot, or is of a later day.
Covered(i, s) ==
  \/ s.day < wakeup[i].scheduledDate
  \/ s.day = wakeup[i].scheduledDate /\ s.time \in wakeup[i].scheduledTimes

\* The record speaks of no day to come.
RecordsArePast == \A i \in Ids : wakeup[i].scheduledDate <= W!DayOf(now)

\* What was attempted is covered.
TriedIsCovered == \A job \in tried : Covered(job.id, job.slot)

\* What a check has found is of one day and not yet claimed.
FoundIsNew ==
  /\ \A job \in found : ~Covered(job.id, job.slot) /\ job.slot.day <= W!DayOf(now)
  /\ \A job, other \in found : job.slot.day = other.slot.day

\* What is queued is covered, waits once, and was not attempted before its turn.
QueueIsClaimed ==
  /\ \A k \in 1 .. Len(queue) : queue[k].slot # NoSlot =>
       /\ Covered(queue[k].id, queue[k].slot)
       /\ k # 1 \/ step = "idle" => queue[k] \notin tried
  /\ \A k, l \in 1 .. Len(queue) : k # l /\ queue[k].slot # NoSlot => queue[k] # queue[l]

SlotInv == W!TypeOK /\ RecordsArePast /\ TriedIsCovered /\ FoundIsNew /\ QueueIsClaimed

-----------------------------------------------------------------------------
(* W!Days, records and queues *)

\* Days are numbers, and a later moment is of no earlier day.
LEMMA DaysGoOn ==
  ASSUME W!WakeupConstants
  PROVE  /\ \A n \in W!Clock : n \in Nat /\ W!DayOf(n) \in Nat /\ W!DayOf(n) \in W!Days
         /\ \A m, n \in W!Clock : m <= n => W!DayOf(m) <= W!DayOf(n)
         /\ W!Days \subseteq Nat /\ 0 \in W!Clock /\ W!DayOf(0) = 0
<1>1. DayLength \in Nat /\ DayLength > 0 /\ W!Clock \subseteq Nat /\ 0 \in W!Clock
  BY DEF W!WakeupConstants, W!Clock
<1>2. ASSUME NEW n \in Nat
      PROVE  /\ n \div DayLength \in Int
             /\ DayLength * (n \div DayLength) <= n
             /\ n < DayLength * (n \div DayLength) + DayLength
  <2>1. n = DayLength * (n \div DayLength) + (n % DayLength) /\ n % DayLength \in 0 .. DayLength - 1
    BY <1>1
  <2> QED BY <1>1, <2>1
<1>3. ASSUME NEW q \in Int, NEW r \in Int, q < r
      PROVE  DayLength * q + DayLength <= DayLength * r
  <2>1. q + 1 <= r
    BY <1>3
  <2>2. DayLength * (q + 1) <= DayLength * r
    BY <1>1, <2>1
  <2> QED BY <1>1, <2>2
<1>4. ASSUME NEW n \in Nat PROVE n \div DayLength \in Nat
  <2>1. n \div DayLength >= 0
    <3> SUFFICES ASSUME n \div DayLength < 0 PROVE FALSE
      BY <1>2
    <3>1. DayLength * (n \div DayLength) + DayLength <= DayLength * 0
      BY <1>2, <1>3
    <3> QED BY <1>1, <1>2, <3>1
  <2> QED BY <1>2, <2>1
<1>5. ASSUME NEW m \in Nat, NEW n \in Nat, m <= n PROVE m \div DayLength <= n \div DayLength
  <2> SUFFICES ASSUME n \div DayLength < m \div DayLength PROVE FALSE
    BY <1>2
  <2>1. DayLength * (n \div DayLength) + DayLength <= DayLength * (m \div DayLength)
    BY <1>2, <1>3
  <2> QED BY <1>1, <1>2, <1>5, <2>1
<1>6. 0 \div DayLength = 0
  BY <1>1
<1> QED BY <1>1, <1>4, <1>5, <1>6 DEF W!DayOf, W!Days

\* A claim covers its slot and uncovers none.
LEMMA ClaimCovers ==
  ASSUME W!WakeupConstants, W!TypeOK, NEW i \in Ids, NEW s \in W!Slot, ~Covered(i, s),
         wakeup' = [wakeup EXCEPT ![i] = W!Claimed(@, s)]
  PROVE  /\ wakeup' \in [Ids -> W!Settings] /\ wakeup'[i].scheduledDate = s.day
         /\ \A k \in Ids \ {i} : wakeup'[k] = wakeup[k]
         /\ Covered(i, s)'
         /\ \A k \in Ids, t \in W!Slot : Covered(k, t) => Covered(k, t)'
         /\ \A t \in W!Slot : ~Covered(i, t) /\ t # s /\ t.day = s.day => ~Covered(i, t)'
<1> DEFINE r == wakeup[i]
           times == (IF r.scheduledDate = s.day THEN r.scheduledTimes ELSE {}) \cup {s.time}
<1>1. W!Days \subseteq Nat
  BY DaysGoOn
<1>2. /\ r \in W!Settings /\ r.scheduledDate \in Nat /\ s.day \in Nat
      /\ r.scheduledTimes \subseteq Times /\ s.time \in Times
  BY <1>1 DEF W!TypeOK, W!Settings, W!Slot
<1>3. wakeup'[i] = [r EXCEPT !.scheduledDate = s.day, !.scheduledTimes = times]
  BY DEF W!TypeOK, W!Claimed
<1>4. wakeup'[i] \in W!Settings /\ wakeup'[i].scheduledDate = s.day /\ wakeup'[i].scheduledTimes = times
  <2>1. times \in SUBSET Times /\ s.day \in W!Days
    BY <1>2 DEF W!Slot
  <2> DEFINE q == [r EXCEPT !.scheduledDate = s.day, !.scheduledTimes = times]
  <2> HIDE DEF times, r
  <2>2. q \in W!Settings /\ q.scheduledDate = s.day /\ q.scheduledTimes = times
    BY <1>2, <2>1 DEF W!Settings
  <2> QED BY <1>3, <2>2
<1>5. \A k \in Ids \ {i} : wakeup'[k] = wakeup[k]
  BY DEF W!TypeOK
<1>6. wakeup' \in [Ids -> W!Settings]
  BY <1>4, <1>5 DEF W!TypeOK
<1>7. r.scheduledDate <= s.day
  BY <1>2 DEF Covered
<1>8. Covered(i, s)'
  BY <1>4 DEF Covered
<1>9. ASSUME NEW k \in Ids, NEW t \in W!Slot, Covered(k, t) PROVE Covered(k, t)'
  <2>1. t.day \in Nat
    BY <1>1 DEF W!Slot
  <2> QED BY <1>2, <1>4, <1>5, <1>7, <1>9, <2>1 DEF Covered
<1>10. ASSUME NEW t \in W!Slot, ~Covered(i, t), t # s, t.day = s.day PROVE ~Covered(i, t)'
  <2>1. t = [day |-> t.day, time |-> t.time] /\ s = [day |-> s.day, time |-> s.time]
    BY DEF W!Slot
  <2>2. t.time # s.time
    BY <1>10, <2>1
  <2> QED BY <1>2, <1>4, <1>10, <2>2 DEF Covered
<1> QED BY <1>4, <1>5, <1>6, <1>8, <1>9, <1>10

\* What taking the first job off the queue, and adding one, does to it.
LEMMA QueueFacts ==
  ASSUME NEW Entry, NEW q \in Seq(Entry)
  PROVE  /\ q # <<>> => /\ Tail(q) \in Seq(Entry) /\ Head(q) \in Entry /\ Head(q) = q[1] /\ 1 \in 1 .. Len(q)
                        /\ Len(Tail(q)) = Len(q) - 1
                        /\ \A k \in 1 .. Len(Tail(q)) : Tail(q)[k] = q[k + 1] /\ k + 1 \in 1 .. Len(q) /\ k + 1 # 1
         /\ \A x \in Entry : /\ Append(q, x) \in Seq(Entry) /\ Len(Append(q, x)) = Len(q) + 1
                         /\ \A k \in 1 .. Len(q) : Append(q, x)[k] = q[k]
                         /\ Append(q, x)[Len(q) + 1] = x
OBVIOUS

\* What is queued is a job of an account.
LEMMA QueuedFacts ==
  ASSUME queue \in Seq(Queued)
  PROVE  \A k \in 1 .. Len(queue) :
           queue[k] \in Queued /\ (queue[k].slot # NoSlot => queue[k].id \in Ids /\ queue[k].slot \in W!Slot)
<1> SUFFICES ASSUME NEW k \in 1 .. Len(queue)
             PROVE  queue[k] \in Queued /\ (queue[k].slot # NoSlot => queue[k].id \in Ids /\ queue[k].slot \in W!Slot)
  OBVIOUS
<1>1. queue[k] \in Queued
  OBVIOUS
<1> QED BY <1>1 DEF Queued

-----------------------------------------------------------------------------
(* The steps *)

\* The records say what they said.
RecordsStay ==
  \A i \in Ids : /\ wakeup'[i].scheduledDate = wakeup[i].scheduledDate
                 /\ wakeup'[i].scheduledTimes = wakeup[i].scheduledTimes

\* A step of the clock, the user or the process that attempts nothing.
LEMMA QuietKeeps ==
  ASSUME W!WakeupConstants, SlotInv, W!TypeOK', RecordsStay,
         W!DayOf(now) <= W!DayOf(now'), W!DayOf(now) \in Nat, W!DayOf(now') \in Nat,
         found' \subseteq found, tried' = tried, UNCHANGED <<queue, step>> \/ queue' = <<>>
  PROVE  SlotInv'
<1>1. \A i \in Ids, s \in W!Slot : Covered(i, s)' <=> Covered(i, s)
  BY DEF RecordsStay, Covered
<1>2. /\ found \subseteq Job /\ tried \subseteq Job /\ queue \in Seq(Queued) /\ wakeup \in [Ids -> W!Settings]
      /\ W!Days \subseteq Nat
  BY DaysGoOn DEF SlotInv, W!TypeOK, Job, Queued
<1>3. RecordsArePast'
  <2>1. \A i \in Ids : wakeup[i].scheduledDate \in Nat
    BY <1>2 DEF W!Settings
  <2> QED BY <2>1 DEF SlotInv, RecordsArePast, RecordsStay
<1>4. TriedIsCovered'
  BY <1>1, <1>2 DEF SlotInv, TriedIsCovered, Job
<1>5. FoundIsNew'
  <2>1. \A job \in found : job.id \in Ids /\ job.slot \in W!Slot /\ job.slot.day \in Nat
    BY <1>2 DEF Job, W!Slot
  <2> QED BY <1>1, <2>1 DEF SlotInv, FoundIsNew
<1>6. QueueIsClaimed'
  <2>1. CASE queue' = <<>>
    BY <2>1 DEF QueueIsClaimed
  <2>2. CASE UNCHANGED <<queue, step>>
    <3>1. \A k \in 1 .. Len(queue) : queue[k].slot # NoSlot => queue[k].id \in Ids /\ queue[k].slot \in W!Slot
      BY <1>2, QueuedFacts
    <3> QED BY <1>1, <2>2, <3>1 DEF SlotInv, QueueIsClaimed
  <2> QED BY <2>1, <2>2
<1> QED BY <1>3, <1>4, <1>5, <1>6 DEF SlotInv

\* The clock goes on, or back within the day; accounts change their status; settings are saved.
LEMMA AroundKeeps ==
  ASSUME W!WakeupConstants, SlotInv,
         \/ W!Advance \/ W!SetBack
         \/ \E i \in Ids : W!StatusChanges(i)
         \/ \E i \in Ids, e \in BOOLEAN, ts \in SUBSET Times : W!Save(i, e, ts)
  PROVE  SlotInv'
<1>0. /\ now \in W!Clock /\ W!DayOf(now) \in Nat /\ W!Clock \subseteq Nat /\ wakeup \in [Ids -> W!Settings]
      /\ \A n \in W!Clock : n \in Nat /\ W!DayOf(n) \in Nat /\ (now <= n => W!DayOf(now) <= W!DayOf(n))
  BY DaysGoOn DEF SlotInv, W!TypeOK
<1>1. CASE W!Advance \/ W!SetBack
  <2>1. now' \in W!Clock /\ W!DayOf(now) <= W!DayOf(now')
    <3>1. MaxClock \in Nat /\ now \in Nat /\ now <= MaxClock
      BY <1>0 DEF W!WakeupConstants, W!Clock
    <3>2. CASE W!Advance
      <4>1. PICK n \in now + 1 .. MaxClock : now' = n
        BY <3>2 DEF W!Advance
      <4>2. n \in W!Clock /\ now <= n
        BY <3>1 DEF W!Clock
      <4> QED BY <1>0, <4>1, <4>2
    <3>3. CASE W!SetBack
      <4>1. PICK n \in 0 .. now : W!DayOf(n) = W!DayOf(now) /\ now' = n
        BY <3>3 DEF W!SetBack
      <4>2. n \in W!Clock
        BY <3>1 DEF W!Clock
      <4> QED BY <1>0, <4>1, <4>2
    <3> QED BY <1>1, <3>2, <3>3
  <2>2. W!TypeOK' /\ RecordsStay
    BY <1>1, <2>1 DEF SlotInv, W!TypeOK, W!Advance, W!SetBack, W!stored, RecordsStay
  <2> QED BY <1>0, <1>1, <2>1, <2>2, QuietKeeps DEF W!Advance, W!SetBack
<1>2. ASSUME NEW i \in Ids, W!StatusChanges(i) PROVE SlotInv'
  <2>1. W!TypeOK' /\ RecordsStay
    BY <1>2 DEF SlotInv, W!TypeOK, W!StatusChanges, RecordsStay
  <2> QED BY <1>0, <1>2, <2>1, QuietKeeps DEF W!StatusChanges
<1>3. ASSUME NEW i \in Ids, NEW e \in BOOLEAN, NEW ts \in SUBSET Times, W!Save(i, e, ts) PROVE SlotInv'
  <2>1. wakeup' = [wakeup EXCEPT ![i].enabled = e, ![i].times = ts, ![i].updatedAt = now]
    BY <1>3 DEF W!Save
  <2>2. wakeup' \in [Ids -> W!Settings] /\ RecordsStay
    <3>0. wakeup \in [Ids -> W!Settings] /\ now \in W!Clock
      BY <1>0
    <3>1. wakeup[i] \in W!Settings
      BY <3>0
    <3>2. [wakeup[i] EXCEPT !.enabled = e, !.times = ts, !.updatedAt = now] \in W!Settings
      BY <1>3, <3>0, <3>1 DEF W!Settings
    <3>3. wakeup' = [wakeup EXCEPT ![i] = [wakeup[i] EXCEPT !.enabled = e, !.times = ts, !.updatedAt = now]]
      BY <2>1, <3>0
    <3>4. wakeup' \in [Ids -> W!Settings]
      BY <3>0, <3>2, <3>3
    <3>5. RecordsStay
      BY <3>0, <3>1, <3>3 DEF W!Settings, RecordsStay
    <3> QED BY <3>4, <3>5
  <2>3. W!TypeOK'
    BY <1>3, <2>2 DEF SlotInv, W!TypeOK, W!Save
  <2>4. found' = found /\ tried' = tried /\ UNCHANGED <<queue, step>> /\ now' = now
    BY <1>3 DEF W!Save
  <2> QED BY <1>0, <2>2, <2>3, <2>4, QuietKeeps
<1> QED BY <1>1, <1>2, <1>3

\* A check finds slots of today that no record covers.
LEMMA CheckKeeps ==
  ASSUME W!WakeupConstants, SlotInv, W!Check
  PROVE  SlotInv'
<1>0. /\ now \in W!Clock /\ W!DayOf(now) \in Nat /\ wakeup \in [Ids -> W!Settings] /\ W!Days \subseteq Nat
      /\ UNCHANGED <<now, wakeup, active, process, queue, step, unsaved, tried>> /\ last' = now
  BY DaysGoOn DEF SlotInv, W!TypeOK, W!Check, W!stored
<1>1. ASSUME NEW job \in found'
      PROVE  job \in Job /\ job.slot.day = W!DayOf(now) /\ ~Covered(job.id, job.slot)
  <2>1. /\ job \in {[id |-> i, slot |-> s] : i \in Ids, s \in W!Slot}
        /\ job \in UNION {{[id |-> i, slot |-> s] : s \in W!DueSlots(i)} : i \in Ids}
    BY <1>1 DEF W!Check
  <2>2. PICK i \in Ids : job \in {[id |-> i, slot |-> s] : s \in W!DueSlots(i)}
    BY <2>1
  <2>3. PICK s \in W!DueSlots(i) : job = [id |-> i, slot |-> s]
    BY <2>2
  <2>4. /\ s \in W!Slot /\ s.day = W!DayOf(now)
        /\ ~(wakeup[i].scheduledDate = s.day /\ s.time \in wakeup[i].scheduledTimes)
    BY <2>3 DEF W!DueSlots
  <2>5. wakeup[i].scheduledDate \in Nat /\ wakeup[i].scheduledDate <= W!DayOf(now)
    BY <1>0 DEF SlotInv, RecordsArePast, W!Settings
  <2>6. ~Covered(i, s)
    BY <1>0, <2>4, <2>5 DEF Covered
  <2> QED BY <2>3, <2>4, <2>6 DEF Job
<1>2. W!TypeOK'
  BY <1>0, <1>1 DEF SlotInv, W!TypeOK, Job
<1>3. FoundIsNew'
  BY <1>0, <1>1 DEF FoundIsNew, Covered
<1>4. RecordsArePast' /\ TriedIsCovered' /\ QueueIsClaimed'
  BY <1>0 DEF SlotInv, RecordsArePast, TriedIsCovered, QueueIsClaimed, Covered
<1> QED BY <1>2, <1>3, <1>4 DEF SlotInv

\* A queue that one job may have joined is one of claimed slots, if that job's slot is claimed and new.
LEMMA TriggerKeeps ==
  ASSUME W!WakeupConstants, SlotInv, NEW job \in Queued, queue' = W!Triggered(job.id, job.slot), UNCHANGED <<step,
                                                                                                             tried>>,
         \A i \in Ids, s \in W!Slot : Covered(i, s) => Covered(i, s)',
         job.slot # NoSlot => Covered(job.id, job.slot)' /\ ~Covered(job.id, job.slot) /\ job \in Job
  PROVE  queue' \in Seq(Queued) /\ (step # "idle" => queue' # <<>>) /\ QueueIsClaimed'
<1>0. /\ queue \in Seq(Queued) /\ tried \subseteq Job /\ (step # "idle" => queue # <<>>)
  BY DEF SlotInv, W!TypeOK, Queued, Job
<1>1. \A k \in 1 .. Len(queue) :
        queue[k] \in Queued /\ (queue[k].slot # NoSlot => queue[k].id \in Ids /\ queue[k].slot \in W!Slot)
  BY <1>0, QueuedFacts
<1>2. CASE queue' = queue
  BY <1>0, <1>1, <1>2 DEF SlotInv, QueueIsClaimed
<1>3. CASE queue' = Append(queue, job)
  <2>1. /\ queue' \in Seq(Queued) /\ Len(queue') = Len(queue) + 1 /\ Len(queue) \in Nat
        /\ \A k \in 1 .. Len(queue) : queue'[k] = queue[k]
        /\ queue'[Len(queue) + 1] = job
    BY <1>0, <1>3, QueueFacts
  <2>2. \A k \in 1 .. Len(queue') : k \in 1 .. Len(queue) \/ k = Len(queue) + 1
    BY <2>1
  <2>3. job.slot # NoSlot => job \notin tried /\ \A k \in 1 .. Len(queue) : queue[k] # job
    BY DEF SlotInv, TriedIsCovered, QueueIsClaimed
  <2>4. ASSUME NEW k \in 1 .. Len(queue'), NEW other, other = queue'[k], other.slot # NoSlot
        PROVE  Covered(other.id, other.slot)' /\ (k # 1 \/ step' = "idle" => other \notin tried')
    <3>1. CASE k \in 1 .. Len(queue)
      <4>1. other = queue[k] /\ other.id \in Ids /\ other.slot \in W!Slot
        BY <1>1, <2>1, <2>4, <3>1
      <4>2. Covered(other.id, other.slot) /\ (k # 1 \/ step = "idle" => other \notin tried)
        BY <2>4, <3>1, <4>1 DEF SlotInv, QueueIsClaimed
      <4> QED BY <4>1, <4>2
    <3>2. CASE k = Len(queue) + 1
      BY <2>1, <2>3, <2>4, <3>2
    <3> QED BY <2>2, <3>1, <3>2
  <2>5. ASSUME NEW k \in 1 .. Len(queue'), NEW l \in 1 .. Len(queue'), k # l, queue'[k].slot # NoSlot
        PROVE  queue'[k] # queue'[l]
    <3>1. CASE k \in 1 .. Len(queue) /\ l \in 1 .. Len(queue)
      BY <2>1, <2>5, <3>1 DEF SlotInv, QueueIsClaimed
    <3>2. CASE k = Len(queue) + 1 /\ l \in 1 .. Len(queue)
      BY <2>1, <2>3, <2>5, <3>2
    <3>3. CASE l = Len(queue) + 1 /\ k \in 1 .. Len(queue)
      BY <2>1, <2>3, <2>5, <3>3
    <3> QED BY <2>2, <2>5, <3>1, <3>2, <3>3
  <2>6. queue' # <<>>
    BY <2>1
  <2>7. QueueIsClaimed'
    BY <2>4, <2>5 DEF QueueIsClaimed
  <2> QED BY <2>1, <2>6, <2>7
<1>4. job = [id |-> job.id, slot |-> job.slot]
  BY DEF Queued
<1> QED BY <1>2, <1>3, <1>4 DEF W!Triggered

\* A slot is claimed, and its request queued unless the account is busy or not active; or it is not written.
LEMMA ClaimKeeps ==
  ASSUME W!WakeupConstants, SlotInv, NEW job \in found, W!Claim(job)
  PROVE  SlotInv'
<1>0. /\ job \in Job /\ job.id \in Ids /\ job.slot \in W!Slot /\ ~Covered(job.id, job.slot)
      /\ found \subseteq Job /\ tried \subseteq Job /\ Job \subseteq Queued
      /\ job = [id |-> job.id, slot |-> job.slot]
      /\ found' = found \ {job} /\ UNCHANGED <<now, active, process, last, step, unsaved, tried>>
      /\ W!DayOf(now) \in Nat
  BY DaysGoOn DEF SlotInv, W!TypeOK, FoundIsNew, W!Claim, Job, Queued
<1>1. CASE UNCHANGED <<wakeup, queue>>
  <2>1. W!TypeOK' /\ RecordsStay
    BY <1>0, <1>1 DEF SlotInv, W!TypeOK, RecordsStay
  <2> QED BY <1>0, <1>1, <2>1, QuietKeeps
<1>2. CASE wakeup' = [wakeup EXCEPT ![job.id] = W!Claimed(@, job.slot)] /\ queue' = W!Triggered(job.id, job.slot)
  <2>0. /\ wakeup' \in [Ids -> W!Settings] /\ wakeup'[job.id].scheduledDate = job.slot.day
        /\ \A k \in Ids \ {job.id} : wakeup'[k] = wakeup[k]
        /\ Covered(job.id, job.slot)'
        /\ \A k \in Ids, t \in W!Slot : Covered(k, t) => Covered(k, t)'
        /\ \A t \in W!Slot : ~Covered(job.id, t) /\ t # job.slot /\ t.day = job.slot.day => ~Covered(job.id, t)'
    BY <1>0, <1>2, ClaimCovers DEF SlotInv
  <2>1. queue' \in Seq(Queued) /\ (step # "idle" => queue' # <<>>) /\ QueueIsClaimed'
    BY <1>0, <1>2, <2>0, TriggerKeeps
  <2>2. W!TypeOK'
    BY <1>0, <2>0, <2>1 DEF SlotInv, W!TypeOK, Queued
  <2>3. RecordsArePast'
    BY <1>0, <2>0 DEF SlotInv, RecordsArePast, FoundIsNew
  <2>4. TriedIsCovered'
    BY <1>0, <2>0 DEF SlotInv, TriedIsCovered, Job
  <2>5. ASSUME NEW other \in found'
        PROVE  ~Covered(other.id, other.slot)' /\ other.slot.day <= W!DayOf(now')
    <3>1. other \in found /\ other # job /\ other \in Job /\ other.slot \in W!Slot /\ other.id \in Ids
      BY <1>0, <2>5 DEF Job
    <3>2. ~Covered(other.id, other.slot) /\ other.slot.day <= W!DayOf(now') /\ other.slot.day = job.slot.day
      BY <1>0, <3>1 DEF SlotInv, FoundIsNew
    <3>3. CASE other.id = job.id
      <4>1. other.slot # job.slot
        BY <1>0, <3>1, <3>3 DEF Job
      <4> QED BY <2>0, <3>1, <3>2, <3>3, <4>1
    <3>4. CASE other.id # job.id
      BY <2>0, <3>1, <3>2, <3>4 DEF Covered
    <3> QED BY <3>2, <3>3, <3>4
  <2>6. FoundIsNew'
    BY <1>0, <2>5 DEF SlotInv, FoundIsNew
  <2> QED BY <2>1, <2>2, <2>3, <2>4, <2>6 DEF SlotInv
<1> QED BY <1>1, <1>2 DEF W!Claim

\* "Wake up now" queues a request that is nobody's slot.
LEMMA TriggerByHandKeeps ==
  ASSUME W!WakeupConstants, SlotInv, NEW i \in Ids, W!TriggerByHand(i)
  PROVE  SlotInv'
<1> DEFINE job == [id |-> i, slot |-> NoSlot]
<1>1. /\ job \in Queued /\ job.id = i /\ job.slot = NoSlot /\ queue' = W!Triggered(job.id, job.slot)
      /\ UNCHANGED <<now, wakeup, active, process, last, found, step, unsaved, tried>>
  BY DEF W!TriggerByHand, W!stored, Queued
<1> HIDE DEF job
<1>2. \A k \in Ids, s \in W!Slot : Covered(k, s) => Covered(k, s)'
  BY <1>1 DEF Covered
<1>3. queue' \in Seq(Queued) /\ (step # "idle" => queue' # <<>>) /\ QueueIsClaimed'
  BY <1>1, <1>2, TriggerKeeps
<1>4. W!TypeOK'
  BY <1>1, <1>3 DEF SlotInv, W!TypeOK, Queued
<1>5. RecordsArePast' /\ TriedIsCovered' /\ FoundIsNew'
  BY <1>1 DEF SlotInv, RecordsArePast, TriedIsCovered, FoundIsNew, Covered
<1> QED BY <1>3, <1>4, <1>5 DEF SlotInv

\* The running job's result is written or not; a job that ends leaves the queue.
LEMMA RunGoesOn ==
  ASSUME W!WakeupConstants, SlotInv, W!TypeOK', RecordsStay, queue # <<>>, UNCHANGED <<now, found>>,
         \/ step' = "idle" /\ queue' = Tail(queue) /\ tried' = tried
         \/ /\ step' # "idle" /\ queue' = queue /\ tried' \subseteq tried \cup {queue[1]}
            /\ queue[1].slot = NoSlot => tried' = tried
  PROVE  SlotInv'
<1>0. /\ queue \in Seq(Queued) /\ tried \subseteq Job /\ found \subseteq Job
      /\ wakeup \in [Ids -> W!Settings] /\ W!Days \subseteq Nat
  BY DaysGoOn DEF SlotInv, W!TypeOK, Queued, Job
<1>1. /\ \A i \in Ids, s \in W!Slot : Covered(i, s)' <=> Covered(i, s)
      /\ \A k \in 1 .. Len(queue) : queue[k].slot # NoSlot => queue[k].id \in Ids /\ queue[k].slot \in W!Slot
      /\ 1 \in 1 .. Len(queue)
      /\ Len(Tail(queue)) = Len(queue) - 1
      /\ \A k \in 1 .. Len(Tail(queue)) : Tail(queue)[k] = queue[k + 1] /\ k + 1 \in 1 .. Len(queue) /\ k + 1 # 1
  <2>1. \A i \in Ids, s \in W!Slot : Covered(i, s)' <=> Covered(i, s)
    BY DEF RecordsStay, Covered
  <2> QED BY <1>0, <2>1, QueueFacts, QueuedFacts
<1>2. RecordsArePast'
  BY DEF SlotInv, RecordsArePast, RecordsStay
<1>3. TriedIsCovered'
  <2>1. ASSUME NEW job \in tried' PROVE Covered(job.id, job.slot)'
    <3>1. CASE job \in tried
      BY <1>0, <1>1, <3>1 DEF SlotInv, TriedIsCovered, Job
    <3>2. CASE job \notin tried
      BY <1>1, <2>1, <3>2 DEF SlotInv, QueueIsClaimed
    <3> QED BY <3>1, <3>2
  <2> QED BY <2>1 DEF TriedIsCovered
<1>4. FoundIsNew'
  BY <1>0, <1>1 DEF SlotInv, FoundIsNew, Job
<1>5. QueueIsClaimed'
  <2>1. CASE step' = "idle" /\ queue' = Tail(queue) /\ tried' = tried
    <3>1. ASSUME NEW k \in 1 .. Len(queue'), NEW other, other = queue'[k], other.slot # NoSlot
          PROVE  Covered(other.id, other.slot)' /\ other \notin tried'
      <4>1. other = queue[k + 1] /\ k + 1 \in 1 .. Len(queue) /\ k + 1 # 1
        BY <1>1, <2>1, <3>1
      <4>2. Covered(other.id, other.slot) /\ other \notin tried /\ other.id \in Ids /\ other.slot \in W!Slot
        BY <1>1, <3>1, <4>1 DEF SlotInv, QueueIsClaimed
      <4> QED BY <1>1, <2>1, <4>2
    <3>2. ASSUME NEW k \in 1 .. Len(queue'), NEW l \in 1 .. Len(queue'), k # l, queue'[k].slot # NoSlot
          PROVE  queue'[k] # queue'[l]
      <4>1. k + 1 # l + 1
        BY <3>2
      <4> QED BY <1>1, <2>1, <3>2, <4>1 DEF SlotInv, QueueIsClaimed
    <3> QED BY <3>1, <3>2 DEF QueueIsClaimed
  <2>2. CASE step' # "idle" /\ queue' = queue /\ tried' \subseteq tried \cup {queue[1]}
    <3>1. ASSUME NEW k \in 1 .. Len(queue), queue[k].slot # NoSlot
          PROVE  Covered(queue[k].id, queue[k].slot)' /\ (k # 1 => queue[k] \notin tried')
      BY <1>1, <2>2, <3>1 DEF SlotInv, QueueIsClaimed
    <3> QED BY <2>2, <3>1 DEF SlotInv, QueueIsClaimed
  <2> QED BY <2>1, <2>2
<1> QED BY <1>2, <1>3, <1>4, <1>5 DEF SlotInv

\* The result of a run changes no record of slots.
LEMMA ResultTypes ==
  ASSUME W!WakeupConstants, W!TypeOK, queue # <<>>, NEW state \in {"running", "success", "error"},
         NEW next \in {"idle", "sending", "refreshing"}, W!Recorded(state, next) \/ W!NotRecorded
  PROVE  /\ wakeup' \in [Ids -> W!Settings] /\ RecordsStay /\ unsaved' \subseteq Ids
         /\ step' \in {"idle", "sending", "refreshing"}
         /\ queue' \in Seq([id : Ids, slot : W!Slot \cup {NoSlot}]) /\ (step' # "idle" => queue' # <<>>)
         /\ IF step' = "idle" THEN queue' = Tail(queue) ELSE queue' = queue
<1>0. /\ queue \in Seq([id : Ids, slot : W!Slot \cup {NoSlot}])
      /\ wakeup \in [Ids -> W!Settings] /\ unsaved \subseteq Ids
      /\ W!job1 \in [id : Ids, slot : W!Slot \cup {NoSlot}] /\ W!job1.id \in Ids
      /\ Tail(queue) \in Seq([id : Ids, slot : W!Slot \cup {NoSlot}])
  <2>1. queue \in Seq(Queued) /\ wakeup \in [Ids -> W!Settings] /\ unsaved \subseteq Ids
    BY DEF W!TypeOK, Queued
  <2>2. W!job1 \in Queued /\ Tail(queue) \in Seq(Queued)
    BY <2>1, QueueFacts DEF W!job1
  <2> QED BY <2>1, <2>2 DEF Queued
<1>1. CASE W!Recorded(state, next)
  <2>1. wakeup' = [wakeup EXCEPT ![W!job1.id].lastRun = state]
    BY <1>1 DEF W!Recorded
  <2>2. wakeup' \in [Ids -> W!Settings] /\ RecordsStay
    BY <1>0, <2>1 DEF W!Settings, RecordsStay
  <2> QED BY <1>0, <1>1, <2>2 DEF W!Recorded
<1>2. CASE W!NotRecorded
  BY <1>0, <1>2 DEF W!NotRecorded, RecordsStay
<1> QED BY <1>1, <1>2

\* The queue's next job begins, or is cancelled; a running one goes on or ends.
LEMMA RunKeeps ==
  ASSUME W!WakeupConstants, SlotInv, W!Run
  PROVE  SlotInv'
<1>0. /\ queue \in Seq(Queued) /\ found \subseteq Job /\ tried \subseteq Job /\ wakeup \in [Ids -> W!Settings]
      /\ step \in {"idle", "sending", "refreshing"} /\ queue # <<>>
      /\ UNCHANGED <<now, active, process, last, found>>
  BY DEF SlotInv, W!TypeOK, Queued, Job, W!Run, W!RunBegin, W!RunAnswered, W!RunRefreshed
<1>1. queue[1] = W!job1 /\ W!job1 \in Queued /\ Tail(queue) \in Seq(Queued)
  BY <1>0, QueueFacts DEF W!job1
<1>2. W!job1 = [id |-> W!job1.id, slot |-> W!job1.slot]
  BY <1>1 DEF Queued
<1>3. CASE W!RunBegin
  <2>1. CASE queue' = Tail(queue) /\ UNCHANGED <<wakeup, step, unsaved, tried>>
    <3>1. step = "idle"
      BY <1>3 DEF W!RunBegin
    <3>2. W!TypeOK' /\ RecordsStay
      BY <1>0, <1>1, <2>1, <3>1 DEF SlotInv, W!TypeOK, Queued, RecordsStay
    <3> QED BY <1>0, <2>1, <3>1, <3>2, RunGoesOn
  <2>2. CASE W!Recorded("running", "sending") /\ tried' = IF W!job1.slot = NoSlot THEN tried
                                                        ELSE tried \cup {[id |-> W!job1.id, slot |-> W!job1.slot]}
    <3>1. /\ wakeup' \in [Ids -> W!Settings] /\ RecordsStay /\ unsaved' \subseteq Ids
          /\ step' = "sending" /\ queue' = queue
      BY <1>0, <2>2, ResultTypes DEF SlotInv, W!Recorded
    <3>2. tried' \subseteq tried \cup {W!job1} /\ tried' \subseteq Job /\ (W!job1.slot = NoSlot => tried' = tried)
      BY <1>0, <1>1, <1>2, <2>2 DEF Queued, Job
    <3>3. W!TypeOK'
      BY <1>0, <3>1, <3>2 DEF SlotInv, W!TypeOK, Job
    <3> QED BY <1>0, <1>1, <3>1, <3>2, <3>3, RunGoesOn
  <2>3. CASE W!NotRecorded /\ UNCHANGED tried
    <3>1. /\ wakeup' = wakeup /\ RecordsStay /\ unsaved' \subseteq Ids /\ step' = "idle" /\ queue' = Tail(queue)
      BY <1>0, <1>1, <2>3 DEF W!NotRecorded, RecordsStay, SlotInv, W!TypeOK, Queued
    <3>2. W!TypeOK'
      BY <1>0, <1>1, <2>3, <3>1 DEF SlotInv, W!TypeOK, Queued
    <3> QED BY <1>0, <2>3, <3>1, <3>2, RunGoesOn
  <2> QED BY <1>3, <2>1, <2>2, <2>3 DEF W!RunBegin
<1>4. CASE W!RunAnswered \/ W!RunRefreshed
  <2>1. PICK state \in {"running", "success", "error"}, next \in {"idle", "sending", "refreshing"} :
          W!Recorded(state, next) \/ W!NotRecorded
    BY <1>4 DEF W!RunAnswered, W!RunRefreshed
  <2>2. tried' = tried
    BY <1>4 DEF W!RunAnswered, W!RunRefreshed
  <2>3. /\ wakeup' \in [Ids -> W!Settings] /\ RecordsStay /\ unsaved' \subseteq Ids
        /\ step' \in {"idle", "sending", "refreshing"}
        /\ queue' \in Seq([id : Ids, slot : W!Slot \cup {NoSlot}]) /\ (step' # "idle" => queue' # <<>>)
        /\ IF step' = "idle" THEN queue' = Tail(queue) ELSE queue' = queue
    BY <1>0, <2>1, ResultTypes DEF SlotInv
  <2>4. W!TypeOK'
    BY <1>0, <2>2, <2>3 DEF SlotInv, W!TypeOK
  <2> QED BY <1>0, <2>2, <2>3, <2>4, RunGoesOn
<1> QED BY <1>3, <1>4 DEF W!Run

\* The process is asked to stop, ends or starts.
LEMMA ProcessKeeps ==
  ASSUME W!WakeupConstants, SlotInv, W!Close \/ W!Exit \/ W!Start
  PROVE  SlotInv'
<1>0. now \in W!Clock /\ W!DayOf(now) \in Nat /\ wakeup \in [Ids -> W!Settings]
  BY DaysGoOn DEF SlotInv, W!TypeOK
<1>1. CASE W!Close
  <2>1. W!TypeOK' /\ RecordsStay
    BY <1>1 DEF SlotInv, W!TypeOK, W!Close, W!stored, RecordsStay
  <2> QED BY <1>0, <1>1, <2>1, QuietKeeps DEF W!Close
<1>2. CASE W!Exit
  <2>1. W!TypeOK' /\ RecordsStay
    BY <1>2 DEF SlotInv, W!TypeOK, W!Exit, W!stored, RecordsStay
  <2> QED BY <1>0, <1>2, <2>1, QuietKeeps DEF W!Exit
<1>3. CASE W!Start
  <2>1. PICK ids \in SUBSET Ids : wakeup' = W!Interrupted(ids)
    BY <1>3 DEF W!Start
  <2>2. ASSUME NEW i \in Ids
        PROVE  /\ wakeup'[i] \in W!Settings /\ wakeup'[i].scheduledDate = wakeup[i].scheduledDate
               /\ wakeup'[i].scheduledTimes = wakeup[i].scheduledTimes
    BY <1>0, <2>1 DEF W!Interrupted, W!Settings
  <2>3. wakeup' \in [Ids -> W!Settings] /\ RecordsStay
    BY <2>1, <2>2 DEF W!Interrupted, RecordsStay
  <2>4. W!TypeOK'
    BY <1>0, <1>3, <2>3 DEF SlotInv, W!TypeOK, W!Start
  <2> QED BY <1>0, <1>3, <2>3, <2>4, QuietKeeps DEF W!Start
<1> QED BY <1>1, <1>2, <1>3

-----------------------------------------------------------------------------
(* The theorems *)

\* Initially nothing is recorded, found or queued.
LEMMA InitSlotInv ==
  ASSUME W!WakeupConstants, W!Init
  PROVE  SlotInv
<1>1. 0 \in W!Clock /\ W!DayOf(0) = 0 /\ 0 \in W!Days
  BY DaysGoOn
<1>2. W!TypeOK
  BY <1>1 DEF W!Init, W!TypeOK, W!Settings
<1>3. RecordsArePast /\ TriedIsCovered /\ FoundIsNew /\ QueueIsClaimed
  BY <1>1 DEF W!Init, RecordsArePast, TriedIsCovered, FoundIsNew, QueueIsClaimed
<1> QED BY <1>2, <1>3 DEF SlotInv

\* The records, what was found, queued and attempted fit together: the inductive invariant.
THEOREM WakeupInvariant ==
  ASSUME W!WakeupConstants
  PROVE  W!Spec => []SlotInv
<1>1. W!Init => SlotInv
  BY InitSlotInv
<1>2. SlotInv /\ [W!Next]_(W!vars) => SlotInv'
  <2> SUFFICES ASSUME SlotInv, [W!Next]_(W!vars) PROVE SlotInv'
    OBVIOUS
  <2>1. CASE UNCHANGED W!vars
    BY <2>1 DEF W!vars, W!stored, SlotInv, W!TypeOK, RecordsArePast, TriedIsCovered, FoundIsNew, QueueIsClaimed,
       Covered
  <2> QED BY <2>1, AroundKeeps, CheckKeeps, ClaimKeeps, TriggerByHandKeeps, RunKeeps, ProcessKeeps DEF W!Next
<1> QED BY <1>1, <1>2, PTL DEF W!Spec

\* Every variable has its type.
THEOREM WakeupTypeCorrect ==
  ASSUME W!WakeupConstants
  PROVE  W!Spec => []W!TypeOK
<1>1. SlotInv => W!TypeOK
  BY DEF SlotInv
<1> QED BY <1>1, WakeupInvariant, PTL

\* Each time of each day is attempted at most once per account, whatever is saved, restarted, set back
\* or fails in between.
THEOREM SlotsAreTriedOnce ==
  ASSUME W!WakeupConstants
  PROVE  W!Spec => W!OncePerSlot
<1> DEFINE Once == W!RunBegin /\ step' = "sending" /\ W!job1.slot # NoSlot
                     => [id |-> W!job1.id, slot |-> W!job1.slot] \notin tried
<1>1. SlotInv => Once
  <2> SUFFICES ASSUME SlotInv, W!RunBegin, W!job1.slot # NoSlot
               PROVE  [id |-> W!job1.id, slot |-> W!job1.slot] \notin tried
    OBVIOUS
  <2>1. step = "idle" /\ queue # <<>> /\ queue \in Seq(Queued)
    BY DEF W!RunBegin, SlotInv, W!TypeOK, Queued
  <2>2. W!job1 = queue[1] /\ W!job1 \in Queued /\ 1 \in 1 .. Len(queue)
    BY <2>1, QueueFacts DEF W!job1
  <2>3. [id |-> W!job1.id, slot |-> W!job1.slot] = W!job1
    BY <2>2 DEF Queued
  <2> QED BY <2>1, <2>2, <2>3 DEF SlotInv, QueueIsClaimed
<1>2. W!Spec => [][Once]_(W!vars)
  BY <1>1, WakeupInvariant, PTL DEF W!Spec
<1> QED BY <1>2 DEF W!OncePerSlot

-----------------------------------------------------------------------------
(* One request of a wake-up: the child lives only while the request waits  *)
(* for it, and what failed first decides.                                  *)

Lines == {"refresh", "question", "broken", "answer", "error", "reply", "empty", "unfinished"}

\* The child and the directory are there exactly where the request needs them, and an answer is awaited
\* only of a call.
ChildFits ==
  /\ call # "none" => stage \in C!Stages
  /\ stage \in {"resolve", "make"} => child = "none" /\ directory = "none"
  /\ stage \in C!Stages \cup {"credentials", "completion", "close"} => child # "none" /\ directory = "made"
  /\ stage = "remove" => child \in {"none", "closed"} /\ directory = "made"
  /\ stage = "done" => child \in {"none", "closed"} /\ directory # "made"

\* Nothing fails and nothing is renewed before there is a child, and one renewal is all.
RenewalFits ==
  /\ child = "none" => ~failure /\ ~refreshed
  /\ renewals.running => refreshed
  /\ renewals.begun = IF refreshed THEN 1 ELSE 0

\* A reply, read or not, is one of a turn that has completed.
ReplyFits ==
  (\E k \in 1 .. Len(lines) : lines[k] = "reply") \/ completion = "reply" \/ outcome = "ok" => turn = "completed"

ClientInv == C!TypeOK /\ ChildFits /\ RenewalFits /\ ReplyFits

\* The calls of the request, in their order
LEMMA StagesAre == C!Stages = {"initialize", "login", "list", "thread", "turn"}
<1>1. DOMAIN C!Rpcs = {1, 2, 3, 4, 5}
  BY DEF C!Rpcs
<1>. QED
  BY <1>1 DEF C!Stages, C!Rpcs

\* What the request has not read when a line is written, and when one is read
LEMMA LinesFacts ==
  ASSUME C!TypeOK
  PROVE  /\ \A l \in Lines : /\ Append(lines, l) \in Seq(Lines)
                             /\ l # "reply" => ((\E k \in 1 .. Len(Append(lines, l)) : Append(lines, l)[k] = "reply")
                                                  => \E k \in 1 .. Len(lines) : lines[k] = "reply")
         /\ lines # <<>> => /\ Tail(lines) \in Seq(Lines) /\ Head(lines) \in Lines
                            /\ (\E k \in 1 .. Len(Tail(lines)) : Tail(lines)[k] = "reply")
                                 => \E k \in 1 .. Len(lines) : lines[k] = "reply"
                            /\ Head(lines) = "reply" => \E k \in 1 .. Len(lines) : lines[k] = "reply"
<1>1. lines \in Seq(Lines)
  BY DEF C!TypeOK, Lines
<1>2. ASSUME NEW l \in Lines, l # "reply", NEW k \in 1 .. Len(Append(lines, l)), Append(lines, l)[k] = "reply"
      PROVE  \E j \in 1 .. Len(lines) : lines[j] = "reply"
  BY <1>1, <1>2
<1>3. ASSUME lines # <<>>, NEW k \in 1 .. Len(Tail(lines)), Tail(lines)[k] = "reply"
      PROVE  \E j \in 1 .. Len(lines) : lines[j] = "reply"
  <2>1. Tail(lines)[k] = lines[k + 1] /\ k + 1 \in 1 .. Len(lines)
    BY <1>1, <1>3
  <2>. QED
    BY <1>3, <2>1
<1>4. ASSUME lines # <<>>, Head(lines) = "reply"
      PROVE  \E j \in 1 .. Len(lines) : lines[j] = "reply"
  <2>1. Head(lines) = lines[1] /\ 1 \in 1 .. Len(lines)
    BY <1>1, <1>4
  <2>. QED
    BY <1>4, <2>1
<1>. QED
  BY <1>1, <1>2, <1>3, <1>4

\* The steps of the request itself
LEMMA RequestKeepsClient ==
  ASSUME ClientInv, C!Request
  PROVE  ClientInv' /\ (failure => unanswered' \subseteq unanswered)
<1>u. USE StagesAre DEF ClientInv, C!TypeOK, ChildFits, RenewalFits, ReplyFits, C!GoesOnRest, C!Leaves, C!Calls, C!Fault,
          C!renewal, C!process, C!bounds
<1>n. mishaps' \in 0 .. MaxFailures
  BY Constants DEF C!Request, C!Resolved, C!Made, C!Answered, C!Credentials, C!Refused, C!Replied, C!Closed, C!Removed,
     C!ClientConstants
<1>1. CASE C!Resolved
  BY <1>1, <1>n DEF C!Resolved
<1>2. CASE C!Made
  BY <1>2, <1>n DEF C!Made
<1>3. CASE C!Answered \/ C!Credentials \/ C!Refused
  <2>1. /\ stage \in C!Stages \cup {"credentials", "completion"} /\ child # "none" /\ directory = "made"
        /\ UNCHANGED <<completion, failure, cancelled, refreshed, renewals, child, lines, turn, directory, written>>
    BY <1>3 DEF C!Answered, C!Credentials, C!Refused
  <2>2. /\ stage' \in C!Stages \cup {"credentials", "completion", "close"}
        /\ call' \in {"none", "pending"} /\ (call' = "pending" => stage' \in C!Stages)
        /\ killed' \in BOOLEAN /\ outcome' \in {outcome, "failed"}
        /\ unanswered' \subseteq C!Stages /\ (failure => unanswered' = unanswered)
    <3>1. CASE C!Answered
      BY <2>1, <3>1 DEF C!Answered
    <3>2. CASE C!Credentials
      BY <2>1, <3>2 DEF C!Credentials
    <3>3. CASE C!Refused
      BY <2>1, <3>3 DEF C!Refused
    <3>. QED
      BY <1>3, <3>1, <3>2, <3>3
  <2>. QED
    BY <1>n, <2>1, <2>2
<1>6. CASE C!Replied
  BY <1>6, <1>n DEF C!Replied
<1>7. CASE C!Closed
  BY <1>7, <1>n DEF C!Closed
<1>8. CASE C!Removed
  BY <1>8, <1>n DEF C!Removed
<1>. QED
  BY <1>1, <1>2, <1>3, <1>6, <1>7, <1>8 DEF C!Request

\* The first failure refuses what is awaited.
LEMMA FailsKeeps ==
  ASSUME ClientInv, C!Fails
  PROVE  /\ failure' = TRUE
         /\ call' \in {"none", "pending", "answered", "refused"} /\ (call' # "none" => call # "none")
         /\ completion' \in {"open", "reply", "empty", "failed"} /\ (completion' = "reply" => completion = "reply")
BY DEF ClientInv, C!TypeOK, C!Fails

\* What meets it: the caller, the timeout, the child's lines and its end, and the renewal
LEMMA MeetsKeepsClient ==
  ASSUME ClientInv, C!Meets \/ C!Cancelled \/ C!PipeBreaks
  PROVE  ClientInv' /\ unanswered' = unanswered
<1>u. USE StagesAre DEF ClientInv, ChildFits, RenewalFits, ReplyFits, C!Fails, C!Fault, C!renewal, C!process, C!bounds
<1>n. mishaps' \in 0 .. MaxFailures
  BY Constants DEF C!TypeOK, C!Meets, C!Read, C!Renewed, C!ChildCloses, C!TimesOut, C!Cancelled, C!Aborts, C!PipeBreaks,
     C!ClientConstants
<1>1. CASE C!Read
  <2>1. lines \in Seq(Lines) /\ lines # <<>> /\ lines' = Tail(lines)
    BY <1>1 DEF C!Read, C!TypeOK, Lines
  <2>2. lines' \in Seq(Lines)
    BY <2>1, LinesFacts
  <2>3. C!TypeOK'
    <3>1. completion' \in {"open", "reply", "empty", "failed"} /\ call' \in {"none", "pending", "answered", "refused"}
      BY <1>1 DEF C!TypeOK, C!Read
    <3>2. failure' \in BOOLEAN
      BY <1>1 DEF C!TypeOK, C!Read
    <3>3. CASE renewals' = [begun |-> renewals.begun + 1, running |-> TRUE] /\ refreshed' = TRUE
      BY <1>1, <2>2, <3>1, <3>2, <3>3 DEF C!TypeOK, C!Read, Lines
    <3>4. CASE UNCHANGED <<renewals, refreshed>>
      BY <1>1, <2>2, <3>1, <3>2, <3>4 DEF C!TypeOK, C!Read, Lines
    <3>. QED
      BY <1>1, <3>3, <3>4 DEF C!Read
  <2>4. ChildFits' /\ RenewalFits'
    BY <1>1 DEF C!Read, C!TypeOK
  <2>5. ReplyFits'
    <3>1. completion' = "reply" => completion = "reply" \/ Head(lines) = "reply"
      BY <1>1 DEF C!Read
    <3>. QED
      BY <1>1, <2>1, <3>1, LinesFacts DEF C!Read
  <2>. QED
    BY <1>1, <2>3, <2>4, <2>5 DEF C!Read
<1>2. CASE C!Renewed
  <2>1. child # "none" /\ renewals' \in [begun : Nat, running : BOOLEAN]
        /\ renewals'.begun = renewals.begun /\ renewals'.running = FALSE
    BY <1>2 DEF C!Renewed, C!TypeOK
  <2>2. /\ failure' \in BOOLEAN
        /\ call' \in {"none", "pending", "answered", "refused"} /\ (call' # "none" => call # "none")
        /\ completion' \in {"open", "reply", "empty", "failed"} /\ (completion' = "reply" => completion = "reply")
    BY <1>2, FailsKeeps DEF C!Renewed, C!TypeOK
  <2>3. UNCHANGED <<stage, outcome, refreshed, cancelled, child, killed, lines, unanswered, turn, directory, written>>
    BY <1>2 DEF C!Renewed
  <2>. QED
    BY <1>n, <2>1, <2>2, <2>3 DEF C!TypeOK
<1>3. CASE C!ChildCloses
  BY <1>3, <1>n DEF C!ChildCloses, C!TypeOK
<1>4. CASE C!TimesOut \/ C!Cancelled
  <2>1. UNCHANGED <<stage, outcome, refreshed, renewals, child, lines, unanswered, turn, directory, written>>
        /\ cancelled' = TRUE
    BY <1>4 DEF C!TimesOut, C!Cancelled, C!Aborts
  <2>2. CASE C!Fails /\ killed' = TRUE /\ C!Listening
    <3>1. child # "none"
      BY <2>2 DEF C!Listening
    <3>. QED
      BY <1>n, <2>1, <2>2, <3>1, FailsKeeps DEF C!TypeOK
  <2>3. CASE UNCHANGED <<call, completion, failure, killed>>
    BY <1>n, <2>1, <2>3 DEF C!TypeOK
  <2>. QED
    BY <1>4, <2>2, <2>3 DEF C!TimesOut, C!Cancelled, C!Aborts
<1>5. CASE C!PipeBreaks
  BY <1>5, <1>n DEF C!PipeBreaks, C!TypeOK
<1>. QED
  BY <1>1, <1>2, <1>3, <1>4, <1>5 DEF C!Meets

\* The child
LEMMA ChildKeepsClient ==
  ASSUME ClientInv, C!Answers \/ C!TurnEnds \/ C!Asks \/ C!ChildExits
  PROVE  ClientInv' /\ unanswered' \subseteq unanswered
<1>u. USE StagesAre DEF ClientInv, ChildFits, RenewalFits, ReplyFits, C!Fault, C!flow, C!renewal, C!ChildRest, C!Writes
<1>n. mishaps' \in 0 .. MaxFailures /\ written' \in 0 .. MaxWritten
  BY Constants DEF C!TypeOK, C!Answers, C!TurnEnds, C!Asks, C!ChildExits, C!ClientConstants
<1>l. lines \in Seq(Lines)
  BY DEF C!TypeOK, Lines
<1>1. CASE C!Answers
  <2>1. PICK l \in {"answer", "error"} : lines' = Append(lines, l)
    BY <1>1 DEF C!Answers
  <2>2. lines' \in Seq(Lines) /\ ((\E k \in 1 .. Len(lines') : lines'[k] = "reply")
                                   => \E k \in 1 .. Len(lines) : lines[k] = "reply")
    BY <2>1, LinesFacts DEF Lines
  <2>. QED
    BY <1>1, <1>n, <2>2 DEF C!Answers, C!TypeOK, Lines
<1>2. CASE C!TurnEnds
  <2>1. PICK l \in {"reply", "empty", "unfinished"} :
          lines' = Append(lines, l) /\ turn' = IF l = "unfinished" THEN "failed" ELSE "completed"
    BY <1>2 DEF C!TurnEnds
  <2>2. lines' \in Seq(Lines) /\ (l # "reply" => ((\E k \in 1 .. Len(lines') : lines'[k] = "reply")
                                                  => \E k \in 1 .. Len(lines) : lines[k] = "reply"))
    BY <2>1, LinesFacts DEF Lines
  <2>3. turn # "completed"
    BY <1>2 DEF C!TurnEnds
  <2>. QED
    BY <1>2, <1>n, <2>1, <2>2, <2>3 DEF C!TurnEnds, C!TypeOK, Lines
<1>3. CASE C!Asks
  <2>1. PICK l \in {"refresh", "question", "broken"} : lines' = Append(lines, l)
    BY <1>3 DEF C!Asks
  <2>2. lines' \in Seq(Lines) /\ ((\E k \in 1 .. Len(lines') : lines'[k] = "reply")
                                   => \E k \in 1 .. Len(lines) : lines[k] = "reply")
    BY <2>1, LinesFacts DEF Lines
  <2>. QED
    BY <1>3, <1>n, <2>2 DEF C!Asks, C!TypeOK, Lines
<1>4. CASE C!ChildExits
  BY <1>4, <1>n DEF C!ChildExits, C!TypeOK
<1>. QED
  BY <1>1, <1>2, <1>3, <1>4

\* sendWakeupRequest: wherever it is when it is cancelled, times out or loses its child, a request that
\* has ended leaves neither a process nor a directory behind and reports a reply of a completed turn
\* only; it renews the credentials once at most and asks for nothing more once it has failed.
THEOREM RequestsLeaveNothing == MCSpec => AskedSafely
<1>1. MCInit => ClientInv
  <2>1. ASSUME C!Init PROVE C!TypeOK /\ ChildFits /\ RenewalFits
    <3>1. lines \in Seq(Lines) /\ unanswered \subseteq C!Stages
      BY <2>1 DEF C!Init
    <3>2. written \in 0 .. MaxWritten /\ mishaps \in 0 .. MaxFailures
      BY <2>1, Constants DEF C!Init, C!ClientConstants
    <3>3. renewals \in [begun : Nat, running : BOOLEAN] /\ renewals.begun = 0 /\ renewals.running = FALSE
      BY <2>1 DEF C!Init
    <3>4. C!TypeOK
      BY <2>1, <3>1, <3>2, <3>3 DEF C!Init, C!TypeOK, Lines
    <3>. QED
      BY <2>1, <3>3, <3>4, StagesAre DEF C!Init, ChildFits, RenewalFits
  <2>2. ASSUME C!Init PROVE ReplyFits
    BY <2>2 DEF C!Init, ReplyFits
  <2>. QED
    BY <2>1, <2>2 DEF MCInit, ClientInv
<1>2. ClientInv /\ [MCNext]_all => ClientInv' /\ [failure => unanswered' \subseteq unanswered]_(C!vars)
  <2>1. CASE ClientInv /\ C!Next
    BY <2>1, RequestKeepsClient, MeetsKeepsClient, ChildKeepsClient DEF C!Next
  <2>2. CASE ClientInv /\ UNCHANGED clientVars
    BY <2>2 DEF clientVars, ClientInv, C!TypeOK, ChildFits, RenewalFits, ReplyFits, C!vars, C!flow, C!renewal, C!process,
       C!bounds
  <2>. QED
    BY <2>1, <2>2 DEF MCNext, OfWakeup, OfRequest, OfRestart, OfInstances, all
<1>3. ClientInv => C!TypeOK /\ C!NothingRemains /\ C!RenewedOnce
  BY StagesAre DEF ClientInv, C!TypeOK, C!NothingRemains, C!RenewedOnce, ChildFits, RenewalFits, ReplyFits
<1>. QED
  BY <1>1, <1>2, <1>3, PTL DEF MCSpec, AskedSafely, C!FailureIsFinal
=================================================================================
