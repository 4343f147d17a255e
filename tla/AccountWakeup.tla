---------------------------- MODULE AccountWakeup -----------------------------
(***************************************************************************)
(* The daily wake-up of src/account-wakeup.mjs.  A timer checks which  *)
(* times of day have come since the last check, claims each of them in the *)
(* account library and only then queues a request; the queue runs one      *)
(* request at a time.  The computer may sleep, its clock may be set, the   *)
(* process may be stopped or killed, and every write of the library may    *)
(* fail.                                                                   *)
(*                                                                         *)
(* The clock counts check intervals (15 s); a day has DayLength of them.   *)
(***************************************************************************)
EXTENDS Naturals, Sequences, FiniteSets

CONSTANTS
  Ids,        \* OAuth accounts
  Times,      \* the times of day a user may choose, as offsets into the day
  NoSlot,     \* a wake-up started by hand
  DayLength,  \* clock units in a day
  MaxDelay,   \* MAX_SCHEDULE_DELAY_MS in clock units
  MaxClock,   \* bound: the clock
  MaxBack,    \* bound: times the clock is set back
  MaxUser,    \* bound: settings saved and wake-ups started by hand
  MaxFaults,  \* bound: failing writes
  MaxCrashes  \* bound: ends of the process

WakeupConstants ==
  /\ DayLength \in Nat \ {0} /\ Times \subseteq 0 .. DayLength - 1
  /\ MaxDelay \in Nat
  /\ MaxClock \in Nat /\ MaxBack \in Nat /\ MaxUser \in Nat
  /\ MaxFaults \in Nat /\ MaxCrashes \in Nat

Clock   == 0 .. MaxClock
DayOf(n) == n \div DayLength
Days    == {DayOf(n) : n \in Clock}
Slot    == [day : Days, time : Times]
Due(slot) == slot.day * DayLength + slot.time

\* account.wakeup, as the library stores it.
Settings == [enabled : BOOLEAN, times : SUBSET Times, updatedAt : Clock,
             scheduledDate : Days, scheduledTimes : SUBSET Times,
             lastRun : {"none", "running", "success", "error"}]

VARIABLES
  now,       \* Date.now()
  wakeup,    \* the stored settings and record of each account
  active,    \* the account's authStatus is active
  process,   \* "up", "stopping" (close was called) or "down"
  last,      \* lastCheckedAt
  found,     \* slots the running check has still to claim
  queue,     \* jobs in order, the running one first
  step,      \* where the running job is
  unsaved,   \* ghost: accounts whose last run was reported as not savable
  tried,     \* ghost: scheduled slots that were attempted
  back, user, faults, crashes  \* counters of the bounds

stored == <<wakeup, active>>
bounds == <<back, user, faults, crashes>>
vars   == <<now, stored, process, last, found, queue, step, unsaved, tried, bounds>>

Init ==
  /\ now = 0
  /\ wakeup = [i \in Ids |-> [enabled |-> TRUE, times |-> Times, updatedAt |-> 0, scheduledDate |-> 0,
                              scheduledTimes |-> {}, lastRun |-> "none"]]
  /\ active = [i \in Ids |-> TRUE]
  /\ process = "up" /\ last = 0
  /\ found = {} /\ queue = <<>> /\ step = "idle" /\ unsaved = {}
  /\ tried = {}
  /\ back = 0 /\ user = 0 /\ faults = 0 /\ crashes = 0

Fault == faults < MaxFaults /\ faults' = faults + 1

\* this.jobs: accounts with a job in the queue.
Busy == {queue[k].id : k \in DOMAIN queue}

-----------------------------------------------------------------------------
(* The clock and the accounts around the scheduler *)

Advance ==
  /\ \E n \in now + 1 .. MaxClock : now' = n  \* a long step is a sleep
  /\ UNCHANGED <<stored, process, last, found, queue, step, unsaved, tried, bounds>>

\* Within the day: the library's record speaks of one day only, the latest.
SetBack ==
  /\ back < MaxBack /\ back' = back + 1
  /\ \E n \in 0 .. now : DayOf(n) = DayOf(now) /\ now' = n
  /\ UNCHANGED <<stored, process, last, found, queue, step, unsaved, tried, user, faults, crashes>>

\* The account is transferred, needs a new login, or is restored.
StatusChanges(i) ==
  /\ user < MaxUser /\ user' = user + 1
  /\ active' = [active EXCEPT ![i] = ~@]
  /\ UNCHANGED <<now, wakeup, process, last, found, queue, step, unsaved, tried, back, faults, crashes>>

-----------------------------------------------------------------------------
(* The schedule *)

\* Broken on purpose: new settings forget what was attempted.
SaveAnew(i, enabled, times) ==
  /\ process = "up" /\ user < MaxUser /\ user' = user + 1
  /\ active[i] /\ (enabled => times # {})
  /\ wakeup' = [wakeup EXCEPT ![i].enabled = enabled, ![i].times = times, ![i].updatedAt = now,
                              ![i].scheduledTimes = {}]
  /\ UNCHANGED <<now, active, process, last, found, queue, step, unsaved, tried, back, faults, crashes>>

\* save: the new settings keep the record of what was already attempted.
Save(i, enabled, times) ==
  /\ process = "up" /\ user < MaxUser /\ user' = user + 1
  /\ active[i] /\ (enabled => times # {})
  /\ wakeup' = [wakeup EXCEPT ![i].enabled = enabled, ![i].times = times, ![i].updatedAt = now]
  /\ UNCHANGED <<now, active, process, last, found, queue, step, unsaved, tried, back, faults, crashes>>

\* The times an account's settings make due in a check.
DueSlots(i) ==
  {s \in Slot : /\ active[i] /\ wakeup[i].enabled
                /\ s.day = DayOf(now) /\ s.time \in wakeup[i].times
                /\ last < Due(s) /\ wakeup[i].updatedAt < Due(s) /\ Due(s) <= now
                /\ ~(wakeup[i].scheduledDate = s.day /\ s.time \in wakeup[i].scheduledTimes)}

\* checkSchedule: one check at a time, on a copy of the accounts of this moment;
\* times missed while the computer slept or the clock moved are not made up for.
Check ==
  /\ process = "up" /\ found = {}
  /\ last' = now
  /\ found' = IF now <= last \/ now - last > MaxDelay THEN {}
              ELSE {[id |-> i, slot |-> s] : i \in Ids, s \in Slot}
                     \cap UNION {{[id |-> i, slot |-> s] : s \in DueSlots(i)} : i \in Ids}
  /\ UNCHANGED <<now, stored, process, queue, step, unsaved, tried, bounds>>

\* trigger: skipped while the account has a job, is not active, or after close.
Triggered(i, slot) ==
  IF process = "up" /\ i \notin Busy /\ active[i]
  THEN Append(queue, [id |-> i, slot |-> slot]) ELSE queue

Claimed(record, slot) ==
  [record EXCEPT !.scheduledDate = slot.day,
                 !.scheduledTimes = (IF record.scheduledDate = slot.day THEN @ ELSE {})
                                      \cup {slot.time}]

\* The slot is recorded first; if the record cannot be written it is not tried.
Claim(job) ==
  /\ process # "down" /\ job \in found
  /\ found' = found \ {job}
  /\ \/ /\ wakeup' = [wakeup EXCEPT ![job.id] = Claimed(@, job.slot)]
        /\ queue' = Triggered(job.id, job.slot)
        /\ UNCHANGED faults
     \/ /\ Fault
        /\ UNCHANGED <<wakeup, queue>>
  /\ UNCHANGED <<now, active, process, last, step, unsaved, tried, back, user, crashes>>

\* The page's "wake up now".
TriggerByHand(i) ==
  /\ process = "up" /\ user < MaxUser /\ user' = user + 1
  /\ queue' = Triggered(i, NoSlot)
  /\ UNCHANGED <<now, stored, process, last, found, step, unsaved, tried, back, faults, crashes>>

-----------------------------------------------------------------------------
(* The queue *)

job1 == Head(queue)

\* updateRun writes the state of the run, or fails and ends the job.
Recorded(state, next) ==
  /\ wakeup' = [wakeup EXCEPT ![job1.id].lastRun = state]
  /\ step' = next /\ queue' = IF next = "idle" THEN Tail(queue) ELSE queue
  /\ unsaved' = unsaved \ {job1.id}
  /\ UNCHANGED faults

NotRecorded ==
  /\ Fault
  /\ unsaved' = unsaved \cup {job1.id}
  /\ step' = "idle" /\ queue' = Tail(queue)
  /\ UNCHANGED wakeup

\* run: the settings are looked at again when the job's turn comes.
Cancelled ==
  \/ process = "stopping"
  \/ job1.slot # NoSlot /\ (~wakeup[job1.id].enabled \/ job1.slot.time \notin wakeup[job1.id].times)

RunBegin ==
  /\ process # "down" /\ step = "idle" /\ queue # <<>>
  /\ IF Cancelled THEN queue' = Tail(queue) /\ UNCHANGED <<wakeup, step, unsaved, tried, faults>>
     ELSE \/ /\ Recorded("running", "sending")
             /\ tried' = IF job1.slot = NoSlot THEN tried
                         ELSE tried \cup {[id |-> job1.id, slot |-> job1.slot]}
          \/ NotRecorded /\ UNCHANGED tried
  /\ UNCHANGED <<now, active, process, last, found, back, user, crashes>>

\* The model has answered, or the request has failed or was aborted.
RunAnswered ==
  /\ process # "down" /\ step = "sending"
  /\ \/ Recorded("success", "refreshing")
     \/ Recorded("error", "idle")
     \/ NotRecorded
  /\ UNCHANGED <<now, active, process, last, found, tried, back, user, crashes>>

\* The quota is read anew and the message completed.
RunRefreshed ==
  /\ process # "down" /\ step = "refreshing"
  /\ Recorded("success", "idle") \/ NotRecorded
  /\ UNCHANGED <<now, active, process, last, found, tried, back, user, crashes>>

Run == RunBegin \/ RunAnswered \/ RunRefreshed

-----------------------------------------------------------------------------
(* The process *)

\* close: no further check, the running request is aborted.
Close ==
  /\ process = "up" /\ crashes < MaxCrashes
  /\ process' = "stopping"
  /\ UNCHANGED <<now, stored, last, found, queue, step, unsaved, tried, bounds>>

Exit ==
  /\ process # "down" /\ crashes < MaxCrashes /\ crashes' = crashes + 1
  /\ process' = "down"
  /\ found' = {} /\ queue' = <<>> /\ step' = "idle" /\ unsaved' = {}
  /\ UNCHANGED <<now, stored, last, tried, back, user, faults>>

Interrupted(ids) ==
  [i \in Ids |-> IF i \in ids /\ wakeup[i].lastRun = "running"
                 THEN [wakeup[i] EXCEPT !.lastRun = "error"] ELSE wakeup[i]]

\* start: a run that was interrupted is shown as such and nothing is made up for;
\* if that cannot be written, the program does not start.
Start ==
  /\ process = "down"
  /\ \/ /\ wakeup' = Interrupted(Ids) /\ process' = "up" /\ last' = now
        /\ UNCHANGED faults
     \/ /\ \E ids \in SUBSET Ids : wakeup' = Interrupted(ids)
        /\ Fault /\ UNCHANGED <<process, last>>
  /\ UNCHANGED <<now, active, found, queue, step, unsaved, tried, back, user, crashes>>

Next ==
  \/ Advance \/ SetBack
  \/ \E i \in Ids : StatusChanges(i) \/ TriggerByHand(i)
  \/ \E i \in Ids, e \in BOOLEAN, ts \in SUBSET Times : Save(i, e, ts)
  \/ Check
  \/ \E job \in found : Claim(job)
  \/ Run
  \/ Close \/ Exit \/ Start

Spec == Init /\ [][Next]_vars

\* A request ends by its own timeout, and writes settle.  A stopped process owes nothing.
FairSpec == Spec /\ WF_vars(Run) /\ WF_vars(\E job \in found : Claim(job))

-----------------------------------------------------------------------------
\* Every variable has its type.
TypeOK ==
  /\ now \in Clock /\ last \in Clock
  /\ wakeup \in [Ids -> Settings] /\ active \in [Ids -> BOOLEAN]
  /\ process \in {"up", "stopping", "down"}
  /\ found \subseteq [id : Ids, slot : Slot]
  /\ queue \in Seq([id : Ids, slot : Slot \cup {NoSlot}])
  /\ step \in {"idle", "sending", "refreshing"} /\ (step # "idle" => queue # <<>>)
  /\ unsaved \subseteq Ids /\ tried \subseteq [id : Ids, slot : Slot]

\* Each time of each day is attempted at most once per account, whatever is
\* saved, restarted, set back or fails in between ("claim before queuing").
OncePerSlot ==
  [][RunBegin /\ step' = "sending" /\ job1.slot # NoSlot
       => [id |-> job1.id, slot |-> job1.slot] \notin tried]_vars

\* What the page shows as running ends, also when the program was restarted in the
\* middle: with a result, or with the message that the result could not be saved.
ShownRunEnds ==
  \A i \in Ids :
    (process = "up" /\ wakeup[i].lastRun = "running")
      ~> (process # "up" \/ wakeup[i].lastRun # "running" \/ i \in unsaved)
=============================================================================
