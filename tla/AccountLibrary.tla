---------------------------- MODULE AccountLibrary ----------------------------
(***************************************************************************)
(* What the account store promises to its callers: a library whose updates *)
(* happen one at a time, in the order they were asked for, each as a whole *)
(* or not at all, and on what the one before has left.  A kill loses the   *)
(* updates not begun; the one under way has happened or has not.           *)
(*                                                                         *)
(* Two things the code cannot hide are part of the promise: a removal is   *)
(* seen before it is settled and may be taken back, and an update whose    *)
(* failure could not be undone leaves a doubt about its account, which the *)
(* next start decides and a later update of the account ends.              *)
(***************************************************************************)
EXTENDS Naturals, Sequences

CONSTANTS
  Ids, NoId, Absent,
  Offered   \* the accounts a new library may be filled with

VARIABLES
  up,      \* the library is open
  new,     \* nothing was ever written
  lib,     \* the accounts
  cur,     \* the current one
  chosen,  \* the current one by the last update
  jobs,    \* the updates asked for
  out,     \* what a removal under way has taken out
  doubt    \* what else the next start may find

vars == <<up, new, lib, cur, chosen, jobs, out, doubt>>

Fresh == [status |-> "active", n |-> 0]
NoDoubt == [i \in Ids |-> {}]

Init ==
  /\ up = FALSE /\ new = TRUE
  /\ lib = [i \in Ids |-> Absent] /\ cur = NoId /\ chosen = NoId
  /\ jobs = <<>> /\ out = Absent /\ doubt = NoDoubt

Job == Head(jobs)
Working == up /\ jobs # <<>>
Stored == Job.id # NoId /\ lib[Job.id] # Absent

\* The account an update makes of the present one
Updated(kind, account) ==
  CASE kind = "upsert"   -> IF account = Absent THEN Fresh ELSE [account EXCEPT !.status = "active"]
    [] kind = "bump"     -> [account EXCEPT !.n = @ + 1]
    [] kind = "transfer" -> [account EXCEPT !.status = "transferred"]

Ask ==
  /\ up
  /\ \E op \in [kind : {"upsert", "bump", "transfer", "remove"}, id : Ids]
                 \cup [kind : {"setCurrent"}, id : Ids \cup {NoId}] : jobs' = Append(jobs, op)
  /\ UNCHANGED <<up, new, lib, cur, chosen, out, doubt>>
Done == jobs' = Tail(jobs)
Update ==
  /\ Working /\ Job.kind \in {"upsert", "bump", "transfer"}
  /\ Job.kind # "upsert" => Stored
  /\ lib' = [lib EXCEPT ![Job.id] = Updated(Job.kind, @)]
  /\ doubt' = [doubt EXCEPT ![Job.id] = {}]
  /\ Done /\ new' = FALSE /\ chosen' = cur
  /\ UNCHANGED <<up, cur, out>>
Choose ==
  /\ Working /\ Job.kind = "setCurrent"
  /\ Job.id # NoId => Stored /\ lib[Job.id].status # "transferred"
  /\ cur' = Job.id /\ chosen' = cur'
  /\ Done /\ new' = FALSE
  /\ UNCHANGED <<up, lib, out, doubt>>
TakeOut ==
  /\ Working /\ Job.kind = "remove" /\ out = Absent /\ Stored /\ Job.id # cur
  /\ lib' = [lib EXCEPT ![Job.id] = Absent] /\ out' = lib[Job.id]
  /\ doubt' = [doubt EXCEPT ![Job.id] = {}] /\ chosen' = cur
  /\ UNCHANGED <<up, new, cur, jobs>>
\* It is settled, or taken back: with the doubt there may have been.
Removed ==
  /\ Working /\ out # Absent
  /\ out' = Absent /\ Done
  /\ \/ UNCHANGED <<lib, doubt>>
     \/ /\ lib' = [lib EXCEPT ![Job.id] = out]
        /\ \E S \in SUBSET {Updated(kind, out) : kind \in {"upsert", "bump", "transfer"}} :
             doubt' = [doubt EXCEPT ![Job.id] = S]
  /\ UNCHANGED <<up, new, cur, chosen>>
\* An update that is refused or fails changes nothing, but for the doubt about its account.
Refused ==
  /\ Working /\ out = Absent /\ Done
  /\ \/ UNCHANGED doubt
     \/ /\ Job.kind \in {"upsert", "bump", "transfer"} /\ Stored
        /\ doubt' = [doubt EXCEPT ![Job.id] = {Updated(Job.kind, lib[Job.id])}]
  /\ UNCHANGED <<up, new, lib, cur, chosen, out>>
Cleared ==
  /\ Working /\ Job.id # NoId /\ doubt' = [doubt EXCEPT ![Job.id] = {}]
  /\ UNCHANGED <<up, new, lib, cur, chosen, jobs, out>>

\* The update under way may have happened to an account that is there.
MayFind(i) ==
  {lib[i]} \cup doubt[i] \cup
    (IF Working /\ Job.kind \in {"upsert", "bump", "transfer"} /\ Job.id = i /\ lib[i] # Absent
     THEN {Updated(Job.kind, lib[i])} ELSE {})
Killed ==
  /\ up /\ up' = FALSE
  /\ lib' \in [Ids -> UNION {MayFind(i) : i \in Ids}] /\ \A i \in Ids : lib'[i] \in MayFind(i)
  /\ cur' = IF chosen # NoId /\ lib'[chosen] # Absent /\ lib'[chosen].status # "transferred"
            THEN chosen ELSE NoId
  /\ jobs' = <<>> /\ out' = Absent /\ doubt' = NoDoubt
  /\ UNCHANGED <<new, chosen>>
\* A new library may be filled when it is opened; any other is what it was.
Open ==
  /\ ~up /\ up' = TRUE
  /\ \/ UNCHANGED <<new, lib, cur, chosen>>
     \/ /\ new /\ new' = FALSE
        /\ \E S \in SUBSET Offered :
             /\ lib' = [i \in Ids |-> IF i \in S THEN Fresh ELSE Absent]
             /\ cur' \in S \cup {NoId} /\ chosen' = cur'
  /\ UNCHANGED <<jobs, out, doubt>>

Next == Ask \/ Update \/ Choose \/ TakeOut \/ Removed \/ Refused \/ Cleared \/ Killed \/ Open
Spec == Init /\ [][Next]_vars
================================================================================
