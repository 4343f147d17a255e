---------------------------- MODULE SingleInstance ----------------------------
(***************************************************************************)
(* One injector at a time (src/single-instance.mjs): it owns a local port. *)
(* Whoever is launched and finds the port in use tells the owner its mode, *)
(* version and purpose, and the owner leaves, reloads its page, launches   *)
(* Codex once more, or just stays.  src/launcher.mjs and the loop of       *)
(* src/injector.mjs carry that out; src/windows-update.mjs takes the port  *)
(* only to stop Codex.                                                     *)
(***************************************************************************)
EXTENDS Integers, Sequences, FiniteSets

CONSTANTS
  Processes, None,
  Kinds,     \* what a process can be: [mode, version, identity, purpose]
  MaxFaults  \* bound: processes that die, answers that are late, reloads and launches that fail

VARIABLES
  kind, pc,
  port,       \* the process that listens
  asked,      \* the owner a process is connected to
  answer,     \* what it has been told: "none", "keep", "replace", "empty" or "reset"
  request,    \* processes whose request the owner has still to read
  owner,      \* owner.version: the version of the page the process says it shows
  reloads,    \* reloadPromise: the reloads of a process in order
  page,       \* appDisplayVersion of the page it really shows
  loaded,     \* pendingWidgetReload, 0 if there is none
  leaving,    \* processes that were told to go: takeoverStarted
  listening,  \* processes whose injector has registered its handlers
  pending,    \* pendingLaunchRecovery
  requested,  \* launchRecoveryRequested
  owed,       \* ghost: processes that promised a launch which has not begun
  vacated,    \* ghost: a takeover was granted and nobody has taken the port since
  stale,      \* ghost: an owner took longer than its successor waited, or was terminated
  faults      \* counter of the bound

asking  == <<asked, answer, request>>
pages   == <<owner, reloads, page, loaded>>
launch  == <<listening, pending, requested, owed>>
vars    == <<kind, pc, port, asking, pages, leaving, launch, vacated, stale, faults>>

Mode(p) == kind[p].mode
Installs(p) == kind[p].purpose = "install-update"
Owning == {"starting", "started", "running", "recovering", "preparing"}
Alive(p) == pc[p] \in Owning \cup {"closing", "wait", "asked"}
Fault == faults < MaxFaults /\ faults' = faults + 1

Init ==
  /\ kind \in [Processes -> Kinds]
  /\ pc = [p \in Processes |-> "new"] /\ port = None
  /\ asked = [p \in Processes |-> None] /\ answer = [p \in Processes |-> "none"] /\ request = {}
  /\ owner = [p \in Processes |-> kind[p].version] /\ page = owner
  /\ reloads = [p \in Processes |-> <<>>] /\ loaded = [p \in Processes |-> 0]
  /\ leaving = {} /\ listening = {} /\ pending = {} /\ requested = {} /\ owed = {}
  /\ vacated = FALSE /\ stale = FALSE /\ faults = 0

-----------------------------------------------------------------------------
(* Taking the port *)

\* listenServer succeeds: a launch begins, or the preparation of an installation.
Owns(p) == pc' = [pc EXCEPT ![p] = IF Installs(p) THEN "preparing" ELSE "starting"]
           /\ port' = p /\ vacated' = FALSE

Listen(p) ==
  /\ pc[p] = "new"
  /\ IF port = None THEN Owns(p) ELSE pc' = [pc EXCEPT ![p] = "ask"] /\ UNCHANGED <<port, vacated>>
  /\ UNCHANGED <<kind, asking, pages, leaving, launch, stale, faults>>

\* requestTakeover; a port that is free by now refuses the connection, and the launch ends.
Ask(p) ==
  /\ pc[p] = "ask"
  /\ IF port = None THEN pc' = [pc EXCEPT ![p] = "gone"] /\ UNCHANGED <<asked, request>>
     ELSE /\ pc' = [pc EXCEPT ![p] = "asked"]
          /\ asked' = [asked EXCEPT ![p] = port] /\ request' = request \cup {p}
  /\ UNCHANGED <<kind, port, answer, pages, leaving, launch, vacated, stale, faults>>

\* findListeningOwners, who are injectors and not the caller
Owners(p) == {port} \ {p, None}
\* replaceUnrecognizedOwner: whoever listens by now is terminated.
Terminated(p) ==
  /\ pc' = [q \in Processes |-> IF q = p THEN "wait" ELSE IF q \in Owners(p) THEN "gone" ELSE pc[q]]
  /\ port' = None /\ stale' = TRUE
\* The answer.  An empty one is taken for an owner of another protocol.
Answered(p) ==
  /\ pc[p] = "asked" /\ answer[p] # "none"
  /\ CASE answer[p] = "replace" ->
            pc' = [pc EXCEPT ![p] = "wait"] /\ UNCHANGED <<port, stale>>
       [] answer[p] = "empty" -> Terminated(p)
       [] OTHER -> pc' = [pc EXCEPT ![p] = "gone"] /\ UNCHANGED <<port, stale>>
  /\ UNCHANGED <<kind, asking, pages, leaving, launch, vacated, faults>>

\* The owner was too busy to answer in time; it reads the request all the same.
GivesUpAsking(p) ==
  /\ pc[p] = "asked" /\ answer[p] = "none" /\ Fault
  /\ pc' = [pc EXCEPT ![p] = "gone"] /\ stale' = TRUE
  /\ UNCHANGED <<kind, port, asking, pages, leaving, launch, vacated>>

\* The new one listens as soon as the port is free ...
Poll(p) ==
  /\ pc[p] = "wait" /\ port = None /\ Owns(p)
  /\ UNCHANGED <<kind, asking, pages, leaving, launch, stale, faults>>

\* ... and gives up if it is not in time: because the owner is slow, or because another
\* took the port in between.
GivesUpWaiting(p) ==
  /\ pc[p] = "wait" /\ port # None
  /\ IF port = asked[p] THEN Fault /\ stale' = TRUE ELSE UNCHANGED <<stale, faults>>
  /\ pc' = [pc EXCEPT ![p] = "gone"]
  /\ UNCHANGED <<kind, port, asking, pages, leaving, launch, vacated>>

-----------------------------------------------------------------------------
(* What the owner says *)

ShouldReload(q, p) ==
  /\ ~Installs(q) /\ Mode(q) = "dev" /\ Mode(p) = "dev"
  /\ kind[q].identity = kind[p].identity
  /\ kind[p].version >= owner[q]

ShouldReplace(q, p) ==
  \/ Mode(p) = "formal" /\ (Installs(p) \/ Mode(q) = "dev")
  \/ kind[p].version > owner[q]

ShouldReuse(q, p) == Mode(q) = "formal" /\ Mode(p) = "formal"

\* onReuse of a launcher: the injector's flag, or pendingLaunchRecovery before it has
\* registered its handler.  The first launch of all serves whoever asks meanwhile.
Reuse(q) ==
  /\ IF q \in listening THEN requested' = requested \cup {q} /\ UNCHANGED pending
     ELSE pending' = pending \cup {q} /\ UNCHANGED requested
  /\ owed' = IF pc[q] = "starting" THEN owed ELSE owed \cup {q}
  /\ UNCHANGED listening

\* The handler of a connection.  Who only prepares an installation has no onTakeover
\* and no onReuse: it answers and goes on.
Read(q, p) ==
  /\ p \in request /\ asked[p] = q /\ Alive(q)
  /\ request' = request \ {p}
  /\ LET replace == ShouldReplace(q, p) IN
     IF ShouldReload(q, p)
     THEN /\ answer' = [answer EXCEPT ![p] = "keep"]
          /\ reloads' = [reloads EXCEPT ![q] = Append(@, kind[p].version)]
          /\ UNCHANGED <<leaving, launch, vacated>>
     ELSE /\ answer' = [answer EXCEPT ![p] = IF replace THEN "replace" ELSE "keep"]
          /\ leaving' = IF replace /\ ~Installs(q) THEN leaving \cup {q} ELSE leaving
          /\ vacated' = (vacated \/ (leaving' # leaving /\ port \in {q, None}))
          /\ IF ~replace /\ ShouldReuse(q, p) /\ ~Installs(q) THEN Reuse(q) ELSE UNCHANGED launch
          /\ UNCHANGED reloads
  /\ UNCHANGED <<kind, pc, port, asked, owner, page, loaded, stale, faults>>

-----------------------------------------------------------------------------
(* The owner's own work *)

\* Broken on purpose: a reload is not compared again when its turn comes.
ReloadAnyway(q) ==
  /\ reloads[q] # <<>> /\ Alive(q)
  /\ reloads' = [reloads EXCEPT ![q] = Tail(@)]
  /\ LET version == Head(reloads[q]) IN
     IF q \notin listening THEN UNCHANGED <<owner, loaded>>
     ELSE owner' = [owner EXCEPT ![q] = version] /\ loaded' = [loaded EXCEPT ![q] = version]
  /\ UNCHANGED <<kind, pc, port, asking, page, leaving, launch, vacated, stale, faults>>

\* One reload of the queue: dropped if a later version came first, if there is no page
\* yet, or if the files cannot be loaded or hold another program.
Reload(q) ==
  /\ reloads[q] # <<>> /\ Alive(q)
  /\ reloads' = [reloads EXCEPT ![q] = Tail(@)]
  /\ LET version == Head(reloads[q]) IN
     IF version < owner[q] \/ q \notin listening THEN UNCHANGED <<owner, loaded, faults>>
     ELSE \/ /\ owner' = [owner EXCEPT ![q] = version] /\ loaded' = [loaded EXCEPT ![q] = version]
             /\ UNCHANGED faults
          \/ Fault /\ UNCHANGED <<owner, loaded>>
  /\ UNCHANGED <<kind, pc, port, asking, page, leaving, launch, vacated, stale>>

\* The loop of the injector takes the page over.
TakePage(q) ==
  /\ pc[q] = "running" /\ loaded[q] # 0
  /\ page' = [page EXCEPT ![q] = loaded[q]] /\ loaded' = [loaded EXCEPT ![q] = 0]
  /\ UNCHANGED <<kind, pc, port, asking, owner, reloads, leaving, launch, vacated, stale, faults>>

\* The first launch has succeeded: pendingLaunchRecovery is reset.  A failed one ends
\* the program.
Launched(q) ==
  /\ pc[q] = "starting"
  /\ \/ pc' = [pc EXCEPT ![q] = "started"] /\ pending' = pending \ {q} /\ UNCHANGED faults
     \/ Fault /\ pc' = [pc EXCEPT ![q] = "closing"] /\ UNCHANGED pending
  /\ UNCHANGED <<kind, port, asking, pages, leaving, listening, requested, owed, vacated, stale>>

\* registerLaunchRecovery and registerWidgetReload of runInjector.
Registered(q) ==
  /\ pc[q] = "started"
  /\ pc' = [pc EXCEPT ![q] = "running"] /\ listening' = listening \cup {q}
  /\ pending' = pending \ {q}
  /\ requested' = requested \cup (pending \cap {q})
  /\ UNCHANGED <<kind, port, asking, pages, leaving, owed, vacated, stale, faults>>

\* The loop carries a requested launch out; a failing one is reported and not repeated.
Recover(q) ==
  /\ pc[q] = "running" /\ q \in requested
  /\ pc' = [pc EXCEPT ![q] = "recovering"]
  /\ requested' = requested \ {q} /\ owed' = owed \ {q}
  /\ UNCHANGED <<kind, port, asking, pages, leaving, listening, pending, vacated, stale, faults>>

Recovered(q) ==
  /\ pc[q] = "recovering" /\ pc' = [pc EXCEPT ![q] = "running"]
  /\ UNCHANGED <<kind, port, asking, pages, leaving, launch, vacated, stale, faults>>

\* stop() of the injector: Codex has ended, or a signal.  The handlers go, the port
\* stays open until the process ends.
Stop(q) ==
  /\ pc[q] = "running"
  /\ pc' = [pc EXCEPT ![q] = "closing"]
  /\ listening' = listening \ {q} /\ requested' = requested \ {q}
  /\ UNCHANGED <<kind, port, asking, pages, leaving, pending, owed, vacated, stale, faults>>

\* stopCodex of the preparation is over, and its port is closed.
Prepared(q) ==
  /\ pc[q] = "preparing"
  /\ pc' = [pc EXCEPT ![q] = "closing"]
  /\ UNCHANGED <<kind, port, asking, pages, leaving, launch, vacated, stale, faults>>

\* closeSingleInstance, after a takeover or at the end: the port is free at once, ...
Close(q) ==
  /\ port = q /\ (q \in leaving \/ pc[q] = "closing")
  /\ port' = None
  /\ UNCHANGED <<kind, pc, asking, pages, leaving, launch, vacated, stale, faults>>

\* ... the process goes once every open connection is answered.
Exit(q) ==
  /\ port # q /\ pc[q] # "gone" /\ (q \in leaving \/ pc[q] = "closing")
  /\ \A p \in request : asked[p] # q
  /\ pc' = [pc EXCEPT ![q] = "gone"]
  /\ UNCHANGED <<kind, port, asking, pages, leaving, launch, vacated, stale, faults>>

\* A process is killed, or exits without closing: its connections end, with or without
\* an error.
Dies(q) ==
  /\ pc[q] \in Owning \cup {"closing"} /\ Fault
  /\ pc' = [pc EXCEPT ![q] = "gone"] /\ port' = (IF port = q THEN None ELSE port)
  /\ \E lost \in SUBSET {p \in request : asked[p] = q} :
       answer' = [p \in Processes |-> IF p \in lost THEN "reset"
                                      ELSE IF p \in request /\ asked[p] = q THEN "empty" ELSE answer[p]]
  /\ request' = {p \in request : asked[p] # q}
  /\ UNCHANGED <<kind, asked, pages, leaving, launch, vacated, stale>>

-----------------------------------------------------------------------------
Requester(p) == Ask(p) \/ Answered(p) \/ Poll(p)
Launching(q) == Launched(q) \/ Registered(q) \/ Recover(q) \/ Recovered(q)
Leaving(q) == Prepared(q) \/ Close(q) \/ Exit(q)

Next ==
  \E p \in Processes :
    \/ Listen(p) \/ Requester(p) \/ GivesUpAsking(p) \/ GivesUpWaiting(p)
    \/ \E q \in Processes : Read(q, p)
    \/ Reload(p) \/ TakePage(p) \/ Launching(p) \/ Stop(p) \/ Leaving(p) \/ Dies(p)

Spec == Init /\ [][Next]_vars

\* Launches end, the loop comes round, and who was told to leave leaves.  How long a
\* launch may hold the port is not assumed.
Fair == \A p \in Processes :
  /\ WF_vars(Requester(p)) /\ WF_vars(\E q \in Processes : Read(q, p))
  /\ WF_vars(Launching(p)) /\ WF_vars(Leaving(p))
FairSpec == Spec /\ Fair

-----------------------------------------------------------------------------
\* Every variable has its type.
TypeOK ==
  /\ kind \in [Processes -> Kinds]
  /\ pc \in [Processes -> Owning \cup {"new", "ask", "asked", "wait", "closing", "gone"}]
  /\ port \in Processes \cup {None}
  /\ asked \in [Processes -> Processes \cup {None}]
  /\ answer \in [Processes -> {"none", "keep", "replace", "empty", "reset"}]
  /\ owner \in [Processes -> Nat] /\ page \in [Processes -> Nat] /\ loaded \in [Processes -> Nat]
  /\ reloads \in [Processes -> Seq(Nat)]
  /\ \A set \in {request, leaving, listening, pending, requested, owed} : set \subseteq Processes
  /\ faults \in 0 .. MaxFaults

\* A page that was reloaded in place never goes back to an older version: reloads queue
\* up behind a slow one, and are accepted against the version shown at that time.
ReloadsGoForward == [][\A q \in Processes : page'[q] >= page[q]]_vars

\* A second launch of the formal version that was told "keep" gets what it was started
\* for: the owner launches or brings Codex up once more, at whatever point of its own
\* start the request came, unless it ends.
Owes(q) == q \in owed \ leaving /\ pc[q] \notin {"closing", "gone"}
Owing == \E q \in Processes : Owes(q)
ReusesAreServed == Owing ~> ~Owing

\* A takeover that was granted has a successor: whoever it is, somebody takes the port
\* after the owner was told to leave -- unless it dies or is too slow to leave.
Vacant == vacated /\ ~stale
TakeoverHasSuccessor == Vacant ~> ~Vacant
=============================================================================
