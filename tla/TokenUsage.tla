------------------------------ MODULE TokenUsage ------------------------------
(* The usage manager inside the service (token-usage.mjs): it reads the event file and the  *)
(* rollouts from where it stopped, counts every response once though several records        *)
(* report it, archives the turns it no longer keeps, and saves what it knows in a cache from *)
(* which the next short-lived process goes on.                                              *)
(*                                                                                           *)
(* Each rollout and the event file grow along a script.  A response stands for its usage: a *)
(* count is how often that usage was added.  A record of a rollout is two bytes long, so     *)
(* that a read can end within a line.                                                        *)
EXTENDS Integers, Sequences, FiniteSets, SequencesExt, FiniteSetsExt

CONSTANTS None, Threads, Turns, Responses,
          Root,            \* Root[t]: the task a sub-agent's thread t belongs to, or t itself
          ThreadOf,        \* ThreadOf[x]: the thread of turn x
          RolloutScript,   \* RolloutScript[t]: the records Codex writes for thread t
          EventScript,     \* the events the router and the relay write
          Cuts,            \* Cuts[t]: bound: the sizes at which the rollout of t may be seen
          EventCuts,       \* bound: the numbers of events at which the file may be seen
          After,           \* <<t, i, j>>: record i of t is written after event j
          MaxTurns,        \* maxStoredTurnSummaries
          MaxFaults,       \* bound: kills, failing reads and saves, replaced files
          Views, MaxViews  \* bounds: the tasks the page may go to, and how often

UsageConstants ==
  /\ {MaxTurns, MaxFaults, MaxViews} \subseteq Nat /\ Views \subseteq Threads
  /\ ThreadOf \in [Turns -> Threads] /\ Root \in [Threads -> Threads]
  /\ \A t \in Threads : Cuts[t] \subseteq 1..2 * Len(RolloutScript[t])
  /\ EventCuts \subseteq 1..Len(EventScript)

VARIABLES size,       \* the bytes of each rollout
          logged,     \* the events in the file
          mem,        \* what the running manager would save (#cacheSnapshot), or None
          known,      \* rolloutPathsByThread: the threads whose files it has found
          waiting,    \* rolloutFallbackThreads
          view, views,
          pc,         \* off | idle | read | fill; no manager runs while it is off
          todo,       \* the threads still to be read
          dirty,      \* cacheDirty
          saving,     \* the snapshot being written, or None
          newer,      \* cacheRevision has changed since that snapshot was taken
          disk,       \* the cache file, or None
          faults

files == <<size, logged>>
manager == <<mem, known, waiting, pc, todo>>
cache == <<dirty, saving, newer, disk>>
page == <<view, views>>
vars == <<files, manager, cache, page, faults>>

-----------------------------------------------------------------------------
(* A turn and what is added to it. *)
Zero == [r \in Responses |-> 0]

emptyTurn(source) ==
  [source |-> source, fallback |-> FALSE, exact |-> FALSE, counted |-> Zero, seen |-> {},
   mark |-> 0, heard |-> 0, completed |-> FALSE, model |-> FALSE]

Turn(turns, x, source) == IF turns[x] = None THEN emptyTurn(source) ELSE turns[x]
Tokens(turn) == FoldSet(LAMBDA r, n : turn.counted[r] + n, 0, Responses)

(* The usage seen so far was provisional; the exact ledger begins anew. *)
prepareRolloutUsageTurn(turn) ==
  IF turn.exact THEN turn
  ELSE [turn EXCEPT !.exact = TRUE, !.counted = Zero, !.seen = {}, !.mark = 0, !.heard = 0]

addUsage(turn, r) == [turn EXCEPT !.counted[r] = @ + 1]
addResponse(turn, r) ==
  IF r \in turn.seen THEN turn ELSE [addUsage(turn, r) EXCEPT !.seen = @ \cup {r}]

-----------------------------------------------------------------------------
(* processRolloutRecord(): a step of the reader, whose state is the turns and what the      *)
(* file's state carries from record to record.                                               *)
NewFile == [offset |-> 0, pending |-> FALSE, current |-> None, queue |-> <<>>,
            reconciled |-> FALSE, projected |-> FALSE, checked |-> -1]

RecordContext(m, rec) ==
  [m EXCEPT !.turns[rec.turn] = [Turn(m.turns, rec.turn, "rollout") EXCEPT !.model = TRUE],
            !.file.current = rec.turn]

RecordUsage(m, rec) ==
  LET turn == prepareRolloutUsageTurn(Turn(m.turns, rec.turn, "rollout")) IN
  [m EXCEPT !.turns[rec.turn] = addResponse(turn, rec.response),
            !.file.current = rec.turn,
            !.file.queue = Append(@, <<rec.turn, rec.response>>)]

(* A summary of the turn under way: of a response whose exact record came before it, ... *)
Paired(m, rec) == SelectInSeq(m.file.queue, LAMBDA q : q = <<m.file.current, rec.response>>)

CountPaired(m, rec) ==
  LET turn == prepareRolloutUsageTurn(Turn(m.turns, m.file.current, "rollout")) IN
  [m EXCEPT !.turns[m.file.current] = [turn EXCEPT !.mark = Max({@, rec.total})],
            !.file.queue = RemoveAt(@, Paired(m, rec))]

(* ... of a turn the router reports itself, or of a response nothing else reports. *)
CountAlone(m, rec) ==
  LET old == m.turns[m.file.current]
      turn == prepareRolloutUsageTurn(Turn(m.turns, m.file.current, "rollout"))
  IN IF old # None /\ old.source = "event" /\ ~old.fallback THEN m
     ELSE [m EXCEPT !.turns[m.file.current] =
                      IF rec.total <= turn.mark THEN turn
                      ELSE [addUsage(turn, rec.response) EXCEPT !.mark = rec.total]]

RecordComplete(m) ==
  IF m.turns[m.file.current] = None THEN m
  ELSE [m EXCEPT !.turns[m.file.current].completed = TRUE]

processRolloutRecord(m, rec) ==
  CASE rec.type = "context" -> RecordContext(m, rec)
    [] rec.type = "usage" -> RecordUsage(m, rec)
    [] rec.type \in {"count", "complete"} /\ m.file.current = None -> m
    [] rec.type = "count" /\ m.file.current # None ->
         IF Paired(m, rec) > 0 THEN CountPaired(m, rec) ELSE CountAlone(m, rec)
    [] rec.type = "complete" /\ m.file.current # None -> RecordComplete(m)

-----------------------------------------------------------------------------
(* processTurnUsageEvent(): the events of the router, with the response's id, and of the    *)
(* relay, without.                                                                           *)
EventStarted(turn, ev) ==
  [turn EXCEPT !.source = "event", !.fallback = @ \/ (ev.fallback /\ ~turn.exact),
               !.model = @ \/ ev.model]

EventUsage(turn, ev) ==
  IF ~ev.keyed
  THEN IF turn.exact THEN turn
       ELSE LET t == IF ev.total > turn.heard THEN addUsage(turn, ev.response) ELSE turn
            IN [t EXCEPT !.source = "event", !.heard = Max({@, ev.total}), !.model = @ \/ ev.model]
  ELSE LET t == IF turn.fallback THEN prepareRolloutUsageTurn(turn) ELSE turn
       IN [addResponse(t, ev.response) EXCEPT
             !.source = "event", !.fallback = FALSE, !.exact = TRUE,
             !.heard = Max({@, ev.total}), !.model = @ \/ ev.model]

EventCompleted(turn, ev) == [turn EXCEPT !.source = "event", !.completed = TRUE]

processUsageEvent(m, ev) ==
  LET turn == Turn(m.turns, ev.turn, "event")
      fallbackAfter == EventStarted(turn, ev).fallback
  IN IF ev.type = "usage" /\ ~ev.keyed /\ turn.exact THEN m
     ELSE [turns |-> [m.turns EXCEPT ![ev.turn] =
                        CASE ev.type = "started" -> EventStarted(turn, ev)
                          [] ev.type = "usage" -> EventUsage(turn, ev)
                          [] ev.type = "completed" -> EventCompleted(turn, ev)],
           waiting |-> CASE ev.type = "started" /\ fallbackAfter -> m.waiting \cup {ThreadOf[ev.turn]}
                         [] ev.type = "completed" -> m.waiting \ {ThreadOf[ev.turn]}
                         [] OTHER -> m.waiting]

(* #readUsageEvents(): the lines since the last read. *)
readUsageEvents(turns, wait, offset) ==
  FoldLeft(processUsageEvent, [turns |-> turns, waiting |-> wait],
           SubSeq(EventScript, offset + 1, logged))

-----------------------------------------------------------------------------
(* Reading a rollout. *)
Of(t) == {x \in Turns : ThreadOf[x] = t}
Found == {t \in Threads : size[t] > 0}

(* #clearRolloutTurns(): what was read from the rollout and the history of its thread go;   *)
(* turns the router reports stay with the responses they have seen.                          *)
Cleared(m, t) ==
  [m EXCEPT !.turns = [x \in Turns |-> IF x \in Of(t) /\ @[x] # None /\ @[x].source = "rollout"
                                       THEN None ELSE @[x]],
            !.history[t] = Zero]

(* The records n..size of the rollout of t, read into m; the line that has only begun is     *)
(* kept (pending).                                                                           *)
Lines(t, n) == SubSeq(RolloutScript[t], n, size[t] \div 2)
FirstLine(file) ==
  IF file.offset % 2 = 0 THEN file.offset \div 2 + 1
  ELSE IF file.pending THEN file.offset \div 2 + 1 ELSE file.offset \div 2 + 2

Processed(m, t, file, records) ==
  FoldLeft(processRolloutRecord, [turns |-> m.turns, file |-> file], records)

ReadTo(m, t, file, rebuilt) ==
  LET p == Processed(m, t, file, Lines(t, FirstLine(file))) IN
  [m EXCEPT !.turns = p.turns,
            !.files[t] = [p.file EXCEPT !.offset = size[t], !.pending = size[t] % 2 = 1,
                                        !.reconciled = @ \/ rebuilt, !.projected = @ \/ rebuilt]]

(* #readAppendedRolloutOnMain() after a failure: from the beginning. *)
Anew(file) == [NewFile EXCEPT !.checked = file.checked, !.projected = file.projected]
Rebuilt(m, t) == ReadTo(Cleared(m, t), t, Anew(m.files[t]), TRUE)

(* #readAppendedRolloutOnce(): what is new, or everything after the file was replaced or     *)
(* when its turns have to be rebuilt.                                                        *)
readAppendedRollout(m, t) ==
  LET file == m.files[t] IN
  IF ~file.reconciled \/ size[t] < file.offset THEN Rebuilt(m, t) ELSE ReadTo(m, t, file, FALSE)

(* The worker fails after it has delivered some records. *)
ReadAfterFailure(m, t) ==
  LET file == m.files[t]
      again == ~file.reconciled \/ size[t] < file.offset
      m0 == IF again THEN Cleared(m, t) ELSE m
      f0 == IF again THEN Anew(file) ELSE file
  IN {Rebuilt([m0 EXCEPT !.turns = Processed(m0, t, f0, SubSeq(Lines(t, FirstLine(f0)), 1, n)).turns], t)
        : n \in 0..Len(Lines(t, FirstLine(f0)))}

(* #ensureRolloutStates(); the view asks for a rebuild where turns were archived.            *)
Ensured(m, t, summarise) ==
  LET file == IF m.files[t] = None THEN NewFile ELSE m.files[t] IN
  [m EXCEPT !.files[t] = [file EXCEPT !.reconciled = @ /\ (summarise => file.projected)]]

Incomplete(m, t) == m.files[t] = None \/ ~m.files[t].projected
InView(t) == view # None /\ (t = view \/ Root[t] = view)
Summarised(m, t) ==
  t = view \/ (t \in m.summaries /\ t # Root[t] /\ Root[t] = view /\ Incomplete(m, t))

(* The manager's memory has changed (#markCacheDirty). *)
MarkDirty(changed) == dirty' = (dirty \/ changed) /\ newer' = (newer \/ changed)

-----------------------------------------------------------------------------
(* The beginning of a request: initialize() or refresh() up to the first rollout.            *)
Empty == [offset |-> 0, files |-> [t \in Threads |-> None], turns |-> [x \in Turns |-> None],
          history |-> [t \in Threads |-> Zero], summaries |-> {}, indexed |-> FALSE]

Content == IF pc # "off" THEN mem ELSE IF disk # None THEN disk ELSE Empty

(* The threads #refreshOnce() knows to have grown: the client names their paths. *)
Grown(m) == {t \in Threads : m.files[t] # None /\ m.files[t].offset # size[t]}
Resting == pc \in {"off", "idle"}
Wanted == (pc = "off" /\ disk = None) \/ Content.offset # logged \/ Grown(Content) # {}

(* #rebuildSummaryRolloutIndex(): threads with a history or an incomplete projection, and    *)
(* what they belong to.                                                                      *)
Index(m) ==
  LET own == {t \in Found : m.history[t] # Zero \/ (t \in m.summaries /\ Incomplete(m, t))}
  IN own \cup ({Root[t] : t \in own} \cap Found)

(* The bound on recently active threads: a discovery finds all of them active, a request    *)
(* without one none.                                                                         *)
Begin(m, v, catalog, fresh) ==
  LET read == readUsageEvents(m.turns, waiting, m.offset)
      summaries == IF catalog THEN Index(m) ELSE m.summaries
      next == [m EXCEPT !.offset = logged, !.turns = read.turns, !.summaries = summaries,
                        !.indexed = @ \/ catalog]
      paths == IF catalog THEN Found
               ELSE IF pc # "off" THEN known
               ELSE {t \in Threads : m.files[t] # None} \cup m.summaries
      recent == IF catalog THEN paths ELSE {}
  IN /\ mem' = next /\ known' = paths /\ waiting' = read.waiting
     /\ view' = v /\ pc' = "read"
     /\ todo' = (({v} \cup Grown(m) \cup recent) \cap paths) \cup read.waiting
                 \cup {t \in next.summaries \cap paths :
                         v # None /\ t # Root[t] /\ Root[t] = v /\ Incomplete(next, t)}
     /\ MarkDirty(fresh \/ next # m \/ ~m.indexed)

Request ==
  /\ Resting
  /\ \E v \in Views \cup {view}, catalog \in BOOLEAN :
       /\ IF v = view THEN Wanted /\ UNCHANGED views
          ELSE views < MaxViews /\ views' = views + 1
       /\ (pc = "off" /\ disk = None) => catalog
       /\ (v # None /\ ~Content.indexed) => catalog
       /\ Begin(Content, v, catalog, FALSE)
  /\ UNCHANGED <<files, saving, disk, faults>>

(* The cache cannot be loaded: everything is read again. *)
RequestWithoutCache ==
  /\ pc = "off" /\ disk # None /\ faults < MaxFaults
  /\ Begin(Empty, view, TRUE, TRUE)
  /\ faults' = faults + 1
  /\ UNCHANGED <<files, saving, disk, views>>

-----------------------------------------------------------------------------
(* The rollouts of a request, one after the other.  A thread whose file is not known yet is  *)
(* looked for once more.                                                                     *)
Searched(t) ==
  IF t \in known THEN mem ELSE [mem EXCEPT !.summaries = Index(mem), !.indexed = TRUE]

After1(t, m) ==
  LET x == m.files[t].current IN
  IF x # None /\ m.turns[x] # None /\ m.turns[x].completed THEN waiting \ {t} ELSE waiting

Outcomes(m, t, fails) == IF fails THEN ReadAfterFailure(m, t) ELSE {readAppendedRollout(m, t)}
ReadThread(t, fails) ==
  /\ pc = "read" /\ t \in todo
  /\ LET m == Searched(t) IN
     IF t \in Found
     THEN \E m1 \in Outcomes(Ensured(m, t, Summarised(m, t)), t, fails) :
            mem' = m1 /\ waiting' = After1(t, m1) /\ MarkDirty(m1 # mem)
     ELSE mem' = m /\ MarkDirty(m # mem) /\ UNCHANGED waiting
  /\ known' = IF t \in known THEN known ELSE Found
  /\ todo' = todo \ {t}
  /\ UNCHANGED <<files, pc, saving, disk, page>>

ReadRollout ==
  \E t \in Threads : ReadThread(t, FALSE) /\ UNCHANGED faults

WorkerFails ==
  /\ faults < MaxFaults /\ faults' = faults + 1
  /\ \E t \in Found : ReadThread(t, TRUE)

(* The refresh fails on the way; the next one goes on. *)
RefreshFails ==
  /\ pc = "read" /\ faults < MaxFaults
  /\ pc' = "idle" /\ todo' = {} /\ faults' = faults + 1
  /\ UNCHANGED <<files, mem, known, waiting, cache, page>>

-----------------------------------------------------------------------------
(* #pruneCompletedTurns(): completed turns beyond the limit go into the history of their     *)
(* thread, those of the task in view last; the rollout has to be read again for their        *)
(* details.  With the real limit of 4096 turns the oldest ones have long been reported in    *)
(* full, which the small one takes as a condition (Quiet).                                   *)
Quiet(x) ==
  /\ \A i \in DOMAIN EventScript : EventScript[i].turn = x => i <= mem.offset
  /\ mem.files[ThreadOf[x]] # None
  /\ \A i \in DOMAIN RolloutScript[ThreadOf[x]] :
       RolloutScript[ThreadOf[x]][i].turn = x => 2 * i <= mem.files[ThreadOf[x]].offset

Stored == {x \in Turns : mem.turns[x] # None}
Removable == {x \in Stored : mem.turns[x].completed /\ Quiet(x)}

Archivable(a) ==
  /\ Cardinality(a) = Min({Max({0, Cardinality(Stored) - MaxTurns}), Cardinality(Removable)})
  /\ (\E x \in a : InView(ThreadOf[x])) => \A x \in Removable \ a : InView(ThreadOf[x])

(* Mutant: archived turns leave the manager without a trace. *)
HistoryWithout(m, a, t) == m.history[t]

History(m, a, t) ==
  [r \in Responses |-> FoldSet(LAMBDA x, n : m.turns[x].counted[r] + n, m.history[t][r], a \cap Of(t))]

Archived(m, a) ==
  LET gone == {ThreadOf[x] : x \in a} IN
  [m EXCEPT !.history = [t \in Threads |-> History(m, a, t)],
            !.turns = [x \in Turns |-> IF x \in a THEN None ELSE @[x]],
            !.files = [t \in Threads |-> IF t \in gone /\ @[t] # None
                                         THEN [@[t] EXCEPT !.projected = FALSE] ELSE @[t]],
            !.summaries = @ \cup gone \cup {Root[t] : t \in gone}]

(* Threads with usage of an unknown model whose rollout may tell it. *)
Unknown(m) ==
  {t \in known :
     /\ \E x \in Of(t) : m.turns[x] # None /\ ~m.turns[x].model /\ Tokens(m.turns[x]) > 0
     /\ m.files[t] = None \/ m.files[t].checked # size[t]}

Settle ==
  /\ pc = "read" /\ todo = {}
  /\ \E a \in SUBSET Removable :
       /\ Archivable(a)
       /\ LET m == Archived(mem, a) IN
          /\ mem' = m /\ MarkDirty(m # mem)
          /\ todo' = Unknown(m) /\ pc' = IF Unknown(m) = {} THEN "idle" ELSE "fill"
  /\ UNCHANGED <<files, known, waiting, saving, disk, page, faults>>

(* The background completion of unknown models (#scheduleUnknownRolloutReconciliation). *)
Fill ==
  /\ pc = "fill"
  /\ \E t \in todo :
       /\ LET m == readAppendedRollout(Ensured(mem, t, FALSE), t)
              m1 == [m EXCEPT !.files[t].checked = m.files[t].offset]
          IN mem' = m1 /\ MarkDirty(m1 # mem)
       /\ todo' = todo \ {t} /\ pc' = IF todo = {t} THEN "idle" ELSE "fill"
  /\ UNCHANGED <<files, known, waiting, saving, disk, page, faults>>

-----------------------------------------------------------------------------
(* #persistCache(): turns without usage are not saved.  A change that comes while the file  *)
(* is being written is saved by the next write.                                              *)
Snapshot(m) == [m EXCEPT !.turns = [x \in Turns |-> IF @[x] # None /\ Tokens(@[x]) = 0 THEN None ELSE @[x]]]

Save ==
  /\ pc # "off" /\ dirty /\ saving = None
  /\ saving' = Snapshot(mem) /\ newer' = FALSE
  /\ UNCHANGED <<files, manager, dirty, disk, page, faults>>

(* Mutant: the write saves everything. *)
AllSaved == FALSE

StillDirty == newer

Saved ==
  /\ saving # None
  /\ disk' = saving /\ saving' = None /\ dirty' = StillDirty
  /\ UNCHANGED <<files, manager, newer, page, faults>>

SaveFails ==
  /\ saving # None /\ faults < MaxFaults
  /\ saving' = None /\ faults' = faults + 1
  /\ UNCHANGED <<files, manager, dirty, newer, disk, page>>

Gone ==
  /\ mem' = None /\ known' = {} /\ waiting' = {} /\ pc' = "off" /\ todo' = {}
  /\ dirty' = FALSE /\ newer' = FALSE /\ saving' = None

(* The service ends when it has been idle, after flush(). *)
Exit ==
  /\ pc = "idle" /\ ~dirty /\ saving = None
  /\ Gone
  /\ UNCHANGED <<files, disk, page, faults>>

Kill ==
  /\ pc # "off" /\ faults < MaxFaults
  /\ Gone /\ faults' = faults + 1
  /\ UNCHANGED <<files, disk, page>>

-----------------------------------------------------------------------------
(* Codex, the router and the relay write. *)
MayWrite(t, i) == \A e \in After : (e[1] = t /\ e[2] = i) => e[3] <= logged

Grow ==
  /\ \E t \in Threads : \E n \in Cuts[t] :
       /\ n > size[t] /\ \A i \in 1..(n + 1) \div 2 : MayWrite(t, i)
       /\ size' = [size EXCEPT ![t] = n]
  /\ UNCHANGED <<logged, manager, cache, page, faults>>

Log ==
  /\ logged' \in {n \in EventCuts : n > logged}
  /\ UNCHANGED <<size, manager, cache, page, faults>>

(* A rollout is replaced by a shorter one.  Of a thread with events this would lose the      *)
(* archived turns only the events had reported.                                              *)
Replace ==
  /\ faults < MaxFaults /\ faults' = faults + 1
  /\ \E t \in Found :
       /\ size[t] > 2 /\ size' = [size EXCEPT ![t] = 2]
       /\ \A i \in DOMAIN EventScript : ThreadOf[EventScript[i].turn] # t
  /\ UNCHANGED <<logged, manager, cache, page>>

Init ==
  /\ size = [t \in Threads |-> 0] /\ logged = 0
  /\ mem = None /\ known = {} /\ waiting = {} /\ view = None /\ views = 0
  /\ pc = "off" /\ todo = {} /\ dirty = FALSE /\ saving = None /\ newer = FALSE
  /\ disk = None /\ faults = 0

Work == ReadRollout \/ Settle \/ Fill \/ Save \/ Saved
Environment == Grow \/ Log \/ Replace
Faults == RequestWithoutCache \/ WorkerFails \/ RefreshFails \/ SaveFails \/ Kill
Next == Request \/ Work \/ Exit \/ Environment \/ Faults

Spec == Init /\ [][Next]_vars
(* A read that has begun ends, and the client asks while there is something to read.  (Weak  *)
(* fairness of ReadRollout, Settle and Fill, and of Request, in a form that costs TLC less.) *)
FairSpec == Spec /\ []<>Resting /\ []<>(~Resting \/ ~Wanted)

-----------------------------------------------------------------------------
Counted(r) ==
  FoldSet(LAMBDA x, n : n + IF Content.turns[x] = None THEN 0 ELSE Content.turns[x].counted[r], 0, Turns)
  + FoldSet(LAMBDA t, n : n + Content.history[t][r], 0, Threads)

(* The router's event, the relay's notification, the response's own record and the summary  *)
(* that repeats it report the same usage, before and after restarts, failing readers,       *)
(* replaced files and the archiving of turns: it is never counted twice.                     *)
CountedOnce == \A r \in Responses : Counted(r) <= 1

(* What a rollout that is followed reports is counted in the end.                            *)
Reported(r) ==
  \E t \in Threads : Content.files[t] # None /\
    \E i \in 1..size[t] \div 2 : RolloutScript[t][i].response = r

AllCounted == []<>(\A r \in Responses : Reported(r) => Counted(r) = 1)

(* A manager at rest without anything to save has saved all it knows: nothing is read twice *)
(* or lost because the process ends.                                                         *)
DiskIsCurrent == (pc = "idle" /\ ~dirty /\ saving = None) => disk = Snapshot(mem)
=============================================================================
