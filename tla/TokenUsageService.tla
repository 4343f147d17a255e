--------------------------- MODULE TokenUsageService ---------------------------
(* The client of the token-usage service (token-usage/process-client.mjs): a      *)
(* short-lived child process reads the event file and the rollouts, and the       *)
(* client keeps what the page shows of the task in view.  Modelled are the        *)
(* initialisation, the serial refresh loop, the debounced timer, the view cache,  *)
(* the deltas, the life of the child (retirement, timeouts, crashes) and close(). *)
(*                                                                                 *)
(* A turn is shown as <<its version, the price version of its cost>>, Nothing if   *)
(* it is not shown.  At most one request is under way: a refresh waits for the     *)
(* initialisation, and the flush of close() waits for both.                        *)
EXTENDS Naturals, FiniteSets

CONSTANTS Threads,      \* the tasks the page can show
          Turns,
          Shows,        \* Shows[t]: the turns the view of task t lists
          None,
          MaxGrowths,   \* bound: changes of the files
          MaxEvents     \* bound: changes of the task in view and of the exchange rate, failing
                        \* reads, timeouts and crashes, taken together

Versions == 0..(MaxGrowths + 1)
Prices == 0..MaxEvents

(* An answer of the service, a request, and the child process with the request it has. *)
Answers == [thread : Threads \cup {None}, read : [Turns -> Versions], price : Prices,
            status : {"ready", "error"}, found : BOOLEAN]
Requests == [what : {"init", "refresh", "flush"}, thread : Threads \cup {None}, discover : BOOLEAN,
             state : {"sent", "done"}, answer : Answers \cup {None}]
Processes == [req : Requests \cup {None}, ending : BOOLEAN, retire : BOOLEAN, killed : BOOLEAN,
              price : Prices \cup {None}]

ServiceConstants ==
  /\ Shows \in [Threads -> SUBSET Turns]
  /\ {MaxGrowths, MaxEvents} \subseteq Nat
  /\ None \notin Processes /\ None \notin Requests

VARIABLES source,       \* the files: each turn's version, 0 while there is no such turn
          growths,
          price,        \* the exchange rate in its file (pricingRevision)
          read,         \* what the service has read, carried over in its cache file
          service,      \* the child this.service stands for, or None
          children,     \* how many child processes there are
          viewThread, switches, view, cached,
          known,        \* the turns and signatures the client holds
          snapshot,     \* sourceSnapshot: what the last applied delta had read, or None
          fullDue,      \* a full discovery is due
          appliedPrice,
          initialized, init, loop, pending, scheduled, parked,
          closing,      \* open | waiting | flush | exit | done
          faults

(* Something may still happen within the bound. *)
Eventful == switches + price + faults < MaxEvents

files == <<source, growths, price, read>>
process == <<service, children>>
shown == <<viewThread, switches, view, cached, known, snapshot>>
settings == <<fullDue, appliedPrice, initialized>>
work == <<init, loop, pending, scheduled, parked>>
vars == <<files, process, shown, settings, work, closing, faults>>

Nothing == <<0, 0>>
Blank == [x \in Turns |-> Nothing]

(* What a service that has read r and calculates with price p answers for task t. *)
Listed(t, r, p) ==
  [x \in Turns |-> IF x \in Shows[t] /\ r[x] > 0 THEN <<r[x], p>> ELSE Nothing]

Ids(turns) == {x \in Turns : turns[x] # Nothing}

(* A wish for a refresh; the flags of wishes that meet are joined. *)
Wish(d, p) == [discover |-> d, process |-> p]
Merged(a, b) == IF a = None THEN b
                ELSE IF b = None THEN a
                ELSE Wish(a.discover \/ b.discover, a.process \/ b.process)

Idle == [pc |-> "idle", wish |-> None, due |-> FALSE, changed |-> FALSE, priced |-> FALSE,
         thread |-> None, rev |-> 0, price |-> 0]
Joining(w) == [Idle EXCEPT !.pc = "init", !.wish = w]
Resting == [pc |-> "idle", thread |-> None, rev |-> 0, price |-> 0]

Init ==
  /\ source \in [Turns -> {0, 1}] /\ growths = 0 /\ price = 0
  /\ read = [x \in Turns |-> 0]
  /\ service = None /\ children = 0
  /\ viewThread \in Threads /\ switches = 0
  /\ view = [thread |-> None, turns |-> Blank, status |-> "loading"]
  /\ cached = [t \in Threads |-> None]
  /\ known = Blank /\ snapshot = None
  /\ fullDue = TRUE /\ appliedPrice = 0 /\ initialized = FALSE
  /\ init = [Resting EXCEPT !.pc = "begin"]
  /\ loop = Idle /\ pending = None /\ scheduled = None /\ parked = None
  /\ closing = "open" /\ faults = 0

-----------------------------------------------------------------------------
(* #refreshOnce() up to its first await: the initialisation, or the probe of the   *)
(* sources.                                                                         *)
Probing(w) == [Idle EXCEPT !.pc = "probe", !.wish = w, !.due = fullDue',
                           !.priced = price # appliedPrice']

Pass(w) ==
  IF initialized
  THEN loop' = Probing(w) /\ UNCHANGED init
  ELSE /\ loop' = Joining(w)
       /\ init' = IF init.pc = "idle" THEN [Resting EXCEPT !.pc = "begin"] ELSE init

Taken(w) == IF closing = "open" THEN w ELSE None

(* refresh(): the running loop takes the wish up after its current pass. *)
Refresh(w) ==
  IF Taken(w) = None THEN UNCHANGED <<loop, pending, init>>
  ELSE IF loop.pc = "idle" THEN Pass(w) /\ UNCHANGED pending
  ELSE pending' = Merged(pending, w) /\ UNCHANGED <<loop, init>>

(* The end of a pass of the loop, in which also the wish w has come in. *)
NextPass(w) ==
  LET p == Taken(Merged(pending, w)) IN
  /\ pending' = None
  /\ IF p = None THEN loop' = Idle /\ UNCHANGED init ELSE Pass(p)

(* #scheduleRefresh(): one debounced timer. *)
Scheduled(s, w, restart) ==
  IF closing # "open" THEN s
  ELSE [wish |-> Merged(IF s = None THEN None ELSE s.wish, w),
        restart |-> restart \/ (s # None /\ s.restart)]

-----------------------------------------------------------------------------
(* #ensureService() and #sendRequest(): the running child, or a new one. *)
Asked(s, what, t, d) ==
  LET r == [what |-> what, thread |-> t, discover |-> d, state |-> "sent", answer |-> None] IN
  IF s = None
  THEN [req |-> r, ending |-> FALSE, retire |-> FALSE, killed |-> FALSE, price |-> None]
  ELSE [s EXCEPT !.req = r]

Ask(what, t, d) ==
  /\ service' = Asked(service, what, t, d)
  /\ children' = IF service = None THEN children + 1 ELSE children

(* #beginRetirement(): at once, or after the request that is under way. *)
Retired(s) ==
  IF s = None THEN None
  ELSE IF s.req # None THEN [s EXCEPT !.retire = TRUE]
  ELSE [s EXCEPT !.ending = TRUE]

(* #afterServiceRequest() *)
Answered(s) == LET t == [s EXCEPT !.req = None] IN IF s.retire THEN Retired(t) ELSE t

Ending == service # None /\ service.ending

-----------------------------------------------------------------------------
(* #applyDelta(): the turns the client does not hold in this version, and those   *)
(* it must drop; the view is rebuilt only when the delta changed something.       *)
Delta(a) == [known |-> Listed(a.thread, a.read, a.price),
             changed |-> \/ Listed(a.thread, a.read, a.price) # known
                         \/ Ids(Listed(a.thread, a.read, a.price)) # Ids(view.turns)]

(* Mutant: a new status alone does not count as a change of the view. *)
RebuiltForTurns(a) ==
  IF Delta(a).changed THEN [thread |-> a.thread, turns |-> Delta(a).known, status |-> a.status]
  ELSE [view EXCEPT !.thread = a.thread]

Rebuilt(a) == [thread |-> a.thread,
               turns |-> IF Delta(a).changed THEN Delta(a).known ELSE view.turns,
               status |-> a.status]

Apply(a, base) ==
  /\ known' = Delta(a).known
  /\ view' = Rebuilt(a)
  /\ cached' = IF a.status = "ready" THEN [base EXCEPT ![a.thread] = Rebuilt(a).turns] ELSE base
  /\ snapshot' = a.read

Discovered(a) == IF a.found /\ a.status = "ready" THEN FALSE ELSE fullDue

Failed == view' = [view EXCEPT !.status = "error"]

-----------------------------------------------------------------------------
(* initialize(): the view and the price it asks with are those of this moment. *)
InitAsks ==
  /\ init.pc = "begin"
  /\ IF closing # "open"
     THEN /\ init' = Resting /\ Failed
          /\ UNCHANGED <<service, children>>
     ELSE /\ init' = [pc |-> IF Ending THEN "exit" ELSE "wait",
                      thread |-> viewThread, rev |-> switches, price |-> price]
          /\ IF Ending THEN UNCHANGED <<service, children>> ELSE Ask("init", viewThread, TRUE)
          /\ UNCHANGED view
  /\ UNCHANGED <<files, viewThread, switches, cached, known, snapshot, settings, loop, pending,
                 scheduled, parked, closing, faults>>

InitAnswered(a) ==
  /\ initialized' = TRUE /\ appliedPrice' = init.price /\ init' = Resting
  /\ fullDue' = Discovered(a)
  /\ LET restart == price # init.price
         late == init.rev # switches IN
     /\ IF late THEN UNCHANGED <<view, cached, known, snapshot>> ELSE Apply(a, cached)
     /\ scheduled' = IF late \/ restart
                     THEN Scheduled(scheduled, Wish(FALSE, TRUE), restart) ELSE scheduled
  /\ UNCHANGED <<loop, pending>>

InitRejected ==
  /\ init' = Resting /\ Failed
  /\ UNCHANGED <<settings, cached, known, snapshot, loop, pending, scheduled>>

-----------------------------------------------------------------------------
(* #refreshOnce() *)
LoopInitialized ==
  /\ loop.pc = "init" /\ init.pc = "idle"
  /\ UNCHANGED <<files, process, shown, settings, scheduled, parked, closing, faults>>
  /\ IF initialized /\ closing = "open"
     THEN loop' = Probing(loop.wish) /\ UNCHANGED <<init, pending>>
     ELSE NextPass(None)

(* The request of a refresh: the view and the price are taken before the wait for *)
(* a child that is ending.                                                        *)
Ready(changed) == [loop EXCEPT !.changed = changed, !.thread = viewThread, !.rev = switches,
                               !.price = price]

AskRefresh(changed) ==
  IF closing # "open"
  THEN /\ Failed /\ NextPass(None) /\ UNCHANGED <<service, children>>
  ELSE /\ loop' = [Ready(changed) EXCEPT !.pc = IF Ending THEN "exit" ELSE "wait"]
       /\ IF Ending THEN UNCHANGED <<service, children>>
          ELSE Ask("refresh", viewThread, loop.wish.discover \/ loop.due)
       /\ UNCHANGED <<view, init, pending>>

(* #sourceChanges(): only what the last delta named is looked at. *)
Changed == snapshot = None \/ \E x \in Turns : snapshot[x] > 0 /\ snapshot[x] # source[x]

Probed ==
  /\ loop.pc = "probe"
  /\ UNCHANGED <<files, viewThread, switches, cached, known, snapshot, settings, scheduled,
                 parked, closing, faults>>
  /\ IF ~(Changed \/ loop.wish.discover \/ loop.wish.process \/ loop.due \/ loop.priced)
     THEN NextPass(None) /\ UNCHANGED <<service, children, view>>
     ELSE IF loop.priced /\ service # None
     THEN /\ loop' = [loop EXCEPT !.pc = "retire", !.changed = Changed]
          /\ service' = Retired(service)
          /\ UNCHANGED <<children, view, init, pending>>
     ELSE AskRefresh(Changed)

LoopRetired ==
  /\ loop.pc = "retire" /\ service = None
  /\ UNCHANGED <<files, viewThread, switches, cached, known, snapshot, settings, scheduled,
                 parked, closing, faults>>
  /\ AskRefresh(loop.changed)

(* The end of the wait for a child that was ending. *)
ExitAwaited ==
  /\ ~Ending
  /\ \/ /\ init.pc = "exit"
        /\ init' = [init EXCEPT !.pc = "wait"]
        /\ Ask("init", init.thread, TRUE)
        /\ UNCHANGED loop
     \/ /\ loop.pc = "exit"
        /\ loop' = [loop EXCEPT !.pc = "wait"]
        /\ Ask("refresh", loop.thread, loop.wish.discover \/ loop.due)
        /\ UNCHANGED init
  /\ UNCHANGED <<files, shown, settings, pending, scheduled, parked, closing, faults>>

Base == IF loop.changed \/ loop.priced \/ loop.wish.discover \/ loop.due
        THEN [t \in Threads |-> None] ELSE cached

(* Mutant: the answer is applied whatever the page shows by now. *)
LoopAnsweredLate(a) ==
  /\ appliedPrice' = loop.price
  /\ Apply(a, Base)
  /\ fullDue' = Discovered(a)
  /\ UNCHANGED <<initialized, scheduled>>

LoopAnswered(a) ==
  /\ appliedPrice' = loop.price
  /\ UNCHANGED initialized
  /\ IF loop.rev # switches
     THEN /\ scheduled' = Scheduled(scheduled, Wish(FALSE, TRUE), FALSE)
          /\ cached' = Base
          /\ UNCHANGED <<view, known, snapshot, fullDue>>
     ELSE /\ Apply(a, Base)
          /\ fullDue' = Discovered(a)
          /\ scheduled' = IF price # loop.price
                          THEN Scheduled(scheduled, Wish(FALSE, TRUE), TRUE) ELSE scheduled

LoopRejected ==
  /\ IF loop.rev # switches
     THEN scheduled' = Scheduled(scheduled, Wish(FALSE, TRUE), FALSE) /\ UNCHANGED view
     ELSE Failed /\ UNCHANGED scheduled
  /\ UNCHANGED <<settings, cached, known, snapshot>>

-----------------------------------------------------------------------------
(* The service: it reads, and calculates with the price it found when it started.  *)
(* Without a discovery it reads on in the files it knows, with one it finds all;   *)
(* it may also discover by itself.                                                  *)
Reading(all) == [x \in Turns |-> IF all \/ read[x] > 0 THEN source[x] ELSE 0]

ServiceReads ==
  /\ service # None /\ service.req # None /\ service.req.state = "sent" /\ ~service.killed
  /\ LET r == service.req
         p == IF service.price = None THEN price ELSE service.price
         Done(a) == service' = [service EXCEPT !.price = p,
                                               !.req = [r EXCEPT !.state = "done", !.answer = a]]
         Answer(now, status) == [thread |-> r.thread, read |-> now, price |-> p,
                                 status |-> status, found |-> r.discover /\ status = "ready"]
     IN
     \/ /\ r.what = "flush"
        /\ service' = [service EXCEPT !.req = [r EXCEPT !.state = "done"]]
        /\ UNCHANGED <<read, faults>>
     \/ /\ r.what # "flush"
        /\ \E all \in {TRUE, r.discover} :
             read' = Reading(all) /\ Done(Answer(Reading(all), "ready"))
        /\ UNCHANGED faults
     \/ /\ r.what # "flush" /\ Eventful
        /\ faults' = faults + 1
        /\ Done(Answer(read, "error"))
        /\ UNCHANGED read
     \/ /\ r.what # "flush" /\ Eventful
        /\ faults' = faults + 1
        /\ Done(None)
        /\ UNCHANGED read
  /\ UNCHANGED <<source, growths, price, children, shown, settings, work, closing>>

(* #handleProtocolLine() and the step of the request it resolves or rejects. *)
Response ==
  /\ service # None /\ service.req # None /\ service.req.state = "done" /\ ~service.killed
  /\ LET r == service.req IN
     CASE r.what = "init" ->
            /\ service' = Answered(service)
            /\ IF r.answer = None THEN InitRejected ELSE InitAnswered(r.answer)
            /\ UNCHANGED closing
       [] r.what = "refresh" ->
            /\ service' = Answered(service)
            /\ IF r.answer = None THEN LoopRejected ELSE LoopAnswered(r.answer)
            /\ NextPass(None)
            /\ UNCHANGED closing
       [] OTHER ->
            /\ service' = Retired(Answered(service))
            /\ closing' = "exit"
            /\ UNCHANGED <<view, cached, known, snapshot, settings, init, loop, pending, scheduled>>
  /\ UNCHANGED <<files, children, viewThread, switches, parked, faults>>

(* A request that is rejected before its answer: a timeout, a broken pipe, a child *)
(* that closes.  w is what refresh() is asked for in the same step; it joins an     *)
(* initialisation that is just failing.                                             *)
Rejected(s, w) ==
  CASE s.req = None ->
         /\ UNCHANGED <<view, cached, known, snapshot, settings, scheduled>>
         /\ Refresh(w)
    [] s.req # None /\ s.req.what = "init" ->
         /\ init' = Resting /\ Failed
         /\ loop' = IF loop.pc = "idle" /\ Taken(w) # None THEN Joining(w) ELSE loop
         /\ pending' = IF loop.pc = "idle" THEN pending ELSE Merged(pending, Taken(w))
         /\ UNCHANGED <<settings, cached, known, snapshot, scheduled>>
    [] s.req # None /\ s.req.what = "refresh" ->
         LoopRejected /\ NextPass(w)
    [] OTHER ->
         UNCHANGED <<view, cached, known, snapshot, settings, init, loop, pending, scheduled>>

(* The timer of #sendRequest() and #failService(): the child is killed. *)
RequestFails ==
  /\ service # None /\ service.req # None /\ ~service.killed /\ Eventful
  /\ faults' = faults + 1
  /\ Rejected(service, None)
  /\ LET s == [service EXCEPT !.req = None, !.killed = TRUE] IN
     IF service.req.what = "flush"
     THEN service' = Retired(s) /\ closing' = "exit"
     ELSE service' = s /\ UNCHANGED closing
  /\ UNCHANGED <<files, children, viewThread, switches, parked>>

(* #handleServiceClose(): the waits for the exit end, and with them the refreshes  *)
(* the timer had put off.                                                           *)
Gone ==
  /\ service' = None /\ children' = children - 1
  /\ Rejected(service, parked)
  /\ parked' = None
  /\ closing' = IF closing \in {"flush", "exit"} THEN "done" ELSE closing
  /\ UNCHANGED <<source, growths, price, viewThread, switches>>

ServiceExits ==
  /\ service # None
  /\ service.killed \/ service.ending
  /\ Gone
  /\ UNCHANGED <<read, faults>>

(* A crash may also cost the cache the service had not saved. *)
ServiceCrashes ==
  /\ service # None /\ Eventful
  /\ faults' = faults + 1
  /\ read' \in {read, [x \in Turns |-> 0]}
  /\ Gone

(* The idle timer. *)
ServiceIdles ==
  /\ service # None /\ service.req = None /\ ~service.ending
  /\ service' = Retired(service)
  /\ UNCHANGED <<files, children, shown, settings, work, closing, faults>>

-----------------------------------------------------------------------------
(* The debounced timer of #scheduleRefresh(). *)
Fires ==
  /\ scheduled # None
  /\ scheduled' = None
  /\ UNCHANGED <<files, children, shown, settings, closing, faults>>
  /\ IF scheduled.restart /\ service # None
     THEN /\ service' = Retired(service)
          /\ parked' = Merged(parked, scheduled.wish)
          /\ UNCHANGED <<loop, pending, init>>
     ELSE Refresh(scheduled.wish) /\ UNCHANGED <<service, parked>>

(* The fallback timer of the injector. *)
Poll ==
  /\ closing = "open"
  /\ UNCHANGED <<files, process, shown, settings, scheduled, parked, closing, faults>>
  /\ Refresh(Wish(FALSE, FALSE))

DiscoveryDue ==
  /\ closing = "open" /\ ~fullDue
  /\ fullDue' = TRUE
  /\ UNCHANGED <<files, process, shown, appliedPrice, initialized, work, closing, faults>>

(* setViewThread(): a view seen before is shown at once. *)
SwitchTo(t) ==
  /\ closing = "open" /\ t # viewThread /\ Eventful
  /\ viewThread' = t /\ switches' = switches + 1
  /\ view' = IF cached[t] = None THEN view
             ELSE [thread |-> t, turns |-> cached[t], status |-> "ready"]
  /\ scheduled' = IF initialized \/ init.pc # "idle"
                  THEN Scheduled(scheduled, Wish(FALSE, cached[t] = None), FALSE) ELSE scheduled
  /\ UNCHANGED <<files, process, cached, known, snapshot, settings, init, loop, pending, parked,
                 closing, faults>>

(* A turn goes on or a new one appears; a watcher may notice, and asks for a        *)
(* discovery when the file is new.                                                   *)
Grows(x) ==
  /\ closing = "open" /\ growths < MaxGrowths
  /\ source' = [source EXCEPT ![x] = @ + 1] /\ growths' = growths + 1
  /\ \/ scheduled' = scheduled
     \/ initialized /\ scheduled' = Scheduled(scheduled, Wish(source[x] = 0, FALSE), FALSE)
  /\ UNCHANGED <<price, read, process, shown, settings, init, loop, pending, parked, closing,
                 faults>>

(* The listener of the pricing manager, which has saved the new rate. *)
PriceChanges ==
  /\ closing = "open" /\ Eventful
  /\ price' = price + 1
  /\ cached' = [t \in Threads |-> None]
  /\ scheduled' = IF initialized THEN Scheduled(scheduled, Wish(FALSE, TRUE), TRUE) ELSE scheduled
  /\ UNCHANGED <<source, growths, read, process, viewThread, switches, view, known, snapshot, settings,
                 init, loop, pending, parked, closing, faults>>

(* close() and #shutdown(), which waits for what is under way, flushes the cache   *)
(* of a running child and ends it.                                                  *)
Close ==
  /\ closing = "open"
  /\ closing' = "waiting" /\ pending' = None /\ scheduled' = None
  /\ UNCHANGED <<files, process, shown, settings, init, loop, parked, faults>>

ShutsDown ==
  /\ closing = "waiting" /\ init.pc = "idle" /\ loop.pc = "idle"
  /\ IF service = None THEN closing' = "done" /\ UNCHANGED <<service, children>>
     ELSE IF service.ending THEN closing' = "exit" /\ UNCHANGED <<service, children>>
     ELSE closing' = "flush" /\ Ask("flush", None, FALSE)
  /\ UNCHANGED <<files, shown, settings, work, faults>>

-----------------------------------------------------------------------------
ClientStep == \/ InitAsks \/ LoopInitialized \/ Probed \/ LoopRetired
              \/ ExitAwaited \/ Response \/ Fires \/ ShutsDown

Environment == \/ \E t \in Threads : SwitchTo(t)
               \/ \E x \in Turns : Grows(x)
               \/ PriceChanges \/ Close \/ RequestFails \/ ServiceCrashes

Next == ClientStep \/ ServiceReads \/ ServiceExits \/ ServiceIdles \/ Poll \/ DiscoveryDue
        \/ Environment

Spec == Init /\ [][Next]_vars

(* Timers fire, the service answers and leaves when it is told to.  The idle time of the     *)
(* child (2 s) is shorter than the time between two polls (15 s), so a child that is asked   *)
(* again and again still idles out between the questions: strong fairness.                    *)
FairSpec == /\ Spec
            /\ WF_vars(ClientStep) /\ WF_vars(ServiceReads) /\ WF_vars(ServiceExits)
            /\ WF_vars(Poll) /\ WF_vars(DiscoveryDue) /\ SF_vars(ServiceIdles)

-----------------------------------------------------------------------------
Content == Versions \X Prices

(* The type invariant: there is a request only on the child this.service stands for, and the  *)
(* process that asked is waiting for it.                                                        *)
TypeOK ==
  /\ source \in [Turns -> Versions] /\ read \in [Turns -> Versions]
  /\ known \in [Turns -> Content] /\ view.turns \in [Turns -> Content]
  /\ view.status \in {"loading", "ready", "error"}
  /\ children \in Nat
  /\ init.pc \in {"idle", "begin", "exit", "wait"}
  /\ loop.pc \in {"idle", "init", "probe", "retire", "exit", "wait"}
  /\ closing \in {"open", "waiting", "flush", "exit", "done"}
  /\ (init.pc = "wait") <=> (service # None /\ service.req # None /\ service.req.what = "init")
  /\ (loop.pc = "wait") <=> (service # None /\ service.req # None /\ service.req.what = "refresh")

(* The view of a task that is no longer shown never replaces the current one                  *)
(* (requestedViewRevision in #refreshOnce and initialize).                                     *)
NoLateView == [][view'.thread # view.thread => view'.thread = viewThread']_vars

(* When the files, the rate and the page rest, the page comes to show the turns of its task   *)
(* as the files have them, whatever was lost, late or failed before.                           *)
ViewConverges ==
  <>[](closing = "open" =>
         view.status = "ready" /\ view.turns = Listed(viewThread, source, price))

=============================================================================
