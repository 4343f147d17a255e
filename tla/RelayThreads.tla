----------------------------- MODULE RelayThreads -----------------------------
(***************************************************************************)
(* What the relay between the Codex app and its app-server knows of every  *)
(* thread: the model and the provider of its next turn, and the model of   *)
(* the turns under way.  src/app-server-relay/client-messages.mjs,         *)
(* server-messages.mjs, thread-context.mjs and usage.mjs.                  *)
(*                                                                         *)
(* The relay applies a new model when its request passes, numbers the      *)
(* requests, corrects itself by the answers and takes a failed request's   *)
(* model back.  The app-server handles the requests of its pipe in their   *)
(* order and answers each in its own time; between the two the user goes   *)
(* on, other windows change settings, and records that are not seen for    *)
(* long are dropped.  A message the server sends is relayed at once: its   *)
(* delay is that of the next request on its way to the server.             *)
(*                                                                         *)
(* Aliases of a model, effort, texts, the list of models and the checks of *)
(* task tools (HostTools) are left out.                                    *)
(***************************************************************************)
EXTENDS Naturals, Sequences, FiniteSets

CONSTANTS
  Threads,
  First,                 \* the thread that exists at first
  Official, Custom,      \* models of the official provider and of another platform
  Openai, Platform,      \* the two providers
  None,
  Defaulting,            \* whether thread/read and thread/list may report the default provider
  MaxRequests, MaxNotices, MaxDrops  \* bounds

VARIABLES
  relay,    \* ctx (of each thread; by is a ghost: the request its model is of), revision,
            \* pending requests, turn (models of turns)
  up,       \* requests on their way to the server, in order
  answers,  \* requests the server has handled and not answered
  server,   \* the model and the provider of each thread there
  turns,    \* its turns
  event,    \* the last usage event the relay wrote: its turn and its model
  log,      \* ghost: requests that failed, those whose failure found newer news of the thread, the
            \* newest model the server took for each thread, turns whose model the relay could not
            \* keep, threads it lost sight of
  count

vars == <<relay, up, answers, server, turns, event, log, count>>

Models == Official \cup Custom
ThreadsConstants ==
  /\ First \in Threads /\ Official # {} /\ None \notin Threads \cup Models \cup {Openai, Platform}
  /\ MaxRequests \in Nat /\ MaxNotices \in Nat /\ MaxDrops \in Nat
Nothing == [model |-> None, provider |-> None, source |-> "none", rev |-> 0, by |-> 0]
Absent == [model |-> None, provider |-> None]

\* providerForModel; a custom provider is one of an enabled platform here
ProviderOf(model) ==
  IF model \in Custom THEN Platform ELSE IF model \in Official THEN Openai ELSE None
\* JavaScript's ??
Or(x, y) == IF x # None THEN x ELSE y

(***************************************************************************)
(* The relay's operators.                                                  *)
(***************************************************************************)
Known(c, u) == (u.model # None /\ c.model # None) \/ (u.provider # None /\ c.provider # None)

\* updateThreadContext: nothing older, no second opinion of one answer, discovery fills gaps only
Updated(c, u) ==
  LET taken == /\ u.model # None \/ u.provider # None
               /\ u.rev >= c.rev
               /\ u.source = "response" /\ c.source = "response" /\ u.rev = c.rev => ~Known(c, u)
               /\ u.source = "discovery" => ~Known(c, u)
  IN IF taken THEN [model |-> Or(u.model, c.model), provider |-> Or(u.provider, c.provider),
                    source |-> u.source, rev |-> u.rev, by |-> IF u.model = None THEN c.by ELSE u.rev]
     ELSE c

\* Mutant of Restored: whatever came later goes with the failed request.
RestoredAlways(c, prev, id) == prev
\* restoreThreadContext: only what the failed request itself had set
Restored(c, prev, id) == IF c.rev = id THEN prev ELSE c

Setting(model, source, rev) == [model |-> model, provider |-> None, source |-> source, rev |-> rev]
Observed(r) == [r EXCEPT !.revision = @ + 1]
\* Ghost: the relay knows the provider of the thread, and nothing is under way that changes it
Sure(thread) ==
  thread # None =>
    /\ relay.ctx[thread].provider # None
    /\ ~\E p \in relay.pending : p.kind = "thread" /\ p.thread = thread
Sent(r, kind, thread, model, provider) ==
  up' = Append(up, [id |-> r.revision, kind |-> kind, thread |-> thread,
                    model |-> model, provider |-> provider, sure |-> Sure(thread)])
Awaited(r, kind, thread, model, provider, prev, sets) ==
  r.pending \cup {[id |-> r.revision, kind |-> kind, thread |-> thread, model |-> model,
                   provider |-> provider, prev |-> prev, sets |-> sets]}
Asked == /\ count.requests < MaxRequests
         /\ count' = [count EXCEPT !.requests = @ + 1]
         /\ UNCHANGED <<answers, server, turns, event, log>>

(***************************************************************************)
(* rewriteClientLine.                                                      *)
(***************************************************************************)

\* A thread the client has heard of
Open(thread) ==
  server[thread] # Absent /\ ~\E a \in answers : a.kind \in {"start", "fork"} /\ a.thread = thread

\* thread/settings/update, with a model or with other settings
UpdateSettings(thread, model) ==
  /\ Asked /\ Open(thread)
  /\ LET r == Observed(relay)
         c == r.ctx[thread]
     IN /\ relay' = [r EXCEPT
             !.ctx[thread] = IF model = None THEN c ELSE Updated(c, Setting(model, "settings", r.revision)),
             !.pending = Awaited(r, "settings", thread, model, None, c, model # None)]
        /\ Sent(r, "settings", thread, model, None)

\* thread/start, thread/resume and thread/fork; a thread is started with its own model or the
\* app-server's default
Requested(thread, model) == Or(model, IF thread = None THEN None ELSE relay.ctx[thread].model)
ProviderFor(thread, model) ==
  Or(ProviderOf(Requested(thread, model)), IF thread = None THEN None ELSE relay.ctx[thread].provider)
ThreadRequest(kind, thread, model) ==
  /\ Asked
  /\ IF kind = "start" THEN thread = None ELSE thread # None /\ Open(thread)
  /\ LET r == Observed(relay)
         wanted == Requested(thread, model)
         provider == ProviderFor(thread, model)
         prev == IF model = None \/ thread = None THEN Nothing ELSE r.ctx[thread]
     IN /\ relay' = [r EXCEPT
             !.ctx = IF kind = "resume" /\ model # None
                     THEN [@ EXCEPT ![thread] = Updated(r.ctx[thread], Setting(model, "request", r.revision))]
                     ELSE @,
             !.pending = Awaited(r, "thread", thread, wanted, provider, prev, model # None)]
        /\ Sent(r, kind, thread, wanted, provider)

\* turn/start: refused for another provider than the thread's, or for what its model cannot do
StartTurn(thread, model) ==
  /\ Asked /\ Open(thread)
  /\ LET r == Observed(relay)
         c == r.ctx[thread]
         wanted == Requested(thread, model)
         provider == ProviderFor(thread, model)
         switched == c.provider # None /\ provider # None /\ provider # c.provider
         passed == [r EXCEPT
                 !.ctx[thread] = IF model = None THEN @ ELSE Updated(@, Setting(model, "turn", r.revision)),
                 !.pending = Awaited(r, "turn", thread, wanted, provider,
                                     IF model = None THEN Nothing ELSE c, model # None)]
     IN \/ ~switched /\ relay' = passed /\ Sent(r, "turn", thread, wanted, None)
        \/ (switched \/ provider = Platform) /\ relay' = r /\ UNCHANGED up

\* thread/read, and thread/list for one of its threads
ReadThread(thread) ==
  /\ Asked
  /\ LET r == Observed(relay) IN
     /\ relay' = [r EXCEPT !.pending = Awaited(r, "read", thread, None, None, Nothing, FALSE)]
     /\ Sent(r, "read", thread, None, None)

(***************************************************************************)
(* The app-server handles the first request of its pipe.                   *)
(***************************************************************************)
Handled(req, thread, ok) ==
  /\ up' = Tail(up)
  /\ answers' = answers \cup {[id |-> req.id, kind |-> req.kind, thread |-> thread, ok |-> ok]}
  /\ UNCHANGED <<relay, event, count>>
Exists(thread) == server[thread] # Absent
Fails ==
  /\ up # << >>
  /\ Handled(Head(up), Head(up).thread, FALSE)
  /\ UNCHANGED <<server, turns, log>>
SettingsHandled ==
  /\ up # << >> /\ Head(up).kind = "settings" /\ Exists(Head(up).thread)
  /\ server' = [server EXCEPT ![Head(up).thread].model = Or(Head(up).model, @)]
  /\ Handled(Head(up), Head(up).thread, TRUE)
  /\ UNCHANGED <<turns, log>>
ThreadHandled(thread) ==
  /\ up # << >> /\ Head(up).kind \in {"start", "resume", "fork"}
  /\ LET req == Head(up)
         old == CASE req.kind = "start" -> [model |-> CHOOSE m \in Official : TRUE, provider |-> Openai]
                  [] req.kind # "start" -> server[req.thread]
     IN /\ req.kind # "start" => Exists(req.thread)
        /\ IF req.kind = "resume" THEN thread = req.thread ELSE ~Exists(thread)
        /\ server' = [server EXCEPT ![thread] =
             [model |-> Or(req.model, old.model), provider |-> Or(req.provider, old.provider)]]
        /\ Handled(req, thread, TRUE)
  /\ UNCHANGED <<turns, log>>
TurnHandled ==
  /\ up # << >> /\ Head(up).kind = "turn" /\ Exists(Head(up).thread)
  /\ LET req == Head(up)
         model == Or(req.model, server[req.thread].model)
     IN /\ server' = [server EXCEPT ![req.thread].model = model]
        /\ turns' = turns \cup {[id |-> req.id, thread |-> req.thread, model |-> model,
                                 stage |-> "accepted", answered |-> FALSE,
                                 sure |-> req.sure /\ req.thread \notin log.lost,
                                 mixed |-> ProviderOf(model) # server[req.thread].provider]}
        /\ log' = [log EXCEPT !.unsure = IF req.model = None THEN @ \cup {req.id} ELSE @]
        /\ Handled(req, req.thread, TRUE)
ReadHandled ==
  /\ up # << >> /\ Head(up).kind = "read" /\ Exists(Head(up).thread)
  /\ Handled(Head(up), Head(up).thread, TRUE)
  /\ UNCHANGED <<server, turns, log>>

(***************************************************************************)
(* rewriteServerLine: the answer to a request.                             *)
(***************************************************************************)
Asking(id) == {p \in relay.pending : p.id = id}
\* What the relay makes of a successful answer that reports a model and a provider
Verdict(p, model, provider) ==
  LET reported == Or(ProviderOf(model), provider)
      conflict == p.provider # None /\ reported # None /\ p.provider # reported
      known == IF p.model # None /\ (p.provider = Platform \/ conflict) THEN p.model
               ELSE Or(model, p.model)
  IN [model |-> known, source |-> "response", rev |-> p.id,
      provider |-> IF conflict THEN p.provider ELSE Or(Or(ProviderOf(known), provider), p.provider)]

\* A thread's answer reports the model it got, or the default; a read its provider, or the default
Reports(a) ==
  LET s == server[a.thread] IN
  CASE ~a.ok -> {Absent}
    [] a.ok /\ a.kind \in {"start", "resume", "fork"} ->
         {[model |-> s.model, provider |-> s.provider], [model |-> None, provider |-> Openai]}
    [] a.ok /\ a.kind = "read" -> {[model |-> None, provider |-> s.provider]}
         \cup IF Defaulting THEN {[model |-> None, provider |-> Openai]} ELSE {}
    [] OTHER -> {Absent}

Refused(a, p) ==
  /\ relay' = [relay EXCEPT
       !.pending = @ \ {p},
       !.ctx = IF p.thread = None THEN @ ELSE [@ EXCEPT ![p.thread] = Restored(relay.ctx[p.thread], p.prev, p.id)]]
  /\ log' = [log EXCEPT
       !.failed = @ \cup {a.id},
       !.excused = IF p.thread # None => relay.ctx[p.thread].rev # a.id THEN @ \cup {a.id} ELSE @]
  /\ UNCHANGED turns
Accepted(a, p, report) ==
  LET v == Verdict(p, report.model, report.provider) IN
  /\ relay' = [relay EXCEPT
       !.pending = @ \ {p},
       !.ctx[a.thread] = Updated(@, v),
       !.turn = IF p.kind = "turn" /\ v.model # None THEN [@ EXCEPT ![a.id] = v.model] ELSE @]
  /\ log' = [log EXCEPT !.newest[a.thread] =
       IF p.sets /\ (p.kind = "thread" => relay.ctx[a.thread].rev < a.id) /\ a.id > @
       THEN a.id ELSE @]
  /\ turns' = {IF t.id = a.id THEN [t EXCEPT !.answered = TRUE] ELSE t : t \in turns}
Answer(a, report) ==
  /\ answers' = answers \ {a}
  /\ LET told == \E p \in Asking(a.id) : IF a.ok THEN Accepted(a, p, report) ELSE Refused(a, p) IN
     IF Asking(a.id) # {} THEN told
     ELSE /\ turns' = {IF t.id = a.id THEN [t EXCEPT !.answered = TRUE] ELSE t : t \in turns}
          /\ UNCHANGED <<relay, log>>
  /\ UNCHANGED <<up, server, event, count>>

(***************************************************************************)
(* Notifications.                                                          *)
(***************************************************************************)
Noticed == count.notices < MaxNotices /\ count' = [count EXCEPT !.notices = @ + 1]
\* learnThreadContexts of a thread in a notification: discovery has no revision
Discover(thread) ==
  /\ Noticed /\ Exists(thread)
  /\ relay' = [relay EXCEPT !.ctx[thread] = Updated(@,
       [model |-> None, provider |-> server[thread].provider, source |-> "discovery", rev |-> 0])]
  /\ UNCHANGED <<up, answers, server, turns, event, log>>
\* thread/settings/updated: another window chose a model
SettingsUpdated(thread, model) ==
  /\ Noticed /\ Exists(thread) /\ ProviderOf(model) = server[thread].provider
  /\ server' = [server EXCEPT ![thread].model = model]
  /\ LET r == Observed(relay) IN
     /\ relay' = [r EXCEPT !.ctx[thread] = Updated(@, Setting(model, "settings", r.revision))]
     /\ log' = [log EXCEPT !.newest[thread] = r.revision]
  /\ UNCHANGED <<up, answers, turns, event>>

\* resolveTurnModel of a notification that names no model
ModelOf(t) == Or(relay.turn[t.id], relay.ctx[t.thread].model)
Becomes(t, new) == turns' = (turns \ {t}) \cup {new}
Wrote(t) == event' = [turn |-> t.id, thread |-> t.thread, model |-> ModelOf(t), truth |-> t.model]

\* turn/started may come before the answer to turn/start; what follows comes after it
TurnStarted(t) ==
  /\ t.stage = "accepted"
  /\ Becomes(t, [t EXCEPT !.stage = "running"])
  /\ relay' = [relay EXCEPT !.turn[t.id] = ModelOf(t)]
  /\ UNCHANGED <<up, answers, server, event, log, count>>
Rerouted(t, model) ==
  /\ Noticed /\ t.stage = "running" /\ t.answered /\ model # t.model
  /\ ProviderOf(model) = ProviderOf(t.model)
  /\ Becomes(t, [t EXCEPT !.model = model])
  /\ relay' = [relay EXCEPT !.turn[t.id] = model]
  /\ UNCHANGED <<up, answers, server, event, log>>
TurnUsage(t) ==
  /\ t.stage = "running" /\ t.answered
  /\ Wrote(t)
  /\ UNCHANGED <<relay, up, answers, server, turns, log, count>>
\* turn/completed and turn/aborted
TurnEnds(t) ==
  /\ t.stage = "running" /\ t.answered
  /\ Becomes(t, [t EXCEPT !.stage = "done"])
  /\ Wrote(t)
  /\ relay' = [relay EXCEPT !.turn[t.id] = None]
  /\ UNCHANGED <<up, answers, server, log, count>>

(***************************************************************************)
(* pruneRelayState: a request unanswered for two minutes, a turn of which  *)
(* nothing is heard for fifteen, a thread not seen for a week.             *)
(***************************************************************************)
Dropped == count.drops < MaxDrops /\ count' = [count EXCEPT !.drops = @ + 1]
           /\ UNCHANGED <<up, answers, server, turns, event>>
DropRequest(p) ==
  /\ Dropped
  /\ relay' = [relay EXCEPT !.pending = @ \ {p}]
  /\ log' = [log EXCEPT !.excused = @ \cup {p.id}, !.unsure = @ \cup {p.id},
                        !.lost = @ \cup (IF p.kind = "thread" THEN {p.thread} ELSE {})]
DropTurn(t) ==
  /\ Dropped /\ relay.turn[t.id] # None
  /\ relay' = [relay EXCEPT !.turn[t.id] = None]
  /\ log' = [log EXCEPT !.unsure = @ \cup {t.id}]
DropThread(thread) ==
  /\ Dropped /\ relay.ctx[thread] # Nothing /\ relay.pending = {}
  /\ relay' = [relay EXCEPT !.ctx[thread] = Nothing]
  /\ log' = [log EXCEPT !.newest[thread] = 0]

Init ==
  /\ relay = [ctx |-> [t \in Threads |-> Nothing], revision |-> 0, pending |-> {},
              turn |-> [i \in 1..(MaxRequests + MaxNotices) |-> None]]
  /\ up = << >> /\ answers = {} /\ turns = {}
  /\ server \in {[t \in Threads |-> IF t = First THEN [model |-> m, provider |-> ProviderOf(m)]
                                    ELSE Absent] : m \in Models}
  /\ event = [turn |-> 0, thread |-> First, model |-> None, truth |-> None]
  /\ log = [failed |-> {}, excused |-> {}, newest |-> [t \in Threads |-> 0], unsure |-> {}, lost |-> {}]
  /\ count = [requests |-> 0, notices |-> 0, drops |-> 0]

Client ==
  \/ \E thread \in Threads, model \in Models \cup {None} :
       UpdateSettings(thread, model) \/ StartTurn(thread, model)
  \/ \E kind \in {"start", "resume", "fork"}, thread \in Threads \cup {None},
        model \in Models \cup {None} : ThreadRequest(kind, thread, model)
  \/ \E thread \in Threads : ReadThread(thread)
Server ==
  \/ Fails \/ SettingsHandled \/ TurnHandled \/ ReadHandled
  \/ \E thread \in Threads : ThreadHandled(thread)
Replies == \E a \in answers : \E report \in Reports(a) : Answer(a, report)
Notices ==
  \/ \E thread \in Threads : Discover(thread)
  \/ \E thread \in Threads, model \in Models : SettingsUpdated(thread, model)
  \/ \E t \in turns : TurnStarted(t) \/ TurnUsage(t) \/ TurnEnds(t)
  \/ \E t \in turns, model \in Models : Rerouted(t, model)
Prune ==
  \/ \E p \in relay.pending : DropRequest(p)
  \/ \E t \in turns : DropTurn(t)
  \/ \E thread \in Threads : DropThread(thread)
Next == Client \/ Server \/ Replies \/ Notices \/ Prune
Spec == Init /\ [][Next]_vars

(***************************************************************************)
(* Properties.                                                             *)
(***************************************************************************)

SomeModel == Models \cup {None}
SomeProvider == {Openai, Platform, None}
Context == [model : SomeModel, provider : SomeProvider, rev : Nat, by : Nat,
            source : {"none", "settings", "request", "turn", "response", "discovery"}]
Pending == [id : Nat, kind : {"settings", "thread", "turn", "read"}, thread : Threads \cup {None}, model : SomeModel,
            provider : SomeProvider, prev : Context, sets : BOOLEAN]
Kinds == {"settings", "start", "resume", "fork", "turn", "read"}
TypeOK ==
  /\ relay \in [ctx : [Threads -> Context], revision : Nat, pending : SUBSET Pending,
                turn : [1 .. MaxRequests + MaxNotices -> SomeModel]]
  /\ up \in Seq([id : Nat, kind : Kinds, thread : Threads \cup {None}, model : SomeModel, provider : SomeProvider,
                 sure : BOOLEAN])
  /\ answers \in SUBSET [id : Nat, kind : Kinds, thread : Threads \cup {None}, ok : BOOLEAN]
  /\ server \in [Threads -> [model : SomeModel, provider : SomeProvider]]
  /\ turns \in SUBSET [id : Nat, thread : Threads, model : SomeModel, stage : {"accepted", "running", "done"},
                       answered : BOOLEAN, sure : BOOLEAN, mixed : BOOLEAN]
  /\ event \in [turn : Nat, thread : Threads, model : SomeModel, truth : SomeModel]
  /\ log \in [failed : SUBSET Nat, excused : SUBSET Nat, newest : [Threads -> Nat], unsure : SUBSET Nat,
              lost : SUBSET (Threads \cup {None})]
  /\ count \in [requests : 0 .. MaxRequests, notices : 0 .. MaxNotices, drops : 0 .. MaxDrops]

\* The model of a thread is never one that failed, unless something newer of the thread was known
\* when it failed; and never older than the newest the server took, in whatever order requests
\* overlap, fail and are answered.
ModelFollows ==
  \A t \in Threads :
    /\ relay.ctx[t].by \notin log.failed \ log.excused
    /\ relay.ctx[t].by >= log.newest[t]

\* The usage of a turn is put down to the model the turn runs with, whatever the thread is
\* switched to meanwhile; where the relay knew that model and has kept its record of the turn.
UsageIsOfTurn == event.turn # 0 /\ event.turn \notin log.unsure => event.model = event.truth

\* No turn is handed to a provider other than its thread's.
TurnsKeepProvider == \A t \in turns : t.sure => ~t.mixed
=============================================================================
