----------------------------- MODULE ModelCatalog -----------------------------
(***************************************************************************)
(* The refresh of the official model catalogue: the coordinator of         *)
(* src/model-catalog-coordinator.mjs, which serves the requests of         *)
(* launches, of the user, of the hourly timer and of a changed login one   *)
(* after the other, src/official-model-catalog.mjs, which answers it       *)
(* from its cache or online, and the part of src/codex-context.mjs that    *)
(* keeps the catalogue in use.                                             *)
(*                                                                         *)
(* pc is the await at which the one refresh under way is.  The login and   *)
(* its token may change at every await.  A catalogue is known by the       *)
(* account it was asked for and by its edition.                            *)
(***************************************************************************)
EXTENDS Naturals

CONSTANTS
  Accounts, None,
  Unread,       \* the login of a refresh that could not read it
  MaxLogins,    \* bound: changes of the login or of its token
  MaxRequests,  \* bound: requests of the user, of launches and of the timer
  MaxEditions,  \* bound: editions of the catalogues
  MaxFaults     \* bound: steps that fail

Editions == 0 .. MaxEditions
Logins == [of : Accounts, token : 0 .. MaxLogins] \cup {None}
Catalogs == [of : Accounts \cup {None}, edition : Editions]
Delays == {"hour", "busy", "backoff", "never"}

VARIABLES
  login,    \* what getCurrentModelCatalogAccount answers
  edition,  \* what OpenAI would answer now
  cache,    \* official-model-catalog/<key>.json: an edition and whether it is fresh
  co,       \* the fields of the coordinator
  pc, job,  \* the refresh under way and what it holds
  timer,    \* "off" or "armed"
  asking,   \* the timer fired, and whether a refresh may run is being asked
  context,  \* allowed, transient and shown of the context manager
  synced,   \* the login that the last sync with auth.json found
  owed,     \* ghost: a forced request has not led to a forced attempt yet
  swallowed,  \* ghost: a sync other than the watch's and the coordinator's found a new login
  count

vars == <<login, edition, cache, co, pc, job, timer, asking, context, synced, owed, swallowed, count>>
outside == <<login, edition, cache, synced, swallowed>>

AccountOf(l) == IF l = None THEN None ELSE l.of
NoJob == [revision |-> 0, notify |-> FALSE, force |-> FALSE, key |-> Unread,
          catalog |-> None, failed |-> FALSE, retryable |-> TRUE]

TypeOK ==
  /\ login \in Logins /\ synced \in Logins /\ edition \in Editions
  /\ cache \in [Accounts -> [edition : Editions, fresh : BOOLEAN] \cup {None}]
  /\ co.completed <= co.revision /\ co.delay \in Delays
  /\ pc \in {"idle", "account", "identity", "scope", "fetch", "check", "use", "recheck",
             "fallback", "told"}
  /\ timer \in {"off", "armed"} /\ asking \in BOOLEAN
  /\ context.transient \in Catalogs \cup {None} /\ context.shown \in Catalogs \cup {None}
  /\ (pc = "idle") = (job = NoJob)

\* initialize() of the context manager read Codex's own models_cache.json.
Init ==
  /\ login \in [of : Accounts, token : {0}] \cup {None}
  /\ edition = 0 /\ synced = login /\ swallowed = FALSE
  /\ cache = [a \in Accounts |-> None]
  /\ co = [revision |-> 0, completed |-> 0, notify |-> FALSE, force |-> FALSE,
           scope |-> None, delay |-> "hour", started |-> FALSE, closed |-> FALSE]
  /\ pc = "idle" /\ job = NoJob /\ timer = "off" /\ asking = FALSE
  /\ context = [native |-> TRUE, transient |-> None,
                shown |-> [of |-> None, edition |-> 0]]
  /\ owed = FALSE
  /\ count = [logins |-> 0, requests |-> 0, faults |-> 0]

(***************************************************************************)
(* The coordinator.                                                        *)
(***************************************************************************)
\* Mutant: a later request sets the force anew.
InvalidatedAnew(c, reason, force) ==
  [c EXCEPT !.revision = @ + 1, !.force = force,
            !.notify = @ \/ reason \in {"periodic", "credentials"}]

Invalidated(c, reason, force) ==
  [c EXCEPT !.revision = @ + 1, !.force = @ \/ force,
            !.notify = @ \/ reason \in {"periodic", "credentials"}]

Due(c) == ~c.closed /\ c.completed # c.revision

Schedule(c, busy, delay) ==
  timer' = IF c.closed \/ ~c.started \/ busy \/ delay = "never" THEN "off" ELSE "armed"

\* One turn of the loop in #drain takes what is pending.
Taken(c) ==
  [NoJob EXCEPT !.revision = c.revision, !.notify = c.notify, !.force = c.force]
Left(c) == [c EXCEPT !.notify = FALSE, !.force = FALSE]

\* #drain goes on, or #ensureDrain's task settles and the timer is armed again.
Drain(c) ==
  IF Due(c)
    THEN co' = Left(c) /\ pc' = "account" /\ job' = Taken(c) /\ UNCHANGED timer
    ELSE /\ co' = c /\ pc' = "idle" /\ job' = NoJob
         /\ Schedule(c, FALSE, c.delay)

Requested(reason, force) ==
  LET c == Invalidated(co, reason, force) IN
  /\ owed' = (owed \/ force)
  /\ timer' = IF reason = "periodic" THEN timer ELSE "off"
  /\ IF pc = "idle"
       THEN co' = Left(c) /\ pc' = "account" /\ job' = Taken(c)
       ELSE co' = c /\ UNCHANGED <<pc, job>>

\* A start of Codex and the user's button; prepareLaunch asks for the catalogue.
Request ==
  /\ ~co.closed /\ count.requests < MaxRequests
  /\ count' = [count EXCEPT !.requests = @ + 1]
  /\ \E manual \in BOOLEAN : Requested("launch", manual)
  /\ UNCHANGED <<outside, asking, context>>

\* The callback of startOfficialCredentialWatch: its own sync found a new login.
Watch ==
  /\ ~co.closed /\ synced # login /\ synced' = login
  /\ Requested("credentials", FALSE)
  /\ UNCHANGED <<login, edition, cache, swallowed, asking, context, count>>

\* refreshAll and the page's actions sync as well, and nobody hears what they found.
OtherSync ==
  /\ synced # login /\ synced' = login /\ swallowed' = TRUE
  /\ UNCHANGED <<login, edition, cache, co, pc, job, timer, asking, context, owed, count>>

Start ==
  /\ ~co.closed /\ ~co.started
  /\ co' = [co EXCEPT !.started = TRUE]
  /\ Schedule(co', pc # "idle", co.delay)
  /\ UNCHANGED <<outside, pc, job, asking, context, owed, count>>

Close ==
  /\ ~co.closed
  /\ co' = [co EXCEPT !.closed = TRUE, !.started = FALSE] /\ timer' = "off"
  /\ UNCHANGED <<outside, pc, job, asking, context, owed, count>>

Fires ==
  /\ timer = "armed" /\ timer' = "off" /\ ~asking /\ asking' = TRUE
  /\ UNCHANGED <<outside, co, pc, job, context, owed, count>>

\* #runScheduledRefresh: Codex does not run, or an action does.
NotNow ==
  /\ asking /\ asking' = FALSE /\ Schedule(co, pc # "idle", "busy")
  /\ UNCHANGED <<outside, co, pc, job, context, owed, count>>
Periodic ==
  /\ asking /\ asking' = FALSE
  /\ ~co.closed /\ count.requests < MaxRequests
  /\ count' = [count EXCEPT !.requests = @ + 1]
  /\ Requested("periodic", FALSE)
  /\ UNCHANGED <<outside, context>>

(***************************************************************************)
(* One refresh, from await to await.                                       *)
(***************************************************************************)
At(p) == pc = p /\ UNCHANGED <<login, edition, swallowed, asking>>
Reads == synced' = login
ReadsNot == UNCHANGED synced
Faulty == count.faults < MaxFaults /\ count' = [count EXCEPT !.faults = @ + 1]
Sound == UNCHANGED count
Goto(p, j) == pc' = p /\ job' = j /\ UNCHANGED <<co, timer>>

\* An attempt that fails before or at the request is what a forced request leads to.
Failed(p, retryable) ==
  /\ Goto(p, [job EXCEPT !.failed = TRUE, !.retryable = retryable])
  /\ owed' = (owed /\ ~job.force)

CurrentAccount ==
  /\ At("account") /\ UNCHANGED <<cache, context>>
  /\ \/ Sound /\ Reads /\ Goto("identity", [job EXCEPT !.key = login]) /\ UNCHANGED owed
     \/ Faulty /\ ReadsNot /\ Failed("fallback", TRUE)

\* setModelCatalogScope and the #refreshOnce in it.
Scoped(account, key) ==
  LET transient == IF key # co.scope THEN None ELSE context.transient
      native    == account = None
  IN [native |-> native, transient |-> transient,
      shown |-> IF transient # None THEN transient
                ELSE IF native THEN [of |-> None, edition |-> 0] ELSE None]

ScopeKey(account, identity) == <<account, identity>>

CatalogIdentity ==
  /\ At("identity") /\ ReadsNot /\ UNCHANGED cache
  /\ \/ Sound /\ Goto("scope", job) /\ UNCHANGED <<context, owed>>
     \/ /\ job.key # None /\ Faulty
        /\ LET key == ScopeKey(AccountOf(job.key), "unresolved") IN
           /\ context' = Scoped(AccountOf(job.key), key)
           /\ co' = [co EXCEPT !.scope = key]
        /\ pc' = "fallback" /\ job' = [job EXCEPT !.failed = TRUE]
        /\ owed' = (owed /\ ~job.force) /\ UNCHANGED timer

ApplyCatalogScope ==
  /\ At("scope") /\ ReadsNot /\ Sound /\ UNCHANGED <<cache, owed, timer>>
  /\ LET key == ScopeKey(AccountOf(job.key), "resolved") IN
     context' = Scoped(AccountOf(job.key), key) /\ co' = [co EXCEPT !.scope = key]
  /\ pc' = "fetch" /\ UNCHANGED job

Fresh(a) == cache[a] # None /\ cache[a].fresh
Found(a, e) == Goto("check", [job EXCEPT !.catalog = [of |-> a, edition |-> e]])

\* Nothing is fetched without credentials; a fresh cache answers unless forced; a token
\* about to expire defers the request.
FetchLocally ==
  /\ At("fetch") /\ ReadsNot /\ Sound /\ UNCHANGED <<cache, context>>
  /\ IF job.key = None
       THEN Goto("check", job) /\ owed' = (owed /\ ~job.force)
       ELSE \/ /\ ~job.force /\ Fresh(job.key.of)
               /\ Found(job.key.of, cache[job.key.of].edition) /\ UNCHANGED owed
            \/ /\ cache[job.key.of] # None
               /\ Found(job.key.of, cache[job.key.of].edition)
               /\ owed' = (owed /\ ~job.force)

FetchOnline ==
  /\ At("fetch") /\ ReadsNot /\ job.key # None /\ UNCHANGED context
  /\ Fresh(job.key.of) => job.force
  /\ \/ /\ Sound /\ Found(job.key.of, edition) /\ owed' = (owed /\ ~job.force)
        /\ cache' = [cache EXCEPT ![job.key.of] = [edition |-> edition, fresh |-> TRUE]]
     \/ /\ Faulty /\ UNCHANGED cache
        /\ \E retryable \in BOOLEAN : Failed("fallback", retryable)

\* #stale: closed, asked again, or another login or token.  The request it makes of
\* itself carries no force.
Overtaken == co.closed \/ job.revision # co.revision
Asks == IF Overtaken THEN ReadsNot ELSE Reads
Stale == Overtaken \/ login # job.key
Restale == IF Overtaken THEN co ELSE Invalidated(co, "credentials", FALSE)

\* #record
Recorded ==
  [co EXCEPT !.completed = job.revision,
             !.delay = IF ~job.failed THEN "hour"
                       ELSE IF job.retryable THEN "backoff" ELSE "never"]

Settle ==
  IF job.notify THEN pc' = "told" /\ co' = Recorded /\ UNCHANGED <<job, timer>>
  ELSE Drain(Recorded)

\* A login that cannot be read does not make the refresh stale.
Unreadable == ~Overtaken /\ Faulty

Check ==
  /\ At("check") /\ Sound /\ Asks /\ UNCHANGED <<cache, context, owed>>
  /\ IF Stale THEN Drain(Restale)
     ELSE IF job.catalog # None THEN Goto("use", job) ELSE Goto("recheck", job)

\* useOfficialCatalog
Use ==
  /\ At("use") /\ ReadsNot /\ Sound /\ UNCHANGED <<cache, owed>>
  /\ context' = [context EXCEPT !.transient = job.catalog, !.shown = job.catalog]
  /\ Goto("recheck", job)

Recheck ==
  /\ At("recheck") /\ UNCHANGED <<cache, context, owed>>
  /\ \/ Sound /\ Asks /\ Stale /\ Drain(Restale)
     \/ Sound /\ Asks /\ ~Stale /\ Settle
     \/ Unreadable /\ ReadsNot /\ Settle

\* The catch of #refresh and #failureResult: what the cache holds is kept in use.
Fallback ==
  /\ At("fallback") /\ Sound /\ (IF job.key = Unread THEN ReadsNot ELSE Asks) /\ UNCHANGED <<cache, owed>>
  /\ IF job.key # Unread /\ Stale THEN Drain(Restale) /\ UNCHANGED context
     ELSE /\ \/ UNCHANGED context
             \/ /\ job.key \notin {None, Unread} /\ cache[job.key.of] # None
                /\ co.scope = ScopeKey(job.key.of, "resolved")
                /\ LET kept == [of |-> job.key.of, edition |-> cache[job.key.of].edition] IN
                   context' = [context EXCEPT !.transient = kept, !.shown = kept]
          /\ Goto("recheck", job)

\* The awaited onResult; then the loop of #drain goes on.
Told == At("told") /\ ReadsNot /\ Sound /\ Drain(co) /\ UNCHANGED <<cache, context, owed>>

(***************************************************************************)
(* Outside.                                                                *)
(***************************************************************************)
LoginChanges ==
  /\ count.logins < MaxLogins /\ count' = [count EXCEPT !.logins = @ + 1]
  /\ \E l \in {None} \cup [of : Accounts, token : {count.logins + 1}] : login' = l
  /\ UNCHANGED <<edition, cache, synced, swallowed, co, pc, job, timer, asking, context, owed>>

\* A new edition; what is cached was saved more than an hour ago.
Ages ==
  /\ edition < MaxEditions /\ edition' = edition + 1
  /\ cache' = [a \in Accounts |->
                 IF cache[a] = None THEN None ELSE [cache[a] EXCEPT !.fresh = FALSE]]
  /\ UNCHANGED <<login, synced, swallowed, co, pc, job, timer, asking, context, owed, count>>

Step == CurrentAccount \/ CatalogIdentity \/ ApplyCatalogScope \/ FetchLocally
        \/ FetchOnline \/ Check \/ Use \/ Recheck \/ Fallback \/ Told
Next == Request \/ Watch \/ OtherSync \/ Start \/ Close \/ Fires \/ NotNow \/ Periodic \/ Step
        \/ LoginChanges \/ Ages

Spec == Init /\ [][Next]_vars
\* Awaits return, and the credential watch polls.
Fairness == WF_vars(Step) /\ WF_vars(Watch)
FairSpec == Spec /\ Fairness

(***************************************************************************)
(* Properties.                                                             *)
(***************************************************************************)
\* Once the coordinator is at rest, every forced request led to a forced attempt: no
\* refresh under way and no later request swallowed it.
ForcedIsTried == pc = "idle" /\ ~co.closed => ~owed

\* Once the login rests, the coordinator comes to rest with the scope of that login, or
\* with a retry to come, if no sync that tells nobody came first.
CatalogFollowsLogin ==
  <>[](co.closed \/ swallowed
       \/ /\ pc = "idle"
          /\ co.scope = None \/ co.scope[1] = AccountOf(login) \/ co.delay = "backoff")
=============================================================================
