----------------------------- MODULE AccountLogin -----------------------------
(***************************************************************************)
(* How an account comes into the library (src/account-manager.mjs,         *)
(* account-manager/oauth.mjs, accounts.mjs, credential-input.mjs): a login *)
(* in the browser, which answers to a server that listens for it, and the  *)
(* import of pasted credentials; and the operation the panel shows for     *)
(* them, which the end of an earlier one takes away after a while.         *)
(*                                                                         *)
(* One account is enough: whatever is added is added to it.  What the      *)
(* store does with an update is AccountStore, what becomes of the tokens   *)
(* afterwards AccountManager.                                              *)
(***************************************************************************)
EXTENDS Naturals

CONSTANTS
  MaxLogins,   \* bound: logins
  MaxImports,  \* bound: imports
  MaxTrouble   \* bound: clicks on cancel, timeouts, failing calls, requests of the browser nobody waits for

LoginConstants == MaxLogins \in Nat /\ MaxImports \in Nat /\ MaxTrouble \in Nat

VARIABLES
  account,    \* the account: its authStatus, or "absent", and its refresh token: "none", "live" or "dead"
  login,      \* oauthPromise: where the login is, its number and the number of the one whose code it has
  controller, \* oauthAbortController: "none", "live" or "aborted"
  tabs,       \* external: the logins whose page is open in the browser
  held,       \* connections the server has accepted and not answered
  operation,  \* the state of the operation, or "none"
  clearing,   \* operationClearTimer: for this operation, for an earlier one, or not armed
  import,     \* the import: where it is, its mode and the candidate it is at
  imports, trouble  \* counters of the bounds

vars == <<account, login, controller, tabs, held, operation, clearing, import, imports, trouble>>

Idle == [pc |-> "idle", mode |-> "plain", access |-> FALSE, refresh |-> FALSE]

Init ==
  /\ account \in [status : {"active", "temporary", "needsReauth", "transferred"}, refresh : {"none", "live", "dead"}]
                   \cup {[status |-> "absent", refresh |-> "none"]}
  /\ account.status = "temporary" => account.refresh = "none"
  /\ account.status = "needsReauth" => account.refresh # "live"
  /\ login = [pc |-> "none", n |-> 0, code |-> 0] /\ controller = "none" /\ tabs = {} /\ held = 0
  /\ operation = "none" /\ clearing = "none" /\ import = Idle /\ imports = 0 /\ trouble = 0

Trouble == trouble < MaxTrouble /\ trouble' = trouble + 1

-----------------------------------------------------------------------------
(* The operation *)

\* #setOperation: a timer that is armed was for an operation that is gone now.
Shows(state) == operation' = state /\ clearing' = IF clearing = "this" THEN "earlier" ELSE clearing
\* ... and clearOperationAfter
ShowsAtLast(state) == operation' = state /\ clearing' = "this"
\* Mutant of Cleared: whatever is shown is taken away.
ClearedBlindly ==
  /\ clearing # "none" /\ clearing' = "none" /\ operation' = "none"
  /\ UNCHANGED <<account, login, controller, tabs, held, import, imports, trouble>>
Cleared ==
  /\ clearing # "none" /\ clearing' = "none"
  /\ operation' = IF clearing = "this" THEN "none" ELSE operation
  /\ UNCHANGED <<account, login, controller, tabs, held, import, imports, trouble>>

-----------------------------------------------------------------------------
(* The account *)

\* Mutant of Upserted: a temporary login replaces any other.
UpsertedAnyway(refresh, mode) ==
  LET status == IF mode = "temporary" \/ (account.status = "temporary" /\ ~refresh) THEN "temporary" ELSE "active"
  IN [status |-> status,
      refresh |-> IF status = "temporary" THEN "none" ELSE IF refresh THEN "live" ELSE account.refresh]
\* upsertOAuthTokens: credentials without a refresh token leave the one that is stored, and temporary
\* ones do not replace a login that can be renewed.
Upserted(refresh, mode) ==
  LET status == IF mode = "temporary" \/ (account.status = "temporary" /\ ~refresh) THEN "temporary" ELSE "active"
  IN IF mode = "temporary" /\ account.status = "active" /\ account.refresh # "none" THEN account
     ELSE [status |-> status,
           refresh |-> IF status = "temporary" THEN "none" ELSE IF refresh THEN "live" ELSE account.refresh]
\* Meanwhile: the account is refreshed, found dead, transferred or taken back; see AccountManager.
Elsewhere ==
  /\ account.status # "absent" /\ Trouble
  /\ \/ account.status = "active" /\ account' = [status |-> "needsReauth", refresh |-> "dead"]
     \/ account.status = "active" /\ account' = [account EXCEPT !.status = "transferred"]
     \/ account.status = "transferred" /\ account.refresh = "live" /\ account' = [account EXCEPT !.status = "active"]
  /\ UNCHANGED <<login, controller, tabs, held, operation, clearing, import, imports>>

-----------------------------------------------------------------------------
(* The login in the browser *)

LoginRest == UNCHANGED <<import, imports>>
\* beginOAuthLogin, of which one runs at a time
Begin ==
  /\ login.pc = "none" /\ login.n < MaxLogins
  /\ login' = [pc |-> "listen", n |-> login.n + 1, code |-> 0]
  /\ controller' = "live" /\ Shows("loading")
  /\ UNCHANGED <<account, tabs, held, trouble>> /\ LoginRest
\* It throws, or is done: the finally closes the server first.
Throws(how) == login' = [login EXCEPT !.pc = how] /\ controller' = "none"
\* The port is taken, or the browser is sent to the login page, or the user was faster.
Listens ==
  /\ login.pc = "listen"
  /\ \/ /\ controller = "live" /\ login' = [login EXCEPT !.pc = "wait"] /\ tabs' = tabs \cup {login.n}
        /\ Shows("loading") /\ UNCHANGED <<controller, trouble>>
     \/ controller = "aborted" /\ Throws("cancelled") /\ UNCHANGED <<tabs, operation, clearing, trouble>>
     \/ Trouble /\ Throws("failed") /\ UNCHANGED <<tabs, operation, clearing>>
  /\ UNCHANGED <<account, held>> /\ LoginRest
\* cancelOAuthLogin, and close
Cancel ==
  /\ controller = "live" /\ Trouble
  /\ IF login.pc = "wait" THEN Throws("cancelled") ELSE controller' = "aborted" /\ UNCHANGED login
  /\ UNCHANGED <<account, tabs, held, operation, clearing>> /\ LoginRest
\* The authorization times out.
TimesOut ==
  /\ login.pc = "wait" /\ Throws("failed")
  /\ UNCHANGED <<account, tabs, held, operation, clearing, trouble>> /\ LoginRest
\* Mutant of Callback: whatever code comes back is taken.
CallbackOfAny(n) ==
  /\ login.pc = "wait" /\ n \in tabs /\ tabs' = tabs \ {n}
  /\ login' = [login EXCEPT !.pc = "exchange", !.code = n] /\ Shows("loading")
  /\ UNCHANGED <<account, controller, held, trouble>> /\ LoginRest
\* The browser comes back from a page: with the state of another login it is turned away, and with an
\* error the login ends.
Callback(n) ==
  /\ login.pc = "wait" /\ n \in tabs /\ tabs' = tabs \ {n}
  /\ \/ /\ n = login.n /\ login' = [login EXCEPT !.pc = "exchange", !.code = n] /\ Shows("loading")
        /\ UNCHANGED <<controller, trouble>>
     \/ n = login.n /\ Trouble /\ Throws("failed") /\ UNCHANGED <<operation, clearing>>
     \/ n # login.n /\ UNCHANGED <<login, controller, operation, clearing, trouble>>
  /\ UNCHANGED <<account, held>> /\ LoginRest
Closing == {"failed", "cancelled", "added"}
\* A request that comes when the listener is gone is not answered.
Lingers ==
  /\ login.pc \in {"exchange", "save"} \cup Closing /\ Trouble /\ held' = held + 1
  /\ UNCHANGED <<account, login, controller, tabs, operation, clearing>> /\ LoginRest
LetsGo ==
  /\ held > 0 /\ held' = held - 1
  /\ UNCHANGED <<account, login, controller, tabs, operation, clearing, trouble>> /\ LoginRest
\* Mutant of Exchanged: a cancellation is not looked for once more.
ExchangedAnyway ==
  /\ login.pc = "exchange"
  /\ login' = [login EXCEPT !.pc = "save"] /\ account' = Upserted(TRUE, "plain")
  /\ UNCHANGED <<controller, tabs, held, operation, clearing, trouble>> /\ LoginRest
\* exchangeAuthorizationCode: the account is stored unless the login was cancelled meanwhile.
Exchanged ==
  /\ login.pc = "exchange"
  /\ \/ /\ controller = "live" /\ login' = [login EXCEPT !.pc = "save"] /\ account' = Upserted(TRUE, "plain")
        /\ UNCHANGED <<controller, trouble>>
     \/ controller = "aborted" /\ Throws("cancelled") /\ UNCHANGED <<account, trouble>>
     \/ Trouble /\ Throws("failed") /\ UNCHANGED account
  /\ UNCHANGED <<tabs, held, operation, clearing>> /\ LoginRest
\* The write and the first refresh of the account
Saved ==
  /\ login.pc = "save"
  /\ \/ ShowsAtLast("success") /\ Throws("added") /\ UNCHANGED trouble
     \/ Trouble /\ Throws("failed") /\ UNCHANGED <<operation, clearing>>
  /\ UNCHANGED <<account, tabs, held>> /\ LoginRest
\* The server closes when its connections are; what went wrong is shown only then.
Closes ==
  /\ login.pc \in Closing /\ held = 0
  /\ login' = [login EXCEPT !.pc = "none", !.code = 0]
  /\ \/ login.pc = "added" /\ UNCHANGED <<operation, clearing>>
     \/ login.pc = "failed" /\ ShowsAtLast("error")
     \/ login.pc = "cancelled" /\ ShowsAtLast("success")
  /\ UNCHANGED <<account, controller, tabs, held, trouble>> /\ LoginRest

-----------------------------------------------------------------------------
(* The import of pasted credentials *)

Modes == {"plain", "handoff", "temporary"}
ImportRest == UNCHANGED <<login, controller, tabs, held>>
\* importTokenInput; what cannot be read ends at once.
Import ==
  /\ import.pc = "idle" /\ imports < MaxImports /\ imports' = imports + 1
  /\ \E mode \in Modes : import' = [Idle EXCEPT !.pc = "next", !.mode = mode]
  /\ Shows("loading") /\ UNCHANGED <<account, trouble>> /\ ImportRest
Ends(state) == import' = Idle /\ ShowsAtLast(state)
Forbidden(refresh) == (import.mode = "handoff" /\ ~refresh) \/ (import.mode = "temporary" /\ refresh)
\* The next candidate, with an access token, a refresh token or both: one that its mode does not allow,
\* or that has expired, ends the import; what was handed over is renewed before it is stored.
Candidate ==
  /\ import.pc = "next"
  /\ \E access \in BOOLEAN, refresh \in BOOLEAN :
       /\ access \/ refresh
       /\ \/ Forbidden(refresh) /\ Ends("error") /\ UNCHANGED trouble
          \/ import.mode = "temporary" /\ Trouble /\ Ends("error")
          \/ /\ ~Forbidden(refresh) /\ UNCHANGED <<operation, clearing, trouble>>
             /\ import' = [import EXCEPT !.access = access, !.refresh = refresh,
                             !.pc = IF import.mode = "handoff" \/ ~access THEN "renew" ELSE "store"]
  /\ UNCHANGED <<account, imports>> /\ ImportRest
Renewed ==
  /\ import.pc = "renew"
  /\ \/ import' = [import EXCEPT !.pc = "store"] /\ UNCHANGED <<operation, clearing, trouble>>
     \/ Trouble /\ Ends("error")
  /\ UNCHANGED <<account, imports>> /\ ImportRest
Stored ==
  /\ import.pc = "store"
  /\ \/ account' = Upserted(import.refresh, import.mode) /\ import' = [import EXCEPT !.pc = "stored"]
        /\ UNCHANGED <<operation, clearing, trouble>>
     \/ Trouble /\ Ends("error") /\ UNCHANGED account
  /\ UNCHANGED imports /\ ImportRest
\* There are further candidates, or all that were imported have been refreshed.
Imported ==
  /\ import.pc = "stored"
  /\ \/ Trouble /\ import' = [import EXCEPT !.pc = "next"] /\ UNCHANGED <<operation, clearing>>
     \/ Ends("success") /\ UNCHANGED trouble
  /\ UNCHANGED <<account, imports>> /\ ImportRest

Login == Listens \/ Exchanged \/ Saved \/ Closes \/ TimesOut
Next ==
  \/ Begin \/ Login \/ Cancel \/ (\E n \in tabs : Callback(n)) \/ Lingers \/ LetsGo
  \/ Import \/ Candidate \/ Renewed \/ Stored \/ Imported \/ Cleared \/ Elsewhere
\* Awaits settle, the authorization times out, and the browser gives up what is not answered.
Spec == Init /\ [][Next]_vars /\ WF_vars(Login) /\ WF_vars(LetsGo)

-----------------------------------------------------------------------------
Statuses == {"absent", "active", "temporary", "needsReauth", "transferred"}
TypeOK ==
  /\ account \in [status : Statuses, refresh : {"none", "live", "dead"}]
  /\ login \in [pc : {"none", "listen", "wait", "exchange", "save"} \cup Closing,
                n : 0 .. MaxLogins, code : 0 .. MaxLogins]
  /\ controller \in {"none", "live", "aborted"} /\ tabs \subseteq 1 .. MaxLogins /\ held \in Nat
  /\ operation \in {"none", "loading", "success", "error"} /\ clearing \in {"none", "this", "earlier"}
  /\ import \in [pc : {"idle", "next", "renew", "store", "stored"}, mode : Modes,
                 access : BOOLEAN, refresh : BOOLEAN]
  /\ imports \in 0 .. MaxImports /\ trouble \in 0 .. MaxTrouble

\* A login takes no code but its own: the page an earlier one has left open does not log in.
CodeIsOwn == login.code \in {0, login.n}
\* Only a renewable login is active beside a temporary one: the two never mix.
TemporaryHasNoRefresh == account.status = "temporary" => account.refresh = "none"
\* What is added never costs an active account the token it lives on.
AddingKeepsTokens ==
  [][(Exchanged \/ Stored) /\ account.status = "active" /\ account.refresh = "live"
       => account'.refresh = "live" /\ account'.status = "active"]_account
\* A cancelled login adds nothing.
CancelledAddsNothing == [][login.pc = "exchange" /\ controller = "aborted" => login'.pc # "save"]_vars
\* What is under way stays on the panel, though an earlier operation is taken off.
OperationStands == [][operation = "loading" => operation' # "none"]_vars

\* Every login ends, and another can begin.
LoginEnds == login.pc # "none" ~> login.pc = "none"
===============================================================================
