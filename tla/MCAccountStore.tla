---------------------------- MODULE MCAccountStore ----------------------------
(***************************************************************************)
(* Where the user's clicks are carried out and where their effects are     *)
(* kept: the main loop of the injector; the login and the import that add  *)
(* an account; and the account store, with two accounts, one of them       *)
(* offered by Cockpit at the first start, seen as the library it promises  *)
(* to be.  They share no state here, so a behaviour exercises one of them  *)
(* and leaves the others at rest.                                          *)
(***************************************************************************)
EXTENDS AccountStore

CONSTANTS MaxClicks, MaxEvents, MaxLogins, MaxImports, MaxTrouble

VARIABLES
  part,
  codex, clicks, cdp, loop, running, seen, late, recovery, restarting, restart, batch, detections, safe,
  busy, quota, timer, owed, stopped, exit, events,
  account, login, controller, tabs, held, operation, clearing, import, imports, trouble

I == INSTANCE InjectorLoop
A == INSTANCE AccountLogin

ASSUME Constants == I!LoopConstants /\ A!LoginConstants

loopVars == <<codex, clicks, cdp, loop, running, seen, late, recovery, restarting, restart, batch,
              detections, safe, busy, quota, timer, owed, stopped, exit, events>>
loginVars == <<account, login, controller, tabs, held, operation, clearing, import, imports, trouble>>
all == <<part, vars, loopVars, loginVars>>

\* What the user clicks: a safe restart that is forced while it waits, two restarts that meet, one that
\* meets a detection, and actions that restart nothing
Scripts == {<<"safe", "force">>, <<"models", "switch">>, <<"detect", "context">>, <<"other", "other">>}
Clicking(script) == \A c \in 1 .. MaxClicks : clicks[c].kind = script[c]

MCInit ==
  /\ part \in {"store", "loop", "login"}
  /\ Init /\ I!Init /\ A!Init
  /\ \E script \in Scripts : Clicking(script)
  /\ part # "loop" => codex = "up" /\ Clicking(<<"safe", "force">>)
  /\ part # "login" => account.status = "absent"
OfStore(Act) == part = "store" /\ Act /\ UNCHANGED <<part, loopVars, loginVars>>
OfLoop(Act) == part = "loop" /\ Act /\ UNCHANGED <<part, vars, loginVars>>
OfLogin(Act) == part = "login" /\ Act /\ UNCHANGED <<part, vars, loopVars>>
MCNext == OfStore(Next) \/ OfLoop(I!Next) \/ OfLogin(A!Next)

\* The fairness of the parts; see there.  The steps of different parts never meet.
MCSpec ==
  /\ MCInit /\ [][MCNext]_all
  /\ WF_all(OfStore(Write) \/ OfLoop(I!LoopGoesOn) \/ OfLogin(A!Login))
  /\ WF_all(OfLoop(I!BatchGoesOn) \/ OfLogin(A!LetsGo))
  /\ WF_all(OfLoop(I!SafeGoesOn)) /\ WF_all(OfLoop(I!Quota)) /\ WF_all(OfLoop(I!OthersGoOn))

\* What is asked for is dealt with: every write settles, a click is taken up though a safe restart
\* waits, the injector follows a Codex that has gone, and a login ends; see AccountStore, InjectorLoop
\* and AccountLogin.
RequestsSettle ==
  /\ part = "store" => WritesSettle
  /\ part = "loop" => I!ClicksAreServed /\ I!ExitIsFollowed
  /\ part = "login" => A!LoginEnds

\* A login takes no code but its own, and none when it was cancelled; a temporary account has no
\* renewable token, and what is added costs no active account its own; what is under way stays on the
\* panel; see AccountLogin.
AddedSafely ==
  /\ [](A!TypeOK /\ A!CodeIsOwn /\ A!TemporaryHasNoRefresh)
  /\ A!AddingKeepsTokens /\ A!CancelledAddsNothing /\ A!OperationStands

\* The main loop leaves no connection and no timer behind, and goes on refreshing the quotas; see
\* InjectorLoop.
LoopLeavesNothing == I!TypeOK /\ I!NothingIsLeft /\ I!QuotaGoesOn
=============================================================================
