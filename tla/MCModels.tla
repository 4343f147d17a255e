------------------------------- MODULE MCModels -------------------------------
(***************************************************************************)
(* The keepers of models, side by side: the official catalogue, the models *)
(* of other platforms and the context windows; and the answer of a model   *)
(* on its way back: what the router observes, the compatibility proxy in   *)
(* front of a Chat platform and of a Responses platform, and the history   *)
(* several exchanges share.  They share no state here, so a behaviour      *)
(* exercises one of them and leaves the others at rest.                    *)
(***************************************************************************)
EXTENDS ExtraModels, TLC

CONSTANTS
  Accounts, Unread, MaxLogins, MaxRequests, MaxEditions, MaxErrors,
  MaxNews,   \* bound: logins, requests, faults and editions of the catalogue together
  MaxWork,   \* bound: everything that is begun with the models of other platforms, and faults, together
  Bad, Managed, Slugs, MaxEdits,
  Items, MaxDeltas,
  Texts, Calls, Odd, Pieces,
  MaxText,   \* bound: the pieces of a text; calls have up to Pieces
  Talks, Providers, CallIds, MaxCached, MaxExchanges

VARIABLES
  part,
  login, edition, cache, co, pc, job, timer, asking, context, synced, owed, swallowed, tally,
  config, store, usable, mem, at, first, seen, edits, failures, raced,
  forward, kind, item, obs, report, said,
  custom, broken, keyed, pieces, state, tools, stream, kept, line,
  tool, spoilt, wrote, held, failed, bridged, saved, link,
  talk, x, history, issued, requests

C == INSTANCE ModelCatalog WITH MaxFaults <- MaxErrors, count <- tally
X == INSTANCE CodexContext WITH Models <- Slugs, pc <- at, faults <- failures
O == INSTANCE ResponseStream WITH log <- said
A == INSTANCE ChatStream WITH written <- pieces, out <- stream
B == INSTANCE ToolBridge WITH
       Pieces <- 1, broken <- spoilt, out <- bridged, kept <- saved, line <- link
H == INSTANCE ChatHistory WITH Platforms <- Providers, asked <- requests

ASSUME Constants == X!ContextConstants /\ ExtraConstants /\ A!StreamConstants /\ H!HistoryConstants

catalog == <<login, edition, cache, co, pc, job, timer, asking, context, synced, owed, swallowed, tally>>
windows == <<config, store, usable, mem, at, first, seen, edits, failures, raced>>
response == <<forward, kind, item, obs, report, said>>
chat == <<custom, broken, keyed, pieces, state, tools, stream, kept, line>>
bridge == <<tool, spoilt, wrote, held, failed, bridged, saved, link>>
exchanges == <<talk, x, history, issued, requests>>
keepers == <<catalog, vars, windows>>
answers == <<response, chat, bridge, exchanges>>
all == <<part, keepers, answers>>

\* The accounts are alike.
One == CHOOSE a \in Accounts : TRUE

MCInit ==
  /\ part \in {"catalog", "extra", "context", "response", "chat", "bridge", "exchanges"}
  /\ C!Init /\ (part # "catalog" => login = None) /\ login \in {None} \cup [of : {One}, token : {0}]
  /\ Init /\ (part # "extra" => apart)
  /\ X!Init
  /\ part # "context" => config = [root |-> None, nested |-> FALSE, edit |-> 0] /\ store = None /\ usable = {}
  /\ O!Init /\ (part # "response" => forward.stream /\ \A k \in Items : kind[k] = "tool")
  \* One of the calls, Odd, is custom, and the others are not; they are alike.
  /\ A!Init /\ custom = (IF keyed = "each" THEN {Odd} ELSE {})
  /\ part # "chat" => broken = {} /\ keyed = "each"
  /\ B!Init /\ \A k \in Calls : tool[k] = "custom" <=> k = Odd
  /\ part # "bridge" => spoilt = {} /\ \A k \in Calls : tool[k] # "native"
  /\ H!Init
CatalogRest == UNCHANGED <<part, vars, windows, answers>>
CatalogNext ==
  /\ part = "catalog" /\ C!Next /\ CatalogRest
  /\ tally'.logins + tally'.requests + tally'.faults + edition' <= MaxNews
CatalogStep == part = "catalog" /\ C!Step /\ CatalogRest
CatalogWatch == part = "catalog" /\ C!Watch /\ CatalogRest
ExtraNext ==
  /\ part = "extra" /\ Next /\ UNCHANGED <<part, catalog, windows, answers>>
  /\ count'.saves + count'.drafts + count'.detections + count'.balances + count'.launches
     + count'.faults <= MaxWork
ContextNext == part = "context" /\ X!Next /\ UNCHANGED <<part, catalog, vars, answers>>
ResponseNext == part = "response" /\ O!Next /\ UNCHANGED <<part, keepers, chat, bridge, exchanges>>
ChatNext ==
  /\ part = "chat" /\ A!Next /\ UNCHANGED <<part, keepers, response, bridge, exchanges>>
  /\ \A k \in Texts : pieces'[k] <= MaxText
BridgeNext == part = "bridge" /\ B!Next /\ UNCHANGED <<part, keepers, response, chat, exchanges>>
ExchangesNext == part = "exchanges" /\ H!Next /\ UNCHANGED <<part, keepers, response, chat, bridge>>
MCNext ==
  \/ CatalogNext \/ ExtraNext \/ ContextNext
  \/ ResponseNext \/ ChatNext \/ BridgeNext \/ ExchangesNext
MCSpec == MCInit /\ [][MCNext]_all /\ WF_all(CatalogStep) /\ WF_all(CatalogWatch)

\* The catalogue follows the login: no forced refresh is swallowed by another request, and once the
\* login rests the catalogue is that of its account or a retry is armed; see ModelCatalog.
CatalogFollows ==
  /\ [](part = "catalog" => C!TypeOK /\ C!ForcedIsTried)
  /\ part = "catalog" => C!CatalogFollowsLogin

\* The user's configuration stands: the setting the migration replaces stays recoverable and foreign
\* edits of config.toml are not undone; see CodexContext.
SettingsStand == X!KeepsPrevious /\ X!EditsStand

\* Behind the tool bridge a custom call is executed once, whole, and never after a failed translation
\* (ToolBridge); and a tool result reaches the model with its call (ChatHistory).
AnswersAreWhole ==
  /\ part = "bridge" => B!TypeOK /\ B!CustomIsWhole /\ B!FailureIsLast
  /\ part = "exchanges" => H!TypeOK /\ H!ResultsMeetCalls

\* What is observed of a response is what was streamed (ResponseStream), and what Codex is sent of a
\* Chat answer is a legal stream of events, in which no call whose input cannot be recovered is handed
\* over for execution (ChatStream).
LegalStream ==
  /\ part = "response" => O!GenerationIsStream /\ O!ToolsOnce
  /\ part = "chat" => A!TypeOK /\ A!LegalStream /\ A!BrokenNeverRuns /\ A!RememberedIsSent
=============================================================================
