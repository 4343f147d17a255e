------------------------------- MODULE MCRouter -------------------------------
(***************************************************************************)
(* The two places that keep a task with its provider: the router's request *)
(* ledger and what the relay knows of every thread.  They share no state,  *)
(* so a behaviour exercises one of them and leaves the other at rest.      *)
(***************************************************************************)
EXTENDS ModelRouter, TLC

CONSTANTS
  MaxMeets,   \* bound: changes and connections of the router together
  Chats, First, OfficialModels, CustomModels, Openai, Platform, Defaulting, MaxAsked, MaxNotices, MaxDrops

VARIABLES
  part,
  relay, up, answers, server, turns, event, log, count

T == INSTANCE RelayThreads WITH
       Threads <- Chats, Official <- OfficialModels, Custom <- CustomModels, MaxRequests <- MaxAsked

ASSUME Constants == RouterConstants /\ T!ThreadsConstants

threadVars == <<relay, up, answers, server, turns, event, log, count>>

\* The tasks of the router are interchangeable.
Symmetry == Permutations(Threads)

MCInit ==
  /\ part \in {"router", "threads"}
  /\ Init /\ T!Init
  /\ part = "router" => server[First].model \in OfficialModels
RouterNext ==
  /\ part = "router" /\ Next /\ UNCHANGED <<part, threadVars>>
  /\ changes' + connects' <= MaxMeets
ThreadsNext == part = "threads" /\ T!Next /\ UNCHANGED <<part, vars>>
MCNext == RouterNext \/ ThreadsNext
MCSpec == MCInit /\ [][MCNext]_<<part, vars, threadVars>>

\* The relay knows the model of every thread: at rest it agrees with the server, and usage is put
\* down to the model its turn ran with; see RelayThreads.
ModelIsKnown == T!TypeOK /\ T!ModelFollows /\ T!UsageIsOfTurn

\* No turn runs a model with the provider of another; see RelayThreads.
TurnsKeepProvider == T!TurnsKeepProvider
=============================================================================
