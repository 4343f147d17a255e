------------------------------ MODULE RelayProcess ------------------------------
(***************************************************************************)
(* The life of a relay process between Codex (the client) and the official *)
(* app-server (the upstream), and the injector that looks for a relay.     *)
(* src/app-server-relay.mjs, ownership.mjs, transport.mjs and usage.mjs of *)
(* src/app-server-relay, src/platform/readiness.mjs.                       *)
(*                                                                         *)
(* A relay is a child mode, which spawns the upstream, or a sidecar, which *)
(* is given its pipes.  Lines arrive in pieces, cut anywhere, and leave    *)
(* whole; a full output pauses the input.  Each session has files of its   *)
(* own, so the lock on them is never contended and a claim is one write.   *)
(* A client reads what it is sent until the relay has gone.                *)
(***************************************************************************)
EXTENDS Naturals, Sequences, FiniteSets, SequencesExt

CONSTANTS
  Sessions,          \* relays that may be started
  Modes,             \* "child", "sidecar"
  Pids,              \* process identifiers, given again to another process once free
  Busy,              \* the sessions whose client and upstream speak
  FromClient, FromServer,  \* their lines, each with a kind: "plain", "usage", "direct"
  HighWater,         \* lines an output takes before its writer has to wait
  None,
  MaxFaults, MaxSignals, MaxLooks, MaxChanges

VARIABLES
  relay,   \* each session: its phase, mode, generation, pid and what its listeners know
  pipe,    \* each session and direction: the line protocol between the two ends
  usage,   \* each session: usage events buffered, being appended, and in the file
  state,   \* each session's state file
  procs,   \* which process has a pid: a session, another program or none
  config,  \* the generation in relay.json
  look,    \* the injector's look at the state files
  count

vars == <<relay, pipe, usage, state, procs, config, look, count>>

Dirs == {"up", "down"}
Lines(s, d) == IF s \notin Busy THEN <<>> ELSE IF d = "up" THEN FromClient ELSE FromServer
\* Each line is sent in two pieces, the second with its newline.
Pieces(s, d) == [i \in 1 .. 2 * Len(Lines(s, d)) |-> [line |-> (i + 1) \div 2, last |-> i % 2 = 0]]
Kind(s, d, line) == Lines(s, d)[line]

NotStarted == [pc |-> "none", mode |-> "child", gen |-> 0, pid |-> None, upstream |-> "none",
               missed |-> FALSE, end |-> "none", client |-> "open"]
NoPipe == [wire |-> <<>>, pending |-> <<>>, out |-> <<>>, got |-> <<>>, waits |-> {}, ended |-> FALSE]
NoUsage == [buffer |-> {}, tail |-> {}, file |-> {}, lost |-> {}, closed |-> FALSE]
NoFile == [pid |-> None, of |-> None, gen |-> 0]
NoLook == [pc |-> "idle", left |-> {}, read |-> NoFile, gen |-> 0]

Init ==
  /\ relay = [s \in Sessions |-> NotStarted]
  /\ pipe = [s \in Sessions |-> [d \in Dirs |-> NoPipe]]
  /\ usage = [s \in Sessions |-> NoUsage]
  /\ state = [s \in Sessions |-> NoFile]
  /\ procs = [p \in Pids |-> None]
  /\ config = 1
  /\ look = NoLook
  /\ count = [faults |-> 0, signals |-> 0, looks |-> 0, changes |-> 0]

Up(s) == relay[s].pc \notin {"none", "gone"}
Serving(s) == relay[s].pc \in {"running", "cleaning", "leaving"}
Fault == count.faults < MaxFaults /\ count' = [count EXCEPT !.faults = @ + 1]

(***************************************************************************)
(* The beginning.                                                          *)
(***************************************************************************)

\* Codex starts a backend: through the bridge, or by the shim with the upstream's pipes.
Start(s) ==
  /\ relay[s].pc = "none"
  /\ \E p \in Pids, m \in Modes :
       /\ procs[p] = None
       /\ procs' = [procs EXCEPT ![p] = s]
       /\ relay' = [relay EXCEPT ![s] = [relay[s] EXCEPT !.pc = "starting", !.mode = m, !.gen = config, !.pid = p,
                     !.upstream = IF m = "sidecar" THEN "running" ELSE "none"]]
  /\ pipe' = [pipe EXCEPT ![s] = [d \in Dirs |-> [NoPipe EXCEPT !.wire = Pieces(s, d)]]]
  /\ UNCHANGED <<usage, state, config, look, count>>

\* A process that ends gives its pid back; its pipes close, which ends an upstream that serves it.
Ends(s, how) ==
  /\ relay' = [relay EXCEPT ![s] = [relay[s] EXCEPT !.pc = "gone", !.end = how]]
  /\ procs' = [procs EXCEPT ![relay[s].pid] = None]

\* Reading the configuration, the settings and the catalogue, starting a router of its own:
\* any of these may throw, before there is an upstream to look after.
Prepare(s) ==
  /\ relay[s].pc = "starting"
  /\ \/ /\ relay' = [relay EXCEPT ![s] = [relay[s] EXCEPT !.pc = "claiming",
                     !.upstream = IF relay[s].mode = "child" THEN "running" ELSE relay[s].upstream]]
        /\ UNCHANGED <<procs, count>>
     \/ Fault /\ Ends(s, "failed")
  /\ UNCHANGED <<pipe, usage, state, config, look>>

\* claimRelayState: the file of the session, written whole under the lock that only this process
\* takes.  If that fails the upstream is let go.
StateWritten(s) == state' = [state EXCEPT ![s] = [pid |-> relay[s].pid, of |-> s, gen |-> relay[s].gen]]
Claim(s) ==
  /\ relay[s].pc = "claiming"
  /\ \/ /\ StateWritten(s)
        /\ relay' = [relay EXCEPT ![s].pc = "claimed"]
        /\ UNCHANGED <<procs, count>>
     \/ Fault /\ Ends(s, "failed") /\ UNCHANGED state
  /\ UNCHANGED <<pipe, usage, config, look>>

\* The health file is there and the listeners are set.  The end of a child that ended before is
\* noticed only if its event has not been given out yet.
Listen(s) ==
  /\ relay[s].pc = "claimed"
  /\ \E seen \in BOOLEAN :
       /\ relay[s].upstream = "running" => seen
       /\ relay' = [relay EXCEPT ![s] = [relay[s] EXCEPT !.pc = "running", !.missed = ~seen]]
  /\ UNCHANGED <<pipe, usage, state, procs, config, look, count>>

(***************************************************************************)
(* Lines in both directions.                                               *)
(***************************************************************************)

\* pipeLines cuts what has arrived at the newlines and keeps the rest for the next chunk.
LastNewline(ps) == LET ends == {i \in DOMAIN ps : ps[i].last}
                   IN IF ends = {} THEN 0 ELSE CHOOSE i \in ends : \A j \in ends : j <= i
Whole(ps) == SubSeq(ps, 1, LastNewline(ps))
\* Mutant of Rest: what follows the last newline is not kept.
RestDropped(ps) == <<>>
Rest(ps) == SubSeq(ps, LastNewline(ps) + 1, Len(ps))
\* The lines of a sequence of whole pieces; a line is the pieces it was made of.
Cut(ps) ==
  FoldLeft(LAMBDA acc, p : IF p.last THEN [lines |-> Append(acc.lines, Append(acc.cur, p)), cur |-> <<>>]
                           ELSE [acc EXCEPT !.cur = Append(@, p)],
           [lines |-> <<>>, cur |-> <<>>], ps).lines
KindOf(s, d, l) == Kind(s, d, Last(l).line)

Direct(s, d, ls) == SelectSeq(ls, LAMBDA l : d = "up" /\ KindOf(s, d, l) = "direct")
Passed(s, d, ls) == SelectSeq(ls, LAMBDA l : ~(d = "up" /\ KindOf(s, d, l) = "direct"))
Seen(s, d, ls) == {Last(ls[i]).line : i \in {j \in DOMAIN ls : d = "down" /\ KindOf(s, d, ls[j]) = "usage"}}

Tag(ls, from) == [i \in DOMAIN ls |-> [from |-> from, pieces |-> ls[i]]]
\* The outputs that were full when a line was written to them
Full(q, ls) == ls # <<>> /\ Len(q.out) + Len(ls) >= HighWater

\* The effect of lines on the two outputs: answers to the client go straight to its stream.
Written(s, d, ls, q) ==
  LET own == Tag(Passed(s, d, ls), d)
      ans == Tag(Direct(s, d, ls), "up")
      waits == (IF Full(q[d], own) THEN {d} ELSE {}) \cup (IF Full(q["down"], ans) THEN {"down"} ELSE {})
  IN [e \in Dirs |-> [q[e] EXCEPT !.out = @ \o (IF e = d THEN own ELSE <<>>)
                                            \o (IF e = "down" THEN ans ELSE <<>>),
                                  !.waits = IF e = d THEN @ \cup waits ELSE @]]

\* Usage seen in an answer is an event, unless the writer is closed.
Captured(s, lines) ==
  usage' = [usage EXCEPT ![s].buffer = IF usage[s].closed THEN @ ELSE @ \cup lines]

Feed(s, d) == Serving(s) /\ pipe[s][d].waits = {} /\ ~pipe[s][d].ended

Data(s, d) ==
  /\ Feed(s, d)
  /\ \E n \in 1 .. Len(pipe[s][d].wire) :
       LET ps == pipe[s][d].pending \o SubSeq(pipe[s][d].wire, 1, n)
           ls == Cut(Whole(ps))
           q == [pipe[s] EXCEPT ![d] = [@ EXCEPT !.pending = Rest(ps),
                                                 !.wire = SubSeq(@, n + 1, Len(@))]]
       IN IF Direct(s, d, ls) # <<>> /\ pipe[s]["down"].ended
          THEN \* an answer after the end of the stream it goes to is an error of that stream
               Ends(s, "failed") /\ UNCHANGED <<pipe, usage>>
          ELSE /\ pipe' = [pipe EXCEPT ![s] = Written(s, d, ls, q)]
               /\ Captured(s, Seen(s, d, ls))
               /\ UNCHANGED <<relay, procs>>
  /\ UNCHANGED <<state, config, look, count>>

Closed(s, d) == IF d = "up" THEN relay[s].client = "closed" ELSE relay[s].upstream = "ended"

\* cleanup, once: the usage writer takes no more events and what it holds is on its way.
Cleanup(s, why) ==
  /\ relay' = [relay EXCEPT ![s] = [relay[s] EXCEPT !.pc = "cleaning", !.end = why]]
  /\ usage' = [usage EXCEPT ![s] = [@ EXCEPT !.closed = TRUE, !.tail = @ \cup usage[s].buffer,
                                             !.buffer = {}]]

\* The input has ended: what is pending is a last line, then the output is ended.  A sidecar's
\* cleanup listens to the same end, and first.
End(s, d) ==
  /\ Feed(s, d) /\ pipe[s][d].wire = <<>> /\ Closed(s, d)
  /\ LET rest == pipe[s][d].pending
         own == IF rest = <<>> THEN <<>> ELSE Tag(<<rest>>, d)
     IN pipe' = [pipe EXCEPT ![s][d] = [@ EXCEPT !.pending = <<>>, !.out = @ \o own, !.ended = TRUE]]
  /\ IF d = "down" /\ relay[s].mode = "sidecar" /\ relay[s].pc = "running"
     THEN Cleanup(s, "upstream") ELSE UNCHANGED <<relay, usage>>
  /\ UNCHANGED <<state, procs, config, look, count>>

\* The other side reads a line; an output that empties lets the inputs go on that waited for it.
Take(s, d) ==
  /\ pipe[s][d].out # <<>> /\ relay[s].pc # "gone"
  /\ d = "up" => relay[s].upstream = "running"
  /\ LET q == [pipe[s] EXCEPT ![d] = [@ EXCEPT !.out = Tail(@), !.got = Append(@, Head(pipe[s][d].out))]]
     IN pipe' = [pipe EXCEPT ![s] = [e \in Dirs |-> IF q[d].out = <<>> /\ d \in q[e].waits
                                                    THEN [q[e] EXCEPT !.waits = {}] ELSE q[e]]]
  /\ UNCHANGED <<relay, usage, state, procs, config, look, count>>

(***************************************************************************)
(* The ends.                                                               *)
(***************************************************************************)

\* The client sends no more, but still reads.
ClientCloses(s) ==
  /\ relay[s].pc # "none" /\ relay[s].client = "open"
  /\ relay' = [relay EXCEPT ![s].client = "closed"]
  /\ UNCHANGED <<pipe, usage, state, procs, config, look, count>>
\* The upstream ends by itself, or because its input has ended.  What it wrote stays in its pipe.
UpstreamEnds(s) ==
  /\ relay[s].upstream = "running"
  /\ relay' = [relay EXCEPT ![s].upstream = "ended"]
  /\ UNCHANGED <<pipe, usage, state, procs, config, look, count>>
\* The exit of the child, whatever of its output has been read
ChildExit(s) ==
  /\ relay[s].mode = "child" /\ relay[s].pc = "running"
  /\ relay[s].upstream = "ended" /\ ~relay[s].missed
  /\ Cleanup(s, "upstream")
  /\ UNCHANGED <<pipe, state, procs, config, look, count>>

\* The timer or a full buffer hands the events over to be appended, one batch after the other.
Flush(s) ==
  /\ Serving(s) /\ usage[s].buffer # {}
  /\ usage' = [usage EXCEPT ![s] = [@ EXCEPT !.tail = @ \cup usage[s].buffer, !.buffer = {}]]
  /\ UNCHANGED <<relay, pipe, state, procs, config, look, count>>
Appended(s) ==
  /\ Serving(s) /\ usage[s].tail # {}
  /\ \/ /\ usage' = [usage EXCEPT ![s] = [@ EXCEPT !.file = @ \cup usage[s].tail, !.tail = {}]]
        /\ UNCHANGED count
     \/ /\ Fault
        /\ usage' = [usage EXCEPT ![s] = [@ EXCEPT !.lost = @ \cup usage[s].tail, !.tail = {}]]
  /\ UNCHANGED <<relay, pipe, state, procs, config, look>>

\* removeRelayState, as part of the cleanup: only a file with the pid of this process; a failure
\* is only logged.
Mine(s) == state[s].pid = relay[s].pid
RemoveState(s) ==
  /\ relay[s].pc = "cleaning"
  /\ \/ /\ state' = [state EXCEPT ![s] = IF Mine(s) THEN NoFile ELSE @]
        /\ UNCHANGED count
     \/ Fault /\ UNCHANGED state
  /\ relay' = [relay EXCEPT ![s].pc = "leaving"]
  /\ UNCHANGED <<pipe, usage, procs, config, look>>

Cleaned(s) == relay[s].pc = "leaving" /\ usage[s].tail = {}
Flushed(s) == pipe[s]["down"].ended /\ pipe[s]["down"].out = <<>>
\* A child's relay leaves like the child, at once; a sidecar when its output has been taken.
Leave(s) ==
  /\ Cleaned(s)
  /\ relay[s].end = "upstream" /\ relay[s].mode = "sidecar" => Flushed(s)
  /\ Ends(s, relay[s].end)
  /\ UNCHANGED <<pipe, usage, state, config, look, count>>

\* Nothing is left to wait for when the end of the child was missed: the process ends by itself,
\* and has no time left for its cleanup.
RunsOut(s) ==
  /\ relay[s].pc = "running" /\ relay[s].missed
  /\ pipe[s]["down"].ended /\ pipe[s]["down"].out = <<>>
  /\ pipe[s]["up"].ended \/ pipe[s]["up"].waits # {}
  /\ usage[s].buffer \cup usage[s].tail = {}
  /\ Ends(s, "ranOut")
  /\ UNCHANGED <<pipe, usage, state, config, look, count>>

\* A signal to stop: before the listeners are set, or once they have been used, it ends the
\* process.  Otherwise the child gets it; a sidecar cleans up first, but a cleanup that is
\* already under way is not waited for.
Signal(s) ==
  /\ Up(s) /\ count.signals < MaxSignals
  /\ count' = [count EXCEPT !.signals = @ + 1]
  /\ \/ ~Serving(s) /\ Ends(s, "killed") /\ UNCHANGED usage
     \/ Serving(s) /\ relay[s].mode = "child" /\ relay' = [relay EXCEPT ![s].upstream = "ended"]
        /\ UNCHANGED <<procs, usage>>
     \/ Serving(s) /\ relay[s].mode = "sidecar"
        /\ IF relay[s].pc = "running" THEN Cleanup(s, "signal") /\ UNCHANGED procs
           ELSE Ends(s, "killed") /\ UNCHANGED usage
  /\ UNCHANGED <<pipe, state, config, look>>
Kill(s) ==
  /\ Up(s) /\ count.signals < MaxSignals
  /\ count' = [count EXCEPT !.signals = @ + 1]
  /\ Ends(s, "killed")
  /\ UNCHANGED <<pipe, usage, state, config, look>>

(***************************************************************************)
(* The injector looks for a relay: readCodexLaunchReadiness.               *)
(***************************************************************************)

\* The bridge writes another generation, for which Codex is restarted.
NewConfig ==
  /\ count.changes < MaxChanges
  /\ config' = config + 1
  /\ count' = [count EXCEPT !.changes = @ + 1]
  /\ UNCHANGED <<relay, pipe, usage, state, procs, look>>
\* Another program is given a pid that is free.
Others ==
  /\ look # NoLook
  /\ \E p \in Pids : procs[p] = None /\ procs' = [procs EXCEPT ![p] = "other"]
  /\ UNCHANGED <<relay, pipe, usage, state, config, look, count>>

\* The files are looked at one by one, each read first and then compared with the process that
\* has its pid: for the generation and the time the process started.
Look ==
  /\ look.pc \in {"idle", "ready", "missing"} /\ count.looks < MaxLooks
  /\ look' = [NoLook EXCEPT !.pc = "next", !.gen = config,
                           !.left = {s \in Sessions : state[s] # NoFile}]
  /\ count' = [count EXCEPT !.looks = @ + 1]
  /\ UNCHANGED <<relay, pipe, usage, state, procs, config>>
ReadFile ==
  /\ look.pc = "next"
  /\ IF look.left = {} THEN look' = [look EXCEPT !.pc = "missing"]
     ELSE \E s \in look.left :
            look' = [look EXCEPT !.pc = IF state[s].gen = look.gen THEN "process" ELSE "next",
                                 !.left = look.left \ {s}, !.read = state[s]]
  /\ UNCHANGED <<relay, pipe, usage, state, procs, config, count>>
\* Mutant of SameProcess: any process with that pid counts.
SamePid(f) == procs[f.pid] # None
SameProcess(f) == procs[f.pid] = f.of
Compare ==
  /\ look.pc = "process"
  /\ look' = [look EXCEPT !.pc = IF SameProcess(look.read) THEN "ready" ELSE "next"]
  /\ UNCHANGED <<relay, pipe, usage, state, procs, config, count>>

Runs(s) ==
  \/ Prepare(s) \/ Claim(s) \/ Listen(s) \/ ChildExit(s) \/ Flush(s) \/ Appended(s)
  \/ RemoveState(s) \/ Leave(s) \/ RunsOut(s)
  \/ \E d \in Dirs : Data(s, d) \/ End(s, d)
Reads(s) == \E d \in Dirs : Take(s, d)
Stops(s) == Signal(s) \/ Kill(s)
Changes(s) == Start(s) \/ UpstreamEnds(s) \/ Stops(s)
World(s) == Changes(s) \/ ClientCloses(s)
Looks == NewConfig \/ Others \/ Look \/ ReadFile \/ Compare
Next == Looks \/ \E s \in Sessions : Runs(s) \/ Reads(s) \/ World(s)

\* Every process goes on, and both of its ends read what they are sent.
Fairness == \A s \in Sessions : WF_vars(Runs(s)) /\ WF_vars(Reads(s))
Spec == Init /\ [][Next]_vars /\ Fairness

(***************************************************************************)
(* Properties.                                                             *)
(***************************************************************************)

\* What the client has of the upstream's lines is these lines, whole and in their order, whatever
\* the chunks, the pauses and the answers in between; and a sidecar that leaves because the
\* upstream's output ended leaves when all have been taken and the usage in them is in the
\* events file, unless an append failed (app-server-relay.mjs cleanup, transport.mjs pipeLines).
Heard(s) == SelectSeq(pipe[s]["down"].got, LAMBDA l : l.from = "down")
Whole2(s, i) == <<[line |-> i, last |-> FALSE], [line |-> i, last |-> TRUE]>>
EndIsHeard ==
  \A s \in Sessions :
    /\ \A i \in DOMAIN Heard(s) : Heard(s)[i].pieces = Whole2(s, i)
    /\ relay[s].pc = "gone" /\ relay[s].end = "upstream" /\ relay[s].mode = "sidecar"
         => /\ Len(Heard(s)) = Len(Lines(s, "down"))
            /\ \A i \in DOMAIN Lines(s, "down") : Kind(s, "down", i) = "usage"
                 => i \in usage[s].file \cup usage[s].lost

\* A relay whose upstream has ended, and whose client sends no more, ends too: even when the end
\* of the child was missed, and whatever outputs were full (app-server-relay.mjs 258-290).
Abandoned(s) == relay[s].upstream = "ended" /\ relay[s].client = "closed"
\* A launch is told that its relay is ready only while a process runs that claimed the file, of
\* the generation asked for: never for what a killed relay left, though its pid is in use again.
FoundRuns ==
  [][look'.pc = "ready" /\ look.pc # "ready"
       => Up(look.read.of) /\ relay[look.read.of].gen = look.gen]_vars
================================================================================
