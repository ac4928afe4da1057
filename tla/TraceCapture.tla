------------------------------ MODULE TraceCapture ------------------------------
(***************************************************************************)
(* devdiag trace: one command is run under strace or under eBPF programs   *)
(* while its threads make system calls; strace writes a file of lines, in  *)
(* which a call that another thread interrupts takes two of them, the      *)
(* kernel fills a ring that a goroutine empties into a channel, and when   *)
(* all is over the events are put together, analysed and told.             *)
(*                                                                         *)
(* A system call is known by its thread and its place in the thread's      *)
(* script.  An event is a pair: the call its name and arguments are of,    *)
(* and the call its result is of.                                          *)
(***************************************************************************)
EXTENDS Integers, Sequences, SequencesExt, FiniteSets

CONSTANTS Tasks,      \* threads
          Programs,   \* commands that are traced: see TraceAssumption
          MaxEvents,  \* --max-events
          RingCap, ChanCap,   \* room in the kernel's ring and in the channel
          NoCall      \* the call of a torn line's missing result

\* A program has a first thread, the process of each thread (named by its leader),
\* the calls each makes, the threads that ignore SIGTERM, the processes that leave
\* their group (setsid), the scopes it is traced with, and whether it prints a
\* permission error of its own on stderr.
ASSUME TraceAssumption ==
    /\ MaxEvents \in Nat \ {0} /\ RingCap \in Nat \ {0} /\ ChanCap \in Nat \ {0}
    /\ \A p \in Programs :
          /\ p.root \in Tasks /\ p.process \in [Tasks -> Tasks] /\ p.process[p.root] = p.root
          /\ DOMAIN p.script = Tasks /\ p.stubborn \subseteq Tasks /\ p.left \subseteq Tasks
          /\ \A t \in Tasks : Len(p.script[t]) \in Nat /\ NoCall \notin {t} \X (1..Len(p.script[t]))
          /\ p.scopes \subseteq {"file", "process", "network"} /\ p.grumbles \in BOOLEAN

VARIABLES prog, backend, host,   \* the command; what traces it; what the host allows
          mode,                  \* how the eBPF programs are attached
          phase, ctx,            \* of the trace command, and of its context
          alive, inCall, count,  \* per thread: is it, is it in a call, calls begun
          status,                \* how the command ended
          made,                  \* the calls that completed, in that order
          file,                  \* the lines of strace's file
          pending, ring, hand, chan, readerOpen, chanClosed, got,   \* of eBPF
          lost,                  \* why calls never got into the ring or out of it
          res                    \* trace.Result

osVars      == <<alive, inCall, count, status, made>>
kernelVars  == <<pending, ring, lost>>
readerVars  == <<hand, chan, readerOpen, chanClosed, got>>
fixedVars   == <<prog, backend, host, mode>>
captureVars == <<osVars, kernelVars, readerVars, fixedVars, phase, ctx, file, res>>

Call(c)    == prog.script[c[1]][c[2]]
Process(t) == prog.process[t]
Current(t) == <<t, count[t]>>

Scopes(sys) == CASE sys = "openat" -> {"file"}
                 [] sys = "execve" -> {"file", "process"}    \* strace's %file takes it too
                 [] sys \in {"connect", "bind"} -> {"network"}

EbpfScope(sys) == CASE sys = "openat" -> "file" [] sys = "execve" -> "process" [] OTHER -> "network"

Traced(c) == IF backend = "strace" THEN Scopes(Call(c).sys) \cap prog.scopes # {}
             ELSE EbpfScope(Call(c).sys) \in prog.scopes

Calls == UNION {{t} \X (1..Len(prog.script[t])) : t \in Tasks}

\* The members of s that are in S, in their order.
Select(s, S) ==
    LET kept[i \in 0..Len(s)] ==
          IF i = 0 THEN <<>>
          ELSE IF s[i] \in S THEN Append(kept[i - 1], s[i]) ELSE kept[i - 1]
    IN  kept[Len(s)]

\* What the backend sets out to record: eBPF only the calls that fail.
Targets == {c \in Calls : Traced(c) /\ (backend = "strace" \/ Call(c).err # "none")}
Wanted  == Select(made, Targets)

NoResult == [events |-> <<>>, partial |-> FALSE, timedOut |-> FALSE, canceled |-> FALSE,
             failed |-> FALSE, unavailable |-> FALSE, exitCode |-> 0]

\* exitKills: strace takes its tracees with it, from 6.6 on.
Hosts == [strace : {"fine", "denied", "broken", "missing"},
          ebpf : {"fine", "unsupported", "nocaps", "nopause"}, exitKills : BOOLEAN]

CaptureInit ==
    /\ prog \in Programs /\ backend \in {"strace", "ebpf"}
    /\ host \in Hosts /\ (prog.left = {} => host.exitKills)
    /\ (backend = "strace" => host.ebpf = "fine")     \* is not asked
    /\ (backend = "ebpf" /\ host.ebpf # "nocaps" => host.strace = "fine")
    /\ mode = "none" /\ phase = "start" /\ ctx = "live"
    /\ alive = [t \in Tasks |-> t = prog.root \/ prog.script[t] # <<>>]
    /\ inCall = [t \in Tasks |-> FALSE] /\ count = [t \in Tasks |-> 0] /\ status = "none"
    /\ made = <<>> /\ file = <<>>
    /\ pending = {} /\ ring = <<>> /\ lost = {}
    /\ hand = <<>> /\ chan = <<>> /\ readerOpen = FALSE /\ chanClosed = FALSE /\ got = <<>>
    /\ res = NoResult
---------------------------------------------------------------------------------
(* The end of a capture, and what analysis makes of its events.            *)

\* DNS before anything else, then by errno; "noisy" paths are probed on purpose.
Kind(sys, target, err) ==
    CASE target = "resolver" /\ err \in {"ENOENT", "EACCES"} -> "F-TRACE-DNS-001"
      [] target = "port53" /\ err \in {"ECONNREFUSED", "ETIMEDOUT"} -> "F-TRACE-DNS-001"
      [] err = "ENOENT" /\ sys = "execve" -> "F-TRACE-EXEC-001"
      [] err = "ENOENT" /\ sys # "execve" /\ target # "noisy" -> "F-TRACE-FILE-001"
      [] err = "EACCES" -> "F-TRACE-FILE-002"
      [] err = "ECONNREFUSED" -> "F-TRACE-NET-001"
      [] err = "EADDRINUSE" -> "F-TRACE-NET-002"
      [] OTHER -> "none"

\* Analyze: an event without a result says nothing.
Analyze(events) ==
    {Kind(Call(e.of).sys, Call(e.of).target, Call(e.ret).err) :
        e \in {x \in ToSet(events) : x.of # NoCall /\ x.ret # NoCall}} \ {"none"}

\* 0 is info and 4 critical, which no finding of a trace has.
Severity(kind) == CASE kind = "F-TRACE-FILE-001" -> 1
                    [] kind \in {"F-TRACE-NET-001", "F-TRACE-NET-002"} -> 3
                    [] OTHER -> 2

\* --fail-severity: info, low, medium, high, critical, off.
Thresholds == 0..5

\* The highest severity counts from info, which nothing at all has too.
Failing(kinds, threshold) == threshold = 0 \/ \E k \in kinds : Severity(k) >= threshold

\* Mutant: a trace that is cut short is as good as a whole one.
ExitCodePartialIsGood(r, threshold) ==
    IF r.unavailable THEN 7
    ELSE IF r.failed \/ r.canceled \/ r.timedOut \/ r.exitCode \notin {0, -1} THEN 6
    ELSE IF Failing(Analyze(r.events), threshold) THEN 1
    ELSE 0

\* The exit code of devdiag trace.
ExitCode(r, threshold) ==
    IF r.unavailable THEN 7
    ELSE IF r.failed \/ r.canceled \/ r.timedOut \/ r.exitCode \notin {0, -1} THEN 6
    ELSE IF Failing(Analyze(r.events), threshold) THEN 1
    ELSE IF r.partial THEN 3 ELSE 0

\* What is left of the capture is its result: the temporary file is removed.
Finish(r) ==
    /\ phase' = "done" /\ res' = r
    /\ file' = <<>> /\ pending' = {} /\ ring' = <<>> /\ hand' = <<>> /\ chan' = <<>> /\ got' = <<>>
    /\ UNCHANGED <<readerOpen, chanClosed, lost>>

Unavailable == [NoResult EXCEPT !.unavailable = TRUE]
---------------------------------------------------------------------------------
(* Starting.                                                               *)

StartStrace ==
    /\ phase = "start" /\ backend = "strace"
    /\ CASE host.strace = "missing" -> Finish([Unavailable EXCEPT !.exitCode = -1])
         [] host.strace \in {"denied", "broken"} ->
                phase' = "stopped" /\ UNCHANGED <<file, res, kernelVars, readerVars>>
         [] OTHER -> phase' = "run" /\ UNCHANGED <<file, res, kernelVars, readerVars>>
    /\ UNCHANGED <<osVars, fixedVars, ctx>>

\* Perf links first, one per tracepoint, raw tracepoints when any is refused; there
\* is no program for the tracepoints of clone, fork and vfork.
AttachModes == IF "process" \in prog.scopes THEN {"raw"} ELSE {"perf", "raw"}

\* Capabilities that sudo setcap gives to the file are not those of this process:
\* asked again or not, it falls back to strace.
StartEbpf ==
    /\ phase = "start" /\ backend = "ebpf"
    /\ \/ /\ host.ebpf = "fine" /\ mode' \in AttachModes
          /\ phase' = "run" /\ readerOpen' = TRUE
          /\ UNCHANGED <<backend, file, res, kernelVars, hand, chan, chanClosed, got>>
       \/ /\ host.ebpf = "unsupported" /\ Finish(Unavailable) /\ UNCHANGED <<backend, mode>>
       \/ /\ host.ebpf = "nopause" /\ Finish([NoResult EXCEPT !.failed = TRUE])
          /\ UNCHANGED <<backend, mode>>
       \/ /\ host.ebpf = "nocaps"
          /\ IF host.strace = "missing" THEN Finish(Unavailable) /\ UNCHANGED backend
             ELSE backend' = "strace" /\ UNCHANGED <<phase, file, res, kernelVars, readerVars>>
          /\ UNCHANGED mode
    /\ UNCHANGED <<osVars, prog, host, ctx>>
---------------------------------------------------------------------------------
(* The traced command, and what is recorded of it.                         *)

Line(c, kind) == [call |-> c, kind |-> kind]

IsOpen(f) == f # <<>> /\ Last(f).kind = "open"

\* A line that starts while another is open breaks that one off.
Broken(f) == IF IsOpen(f) THEN [f EXCEPT ![Len(f)].kind = "unfinished"] ELSE f

\* strace finishes the line of its own thread, or resumes the call on a new one.
Completed(f, c) ==
    IF IsOpen(f) /\ Last(f).call = c THEN [f EXCEPT ![Len(f)].kind = "whole"]
    ELSE Append(Broken(f), Line(c, "resumed"))

\* What survives the trace is not followed any further.
Running == phase \in {"run", "term"} \/ (backend = "ebpf" /\ phase \in {"stopped", "drain"})

\* The eBPF programs follow the root's process, and forks only through perf links.
Tracked(t) == Process(t) = prog.root \/ mode = "perf"

\* pending_events is keyed by process and kind of call, not by thread.
PendKey(c) == <<Process(c[1]), Call(c).sys>>
SameKey(c) == {d \in pending : PendKey(d) = PendKey(c)}

TheOne(S) == CHOOSE d \in S : TRUE

\* store_path_pending, store_sockaddr_pending.
RecordEntry(t, c) ==
    IF readerOpen /\ Traced(c) /\ Tracked(t)
    THEN pending' = (pending \ SameKey(c)) \cup {c} /\ UNCHANGED <<ring, lost>>
    ELSE UNCHANGED <<pending, ring, lost>>

\* emit_pending: calls that succeed are left out, and what finds the ring full.
RecordExit(t, c) ==
    LET own == SameKey(c) IN
    /\ pending' = pending \ own
    /\ IF Call(c).err = "none" \/ ~Traced(c) THEN UNCHANGED <<ring, lost>>
       ELSE IF ~readerOpen THEN lost' = lost \cup {"late"} /\ UNCHANGED ring
       ELSE IF ~Tracked(t) THEN lost' = lost \cup {"untracked"} /\ UNCHANGED ring
       ELSE IF own = {} THEN lost' = lost \cup {"mixed"} /\ UNCHANGED ring
       ELSE IF Len(ring) = RingCap THEN lost' = lost \cup {"full"} /\ UNCHANGED ring
       ELSE /\ ring' = Append(ring, [of |-> TheOne(own), ret |-> c])
            /\ lost' = lost \cup (IF own = {c} THEN {} ELSE {"mixed"})

Enter(t) ==
    /\ Running /\ alive[t] /\ ~inCall[t] /\ count[t] < Len(prog.script[t])
    /\ inCall' = [inCall EXCEPT ![t] = TRUE] /\ count' = [count EXCEPT ![t] = @ + 1]
    /\ LET c == <<t, count[t] + 1>> IN
          IF backend = "strace"
          THEN /\ file' = IF Traced(c) THEN Append(Broken(file), Line(c, "open")) ELSE file
               /\ UNCHANGED <<pending, ring, lost>>
          ELSE RecordEntry(t, c) /\ UNCHANGED file
    /\ UNCHANGED <<alive, status, made, readerVars, fixedVars, phase, ctx, res>>

Exit(t) ==
    /\ Running /\ alive[t] /\ inCall[t]
    /\ inCall' = [inCall EXCEPT ![t] = FALSE]
    /\ made' = Append(made, Current(t))
    /\ IF backend = "strace"
       THEN /\ file' = IF Traced(Current(t)) THEN Completed(file, Current(t)) ELSE file
            /\ UNCHANGED <<pending, ring, lost>>
       ELSE RecordExit(t, Current(t)) /\ UNCHANGED file
    /\ UNCHANGED <<alive, count, status, readerVars, fixedVars, phase, ctx, res>>

\* A process ends when its first thread does, by itself or by a signal that dumps
\* its core; "+++ killed by SIGSEGV (core dumped) +++" parses as an event.
Ends(ts, how) ==
    /\ alive' = [t \in Tasks |-> alive[t] /\ t \notin ts]
    /\ inCall' = [t \in Tasks |-> inCall[t] /\ t \notin ts]
    /\ file' = IF backend = "strace"
               THEN Append(Broken(file), Line(NoCall, IF how = "crash" THEN "dump" ELSE "exit"))
               ELSE file
    /\ status' = IF prog.root \in ts THEN how ELSE status

ProcessOf(t) == {u \in Tasks : Process(u) = Process(t) /\ alive[u]}

Quit(t) ==
    /\ Running /\ alive[t] /\ ~inCall[t] /\ count[t] = Len(prog.script[t])
    /\ IF Process(t) = t THEN \E how \in {"ok", "fail", "crash"} : Ends(ProcessOf(t), how)
       ELSE Ends({t}, "ok")
    /\ UNCHANGED <<count, made, kernelVars, readerVars, fixedVars, phase, ctx, res>>
---------------------------------------------------------------------------------
(* The end of the context, and of what was traced.                         *)

CtxEnds ==
    /\ ctx = "live" /\ phase \in {"run", "stopped"}
    /\ ctx' \in {"deadline", "canceled"}
    /\ UNCHANGED <<osVars, kernelVars, readerVars, fixedVars, phase, file, res>>

\* runWithGroupKill: SIGTERM to the group; strace itself holds it back.
Terminate ==
    /\ backend = "strace" /\ phase = "run" /\ ctx # "live"
    /\ phase' = "term"
    /\ UNCHANGED <<osVars, kernelVars, readerVars, fixedVars, ctx, file, res>>

Dies(t) ==
    /\ phase = "term" /\ alive[t] /\ Process(t) = t /\ t \notin prog.stubborn \cup prog.left
    /\ Ends(ProcessOf(t), "signaled")
    /\ UNCHANGED <<count, made, kernelVars, readerVars, fixedVars, phase, ctx, res>>

\* SIGKILL after 100 ms, to strace and all; a line that is open may be cut off. What
\* left the group is not signaled, and dies only with a strace that sees to it.
KillGroup ==
    /\ phase = "term"
    /\ phase' = "wait" /\ status' = "signaled"
    /\ alive' = [t \in Tasks |-> alive[t] /\ Process(t) \in prog.left /\ ~host.exitKills]
    /\ inCall' = [t \in Tasks |-> FALSE]
    /\ file' \in {file, IF IsOpen(file) THEN Front(file) ELSE file}
    /\ UNCHANGED <<count, made, kernelVars, readerVars, fixedVars, ctx, res>>

\* It may live on without a tracer for as long as it likes.
SurvivorEnds(t) ==
    /\ phase = "wait" /\ alive[t]
    /\ alive' = [alive EXCEPT ![t] = FALSE]
    /\ UNCHANGED <<inCall, count, status, made, kernelVars, readerVars, fixedVars, phase, ctx, file, res>>

\* strace -f waits for every tracee, and cmd.Wait for all who hold strace's stderr;
\* exec.CommandContext waits only for its child.
StraceExits ==
    /\ backend = "strace" /\ phase \in {"run", "term", "wait"} /\ \A t \in Tasks : ~alive[t]
    /\ phase' = "stopped"
    /\ UNCHANGED <<osVars, kernelVars, readerVars, fixedVars, ctx, file, res>>

KillRoot ==
    /\ backend = "ebpf" /\ phase = "run" /\ ctx # "live" /\ alive[prog.root]
    /\ Ends(ProcessOf(prog.root), "signaled")
    /\ UNCHANGED <<count, made, kernelVars, readerVars, fixedVars, phase, ctx, res>>

RootReaped ==
    /\ backend = "ebpf" /\ phase = "run" /\ ~alive[prog.root]
    /\ phase' = "stopped"
    /\ UNCHANGED <<osVars, kernelVars, readerVars, fixedVars, ctx, file, res>>
---------------------------------------------------------------------------------
(* Reading strace's file.                                                  *)

\* Mutant: the two halves of a call are matched by its name alone.
PairKeyByName(c) == <<Call(c).sys>>

\* pendingSyscall.
PairKey(c) == <<c[1], Call(c).sys>>

Matching(acc, c) == {d \in acc.pending : PairKey(d) = PairKey(c)}

\* Mutant: the cap is looked at after the line, and what it cuts is not said.
ReadLineSilently(acc, l) ==
    IF Len(acc.events) >= MaxEvents THEN [acc EXCEPT !.stopped = TRUE]
    ELSE CASE l.kind = "unfinished" ->
                 [acc EXCEPT !.pending = (@ \ Matching(acc, l.call)) \cup {l.call}]
           [] l.kind = "resumed" ->
                 [acc EXCEPT !.pending = @ \ Matching(acc, l.call),
                             !.events = Append(@, [of |-> TheOne(Matching(acc, l.call)), ret |-> l.call])]
           [] l.kind = "whole" -> [acc EXCEPT !.events = Append(@, [of |-> l.call, ret |-> l.call])]
           [] OTHER -> acc

\* One line of readTraceFile; the cap is looked at before the line is.
ReadLine(acc, l) ==
    IF acc.stopped THEN acc
    ELSE IF Len(acc.events) >= MaxEvents THEN [acc EXCEPT !.stopped = TRUE, !.partial = TRUE]
    ELSE CASE l.kind = "unfinished" ->
                 [acc EXCEPT !.pending = (@ \ Matching(acc, l.call)) \cup {l.call}]
           [] l.kind = "resumed" /\ Matching(acc, l.call) = {} -> [acc EXCEPT !.partial = TRUE]
           [] l.kind = "resumed" /\ Matching(acc, l.call) # {} ->
                 [acc EXCEPT !.pending = @ \ Matching(acc, l.call),
                             !.events = Append(@, [of |-> TheOne(Matching(acc, l.call)), ret |-> l.call])]
           [] l.kind = "whole" -> [acc EXCEPT !.events = Append(@, [of |-> l.call, ret |-> l.call])]
           [] l.kind = "open" -> [acc EXCEPT !.events = Append(@, [of |-> l.call, ret |-> NoCall])]
           [] l.kind = "dump" -> [acc EXCEPT !.events = Append(@, [of |-> NoCall, ret |-> NoCall])]
           [] l.kind = "exit" -> acc

NothingRead == [events |-> <<>>, pending |-> {}, partial |-> FALSE, stopped |-> FALSE]

ReadLines(f) ==
    LET read[i \in 0..Len(f)] == IF i = 0 THEN NothingRead ELSE ReadLine(read[i - 1], f[i])
    IN  read[Len(f)]

ReadTraceFile ==
    LET end == ReadLines(file)
    IN  [events |-> end.events, partial |-> end.partial \/ end.pending # {}]

\* What stderr says is read when strace or the command failed and time was not out.
Denied == host.strace = "denied" \/ (host.strace = "fine" /\ prog.grumbles)

StraceResult ==
    LET fails == host.strace # "fine" \/ status # "ok"
        read  == ReadTraceFile
    IN  [events      |-> read.events,
         partial     |-> read.partial \/ ctx # "live",
         timedOut    |-> ctx = "deadline", canceled |-> ctx = "canceled",
         failed      |-> host.strace = "fine" /\ status \in {"signaled", "crash"},
         unavailable |-> ctx = "live" /\ fails /\ host.strace # "broken" /\ Denied,
         exitCode    |-> CASE host.strace = "broken" -> -1
                           [] host.strace = "denied" -> 1
                           [] OTHER -> CASE status = "ok" -> 0 [] status = "fail" -> 1 [] OTHER -> -1]

ParseFile ==
    /\ backend = "strace" /\ phase = "stopped"
    /\ Finish(StraceResult)
    /\ UNCHANGED <<osVars, fixedVars, ctx>>
---------------------------------------------------------------------------------
(* The eBPF reader.                                                        *)

ReadRing ==
    /\ readerOpen /\ ring # <<>> /\ hand = <<>>
    /\ hand' = <<Head(ring)>> /\ ring' = Tail(ring)
    /\ UNCHANGED <<osVars, pending, lost, chan, readerOpen, chanClosed, got, fixedVars, phase, ctx, file, res>>

PutEvent ==
    /\ hand # <<>> /\ Len(chan) < ChanCap
    /\ chan' = chan \o hand /\ hand' = <<>>
    /\ UNCHANGED <<osVars, kernelVars, readerOpen, chanClosed, got, fixedVars, phase, ctx, file, res>>

\* ErrClosed ends the goroutine.
ReaderEnds ==
    /\ backend = "ebpf" /\ phase \in {"drain", "done"} /\ ~readerOpen /\ hand = <<>> /\ ~chanClosed
    /\ chanClosed' = TRUE
    /\ UNCHANGED <<osVars, kernelVars, hand, chan, readerOpen, got, fixedVars, phase, ctx, file, res>>

\* Mutant: the channel is drained before the reader is closed.
DrainUnclosed ==
    /\ backend = "ebpf" /\ phase = "stopped"
    /\ phase' = "drain"
    /\ UNCHANGED <<osVars, kernelVars, readerVars, fixedVars, ctx, file, res>>

\* reader.Close as soon as Wait returns; what is still in the ring stays there.
CloseReader ==
    /\ backend = "ebpf" /\ phase = "stopped"
    /\ phase' = "drain" /\ readerOpen' = FALSE
    /\ lost' = IF ring # <<>> THEN lost \cup {"closed"} ELSE lost
    /\ ring' = <<>> /\ pending' = {}
    /\ UNCHANGED <<osVars, hand, chan, chanClosed, got, fixedVars, ctx, file, res>>

Drain ==
    /\ phase = "drain" /\ chan # <<>>
    /\ got' = Append(got, Head(chan)) /\ chan' = Tail(chan)
    /\ UNCHANGED <<osVars, kernelVars, hand, readerOpen, chanClosed, fixedVars, phase, ctx, file, res>>

\* exec.ExitError is a failed process; the end of the context is a cancellation,
\* its deadline too, and the only thing that makes the result partial.
Collect ==
    /\ phase = "drain" /\ chanClosed /\ chan = <<>>
    /\ Finish([NoResult EXCEPT
                 !.events = got, !.partial = ctx # "live", !.canceled = ctx # "live",
                 !.failed = status # "ok",
                 !.exitCode = CASE status = "ok" -> 0 [] status = "fail" -> 1 [] OTHER -> -1])
    /\ UNCHANGED <<osVars, fixedVars, ctx>>
---------------------------------------------------------------------------------
CommandNext == \E t \in Tasks : Enter(t) \/ Exit(t) \/ Quit(t) \/ SurvivorEnds(t)

TracerNext == \/ Terminate \/ KillGroup \/ StraceExits \/ KillRoot \/ RootReaped
              \/ \E t \in Tasks : Dies(t)

ReaderNext == ReadRing \/ PutEvent \/ ReaderEnds

MainNext == StartStrace \/ StartEbpf \/ ParseFile \/ CloseReader \/ Drain \/ Collect

CaptureNext == CommandNext \/ CtxEnds \/ TracerNext \/ ReaderNext \/ MainNext

\* The traced command owes nothing; time passes, signals kill, goroutines run.
CaptureFairness ==
    /\ WF_captureVars(CtxEnds /\ phase = "run") /\ WF_captureVars(TracerNext)
    /\ WF_captureVars(ReaderNext) /\ WF_captureVars(MainNext)

CaptureSpec == CaptureInit /\ [][CaptureNext]_captureVars /\ CaptureFairness
---------------------------------------------------------------------------------
(* Properties.                                                             *)

CaptureTypeOK ==
    /\ prog \in Programs /\ backend \in {"strace", "ebpf"} /\ mode \in {"none", "perf", "raw"}
    /\ phase \in {"start", "run", "term", "wait", "stopped", "drain", "done", "told"}
    /\ ctx \in {"live", "deadline", "canceled"}
    /\ alive \in [Tasks -> BOOLEAN] /\ inCall \in [Tasks -> BOOLEAN]
    /\ \A t \in Tasks : count[t] \in 0..Len(prog.script[t])
    /\ status \in {"none", "ok", "fail", "crash", "signaled"}
    /\ Len(ring) <= RingCap /\ Len(chan) <= ChanCap /\ Len(hand) <= 1
    /\ lost \subseteq {"full", "closed", "late", "untracked", "mixed"}

Returned(events) == Select(events, [of : Calls \cup {NoCall}, ret : Calls])
RetsOf(events)   == [i \in DOMAIN events |-> events[i].ret]

Told    == Returned(res.events)
Results == RetsOf(Told)

\* No call is made twice.
IsSubSequence(s, t) ==
    /\ ToSet(s) \subseteq ToSet(t)
    /\ \A i, j \in DOMAIN s : i < j => \E k, l \in DOMAIN t : k < l /\ t[k] = s[i] /\ t[l] = s[j]

\* The events of a trace are calls that were made, in their order, and each has
\* the result of the very call its arguments are of - but for eBPF's, when two
\* threads of one process are in the same call at once.
EventsAreReal ==
    phase = "done" =>
        /\ IsSubSequence(Results, Wanted)
        /\ \A i \in DOMAIN Told : Told[i].of = Told[i].ret \/ "mixed" \in lost

\* A call that is missing is admitted: a result that is not partial has every call
\* of its scopes - but for what eBPF loses without a word.
MissingIsSaid ==
    phase = "done" /\ ~res.partial /\ ~res.unavailable /\ status # "none" =>
        Results = Wanted \/ lost # {}

\* What a trace that has all it set out to record is made of.
WholeTrace == [i \in DOMAIN Wanted |-> [of |-> Wanted[i], ret |-> Wanted[i]]]

\* Whatever --fail-severity says: exit 0 is said of a command that ran to its end,
\* succeeded and met, in all its calls, nothing that severe; 1 only of one that did
\* meet it, however much of the trace is missing; 7 of a host on which tracing is
\* not to be had - but for strace that cannot be started (0), a command that
\* complains of a permission itself (7), and what eBPF lost or mixed up.
TraceExitIsHonest ==
    phase = "done" => \A threshold \in Thresholds :
        /\ ExitCode(res, threshold) = 0 =>
              \/ /\ status = "ok" /\ ctx = "live" /\ Results = Wanted
                 /\ ~Failing(Analyze(WholeTrace), threshold)
              \/ host.strace = "broken" \/ lost # {}
        /\ ExitCode(res, threshold) = 1 =>
              Failing(Analyze(WholeTrace), threshold) \/ "mixed" \in lost
        /\ ExitCode(res, threshold) = 7 =>
              \/ host.strace \in {"missing", "denied"} \/ host.ebpf = "unsupported"
              \/ prog.grumbles /\ status \in {"fail", "crash"}

\* Processes that left the group live on and hold strace's stderr.
Outlived == phase = "wait" /\ \E t \in Tasks : alive[t]

\* A trace ends, whatever the command does in its process group - cmd.Wait waits
\* for what has left it, which the SIGKILL to the group does not reach.
TraceReturns == <>(phase = "done") \/ <>[]Outlived
=================================================================================
