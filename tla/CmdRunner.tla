------------------------------- MODULE CmdRunner -------------------------------
(***************************************************************************)
(* One external command, run by cmdrunner.RunWithOptions or by the strace  *)
(* runner's runWithGroupKill: the process tree the command becomes, the    *)
(* goroutine in cmd.Wait, the goroutine that copies the command's output   *)
(* into a capped buffer, and the caller, which stops waiting politely when *)
(* its context ends: SIGTERM to the process group, a grace period,         *)
(* SIGKILL.  Processes are free to spawn, write, redirect their output,    *)
(* leave the group, ignore SIGTERM, exit, or run for ever.                 *)
(***************************************************************************)
EXTENDS Naturals

CONSTANTS Procs,     \* processes the command may consist of
          Leader,    \* the one cmd.Start creates
          Cap,       \* RunOptions.StdoutCapBytes
          MaxBytes   \* bound on the bytes the command writes

ASSUME CmdAssumption ==
    Leader \in Procs /\ Cap \in Nat \ {0} /\ MaxBytes \in Nat

VARIABLES fn,         \* "RunWithOptions" or "runWithGroupKill" (trace)
          ctxEnded,   \* the caller's context is cancelled or past its deadline
          pc,         \* where the caller is
          timedOut,   \* res.TimedOut; for trace, what it will be
          err,        \* the caller's err
          res,        \* what it returns
          born, alive, group, pipe, deaf,   \* processes: ever started, running,
                      \* in the process group, holding the output pipe, ignoring SIGTERM
          status,     \* how the leader ended
          termed,     \* SIGTERM has been sent
          killed,     \* SIGKILL has been sent
          waiter,     \* the goroutine in cmd.Wait; "sent" is a value in waitCh
          written,    \* bytes the processes wrote into the pipe
          seen, stored, truncated   \* CappedBuffer

procVars == <<born, alive, group, pipe, deaf, status, written>>
bufVars  == <<seen, stored, truncated>>
callVars == <<fn, pc, timedOut, err, res, termed, killed>>
vars     == <<ctxEnded, callVars, procVars, waiter, bufVars>>

Errs == {"nil", "nonzero", "signaled", "ctx", "start"}

\* ExitCode: 0, positive, or -1.
Results == [timedOut: BOOLEAN, exit: {"zero", "nonzero", "minus1"},
            stored: Nat, seen: Nat, truncated: BOOLEAN]
NoResult == [timedOut |-> FALSE, exit |-> "zero", stored |-> 0, seen |-> 0, truncated |-> FALSE]

\* strings.Builder, which trace uses for stderr, has no cap.
CapOf == IF fn = "RunWithOptions" THEN Cap ELSE MaxBytes

TypeOK ==
    /\ fn \in {"RunWithOptions", "runWithGroupKill"}
    /\ ctxEnded \in BOOLEAN
    /\ pc \in {"start", "poll", "select", "grace", "reap", "finish", "returned"}
    /\ timedOut \in BOOLEAN /\ err \in Errs /\ res \in Results
    /\ born \subseteq Procs /\ alive \subseteq born /\ group \subseteq born
    /\ pipe \subseteq born /\ deaf \subseteq born
    /\ status \in {"none", "running", "zero", "nonzero", "signaled"}
    /\ termed \in BOOLEAN /\ killed \in BOOLEAN
    /\ waiter \in {"none", "waiting", "sent", "taken"}
    /\ written \in 0..MaxBytes /\ seen \in 0..written
    /\ stored \in 0..CapOf /\ truncated \in BOOLEAN

Init ==
    /\ fn \in {"RunWithOptions", "runWithGroupKill"}
    /\ ctxEnded \in BOOLEAN /\ pc = "start"
    /\ timedOut = FALSE /\ err = "nil" /\ res = NoResult
    /\ born = {} /\ alive = {} /\ group = {} /\ pipe = {} /\ deaf = {}
    /\ status = "none" /\ termed = FALSE /\ killed = FALSE
    /\ waiter = "none" /\ written = 0
    /\ seen = 0 /\ stored = 0 /\ truncated = FALSE
---------------------------------------------------------------------------------
(* The processes.                                                          *)

\* fork: group and pipe are inherited; exec may reset what SIGTERM does.
Spawn(p, q) ==
    /\ p \in alive /\ q \notin born
    /\ born' = born \cup {q} /\ alive' = alive \cup {q}
    /\ group' = IF p \in group THEN group \cup {q} ELSE group
    /\ pipe' = IF p \in pipe THEN pipe \cup {q} ELSE pipe
    /\ deaf' \in {deaf, deaf \cup {q}}
    /\ UNCHANGED <<ctxEnded, callVars, status, written, waiter, bufVars>>

Write(p) ==
    /\ p \in alive \cap pipe /\ written < MaxBytes
    /\ written' = written + 1
    /\ UNCHANGED <<ctxEnded, callVars, born, alive, group, pipe, deaf, status, waiter, bufVars>>

\* The process redirects its output, as a daemon does.
LetGo(p) ==
    /\ p \in alive \cap pipe /\ pipe' = pipe \ {p}
    /\ UNCHANGED <<ctxEnded, callVars, born, alive, group, deaf, status, written, waiter, bufVars>>

\* setsid; a group leader cannot.
Detach(p) ==
    /\ p \in (alive \cap group) \ {Leader} /\ group' = group \ {p}
    /\ UNCHANGED <<ctxEnded, callVars, born, alive, pipe, deaf, status, written, waiter, bufVars>>

ExitProc(p) ==
    /\ p \in alive /\ alive' = alive \ {p}
    /\ IF p = Leader THEN status' \in {"zero", "nonzero"} ELSE UNCHANGED status
    /\ UNCHANGED <<ctxEnded, callVars, born, group, pipe, deaf, written, waiter, bufVars>>

\* kill(-pgid): every victim is in the group.
Signal(victims) ==
    /\ alive' = alive \ victims
    /\ status' = IF Leader \in alive \cap victims THEN "signaled" ELSE status
    /\ UNCHANGED <<born, group, pipe, deaf, written>>
---------------------------------------------------------------------------------
(* The goroutines exec.Cmd starts.                                         *)

Holders == alive \cap pipe

\* Mutant: a piece that fits exactly counts as cut.
CappedWriteEarly(n) ==
    LET room == CapOf - stored
    IN  /\ seen' = seen + n
        /\ stored' = IF truncated THEN stored ELSE stored + (IF n > room THEN room ELSE n)
        /\ truncated' = (truncated \/ n >= room)

\* CappedBuffer.Write of n bytes.
CappedWrite(n) ==
    LET room == CapOf - stored
    IN  /\ seen' = seen + n
        /\ stored' = IF truncated THEN stored ELSE stored + (IF n > room THEN room ELSE n)
        /\ truncated' = (truncated \/ n > room)

\* io.Copy from the pipe, in pieces of any size.
CopyOutput ==
    /\ waiter = "waiting" /\ seen < written
    /\ \E n \in 1..(written - seen) : CappedWrite(n)
    /\ UNCHANGED <<ctxEnded, callVars, procVars, waiter>>

\* cmd.Wait reaps the leader and waits for the copying to reach the end of file.
WaitEnds ==
    /\ waiter = "waiting"
    /\ Leader \notin alive /\ Holders = {} /\ seen = written
    /\ waiter' = "sent"
    /\ UNCHANGED <<ctxEnded, callVars, procVars, bufVars>>
---------------------------------------------------------------------------------
(* The caller.                                                             *)

Goto(l) == pc' = l

ErrOf == IF status = "zero" THEN "nil" ELSE status

\* A command that cannot be started: not found, no permission, or another error.
StartFails ==
    /\ pc = "start"
    /\ err' = "start" /\ Goto("finish")
    /\ UNCHANGED <<ctxEnded, fn, timedOut, res, termed, killed, procVars, waiter, bufVars>>

Start ==
    /\ pc = "start"
    /\ born' = {Leader} /\ alive' = {Leader} /\ group' = {Leader} /\ pipe' = {Leader}
    /\ deaf' \in {{}, {Leader}} /\ status' = "running"
    /\ waiter' = "waiting"
    /\ Goto(IF fn = "RunWithOptions" THEN "poll" ELSE "select")
    /\ UNCHANGED <<ctxEnded, fn, timedOut, err, res, termed, killed, written, bufVars>>

\* A receive from waitCh that keeps the error.
TakeErr == /\ waiter = "sent" /\ waiter' = "taken"
           /\ err' = ErrOf /\ Goto("finish")

\* The first select: a command that has ended wins over a context that has.
Poll ==
    /\ pc = "poll"
    /\ \/ TakeErr
       \/ waiter # "sent" /\ Goto("select") /\ UNCHANGED <<waiter, err>>
    /\ UNCHANGED <<ctxEnded, fn, timedOut, res, termed, killed, procVars, bufVars>>

CommandEnded ==
    /\ pc = "select" /\ TakeErr
    /\ UNCHANGED <<ctxEnded, fn, timedOut, res, termed, killed, procVars, bufVars>>

\* Mutant: the context's error is not recorded.
InterruptErrless ==
    /\ pc = "select" /\ ctxEnded
    /\ Signal((alive \cap group) \ deaf) /\ termed' = TRUE
    /\ timedOut' = (fn = "RunWithOptions") /\ UNCHANGED err
    /\ Goto("grace")
    /\ UNCHANGED <<ctxEnded, fn, res, killed, waiter, bufVars>>

\* ctx.Done(): SIGTERM to the group.
Interrupt ==
    /\ pc = "select" /\ ctxEnded
    /\ Signal((alive \cap group) \ deaf) /\ termed' = TRUE
    /\ timedOut' = (fn = "RunWithOptions")
    /\ err' = IF fn = "RunWithOptions" THEN "ctx" ELSE err
    /\ Goto("grace")
    /\ UNCHANGED <<ctxEnded, fn, res, killed, waiter, bufVars>>

\* A receive from waitCh after SIGTERM: RunWithOptions drops the error.
TakeLate == /\ waiter = "sent" /\ waiter' = "taken"
            /\ err' = IF fn = "RunWithOptions" THEN err ELSE ErrOf
            /\ Goto("finish")

EndsInGrace ==
    /\ pc = "grace" /\ TakeLate
    /\ UNCHANGED <<ctxEnded, fn, timedOut, res, termed, killed, procVars, bufVars>>

\* Mutant: SIGKILL goes to the leader alone.
KillGroupLeader ==
    /\ pc = "grace"
    /\ Signal(alive \cap {Leader}) /\ killed' = TRUE
    /\ Goto("reap")
    /\ UNCHANGED <<ctxEnded, fn, timedOut, err, res, termed, waiter, bufVars>>

\* Mutant: the second signal is SIGTERM again.
KillGroupTerm ==
    /\ pc = "grace"
    /\ Signal((alive \cap group) \ deaf) /\ killed' = TRUE
    /\ Goto("reap")
    /\ UNCHANGED <<ctxEnded, fn, timedOut, err, res, termed, waiter, bufVars>>

\* time.After: SIGKILL to the group.
KillGroup ==
    /\ pc = "grace"
    /\ Signal(alive \cap group) /\ killed' = TRUE
    /\ Goto("reap")
    /\ UNCHANGED <<ctxEnded, fn, timedOut, err, res, termed, waiter, bufVars>>

Reap ==
    /\ pc = "reap" /\ TakeLate
    /\ UNCHANGED <<ctxEnded, fn, timedOut, res, termed, killed, procVars, bufVars>>

ExitCode == CASE err = "nil" -> "zero" [] err = "nonzero" -> "nonzero" [] OTHER -> "minus1"

\* RunWithOptions fills in its Result; Runner.Run of trace asks cmdCtx.Err().
Finish ==
    /\ pc = "finish"
    /\ res' = [timedOut |-> timedOut \/ (fn = "runWithGroupKill" /\ ctxEnded),
               exit |-> ExitCode,
               stored |-> stored, seen |-> seen, truncated |-> truncated]
    /\ Goto("returned")
    /\ UNCHANGED <<ctxEnded, fn, timedOut, err, termed, killed, procVars, waiter, bufVars>>

CtxEnds ==
    /\ ~ctxEnded /\ ctxEnded' = TRUE
    /\ UNCHANGED <<callVars, procVars, waiter, bufVars>>

Caller == \/ StartFails \/ Start \/ Poll \/ CommandEnded \/ Interrupt \/ EndsInGrace
          \/ KillGroup \/ Reap \/ Finish
Goroutines == CopyOutput \/ WaitEnds
Processes == \E p \in Procs : \/ Write(p) \/ LetGo(p) \/ Detach(p) \/ ExitProc(p)
                              \/ \E q \in Procs : Spawn(p, q)

Next == CtxEnds \/ Caller \/ Goroutines \/ Processes

\* Goroutines run and the timer fires; nothing is assumed of the processes or
\* of the context.
Fairness == WF_vars(Caller) /\ WF_vars(CopyOutput) /\ WF_vars(WaitEnds)

Spec     == Init /\ [][Next]_vars
FairSpec == Spec /\ Fairness
---------------------------------------------------------------------------------
(* Properties.                                                             *)

returned == pc = "returned"

\* The Result has everything the command wrote: what is missing was cut at the
\* cap and says so, and no byte arrives after the Result was made up.
OutputIsWhole ==
    returned => /\ res.seen = written
                /\ ~res.truncated => res.stored = res.seen
                /\ res.truncated => res.stored = CapOf /\ res.seen > CapOf

\* Exit code 0 is the command's own, never that of a command that failed, could
\* not start or was interrupted by RunWithOptions; and a command is reported as
\* timed out only if its context ended, and always if it was signalled for it.
ResultIsHonest ==
    returned => /\ res.exit = "zero" =>
                      status = "zero" /\ (fn = "RunWithOptions" => ~res.timedOut)
                /\ termed => res.timedOut
                /\ res.timedOut => ctxEnded

\* What an interrupted command may leave running: a process that left the
\* group, or one that both let go of the output and was spared by SIGTERM.  It
\* leaves nothing of the group once SIGKILL was needed.
SurvivorsAreQuiet ==
    returned => /\ alive \cap pipe = {}
                /\ killed => alive \cap group = {}

\* A call whose context has ended returns, unless a process outside the group
\* keeps the output open.
InterruptedCallReturns ==
    ctxEnded /\ pc # "start" ~> (returned \/ Holders \ group # {})

\* "starts commands in their own process group so timeouts kill spawned
\* children too"
TimeoutKillsChildren ==
    returned /\ res.timedOut /\ fn = "RunWithOptions" => alive \cap group = {}
=================================================================================
