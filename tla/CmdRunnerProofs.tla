---------------------------- MODULE CmdRunnerProofs ----------------------------
(***************************************************************************)
(* What CmdRunner's runs check for three processes, proved for any command *)
(* and any cap.  The conjuncts of IInv follow the call from cmd.Start to   *)
(* the Result: what is true of the waiting goroutine at each place of the  *)
(* caller, what the buffer holds of what was read, and which signals and   *)
(* errors can have come before.                                            *)
(***************************************************************************)
EXTENDS CmdRunner, TLAPS

\* Where the goroutine in cmd.Wait is, for each place of the caller.
Waiting ==
    /\ pc = "start" => waiter = "none"
    /\ pc \in {"poll", "select", "grace", "reap"} => waiter \in {"waiting", "sent"}
    /\ pc \in {"finish", "returned"} => waiter \in {"none", "taken"}

\* A call that started nothing has nothing; one whose cmd.Wait is over has no
\* leader but its status, nobody who could still write, and every byte.
Drained ==
    /\ waiter = "none" => born = {} /\ written = 0
    /\ waiter # "none" => /\ Leader \in born /\ status # "none"
                          /\ status = "running" => Leader \in alive
    /\ waiter \in {"sent", "taken"} => Leader \notin alive /\ Holders = {} /\ seen = written

\* CappedBuffer: all of it, or the first CapOf bytes of more than that.
Buffered ==
    /\ ~truncated => stored = seen
    /\ truncated => stored = CapOf /\ seen > CapOf

\* Which signals were sent, and what the caller remembers of them.
Signalled ==
    /\ pc \in {"start", "poll", "select"} => ~termed /\ ~killed
    /\ pc \in {"grace", "reap"} => termed
    /\ pc \in {"grace", "reap"} => termed
    /\ pc \in {"grace", "reap"} => termed
    /\ pc \in {"grace", "reap"} => termed
    /\ termed => ctxEnded /\ (fn = "RunWithOptions" => timedOut /\ err = "ctx")
    /\ timedOut => termed /\ fn = "RunWithOptions"
    /\ killed => alive \cap group = {}

\* A caller that is through without an error has a leader that ended with 0.
Succeeded ==
    pc \in {"finish", "returned"} /\ err = "nil" => waiter = "taken" /\ status = "zero"

\* What the Result repeats.
Filled ==
    pc = "returned" =>
        /\ res.seen = seen /\ res.stored = stored /\ res.truncated = truncated
        /\ res.exit = "zero" => err = "nil"
        /\ timedOut \/ (termed /\ fn = "runWithGroupKill") => res.timedOut
        /\ res.timedOut => ctxEnded /\ (fn = "RunWithOptions" => timedOut)

IInv == TypeOK /\ Waiting /\ Drained /\ Buffered /\ Signalled /\ Succeeded /\ Filled
--------------------------------------------------------------------------------
LEMMA InitIInv == Init => IInv
<1> SUFFICES ASSUME Init PROVE IInv
  OBVIOUS
<1>1. TypeOK
  <2>1. NoResult \in Results
    BY DEF NoResult, Results
  <2>2. fn \in {"RunWithOptions", "runWithGroupKill"} /\ 0 \in 0..CapOf
    BY CmdAssumption DEF Init, CapOf
  <2>3. stored \in 0..CapOf /\ res \in Results
    BY <2>1, <2>2 DEF Init
  <2>4. written \in 0..MaxBytes /\ seen \in 0..written
    BY CmdAssumption DEF Init
  <2> QED BY <2>3, <2>4, Zenon DEF Init, TypeOK, Errs
<1>2. Waiting /\ Drained /\ Buffered /\ Signalled /\ Succeeded /\ Filled
  BY <1>1 DEF Init, Waiting, Drained, Buffered, Signalled, Succeeded, Filled
<1> QED BY <1>1, <1>2 DEF IInv

LEMMA TypeStep ==
  ASSUME IInv, [Next]_vars
  PROVE  TypeOK'
<1> USE CmdAssumption DEF IInv, TypeOK, Waiting, Drained, CapOf, Errs, Results,
        procVars, bufVars, callVars
<1>1. ASSUME CtxEnds PROVE TypeOK'
  BY <1>1 DEF CtxEnds
<1>2. ASSUME StartFails PROVE TypeOK'
  BY <1>2 DEF StartFails, Goto
<1>3. ASSUME Start PROVE TypeOK'
  BY <1>3 DEF Start, Goto
<1>4. ASSUME Poll PROVE TypeOK'
  BY <1>4 DEF Poll, Goto, TakeErr, ErrOf
<1>5. ASSUME CommandEnded PROVE TypeOK'
  BY <1>5 DEF CommandEnded, Goto, TakeErr, ErrOf
<1>6. ASSUME Interrupt PROVE TypeOK'
  BY <1>6 DEF Interrupt, Goto, Signal
<1>7. ASSUME EndsInGrace PROVE TypeOK'
  BY <1>7 DEF EndsInGrace, Goto, TakeLate, ErrOf
<1>8. ASSUME KillGroup PROVE TypeOK'
  BY <1>8 DEF KillGroup, Goto, Signal
<1>9. ASSUME Reap PROVE TypeOK'
  BY <1>9 DEF Reap, Goto, TakeLate, ErrOf
<1>10. ASSUME Finish PROVE TypeOK'
  BY <1>10 DEF Finish, Goto, ExitCode
<1>11. ASSUME CopyOutput PROVE TypeOK'
  BY <1>11 DEF CopyOutput, CappedWrite
<1>12. ASSUME WaitEnds PROVE TypeOK'
  BY <1>12 DEF WaitEnds
<1>13. ASSUME NEW p \in Procs, Write(p) PROVE TypeOK'
  BY <1>13 DEF Write
<1>14. ASSUME NEW p \in Procs, LetGo(p) PROVE TypeOK'
  BY <1>14 DEF LetGo
<1>15. ASSUME NEW p \in Procs, Detach(p) PROVE TypeOK'
  BY <1>15 DEF Detach
<1>16. ASSUME NEW p \in Procs, ExitProc(p) PROVE TypeOK'
  BY <1>16 DEF ExitProc
<1>17. ASSUME NEW p \in Procs, NEW q \in Procs, Spawn(p, q) PROVE TypeOK'
  BY <1>17 DEF Spawn
<1>18. CASE UNCHANGED vars
  BY <1>18 DEF vars
<1> QED BY <1>1, <1>2, <1>3, <1>4, <1>5, <1>6, <1>7, <1>8, <1>9, <1>10, <1>11, <1>12, <1>13, <1>14, <1>15, <1>16, <1>17, <1>18 DEF Next, Caller, Goroutines, Processes

LEMMA WaitStep ==
  ASSUME IInv, [Next]_vars
  PROVE  (Waiting /\ Drained)'
<1> USE CmdAssumption DEF IInv, TypeOK, Waiting, Drained, Holders, procVars, bufVars,
        callVars
<1>1. ASSUME CtxEnds PROVE (Waiting /\ Drained)'
  BY <1>1 DEF CtxEnds
<1>2. ASSUME StartFails PROVE (Waiting /\ Drained)'
  BY <1>2 DEF StartFails, Goto
<1>3. ASSUME Start PROVE (Waiting /\ Drained)'
  BY <1>3 DEF Start, Goto
<1>4. ASSUME Poll PROVE (Waiting /\ Drained)'
  BY <1>4 DEF Poll, Goto, TakeErr, ErrOf
<1>5. ASSUME CommandEnded PROVE (Waiting /\ Drained)'
  BY <1>5 DEF CommandEnded, Goto, TakeErr, ErrOf
<1>6. ASSUME Interrupt PROVE (Waiting /\ Drained)'
  BY <1>6 DEF Interrupt, Goto, Signal
<1>7. ASSUME EndsInGrace PROVE (Waiting /\ Drained)'
  BY <1>7 DEF EndsInGrace, Goto, TakeLate, ErrOf
<1>8. ASSUME KillGroup PROVE (Waiting /\ Drained)'
  BY <1>8 DEF KillGroup, Goto, Signal
<1>9. ASSUME Reap PROVE (Waiting /\ Drained)'
  BY <1>9 DEF Reap, Goto, TakeLate, ErrOf
<1>10. ASSUME Finish PROVE (Waiting /\ Drained)'
  BY <1>10 DEF Finish, Goto, ExitCode
<1>11. ASSUME CopyOutput PROVE (Waiting /\ Drained)'
  BY <1>11 DEF CopyOutput, CappedWrite
<1>12. ASSUME WaitEnds PROVE (Waiting /\ Drained)'
  BY <1>12 DEF WaitEnds
<1>13. ASSUME NEW p \in Procs, Write(p) PROVE (Waiting /\ Drained)'
  BY <1>13 DEF Write
<1>14. ASSUME NEW p \in Procs, LetGo(p) PROVE (Waiting /\ Drained)'
  BY <1>14 DEF LetGo
<1>15. ASSUME NEW p \in Procs, Detach(p) PROVE (Waiting /\ Drained)'
  BY <1>15 DEF Detach
<1>16. ASSUME NEW p \in Procs, ExitProc(p) PROVE (Waiting /\ Drained)'
  BY <1>16 DEF ExitProc
<1>17. ASSUME NEW p \in Procs, NEW q \in Procs, Spawn(p, q) PROVE (Waiting /\ Drained)'
  BY <1>17 DEF Spawn
<1>18. CASE UNCHANGED vars
  BY <1>18 DEF vars
<1> QED BY <1>1, <1>2, <1>3, <1>4, <1>5, <1>6, <1>7, <1>8, <1>9, <1>10, <1>11, <1>12, <1>13, <1>14, <1>15, <1>16, <1>17, <1>18 DEF Next, Caller, Goroutines, Processes

\* One piece of the output reaches the buffer.
Copied(cap, n) ==
    /\ CapOf = cap /\ CapOf' = cap /\ cap \in Nat /\ n \in Nat
    /\ seen' = seen + n
    /\ truncated => stored' = stored /\ truncated'
    /\ ~truncated /\ n > cap - stored => stored' = cap /\ truncated'
    /\ ~truncated /\ ~(n > cap - stored) => stored' = stored + n /\ ~truncated'

LEMMA CopyFacts ==
  ASSUME TypeOK, CopyOutput
  PROVE  \E cap, n : Copied(cap, n)
<1>1. PICK n \in 1..(written - seen) : CappedWrite(n)
  BY DEF CopyOutput
<1>2. fn' = fn
  BY DEF CopyOutput, callVars
<1>3. CapOf' = CapOf
  BY <1>2 DEF CapOf
<1>4. CapOf \in Nat /\ n \in Nat /\ stored \in 0..CapOf /\ truncated \in BOOLEAN
  BY CmdAssumption DEF TypeOK, CapOf
<1>5. /\ seen' = seen + n
      /\ stored' = IF truncated THEN stored
                   ELSE stored + (IF n > CapOf - stored THEN CapOf - stored ELSE n)
      /\ truncated' = (truncated \/ n > CapOf - stored)
  BY <1>1 DEF CappedWrite
<1>6. truncated => stored' = stored /\ truncated'
  BY <1>5
<1>7. ~truncated /\ n > CapOf - stored => stored' = CapOf /\ truncated'
  <2>1. stored + (CapOf - stored) = CapOf
    BY <1>4
  <2> QED BY <1>5, <2>1
<1>8. ~truncated /\ ~(n > CapOf - stored) => stored' = stored + n /\ ~truncated'
  BY <1>4, <1>5
<1> QED BY <1>3, <1>4, <1>5, <1>6, <1>7, <1>8 DEF Copied

LEMMA BufferStep ==
  ASSUME IInv, [Next]_vars
  PROVE  Buffered'
<1> USE CmdAssumption DEF IInv, TypeOK, Waiting, Drained, Buffered, CapOf, procVars,
        bufVars, callVars
<1>1. ASSUME CtxEnds PROVE Buffered'
  BY <1>1 DEF CtxEnds
<1>2. ASSUME StartFails PROVE Buffered'
  BY <1>2 DEF StartFails, Goto
<1>3. ASSUME Start PROVE Buffered'
  BY <1>3 DEF Start, Goto
<1>4. ASSUME Poll PROVE Buffered'
  BY <1>4 DEF Poll, Goto, TakeErr, ErrOf
<1>5. ASSUME CommandEnded PROVE Buffered'
  BY <1>5 DEF CommandEnded, Goto, TakeErr, ErrOf
<1>6. ASSUME Interrupt PROVE Buffered'
  BY <1>6 DEF Interrupt, Goto, Signal
<1>7. ASSUME EndsInGrace PROVE Buffered'
  BY <1>7 DEF EndsInGrace, Goto, TakeLate, ErrOf
<1>8. ASSUME KillGroup PROVE Buffered'
  BY <1>8 DEF KillGroup, Goto, Signal
<1>9. ASSUME Reap PROVE Buffered'
  BY <1>9 DEF Reap, Goto, TakeLate, ErrOf
<1>10. ASSUME Finish PROVE Buffered'
  BY <1>10 DEF Finish, Goto, ExitCode
<1>11. ASSUME CopyOutput PROVE Buffered'
  BY <1>11, CopyFacts DEF Copied
<1>12. ASSUME WaitEnds PROVE Buffered'
  BY <1>12 DEF WaitEnds
<1>13. ASSUME NEW p \in Procs, Write(p) PROVE Buffered'
  BY <1>13 DEF Write
<1>14. ASSUME NEW p \in Procs, LetGo(p) PROVE Buffered'
  BY <1>14 DEF LetGo
<1>15. ASSUME NEW p \in Procs, Detach(p) PROVE Buffered'
  BY <1>15 DEF Detach
<1>16. ASSUME NEW p \in Procs, ExitProc(p) PROVE Buffered'
  BY <1>16 DEF ExitProc
<1>17. ASSUME NEW p \in Procs, NEW q \in Procs, Spawn(p, q) PROVE Buffered'
  BY <1>17 DEF Spawn
<1>18. CASE UNCHANGED vars
  BY <1>18 DEF vars
<1> QED BY <1>1, <1>2, <1>3, <1>4, <1>5, <1>6, <1>7, <1>8, <1>9, <1>10, <1>11, <1>12, <1>13, <1>14, <1>15, <1>16, <1>17, <1>18 DEF Next, Caller, Goroutines, Processes

LEMMA SignalStep ==
  ASSUME IInv, [Next]_vars
  PROVE  (Signalled /\ Succeeded)'
<1> USE CmdAssumption DEF IInv, TypeOK, Waiting, Drained, Signalled, Succeeded,
        procVars, bufVars, callVars
<1>1. ASSUME CtxEnds PROVE (Signalled /\ Succeeded)'
  BY <1>1 DEF CtxEnds
<1>2. ASSUME StartFails PROVE (Signalled /\ Succeeded)'
  BY <1>2 DEF StartFails, Goto
<1>3. ASSUME Start PROVE (Signalled /\ Succeeded)'
  BY <1>3 DEF Start, Goto
<1>4. ASSUME Poll PROVE (Signalled /\ Succeeded)'
  BY <1>4 DEF Poll, Goto, TakeErr, ErrOf
<1>5. ASSUME CommandEnded PROVE (Signalled /\ Succeeded)'
  BY <1>5 DEF CommandEnded, Goto, TakeErr, ErrOf
<1>6. ASSUME Interrupt PROVE (Signalled /\ Succeeded)'
  BY <1>6 DEF Interrupt, Goto, Signal
<1>7. ASSUME EndsInGrace PROVE (Signalled /\ Succeeded)'
  BY <1>7 DEF EndsInGrace, Goto, TakeLate, ErrOf
<1>8. ASSUME KillGroup PROVE (Signalled /\ Succeeded)'
  BY <1>8 DEF KillGroup, Goto, Signal
<1>9. ASSUME Reap PROVE (Signalled /\ Succeeded)'
  BY <1>9 DEF Reap, Goto, TakeLate, ErrOf
<1>10. ASSUME Finish PROVE (Signalled /\ Succeeded)'
  BY <1>10 DEF Finish, Goto, ExitCode
<1>11. ASSUME CopyOutput PROVE (Signalled /\ Succeeded)'
  BY <1>11 DEF CopyOutput, CappedWrite
<1>12. ASSUME WaitEnds PROVE (Signalled /\ Succeeded)'
  BY <1>12 DEF WaitEnds
<1>13. ASSUME NEW p \in Procs, Write(p) PROVE (Signalled /\ Succeeded)'
  BY <1>13 DEF Write
<1>14. ASSUME NEW p \in Procs, LetGo(p) PROVE (Signalled /\ Succeeded)'
  BY <1>14 DEF LetGo
<1>15. ASSUME NEW p \in Procs, Detach(p) PROVE (Signalled /\ Succeeded)'
  BY <1>15 DEF Detach
<1>16. ASSUME NEW p \in Procs, ExitProc(p) PROVE (Signalled /\ Succeeded)'
  BY <1>16 DEF ExitProc
<1>17. ASSUME NEW p \in Procs, NEW q \in Procs, Spawn(p, q) PROVE (Signalled /\ Succeeded)'
  BY <1>17 DEF Spawn
<1>18. CASE UNCHANGED vars
  BY <1>18 DEF vars
<1> QED BY <1>1, <1>2, <1>3, <1>4, <1>5, <1>6, <1>7, <1>8, <1>9, <1>10, <1>11, <1>12, <1>13, <1>14, <1>15, <1>16, <1>17, <1>18 DEF Next, Caller, Goroutines, Processes

LEMMA ResultStep ==
  ASSUME IInv, [Next]_vars
  PROVE  Filled'
<1> USE CmdAssumption DEF IInv, TypeOK, Waiting, Drained, Signalled, Filled,
        procVars, bufVars, callVars
<1>1. ASSUME CtxEnds PROVE Filled'
  BY <1>1 DEF CtxEnds
<1>2. ASSUME StartFails PROVE Filled'
  BY <1>2 DEF StartFails, Goto
<1>3. ASSUME Start PROVE Filled'
  BY <1>3 DEF Start, Goto
<1>4. ASSUME Poll PROVE Filled'
  BY <1>4 DEF Poll, Goto, TakeErr, ErrOf
<1>5. ASSUME CommandEnded PROVE Filled'
  BY <1>5 DEF CommandEnded, Goto, TakeErr, ErrOf
<1>6. ASSUME Interrupt PROVE Filled'
  BY <1>6 DEF Interrupt, Goto, Signal
<1>7. ASSUME EndsInGrace PROVE Filled'
  BY <1>7 DEF EndsInGrace, Goto, TakeLate, ErrOf
<1>8. ASSUME KillGroup PROVE Filled'
  BY <1>8 DEF KillGroup, Goto, Signal
<1>9. ASSUME Reap PROVE Filled'
  BY <1>9 DEF Reap, Goto, TakeLate, ErrOf
<1>10. ASSUME Finish PROVE Filled'
  BY <1>10 DEF Finish, Goto, ExitCode
<1>11. ASSUME CopyOutput PROVE Filled'
  BY <1>11 DEF CopyOutput, CappedWrite
<1>12. ASSUME WaitEnds PROVE Filled'
  BY <1>12 DEF WaitEnds
<1>13. ASSUME NEW p \in Procs, Write(p) PROVE Filled'
  BY <1>13 DEF Write
<1>14. ASSUME NEW p \in Procs, LetGo(p) PROVE Filled'
  BY <1>14 DEF LetGo
<1>15. ASSUME NEW p \in Procs, Detach(p) PROVE Filled'
  BY <1>15 DEF Detach
<1>16. ASSUME NEW p \in Procs, ExitProc(p) PROVE Filled'
  BY <1>16 DEF ExitProc
<1>17. ASSUME NEW p \in Procs, NEW q \in Procs, Spawn(p, q) PROVE Filled'
  BY <1>17 DEF Spawn
<1>18. CASE UNCHANGED vars
  BY <1>18 DEF vars
<1> QED BY <1>1, <1>2, <1>3, <1>4, <1>5, <1>6, <1>7, <1>8, <1>9, <1>10, <1>11, <1>12, <1>13, <1>14, <1>15, <1>16, <1>17, <1>18 DEF Next, Caller, Goroutines, Processes
--------------------------------------------------------------------------------
\* IInv is inductive: it holds of every reachable state of a call, whatever the
\* processes of the command do and however much they write.
THEOREM IInvHolds == Spec => []IInv
<1>1. IInv /\ [Next]_vars => IInv'
  BY TypeStep, WaitStep, BufferStep, SignalStep, ResultStep DEF IInv
<1> QED BY InitIInv, <1>1, PTL DEF Spec

\* Type correctness, for any set of processes, cap and amount of output.
THEOREM TypeCorrect == Spec => []TypeOK
<1>1. IInv => TypeOK
  BY DEF IInv
<1> QED BY <1>1, IInvHolds, PTL

\* The Result holds everything the command wrote up to the cap, and says so when
\* something is missing: CappedBuffer and the order of cmd.Wait and Result.
THEOREM OutputStaysWhole == Spec => []OutputIsWhole
<1>1. IInv => OutputIsWhole
  <2> SUFFICES ASSUME IInv, returned PROVE OutputIsWhole
    BY DEF OutputIsWhole
  <2>1. res.seen = seen /\ res.stored = stored /\ res.truncated = truncated
    BY DEF IInv, Filled, returned
  <2>2. seen = written
    BY DEF IInv, TypeOK, Waiting, Drained, returned
  <2> QED BY <2>1, <2>2 DEF IInv, Buffered, OutputIsWhole
<1> QED BY <1>1, IInvHolds, PTL

\* Exit code 0 is the command's own, and TimedOut is said of a command whose
\* context ended and of every command that was signalled for it.
THEOREM ResultStaysHonest == Spec => []ResultIsHonest
<1>1. IInv => ResultIsHonest
  BY DEF IInv, TypeOK, Signalled, Succeeded, Filled, ResultIsHonest, returned
<1> QED BY <1>1, IInvHolds, PTL

\* Nothing that outlives the call can write into its output, and nothing of the
\* process group outlives SIGKILL.
THEOREM SurvivorsStayQuiet == Spec => []SurvivorsAreQuiet
<1>1. IInv => SurvivorsAreQuiet
  BY DEF IInv, TypeOK, Waiting, Drained, Holders, Signalled, SurvivorsAreQuiet, returned
<1> QED BY <1>1, IInvHolds, PTL
================================================================================
