----------------------------- MODULE CollectorRunner -----------------------------
(***************************************************************************)
(* collectors.Runner.RunWithObserver: one worker goroutine per collector,  *)
(* one goroutine more for the collector's own Collect call (its "body"),   *)
(* and the caller, which spawns the workers and gathers N results from a   *)
(* channel into a slice by index.  A collector may answer at any time, may *)
(* panic, and may never answer; the scan's context may end at any moment.  *)
(* Time is not measured: a budget may run out at any moment a context is   *)
(* live, and the 100 ms of grace may be over at any moment after that.     *)
(***************************************************************************)
EXTENDS Naturals, Sequences

CONSTANTS N,          \* number of collectors
          Budgeted,   \* those whose timeoutFor is > 0
          Answers,    \* what Collect may return
          NoAnswer,   \* body has not returned
          NoResult    \* worker has not decided

Collectors == 1..N
Statuses   == {"ok", "partial", "timeout", "permission_denied", "unavailable", "failed"}
CtxErrors  == {"deadline", "canceled"}
Errors     == CtxErrors \cup {"nil", "own", "panic"}

\* A CollectorResult: the status ("" as a Go zero value), Partial, whether
\* TimeoutMs was filled in, whether it carries evidence, and the errors that
\* Notes report.  An answer adds the error returned next to it.
ResultType == [status: Statuses \cup {""}, partial: BOOLEAN, timeoutMs: BOOLEAN,
               evidence: BOOLEAN, notes: SUBSET (Errors \ {"nil"})]
AnswerType == [result: ResultType, err: Errors]
Message    == [idx: Collectors, result: ResultType]
EmptyResult == [status |-> "", partial |-> FALSE, timeoutMs |-> FALSE,
                evidence |-> FALSE, notes |-> {}]

ASSUME RunnerAssumption ==
    /\ N \in Nat
    /\ Budgeted \subseteq Collectors
    /\ Answers \subseteq AnswerType
    /\ NoAnswer \notin AnswerType
    /\ NoResult \notin ResultType

VARIABLES
    parentErr,  \* error of the context the scan was given ("nil" while live)
    ctxErr,     \* error of each collectCtx made by WithTimeout
    spawned,    \* iterations of the caller's go loop
    worker,     \* where each worker goroutine is
    body,       \* where the goroutine that runs Collect is
    outcome,    \* what Collect returned, or the recovered panic
    done,       \* the channel between a body and its worker
    res,        \* what runOne returned
    announced,  \* what the observer's CollectorDone was given
    resultCh,   \* the channel between the workers and the caller
    received,   \* iterations of the caller's receive loop
    results,    \* the slice RunWithObserver fills
    returned    \* has RunWithObserver returned?

ctxVars  == <<parentErr, ctxErr>>
bodyVars == <<body, outcome>>
mainVars == <<spawned, received, results, returned>>
vars     == <<ctxVars, bodyVars, mainVars, worker, done, res, announced, resultCh>>

\* Mutant: an unbuffered done channel.
UnbufferedDone == 0

DoneCapacity     == 1
ResultChCapacity == N

TypeOK ==
    /\ parentErr \in CtxErrors \cup {"nil"}
    /\ ctxErr \in [Collectors -> CtxErrors \cup {"nil", "released"}]
    /\ spawned \in 0..N /\ received \in 0..N /\ returned \in BOOLEAN
    /\ worker \in [Collectors -> {"unborn", "ready", "started", "select", "grace",
                                  "report", "send", "gone"}]
    /\ body \in [Collectors -> {"unborn", "running", "sending", "gone"}]
    /\ outcome \in [Collectors -> AnswerType \cup {NoAnswer}]
    /\ done \in [Collectors -> Seq(AnswerType)]
    /\ res \in [Collectors -> ResultType \cup {NoResult}]
    /\ announced \in [Collectors -> ResultType \cup {NoResult}]
    /\ resultCh \in Seq(Message)
    /\ results \in [Collectors -> ResultType \cup {NoResult}]

Init ==
    /\ parentErr = "nil"
    /\ ctxErr = [i \in Collectors |-> "nil"]
    /\ spawned = 0 /\ received = 0 /\ returned = FALSE
    /\ worker = [i \in Collectors |-> "unborn"]
    /\ body = [i \in Collectors |-> "unborn"]
    /\ outcome = [i \in Collectors |-> NoAnswer]
    /\ done = [i \in Collectors |-> <<>>]
    /\ res = [i \in Collectors |-> NoResult]
    /\ announced = [i \in Collectors |-> NoResult]
    /\ resultCh = <<>>
    /\ results = [i \in Collectors |-> NoResult]
----------------------------------------------------------------------------------
(* What a worker makes of an answer, or of the lack of one.                *)

\* The error of the context Collect runs under: its own one when it has a
\* budget, else the scan's.
\* Mutant: one deadline for all collectors.
SharedDeadline(i) == IF \E j \in Budgeted : ctxErr[j] \in CtxErrors THEN "deadline" ELSE parentErr

CollectErr(i) == IF i \in Budgeted THEN ctxErr[i] ELSE parentErr

TimeoutResult(i, err, partial) ==
    [status |-> "timeout", partial |-> TRUE, evidence |-> partial.evidence,
     timeoutMs |-> partial.timeoutMs \/ i \in Budgeted,
     notes |-> partial.notes \cup ({err} \ {"nil"})]

\* Mutant: an error is noted, the result not marked partial.
FailedUnmarked(r, e) == [r EXCEPT !.status = "failed", !.notes = r.notes \cup {e}]
OwnAnswer(r) == [r EXCEPT !.status = IF r.status = "" THEN "ok" ELSE r.status]
Failed(r, e) == [r EXCEPT !.status = "failed", !.partial = TRUE, !.notes = r.notes \cup {e}]

FinalizeResult(i, err, answer) ==
    IF answer.err = "nil" THEN OwnAnswer(answer.result)
    ELSE IF answer.err \in CtxErrors /\ err # "nil"
    THEN TimeoutResult(i, err, answer.result)
    ELSE Failed(answer.result, answer.err)

PanicAnswer == [result |-> [EmptyResult EXCEPT !.status = "failed", !.partial = TRUE,
                                               !.notes = {"panic"}],
                err |-> "panic"]
----------------------------------------------------------------------------------
(* The contexts.                                                           *)

\* The scan is cancelled, or the deadline it was given passes.
ParentEnds ==
    /\ parentErr = "nil" /\ ~returned
    /\ parentErr' \in CtxErrors
    /\ UNCHANGED <<ctxErr, bodyVars, mainVars, worker, done, res, announced, resultCh>>

Live(i) == i \in Budgeted /\ worker[i] \in {"select", "grace"} /\ ctxErr[i] = "nil"

BudgetExpires(i) ==
    /\ Live(i)
    /\ ctxErr' = [ctxErr EXCEPT ![i] = "deadline"]
    /\ UNCHANGED <<parentErr, bodyVars, mainVars, worker, done, res, announced, resultCh>>

\* A parent's end reaches the derived contexts one after the other.
ParentEndReaches(i) ==
    /\ Live(i) /\ parentErr # "nil"
    /\ ctxErr' = [ctxErr EXCEPT ![i] = parentErr]
    /\ UNCHANGED <<parentErr, bodyVars, mainVars, worker, done, res, announced, resultCh>>
----------------------------------------------------------------------------------
(* The goroutine that runs Collect.                                        *)

CollectReturns(i) ==
    /\ body[i] = "running"
    /\ \E a \in Answers : outcome' = [outcome EXCEPT ![i] = a]
    /\ body' = [body EXCEPT ![i] = "sending"]
    /\ UNCHANGED <<ctxVars, mainVars, worker, done, res, announced, resultCh>>

CollectPanics(i) ==
    /\ body[i] = "running"
    /\ outcome' = [outcome EXCEPT ![i] = PanicAnswer]
    /\ body' = [body EXCEPT ![i] = "sending"]
    /\ UNCHANGED <<ctxVars, mainVars, worker, done, res, announced, resultCh>>

BodySends(i) ==
    /\ body[i] = "sending"
    /\ Len(done[i]) < DoneCapacity
    /\ done' = [done EXCEPT ![i] = Append(@, outcome[i])]
    /\ body' = [body EXCEPT ![i] = "gone"]
    /\ UNCHANGED <<ctxVars, mainVars, outcome, worker, res, announced, resultCh>>
----------------------------------------------------------------------------------
(* A worker: CollectorStarted, runOne, CollectorDone, send.                *)

WorkerStarts(i) ==
    /\ worker[i] = "ready"
    /\ worker' = [worker EXCEPT ![i] = "started"]
    /\ UNCHANGED <<ctxVars, bodyVars, mainVars, done, res, announced, resultCh>>

\* runOne gives up at once under a context that already ended.
RefuseToRun(i) ==
    /\ worker[i] = "started" /\ parentErr # "nil"
    /\ res' = [res EXCEPT ![i] = TimeoutResult(i, parentErr, EmptyResult)]
    /\ worker' = [worker EXCEPT ![i] = "report"]
    /\ UNCHANGED <<ctxVars, bodyVars, mainVars, done, announced, resultCh>>

LaunchBody(i) ==
    /\ worker[i] = "started" /\ parentErr = "nil"
    /\ worker' = [worker EXCEPT ![i] = "select"]
    /\ body' = [body EXCEPT ![i] = "running"]
    /\ UNCHANGED <<ctxVars, mainVars, outcome, done, res, announced, resultCh>>

\* The deferred cancel of the context WithTimeout made.
ReleaseCtx(i) ==
    ctxErr' = [ctxErr EXCEPT ![i] = IF Live(i) THEN "released" ELSE @]

\* Either select takes an answer that is in the channel, before or during the
\* grace period, also when the context or the timer is ready as well.
TakeAnswer(i) ==
    /\ worker[i] \in {"select", "grace"} /\ done[i] # <<>>
    /\ res' = [res EXCEPT ![i] = FinalizeResult(i, CollectErr(i), Head(done[i]))]
    /\ done' = [done EXCEPT ![i] = Tail(@)]
    /\ worker' = [worker EXCEPT ![i] = "report"]
    /\ ReleaseCtx(i)
    /\ UNCHANGED <<parentErr, bodyVars, mainVars, announced, resultCh>>

CtxIsDone(i) ==
    /\ worker[i] = "select" /\ CollectErr(i) # "nil"
    /\ worker' = [worker EXCEPT ![i] = "grace"]
    /\ UNCHANGED <<ctxVars, bodyVars, mainVars, done, res, announced, resultCh>>

\* Mutant: no timer next to the second receive.
GraceForEver(i) ==
    /\ worker[i] = "grace" /\ body[i] = "gone"
    /\ res' = [res EXCEPT ![i] = TimeoutResult(i, CollectErr(i), EmptyResult)]
    /\ worker' = [worker EXCEPT ![i] = "report"]
    /\ UNCHANGED <<ctxVars, bodyVars, mainVars, done, announced, resultCh>>

GraceIsOver(i) ==
    /\ worker[i] = "grace"
    /\ res' = [res EXCEPT ![i] = TimeoutResult(i, CollectErr(i), EmptyResult)]
    /\ worker' = [worker EXCEPT ![i] = "report"]
    /\ ReleaseCtx(i)
    /\ UNCHANGED <<parentErr, bodyVars, mainVars, done, announced, resultCh>>

WorkerReports(i) ==
    /\ worker[i] = "report"
    /\ announced' = [announced EXCEPT ![i] = res[i]]
    /\ worker' = [worker EXCEPT ![i] = "send"]
    /\ UNCHANGED <<ctxVars, bodyVars, mainVars, done, res, resultCh>>

WorkerSends(i) ==
    /\ worker[i] = "send"
    /\ Len(resultCh) < ResultChCapacity
    /\ resultCh' = Append(resultCh, [idx |-> i, result |-> res[i]])
    /\ worker' = [worker EXCEPT ![i] = "gone"]
    /\ UNCHANGED <<ctxVars, bodyVars, mainVars, done, res, announced>>
----------------------------------------------------------------------------------
(* The caller.                                                             *)

Spawn ==
    /\ spawned < N
    /\ spawned' = spawned + 1
    /\ worker' = [worker EXCEPT ![spawned + 1] = "ready"]
    /\ UNCHANGED <<ctxVars, bodyVars, received, results, returned, done, res,
                   announced, resultCh>>

\* Mutant: results in order of arrival.
GatherByArrival ==
    /\ spawned = N /\ received < N /\ resultCh # <<>>
    /\ results' = [results EXCEPT ![received + 1] = Head(resultCh).result]
    /\ resultCh' = Tail(resultCh)
    /\ received' = received + 1
    /\ UNCHANGED <<ctxVars, bodyVars, spawned, returned, worker, done, res, announced>>

Gather ==
    /\ spawned = N /\ received < N /\ resultCh # <<>>
    /\ results' = [results EXCEPT ![Head(resultCh).idx] = Head(resultCh).result]
    /\ resultCh' = Tail(resultCh)
    /\ received' = received + 1
    /\ UNCHANGED <<ctxVars, bodyVars, spawned, returned, worker, done, res, announced>>

\* Mutant: the call does not wait for every worker.
ReturnEarly ==
    /\ spawned = N /\ ~returned
    /\ returned' = TRUE
    /\ UNCHANGED <<ctxVars, bodyVars, spawned, received, results, worker, done, res,
                   announced, resultCh>>

Return ==
    /\ spawned = N /\ received = N /\ ~returned
    /\ returned' = TRUE
    /\ UNCHANGED <<ctxVars, bodyVars, spawned, received, results, worker, done, res,
                   announced, resultCh>>
----------------------------------------------------------------------------------
RunOneDecides(i) == TakeAnswer(i) \/ CtxIsDone(i) \/ GraceIsOver(i)

WorkerStep(i) == \/ WorkerStarts(i) \/ RefuseToRun(i) \/ LaunchBody(i)
                 \/ RunOneDecides(i) \/ WorkerReports(i) \/ WorkerSends(i)

BodyStep(i) == CollectReturns(i) \/ CollectPanics(i) \/ BodySends(i)

CallerStep == Spawn \/ Gather \/ Return

Next == \/ ParentEnds
        \/ CallerStep
        \/ \E i \in Collectors : \/ BudgetExpires(i) \/ ParentEndReaches(i)
                                 \/ BodyStep(i) \/ WorkerStep(i)

\* Goroutines that can run do run, and timers fire.  Nothing is assumed of
\* Collect itself (it may hang for ever) nor of the scan being cancelled.
Fairness ==
    /\ WF_vars(CallerStep)
    /\ \A i \in Collectors : /\ WF_vars(WorkerStep(i))
                             /\ WF_vars(BodySends(i))
                             /\ WF_vars(BudgetExpires(i))
                             /\ WF_vars(ParentEndReaches(i))

Spec     == Init /\ [][Next]_vars
FairSpec == Spec /\ Fairness
----------------------------------------------------------------------------------
(* Properties.                                                             *)

\* When RunWithObserver returns, slot i of the slice holds exactly the result
\* the observer was told for collector i: none missing, none swapped, none
\* replaced by an answer that came too late.
ReturnedAsAnnounced ==
    returned => \A i \in Collectors : /\ results[i] # NoResult
                                      /\ results[i] = announced[i]

\* The context runOne made, or the scan's, had not ended when it decided.
DecidedInTime(i) ==
    /\ res[i] # NoResult
    /\ \/ ctxErr[i] = "released"
       \/ parentErr = "nil" /\ ctxErr[i] = "nil"

KeepsOwnAnswer(i) ==
    /\ outcome[i] # NoAnswer
    /\ res[i].evidence = outcome[i].result.evidence
    /\ res[i].status = "timeout" => outcome[i].result.status = "timeout"

\* A collector whose context did not end keeps its answer: the runner never
\* invents a timeout or drops evidence because another collector hung or
\* panicked, or because the budget was about to run out.
PunctualAnswerSurvives ==
    \A i \in Collectors : DecidedInTime(i) => KeepsOwnAnswer(i)

\* Incomplete data is never presented as complete: a result of a collector
\* that did not return, panicked or returned an error is Partial, has a
\* failing status and says why.
IncompleteIsMarked ==
    \A i \in Collectors :
        (res[i] # NoResult /\ (outcome[i] = NoAnswer \/ outcome[i].err # "nil"))
            => /\ res[i].partial
               /\ res[i].status \in {"timeout", "failed"}
               /\ res[i].notes # {}

\* The call returns even if no budgeted Collect ever does: it waits for nothing
\* but the collectors without a budget (there are none under the default
\* Runner), and not for those either once the scan's own context has ended.
CallReturns ==
    (parentErr # "nil" \/ \A i \in Collectors \ Budgeted : outcome[i] # NoAnswer) ~> returned

\* A body that comes back after its worker gave up can still hand over its
\* answer and end: late answers leak no goroutine.
LateBodyEnds == \A i \in Collectors : body[i] = "sending" ~> body[i] = "gone"

\* The runner implements the abstract promise: verdicts are what the observer
\* hears, and the call returns with all of them.
SG == INSTANCE ScatterGather WITH Tasks <- Collectors, Verdicts <- ResultType,
                                  Undecided <- NoResult, verdict <- announced
Promise == SG!Spec
==================================================================================
