------------------------- MODULE CollectorRunnerProofs -------------------------
(***************************************************************************)
(* Safety of the collector runner for every number of collectors, every    *)
(* choice of budgets and every set of answers.                             *)
(*                                                                         *)
(* Stages relates what one collector's worker, body, channel and results   *)
(* say of each other.  Gathered relates the caller's counter to the slots  *)
(* it filled: a result is in the channel at most once, under the index of  *)
(* a worker that has gone and a slot still empty, so that N receives fill  *)
(* N different slots.                                                      *)
(***************************************************************************)
EXTENDS CollectorRunner, FiniteSets, FiniteSetTheorems, TLAPS

StageOf(i) ==
    /\ worker[i] = "unborn" <=> i > spawned
    /\ res[i] = NoResult <=> worker[i] \notin {"report", "send", "gone"}
    /\ announced[i] = IF worker[i] \in {"send", "gone"} THEN res[i] ELSE NoResult
    /\ worker[i] \in {"unborn", "ready", "started"} => body[i] = "unborn" /\ ctxErr[i] = "nil"
    /\ worker[i] = "grace" => CollectErr(i) \in CtxErrors
    /\ outcome[i] = NoAnswer <=> body[i] \in {"unborn", "running"}
    /\ done[i] # <<>> => body[i] = "gone" /\ done[i] = <<outcome[i]>>
    /\ ctxErr[i] = "released" => res[i] # NoResult
    /\ i \notin Budgeted => ctxErr[i] = "nil"

Stages == \A i \in Collectors : StageOf(i)

Delivered == {i \in Collectors : results[i] # NoResult}

Gathered ==
    /\ \A i \in Delivered : worker[i] = "gone" /\ results[i] = announced[i]
    /\ \A k \in 1..Len(resultCh) :
          LET m == resultCh[k] IN
          /\ worker[m.idx] = "gone"
          /\ m.result = announced[m.idx]
          /\ m.idx \notin Delivered
    /\ \A k, l \in 1..Len(resultCh) : resultCh[k].idx = resultCh[l].idx => k = l
    /\ received = Cardinality(Delivered)
    /\ received > 0 => spawned = N
    /\ returned => received = N

IInv == TypeOK /\ Stages /\ Gathered
--------------------------------------------------------------------------------
(* What a worker makes of an answer is a result.                          *)

LEMMA EmptyResultType == EmptyResult \in ResultType /\ PanicAnswer \in AnswerType
  BY DEF EmptyResult, ResultType, Statuses, PanicAnswer, AnswerType, Errors, CtxErrors

\* A runner-made timeout keeps the evidence it is given and is marked.
LEMMA TimeoutResultFacts ==
  ASSUME NEW i, NEW err \in Errors, NEW p \in ResultType
  PROVE  LET r == TimeoutResult(i, err, p) IN
         /\ r \in ResultType
         /\ r.status = "timeout" /\ r.partial /\ r.evidence = p.evidence
         /\ err # "nil" => r.notes # {}
<1> DEFINE r == TimeoutResult(i, err, p)
<1>1. p.notes \cup ({err} \ {"nil"}) \in SUBSET (Errors \ {"nil"})
  BY DEF ResultType
<1>2. (p.timeoutMs \/ i \in Budgeted) \in BOOLEAN
  OBVIOUS
<1>3. p.evidence \in BOOLEAN /\ "timeout" \in Statuses \cup {""}
  BY DEF ResultType, Statuses
<1>4. r \in ResultType
  BY <1>1, <1>2, <1>3 DEF TimeoutResult, ResultType
<1>5. r.status = "timeout" /\ r.partial /\ r.evidence = p.evidence
  BY DEF TimeoutResult
<1>6. err # "nil" => r.notes # {}
  BY DEF TimeoutResult
<1> QED BY <1>4, <1>5, <1>6

\* An answer is kept as it is unless it came with an error, and only an
\* ended context turns it into a timeout.
LEMMA FinalizeResultFacts ==
  ASSUME NEW i, NEW err \in Errors, NEW a \in AnswerType
  PROVE  LET r == FinalizeResult(i, err, a) IN
         /\ r \in ResultType
         /\ r.evidence = a.result.evidence
         /\ err = "nil" /\ r.status = "timeout" => a.result.status = "timeout"
         /\ a.err # "nil" => /\ r.partial
                             /\ r.status \in {"timeout", "failed"}
                             /\ r.notes # {}
<1> DEFINE r0 == a.result
           r  == FinalizeResult(i, err, a)
<1>1. r0 \in ResultType /\ a.err \in Errors
  BY DEF AnswerType
<1>2. CASE a.err = "nil"
  <2>1. r = OwnAnswer(r0)
    BY <1>2 DEF FinalizeResult
  <2>2. OwnAnswer(r0) \in ResultType
    BY <1>1 DEF OwnAnswer, ResultType, Statuses
  <2>3. /\ OwnAnswer(r0).evidence = r0.evidence
        /\ OwnAnswer(r0).status = "timeout" => r0.status = "timeout"
    BY <1>1 DEF OwnAnswer, ResultType
  <2> QED BY <1>2, <2>1, <2>2, <2>3
<1>3. CASE a.err # "nil" /\ a.err \in CtxErrors /\ err # "nil"
  <2>1. r = TimeoutResult(i, err, r0)
    BY <1>3 DEF FinalizeResult
  <2> QED BY <1>1, <1>3, <2>1, TimeoutResultFacts
<1>4. CASE a.err # "nil" /\ ~(a.err \in CtxErrors /\ err # "nil")
  <2>1. r = Failed(r0, a.err)
    BY <1>4 DEF FinalizeResult
  <2>2. Failed(r0, a.err) \in ResultType
    BY <1>1, <1>4 DEF Failed, ResultType, Statuses
  <2>3. LET f == Failed(r0, a.err) IN
          f.evidence = r0.evidence /\ f.status = "failed" /\ f.partial /\ f.notes # {}
    BY <1>1 DEF Failed, ResultType
  <2> QED BY <1>4, <2>1, <2>2, <2>3
<1> QED BY <1>2, <1>3, <1>4
--------------------------------------------------------------------------------
(* The inductive invariant.                                               *)

LEMMA InitIInv == Init => IInv
<1> SUFFICES ASSUME Init PROVE IInv
  OBVIOUS
<1> USE RunnerAssumption
<1>1. TypeOK
  <2>1. <<>> \in Seq(Message) /\ <<>> \in Seq(AnswerType)
    OBVIOUS
  <2>2. done \in [Collectors -> Seq(AnswerType)]
    <3>1. [i \in Collectors |-> <<>>] \in [Collectors -> Seq(AnswerType)]
      BY <2>1, Zenon
    <3> QED BY <3>1 DEF Init
  <2>3. resultCh \in Seq(Message)
    BY <2>1 DEF Init
  <2>4. spawned \in 0..N /\ received \in 0..N
    BY 0 \in 0..N DEF Init
  <2>5. returned \in BOOLEAN
    BY Zenon DEF Init
  <2> QED BY <2>2, <2>3, <2>4, <2>5 DEF Init, TypeOK
<1>2. Stages
  BY DEF Init, Stages, StageOf, Collectors, CtxErrors
<1>3. Gathered
  <2>1. Delivered = {}
    BY DEF Init, Delivered
  <2> QED BY <2>1, FS_EmptySet DEF Init, Gathered
<1> QED BY <1>1, <1>2, <1>3 DEF IInv

\* A step that leaves the channel to the caller and the slots alone, and no
\* worker that has gone, keeps what was gathered.
LEMMA GatheredFrame ==
  ASSUME TypeOK, Gathered,
         UNCHANGED <<results, resultCh, received, returned>>,
         spawned = N => spawned' = N,
         \A i \in Collectors : worker[i] = "gone" => worker'[i] = "gone"
                                                     /\ announced'[i] = announced[i]
  PROVE  Gathered'
<1>1. Delivered' = Delivered
  BY DEF Delivered
<1>2. \A k \in 1..Len(resultCh) : resultCh[k].idx \in Collectors
  <2>1. \A k \in 1..Len(resultCh) : resultCh[k] \in Message
    BY DEF TypeOK
  <2> QED BY <2>1 DEF Message
<1>3. Delivered \subseteq Collectors
  BY DEF Delivered
<1> QED BY <1>1, <1>2, <1>3 DEF Gathered

\* A step of one collector's goroutines disturbs only that collector's stage.
LEMMA StagesFrame ==
  ASSUME TypeOK, Stages, NEW i \in Collectors,
         UNCHANGED <<parentErr, spawned>>,
         \A j \in Collectors \ {i} :
            /\ worker'[j] = worker[j] /\ body'[j] = body[j]
            /\ outcome'[j] = outcome[j] /\ done'[j] = done[j]
            /\ res'[j] = res[j] /\ announced'[j] = announced[j]
            /\ ctxErr'[j] = ctxErr[j],
         StageOf(i)'
  PROVE  Stages'
<1> SUFFICES ASSUME NEW j \in Collectors, j # i PROVE StageOf(j)'
  BY DEF Stages
<1> QED BY DEF Stages, StageOf, CollectErr

\* The scan's context ends: every stage survives it.
LEMMA ParentEndsIInv == IInv /\ ParentEnds => IInv'
<1> SUFFICES ASSUME IInv, ParentEnds PROVE IInv'
  OBVIOUS
<1> USE DEF IInv
<1>1. TypeOK'
  BY DEF TypeOK, ParentEnds, bodyVars, mainVars
<1>2. Stages'
  BY DEF Stages, StageOf, CollectErr, ParentEnds, bodyVars, mainVars, TypeOK
<1>3. Gathered'
  BY GatheredFrame DEF ParentEnds, bodyVars, mainVars
<1> QED BY <1>1, <1>2, <1>3

\* The two ways a derived context ends.
LEMMA CtxIInv ==
  ASSUME IInv, NEW i \in Collectors, BudgetExpires(i) \/ ParentEndReaches(i)
  PROVE  IInv'
<1> USE DEF IInv
<1>1. TypeOK'
  BY DEF TypeOK, BudgetExpires, ParentEndReaches, bodyVars, mainVars, CtxErrors
<1>2. StageOf(i)'
  BY DEF Stages, StageOf, CollectErr, BudgetExpires, ParentEndReaches, Live,
         bodyVars, mainVars, TypeOK, CtxErrors
<1>3. Stages'
  BY <1>2, StagesFrame DEF BudgetExpires, ParentEndReaches, bodyVars, mainVars, TypeOK
<1>4. Gathered'
  BY GatheredFrame DEF BudgetExpires, ParentEndReaches, bodyVars, mainVars
<1> QED BY <1>1, <1>3, <1>4

\* What the goroutine of a Collect call does.
LEMMA BodyIInv ==
  ASSUME IInv, NEW i \in Collectors, BodyStep(i)
  PROVE  IInv'
<1> USE DEF IInv
<1>1. CASE CollectReturns(i) \/ CollectPanics(i)
  <2>1. PICK a \in AnswerType : outcome' = [outcome EXCEPT ![i] = a]
    BY <1>1, RunnerAssumption, EmptyResultType DEF CollectReturns, CollectPanics
  <2>2. TypeOK'
    BY <1>1, <2>1 DEF TypeOK, CollectReturns, CollectPanics, ctxVars, mainVars
  <2>3. StageOf(i)'
    BY <1>1, <2>1, RunnerAssumption DEF Stages, StageOf, CollectErr, CollectReturns,
       CollectPanics, ctxVars, mainVars, TypeOK
  <2>4. Stages'
    BY <1>1, <2>3, StagesFrame DEF CollectReturns, CollectPanics, ctxVars, mainVars, TypeOK
  <2>5. Gathered'
    BY <1>1, GatheredFrame DEF CollectReturns, CollectPanics, ctxVars, mainVars
  <2> QED BY <2>2, <2>4, <2>5
<1>2. CASE BodySends(i)
  <2>1. outcome[i] \in AnswerType /\ done[i] = <<>>
    BY <1>2 DEF BodySends, Stages, StageOf, TypeOK
  <2>2. done' = [done EXCEPT ![i] = <<outcome[i]>>] /\ <<outcome[i]>> \in Seq(AnswerType)
    BY <1>2, <2>1 DEF BodySends, TypeOK
  <2>3. TypeOK'
    BY <1>2, <2>2 DEF TypeOK, BodySends, ctxVars, mainVars
  <2>4. StageOf(i)'
    BY <1>2, <2>1, <2>2 DEF Stages, StageOf, CollectErr, BodySends, ctxVars, mainVars, TypeOK
  <2>5. Stages'
    BY <1>2, <2>4, StagesFrame DEF BodySends, ctxVars, mainVars, TypeOK
  <2>6. Gathered'
    BY <1>2, GatheredFrame DEF BodySends, ctxVars, mainVars
  <2> QED BY <2>3, <2>5, <2>6
<1> QED BY <1>1, <1>2 DEF BodyStep

\* A worker up to the end of runOne.
LEMMA RunOneIInv ==
  ASSUME IInv, NEW i \in Collectors,
         WorkerStarts(i) \/ RefuseToRun(i) \/ LaunchBody(i) \/ RunOneDecides(i)
  PROVE  IInv'
<1> USE DEF IInv
<1>1. CASE WorkerStarts(i) \/ LaunchBody(i) \/ CtxIsDone(i)
  <2>1. TypeOK'
    BY <1>1 DEF TypeOK, WorkerStarts, LaunchBody, CtxIsDone, ctxVars, bodyVars, mainVars
  <2>2. StageOf(i)'
    BY <1>1 DEF Stages, StageOf, CollectErr, WorkerStarts, LaunchBody, CtxIsDone,
       ctxVars, bodyVars, mainVars, TypeOK, CtxErrors
  <2>3. Stages'
    BY <1>1, <2>2, StagesFrame DEF WorkerStarts, LaunchBody, CtxIsDone,
       ctxVars, bodyVars, mainVars, TypeOK
  <2>4. Gathered'
    BY <1>1, GatheredFrame DEF WorkerStarts, LaunchBody, CtxIsDone,
       ctxVars, bodyVars, mainVars, TypeOK
  <2> QED BY <2>1, <2>3, <2>4
<1>2. CASE RefuseToRun(i) \/ TakeAnswer(i) \/ GraceIsOver(i)
  <2>1. PICK r \in ResultType : res' = [res EXCEPT ![i] = r]
    <3>1. CASE RefuseToRun(i)
      <4>1. parentErr \in Errors
        BY DEF TypeOK, Errors
      <4> QED BY <3>1, <4>1, TimeoutResultFacts, EmptyResultType DEF RefuseToRun
    <3>2. CASE TakeAnswer(i)
      <4>1. CollectErr(i) \in Errors \/ CollectErr(i) = "released"
        BY DEF TypeOK, Errors, CollectErr
      <4>2. CollectErr(i) # "released"
        BY <3>2 DEF TakeAnswer, CollectErr, Stages, StageOf, TypeOK, CtxErrors
      <4>3. Head(done[i]) \in AnswerType
        BY <3>2 DEF TakeAnswer, TypeOK
      <4> QED BY <3>2, <4>1, <4>2, <4>3, FinalizeResultFacts DEF TakeAnswer
    <3>3. CASE GraceIsOver(i)
      <4>1. CollectErr(i) \in Errors
        BY <3>3 DEF GraceIsOver, Stages, StageOf, Errors
      <4> QED BY <3>3, <4>1, TimeoutResultFacts, EmptyResultType DEF GraceIsOver
    <3> QED BY <1>2, <3>1, <3>2, <3>3
  <2>2. /\ worker' = [worker EXCEPT ![i] = "report"]
        /\ worker[i] \in {"started", "select", "grace"}
        /\ ctxErr' = [ctxErr EXCEPT ![i] = IF Live(i) THEN "released" ELSE @]
        /\ UNCHANGED <<parentErr, bodyVars, mainVars, announced, resultCh>>
    BY <1>2 DEF RefuseToRun, TakeAnswer, GraceIsOver, ReleaseCtx, Live, ctxVars, TypeOK
  <2>3. done' = done \/ (done[i] # <<>> /\ done' = [done EXCEPT ![i] = <<>>])
    BY <1>2 DEF RefuseToRun, TakeAnswer, GraceIsOver, Stages, StageOf, TypeOK
  <2>4. done' \in [Collectors -> Seq(AnswerType)]
    <3>1. \A s \in Seq(AnswerType) : [done EXCEPT ![i] = s] \in [Collectors -> Seq(AnswerType)]
      BY DEF TypeOK
    <3>2. <<>> \in Seq(AnswerType) /\ done \in [Collectors -> Seq(AnswerType)]
      BY DEF TypeOK
    <3> QED BY <2>3, <3>1, <3>2
  <2>5. TypeOK'
    BY <2>1, <2>2, <2>4 DEF TypeOK, bodyVars, mainVars
  <2>6. StageOf(i)'
    BY <2>1, <2>2, <2>3, RunnerAssumption DEF Stages, StageOf, CollectErr, Live, bodyVars,
       mainVars, TypeOK
  <2>7. Stages'
    BY <2>1, <2>2, <2>3, <2>6, StagesFrame DEF bodyVars, mainVars, TypeOK
  <2>8. Gathered'
    BY <2>2, GatheredFrame DEF bodyVars, mainVars, TypeOK
  <2> QED BY <2>5, <2>7, <2>8
<1> QED BY <1>1, <1>2 DEF RunOneDecides

\* CollectorDone is called.
LEMMA ReportIInv ==
  ASSUME IInv, NEW i \in Collectors, WorkerReports(i)
  PROVE  IInv'
<1> USE DEF IInv
<1>1. TypeOK'
  BY DEF TypeOK, WorkerReports, ctxVars, bodyVars, mainVars
<1>2. StageOf(i)'
  BY DEF Stages, StageOf, CollectErr, WorkerReports, ctxVars, bodyVars, mainVars, TypeOK
<1>3. Stages'
  BY <1>2, StagesFrame DEF WorkerReports, ctxVars, bodyVars, mainVars, TypeOK
<1>4. Gathered'
  BY GatheredFrame DEF WorkerReports, ctxVars, bodyVars, mainVars, TypeOK
<1> QED BY <1>1, <1>3, <1>4

\* A worker hands over its result: it was not in the channel, nor in a slot.
LEMMA SendIInv ==
  ASSUME IInv, NEW i \in Collectors, WorkerSends(i)
  PROVE  IInv'
<1> USE DEF IInv
<1> DEFINE m == [idx |-> i, result |-> res[i]]
<1>1. res[i] \in ResultType /\ announced[i] = res[i] /\ m \in Message
  BY DEF WorkerSends, Stages, StageOf, TypeOK, Message
<1>2. resultCh' = Append(resultCh, m) /\ worker' = [worker EXCEPT ![i] = "gone"]
  BY DEF WorkerSends
<1>3. TypeOK'
  BY <1>1, <1>2 DEF TypeOK, WorkerSends, ctxVars, bodyVars, mainVars
<1>4. StageOf(i)'
  BY DEF Stages, StageOf, CollectErr, WorkerSends, ctxVars, bodyVars, mainVars, TypeOK
<1>5. Stages'
  BY <1>4, StagesFrame DEF WorkerSends, ctxVars, bodyVars, mainVars, TypeOK
<1>6. Gathered'
  <2>1. Delivered' = Delivered /\ i \notin Delivered
    BY DEF Delivered, Gathered, WorkerSends, mainVars
  <2>2. \A k \in 1..Len(resultCh) : /\ resultCh[k] \in Message
                                    /\ resultCh[k].idx \in Collectors \ {i}
    <3>1. \A k \in 1..Len(resultCh) : resultCh[k] \in Message
      BY DEF TypeOK
    <3> QED BY <3>1 DEF Gathered, WorkerSends, Message
  <2>3. /\ Len(resultCh') = Len(resultCh) + 1
        /\ \A k \in 1..Len(resultCh) : resultCh'[k] = resultCh[k]
        /\ resultCh'[Len(resultCh) + 1] = m
        /\ Len(resultCh) \in Nat
    BY <1>1, <1>2 DEF TypeOK
  <2>4. \A k \in 1..Len(resultCh)' : k \in 1..Len(resultCh) \/ k = Len(resultCh) + 1
    BY <2>3
  <2>5. /\ UNCHANGED <<received, results, returned, spawned, announced>>
        /\ \A j \in Collectors \ {i} : worker'[j] = worker[j]
        /\ worker'[i] = "gone"
    BY DEF WorkerSends, mainVars, TypeOK
  <2>6. \A k \in 1..Len(resultCh)' :
           LET n == resultCh'[k] IN
           worker'[n.idx] = "gone" /\ n.result = announced'[n.idx] /\ n.idx \notin Delivered
    BY <1>1, <2>1, <2>2, <2>3, <2>4, <2>5 DEF Gathered
  <2>7. \A k, l \in 1..Len(resultCh)' : resultCh'[k].idx = resultCh'[l].idx => k = l
    BY <2>2, <2>3, <2>4 DEF Gathered
  <2>8. \A j \in Delivered' : worker'[j] = "gone" /\ results'[j] = announced'[j]
    BY <2>1, <2>5 DEF Gathered, Delivered
  <2> QED BY <2>1, <2>5, <2>6, <2>7, <2>8 DEF Gathered
<1> QED BY <1>3, <1>5, <1>6

LEMMA WorkerIInv ==
  ASSUME IInv, NEW i \in Collectors, WorkerStep(i)
  PROVE  IInv'
BY RunOneIInv, ReportIInv, SendIInv DEF WorkerStep

\* The go loop starts worker spawned + 1; nothing was received yet.
LEMMA SpawnIInv == IInv /\ Spawn => IInv'
<1> SUFFICES ASSUME IInv, Spawn PROVE IInv'
  OBVIOUS
<1> USE DEF IInv
<1>1. spawned + 1 \in Collectors /\ spawned \in Nat /\ N \in Nat
  BY RunnerAssumption DEF Spawn, TypeOK, Collectors
<1>2. TypeOK'
  BY <1>1 DEF TypeOK, Spawn, ctxVars, bodyVars
<1>3. worker[spawned + 1] = "unborn"
  BY <1>1 DEF Stages, StageOf, Collectors
<1>4. Stages'
  <2> SUFFICES ASSUME NEW j \in Collectors PROVE StageOf(j)'
    BY DEF Stages
  <2>1. worker'[j] = "unborn" <=> j > spawned'
    BY <1>1, <1>3 DEF Spawn, Stages, StageOf, TypeOK, Collectors
  <2> QED BY <1>1, <1>3, <2>1 DEF Stages, StageOf, CollectErr, Spawn, ctxVars, bodyVars, TypeOK
<1>5. Gathered'
  <2>1. \A i \in Collectors : worker[i] = "gone" => worker'[i] = "gone"
    BY <1>3 DEF Spawn, TypeOK
  <2> QED BY <1>1, <2>1, GatheredFrame DEF Spawn
<1> QED BY <1>2, <1>4, <1>5

\* Each receive fills one more slot.
LEMMA GatherIInv == IInv /\ Gather => IInv'
<1> SUFFICES ASSUME IInv, Gather PROVE IInv'
  OBVIOUS
<1> USE DEF IInv
<1> DEFINE m == Head(resultCh)
<1>1. /\ m = resultCh[1] /\ 1 \in 1..Len(resultCh) /\ m \in Message
      /\ Len(resultCh) \in Nat
  BY DEF Gather, TypeOK
<1>2. m.idx \in Collectors /\ m.result \in ResultType
  BY <1>1 DEF Message
<1>3. /\ results' = [results EXCEPT ![m.idx] = m.result]
      /\ received' = received + 1 /\ received \in Nat /\ received < N
      /\ resultCh' = Tail(resultCh)
      /\ UNCHANGED <<spawned, returned, worker, announced>>
  BY RunnerAssumption DEF Gather, TypeOK
<1>4. TypeOK'
  BY <1>1, <1>2, <1>3, RunnerAssumption DEF TypeOK, Gather, ctxVars, bodyVars
<1>5. Stages'
  BY DEF Stages, StageOf, CollectErr, Gather, ctxVars, bodyVars
<1>6. Gathered'
  <2>1. Delivered' = Delivered \cup {m.idx} /\ m.idx \notin Delivered
    BY <1>1, <1>2, <1>3, RunnerAssumption DEF Delivered, Gathered, TypeOK
  <2>2. IsFiniteSet(Delivered)
    <3>1. IsFiniteSet(Collectors)
      BY FS_Interval, RunnerAssumption DEF Collectors
    <3> QED BY <3>1, FS_Subset DEF Delivered
  <2>3. Cardinality(Delivered') = Cardinality(Delivered) + 1
    BY <2>1, <2>2, FS_AddElement
  <2>4. /\ Len(resultCh') = Len(resultCh) - 1
        /\ \A k \in 1..Len(resultCh') : k + 1 \in 1..Len(resultCh) /\ resultCh'[k] = resultCh[k + 1]
    BY <1>1, <1>3 DEF TypeOK
  <2>5. \A k \in 1..Len(resultCh') : resultCh'[k].idx # m.idx
    BY <1>1, <2>4 DEF Gathered
  <2>6. \A i \in Delivered' : worker'[i] = "gone" /\ results'[i] = announced'[i]
    BY <1>1, <1>2, <1>3, <2>1 DEF Gathered, Delivered, TypeOK
  <2>7. \A k \in 1..Len(resultCh') :
           LET n == resultCh'[k] IN
           worker'[n.idx] = "gone" /\ n.result = announced'[n.idx] /\ n.idx \notin Delivered'
    BY <1>3, <2>1, <2>4, <2>5 DEF Gathered
  <2>8. \A k, l \in 1..Len(resultCh') : resultCh'[k].idx = resultCh'[l].idx => k = l
    <3> SUFFICES ASSUME NEW k \in 1..Len(resultCh'), NEW l \in 1..Len(resultCh'),
                        resultCh'[k].idx = resultCh'[l].idx
                 PROVE  k = l
      OBVIOUS
    <3>1. k + 1 = l + 1
      BY <2>4 DEF Gathered
    <3> QED BY <3>1
  <2>9. received' = Cardinality(Delivered') /\ spawned' = N
    BY <1>3, <2>3 DEF Gathered, Gather
  <2>10. returned' => received' = N
    BY <1>3 DEF Gathered
  <2> QED BY <2>6, <2>7, <2>8, <2>9, <2>10 DEF Gathered
<1> QED BY <1>4, <1>5, <1>6

LEMMA ReturnIInv == IInv /\ Return => IInv'
<1> SUFFICES ASSUME IInv, Return PROVE IInv'
  OBVIOUS
<1> USE DEF IInv
<1>1. TypeOK'
  BY DEF TypeOK, Return, ctxVars, bodyVars
<1>2. Stages'
  BY DEF Stages, StageOf, CollectErr, Return, ctxVars, bodyVars
<1>3. Delivered' = Delivered
  BY DEF Delivered, Return
<1>4. Gathered'
  BY <1>3 DEF Gathered, Return
<1> QED BY <1>1, <1>2, <1>4

LEMMA NextIInv == IInv /\ [Next]_vars => IInv'
<1> SUFFICES ASSUME IInv, [Next]_vars PROVE IInv'
  OBVIOUS
<1>1. CASE UNCHANGED vars
  <2>1. Delivered' = Delivered
    BY <1>1 DEF Delivered, vars, mainVars
  <2> QED BY <1>1, <2>1 DEF IInv, TypeOK, Stages, StageOf, CollectErr, Gathered, vars,
         ctxVars, bodyVars, mainVars
<1>2. CASE CallerStep
  BY <1>2, SpawnIInv, GatherIInv, ReturnIInv DEF CallerStep
<1>3. ASSUME NEW i \in Collectors,
             BudgetExpires(i) \/ ParentEndReaches(i) \/ BodyStep(i) \/ WorkerStep(i)
      PROVE  IInv'
  BY <1>3, CtxIInv, BodyIInv, WorkerIInv
<1> QED BY <1>1, <1>2, <1>3, ParentEndsIInv DEF Next

THEOREM IInvHolds == Spec => []IInv
BY InitIInv, NextIInv, PTL DEF Spec
--------------------------------------------------------------------------------
(* What the runner guarantees.                                            *)

\* Every variable of the runner keeps its type, for any number of collectors.
THEOREM TypeCorrect == Spec => []TypeOK
<1>1. IInv => TypeOK
  BY DEF IInv
<1> QED BY <1>1, IInvHolds, PTL

\* N receives have filled N different slots, each with what was announced.
LEMMA AllDelivered == IInv => ReturnedAsAnnounced
<1> SUFFICES ASSUME IInv, returned PROVE Delivered = Collectors
  BY DEF ReturnedAsAnnounced, IInv, Gathered, Delivered
<1>1. /\ IsFiniteSet(Collectors) /\ Cardinality(Collectors) = N
  BY FS_Interval, RunnerAssumption DEF Collectors
<1>2. Delivered \subseteq Collectors /\ Cardinality(Delivered) = N
  BY DEF Delivered, IInv, Gathered
<1> QED BY <1>1, <1>2, FS_Subset

\* RunWithObserver returns the announced result of every collector.
THEOREM ReturnIsComplete == Spec => []ReturnedAsAnnounced
BY IInvHolds, AllDelivered, PTL

\* The two invariants about verdicts, as one step claim per way to decide.
Verdicts == PunctualAnswerSurvives /\ IncompleteIsMarked

LEMMA InitVerdicts == Init => Verdicts
BY DEF Init, Verdicts, PunctualAnswerSurvives, DecidedInTime, IncompleteIsMarked

\* A decided collector's facts only get easier to satisfy: its context is no
\* longer live, and an answer, once there, stays.
LEMMA VerdictsFrame ==
  ASSUME Verdicts,
         \A j \in Collectors : /\ res'[j] = res[j]
                               /\ res[j] # NoResult => ctxErr'[j] = ctxErr[j]
                               /\ outcome[j] # NoAnswer => outcome'[j] = outcome[j],
         parentErr # "nil" => parentErr' = parentErr
  PROVE  Verdicts'
<1>1. PunctualAnswerSurvives'
  BY DEF Verdicts, PunctualAnswerSurvives, DecidedInTime, KeepsOwnAnswer
<1>2. IncompleteIsMarked'
  BY DEF Verdicts, IncompleteIsMarked
<1> QED BY <1>1, <1>2 DEF Verdicts

\* The steps that decide collector i, by an answer or without one.
LEMMA DecideVerdicts ==
  ASSUME IInv, Verdicts, NEW i \in Collectors,
         RefuseToRun(i) \/ TakeAnswer(i) \/ GraceIsOver(i)
  PROVE  Verdicts'
<1> USE DEF IInv
<1>1. \A j \in Collectors \ {i} : /\ res'[j] = res[j] /\ ctxErr'[j] = ctxErr[j]
                                  /\ outcome'[j] = outcome[j]
  BY DEF RefuseToRun, TakeAnswer, GraceIsOver, ReleaseCtx, ctxVars, bodyVars, TypeOK
<1>2. parentErr' = parentErr /\ outcome' = outcome
  BY DEF RefuseToRun, TakeAnswer, GraceIsOver, ctxVars, bodyVars
<1>3. CASE RefuseToRun(i) \/ GraceIsOver(i)
  <2>1. PICK e \in CtxErrors : res' = [res EXCEPT ![i] = TimeoutResult(i, e, EmptyResult)]
    <3>1. CASE RefuseToRun(i)
      BY <3>1 DEF RefuseToRun, TypeOK
    <3>2. CASE GraceIsOver(i)
      BY <3>2 DEF GraceIsOver, Stages, StageOf
    <3> QED BY <1>3, <3>1, <3>2
  <2>2. res'[i] = TimeoutResult(i, e, EmptyResult) /\ e \in Errors /\ e # "nil"
    BY <2>1 DEF TypeOK, Errors, CtxErrors
  <2>3. res'[i].status = "timeout" /\ res'[i].partial /\ res'[i].notes # {}
    BY <2>2, TimeoutResultFacts, EmptyResultType
  <2>4. ctxErr'[i] # "released" /\ ~(parentErr = "nil" /\ ctxErr'[i] = "nil")
    BY <1>3, <1>2 DEF RefuseToRun, GraceIsOver, ReleaseCtx, Live, Stages, StageOf, CollectErr,
       ctxVars, TypeOK, CtxErrors
  <2> QED BY <1>1, <1>2, <2>3, <2>4 DEF Verdicts, PunctualAnswerSurvives, DecidedInTime, KeepsOwnAnswer,
             IncompleteIsMarked
<1>4. CASE TakeAnswer(i)
  <2>1. outcome[i] \in AnswerType /\ Head(done[i]) = outcome[i] /\ outcome[i] # NoAnswer
    BY <1>4, RunnerAssumption DEF TakeAnswer, Stages, StageOf, TypeOK
  <2>2. CollectErr(i) \in Errors
    BY <1>4 DEF TakeAnswer, CollectErr, Stages, StageOf, TypeOK, CtxErrors, Errors
  <2>3. res'[i] = FinalizeResult(i, CollectErr(i), outcome[i])
    BY <1>4, <2>1 DEF TakeAnswer, TypeOK
  <2>4. /\ res'[i].evidence = outcome[i].result.evidence
        /\ CollectErr(i) = "nil" /\ res'[i].status = "timeout"
             => outcome[i].result.status = "timeout"
        /\ outcome[i].err # "nil" => /\ res'[i].partial
                                     /\ res'[i].status \in {"timeout", "failed"}
                                     /\ res'[i].notes # {}
    BY <2>1, <2>2, <2>3, FinalizeResultFacts
  <2>5. (ctxErr'[i] = "released" \/ (parentErr = "nil" /\ ctxErr'[i] = "nil"))
           => CollectErr(i) = "nil"
    BY <1>4 DEF TakeAnswer, ReleaseCtx, Live, Stages, StageOf, CollectErr, TypeOK, CtxErrors
  <2>6. PunctualAnswerSurvives'
    <3>1. (DecidedInTime(i) => KeepsOwnAnswer(i))'
      BY <1>2, <2>1, <2>4, <2>5 DEF DecidedInTime, KeepsOwnAnswer
    <3>2. \A j \in Collectors \ {i} : (DecidedInTime(j) => KeepsOwnAnswer(j))'
      BY <1>1, <1>2 DEF Verdicts, PunctualAnswerSurvives, DecidedInTime, KeepsOwnAnswer
    <3> QED BY <3>1, <3>2 DEF PunctualAnswerSurvives
  <2>7. IncompleteIsMarked'
    BY <1>1, <1>2, <2>1, <2>4 DEF Verdicts, IncompleteIsMarked
  <2> QED BY <2>6, <2>7 DEF Verdicts
<1> QED BY <1>3, <1>4

LEMMA NextVerdicts == IInv /\ Verdicts /\ [Next]_vars => Verdicts'
<1> SUFFICES ASSUME IInv, Verdicts, [Next]_vars PROVE Verdicts'
  OBVIOUS
<1> USE DEF IInv
<1>1. CASE ParentEnds
  BY <1>1, VerdictsFrame DEF ParentEnds, bodyVars, mainVars
<1>2. CASE CallerStep
  BY <1>2, VerdictsFrame DEF CallerStep, Spawn, Gather, Return, ctxVars, bodyVars
<1>3. ASSUME NEW i \in Collectors, BudgetExpires(i) \/ ParentEndReaches(i)
      PROVE  Verdicts'
  BY <1>3, VerdictsFrame DEF BudgetExpires, ParentEndReaches, Live, bodyVars, mainVars, Stages,
     StageOf, TypeOK
<1>4. ASSUME NEW i \in Collectors, BodyStep(i)
      PROVE  Verdicts'
  BY <1>4, VerdictsFrame DEF BodyStep, CollectReturns, CollectPanics, BodySends, ctxVars,
     mainVars, Stages, StageOf, TypeOK
<1>5. ASSUME NEW i \in Collectors,
             WorkerStarts(i) \/ LaunchBody(i) \/ CtxIsDone(i) \/ WorkerReports(i) \/ WorkerSends(i)
      PROVE  Verdicts'
  BY <1>5, VerdictsFrame DEF WorkerStarts, LaunchBody, CtxIsDone, WorkerReports, WorkerSends,
     ctxVars, bodyVars, mainVars
<1>6. CASE UNCHANGED vars
  BY <1>6, VerdictsFrame DEF vars, ctxVars, bodyVars
<1> QED BY <1>1, <1>2, <1>3, <1>4, <1>5, <1>6, DecideVerdicts DEF Next, WorkerStep, RunOneDecides

\* A collector whose context stays live keeps its own answer.
THEOREM PunctualAnswersSurvive == Spec => []PunctualAnswerSurvives
<1>1. Spec => []Verdicts
  BY InitVerdicts, NextVerdicts, IInvHolds, PTL DEF Spec
<1>2. Verdicts => PunctualAnswerSurvives
  BY DEF Verdicts
<1> QED BY <1>1, <1>2, PTL

\* Incomplete data is never presented as complete.
THEOREM IncompleteAlwaysMarked == Spec => []IncompleteIsMarked
<1>1. Spec => []Verdicts
  BY InitVerdicts, NextVerdicts, IInvHolds, PTL DEF Spec
<1>2. Verdicts => IncompleteIsMarked
  BY DEF Verdicts
<1> QED BY <1>1, <1>2, PTL
--------------------------------------------------------------------------------
(* Refinement.                                                            *)

\* Every step of the runner is a step of ScatterGather or leaves its
\* variables alone: CollectorDone decides, and Return finds all decided.
LEMMA StepRefines == IInv /\ [Next]_vars => [SG!Next]_<<announced, returned>>
<1> SUFFICES ASSUME IInv, [Next]_vars, ~UNCHANGED <<announced, returned>>
             PROVE  SG!Next
  OBVIOUS
<1>1. (\E i \in Collectors : WorkerReports(i)) \/ Return
  BY DEF Next, CallerStep, Spawn, Gather, ParentEnds, BudgetExpires, ParentEndReaches, BodyStep,
     CollectReturns, CollectPanics, BodySends, WorkerStep, WorkerStarts, RefuseToRun,
     LaunchBody, RunOneDecides, TakeAnswer, CtxIsDone, GraceIsOver, WorkerSends, vars,
     ctxVars, bodyVars, mainVars
<1>2. ASSUME NEW i \in Collectors, WorkerReports(i)
      PROVE  SG!Decide(i, res[i]) /\ res[i] \in ResultType
  <2>1. res[i] \in ResultType /\ announced[i] = NoResult
    BY <1>2 DEF WorkerReports, IInv, Stages, StageOf, TypeOK
  <2>2. ~returned
    <3> SUFFICES ASSUME returned PROVE FALSE
      BY DEF IInv, TypeOK
    <3>1. ReturnedAsAnnounced
      BY AllDelivered
    <3> QED BY <3>1, <2>1 DEF ReturnedAsAnnounced
  <2> QED BY <1>2, <2>1, <2>2 DEF SG!Decide, WorkerReports, mainVars
<1>3. CASE Return
  <2>1. Delivered = Collectors
    <3>1. /\ IsFiniteSet(Collectors) /\ Cardinality(Collectors) = N
      BY FS_Interval, RunnerAssumption DEF Collectors
    <3>2. Delivered \subseteq Collectors /\ Cardinality(Delivered) = N
      BY <1>3 DEF Delivered, IInv, Gathered, Return
    <3> QED BY <3>1, <3>2, FS_Subset
  <2>2. \A i \in Collectors : announced[i] # NoResult
    BY <2>1 DEF Delivered, IInv, Gathered
  <2> QED BY <1>3, <2>2 DEF SG!Next, SG!Return, Return
<1> QED BY <1>1, <1>2, <1>3 DEF SG!Next

\* The runner implements ScatterGather.
THEOREM RunnerKeepsPromise == Spec => Promise
<1>1. Init => SG!Init
  BY DEF Init, SG!Init
<1>2. Spec => SG!Init /\ [][SG!Next]_<<announced, returned>>
  BY <1>1, StepRefines, IInvHolds, PTL DEF Spec
<1> QED BY <1>2 DEF Promise, SG!Spec, SG!sgVars
================================================================================
