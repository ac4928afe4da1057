------------------------------ MODULE ScanPipeline ------------------------------
(***************************************************************************)
(* "devdiag scan": Scanner.Scan, from the first event to the report, and   *)
(* what scanCmd makes of the report: suppressions, rendering, persistence  *)
(* and the exit code.  The collectors run concurrently and report to the   *)
(* event sink as they finish; of their runner only the promise stated in   *)
(* ScatterGather is used.  Engines return any sequence of findings or an   *)
(* error.                                                                  *)
(***************************************************************************)
EXTENDS Integers, SequencesExt

CONSTANTS N,            \* number of collectors CollectorFactory.Build selected
          Verdicts,     \* statuses they may end with
          Outputs,      \* what an engine may return: sequences of findings
          Options,      \* command lines, configurations and baselines
          EvidenceOnly, \* finding IDs isEvidenceOnlyFinding names
          Optional,     \* other finding IDs ClassifyFinding ranks low
          CiIds,        \* finding IDs that start with F-CI-
          Undecided     \* a collector that has not ended

\* Severities: info, low, medium, high, critical.
Severities == 0..4
Medium == 2
High   == 3
Off    == 5   \* --fail-severity off

Collectors == 1..N

Engines == {"m1", "m6", "m8", "rulepack"}

\* A finding.  Add merges those of one ID, title and symptom; evidence is a set.
Raw      == UNION {ToSet(q) : q \in Outputs}
Findings == [id: {f.id : f \in Raw}, title: {f.title : f \in Raw},
             symptom: {f.symptom : f \in Raw}, sev: Severities,
             conf: Nat, ev: SUBSET UNION {f.ev : f \in Raw}]
Key(f)   == <<f.id, f.title, f.symptom>>

\* What the events of a type are about.
Subjects(type) ==
    CASE type \in {"scan_started", "scan_completed"}       -> {"scan"}
      [] type \in {"collector_started", "collector_done"}  -> Collectors
      [] type \in {"rule_evaluated", "scan_failed"}        -> Engines
      [] type = "finding_added"                            -> {Key(f) : f \in Raw}

ASSUME ScanAssumption ==
    /\ N \in Nat /\ Undecided \notin Verdicts
    /\ \A o \in Options : /\ o.threshold \in Severities \cup {Off}
                          /\ o.view \in {"actionable", "all", "ci"}
                          /\ {o.aiml, o.ci, o.pack, o.hidden, o.save} \subseteq BOOLEAN
    /\ Outputs \subseteq Seq(Findings)

VARIABLES opts,      \* the options of this scan
          pc,        \* the scan's goroutine
          started,   \* collectors whose CollectorStarted was delivered
          verdict, gathered,   \* ScatterGather: statuses; has the runner returned?
          events,    \* what the sink was given, in order
          all,       \* allFindings
          faulty,    \* engines that returned an error
          report,    \* the report's findings, in order
          visible,   \* those that FilterReport leaves; their order is the report's
          saved,     \* what became of report.json
          exit       \* the exit code, "none" while the command runs

vars == <<opts, pc, started, verdict, gathered, events, all, faulty, report, visible, saved, exit>>

SG == INSTANCE ScatterGather WITH Tasks <- Collectors, returned <- gathered

TypeOK ==
    /\ opts \in Options
    /\ pc \in Engines \cup {"start", "collect", "report", "filter", "persist", "exit", "done"}
    /\ started \subseteq Collectors
    /\ verdict \in [Collectors -> Verdicts \cup {Undecided}] /\ gathered \in BOOLEAN
    /\ \A e \in ToSet(events) : e.of \in Subjects(e.type)
    /\ faulty \subseteq Engines
    /\ all \in Seq(Findings) /\ report \in Seq(Findings) /\ visible \subseteq Findings
    /\ saved \in {"no", "yes", "failed"}
    /\ exit \in {"none", "Success", "FindingsExist", "CollectorPartial", "PermissionDenied",
                 "InvalidInput", "InternalError"}

Init ==
    /\ opts \in Options /\ pc = "start"
    /\ started = {} /\ SG!Init
    /\ events = <<>> /\ all = <<>> /\ faulty = {}
    /\ report = <<>> /\ visible = {} /\ saved = "no" /\ exit = "none"
---------------------------------------------------------------------------------
(* findings.Aggregator.                                                    *)

RanksBefore(f, g) == f.sev > g.sev \/ (f.sev = g.sev /\ f.conf > g.conf)

\* Mutant: the first of two duplicates keeps its severity.
MergeFindingFirst(f, g) == [f EXCEPT !.ev = @ \cup g.ev]

\* mergeFinding: the better ranked one, with the evidence of both.
MergeFinding(f, g) == [(IF RanksBefore(g, f) THEN g ELSE f) EXCEPT !.ev = f.ev \cup g.ev]

DedupedBy(acc, f) ==
    LET same == {i \in DOMAIN acc : Key(acc[i]) = Key(f)}
    IN  IF same = {} THEN Append(acc, f)
        ELSE [i \in DOMAIN acc |-> IF i \in same THEN MergeFinding(acc[i], f) ELSE acc[i]]

\* sort.SliceStable by RanksBefore.
StableSorted(s) ==
    LET before(i, j) == RanksBefore(s[i], s[j]) \/ (i < j /\ ~RanksBefore(s[j], s[i]))
    IN  [k \in DOMAIN s |->
           s[CHOOSE i \in DOMAIN s : Cardinality({j \in DOMAIN s \ {i} : before(j, i)}) = k - 1]]

\* Aggregator.Add of one finding after another.
Deduped(fs) ==
    LET acc[i \in 0..Len(fs)] == IF i = 0 THEN <<>> ELSE DedupedBy(acc[i - 1], fs[i])
    IN  acc[Len(fs)]

Aggregate(fs) == StableSorted(Deduped(fs))
---------------------------------------------------------------------------------
(* Scanner.Scan.                                                           *)

Ev(type, of) == [type |-> type, of |-> of]
Emit(e)      == events' = Append(events, e)
Announced(fs) == [i \in DOMAIN fs |-> Ev("finding_added", Key(fs[i]))]

Start ==
    /\ pc = "start"
    /\ Emit(Ev("scan_started", "scan")) /\ pc' = "collect"
    /\ UNCHANGED <<opts, started, verdict, gathered, all, faulty, report, visible, saved, exit>>

\* eventObserver, called by the runner's workers; MutexSink orders the calls.
CollectorStarted(c) ==
    /\ pc = "collect" /\ c \notin started
    /\ started' = started \cup {c} /\ Emit(Ev("collector_started", c))
    /\ UNCHANGED <<opts, pc, verdict, gathered, all, faulty, report, visible, saved, exit>>

CollectorDone(c) ==
    /\ pc = "collect" /\ c \in started
    /\ \E v \in Verdicts : SG!Decide(c, v)
    /\ Emit(Ev("collector_done", c))
    /\ UNCHANGED <<opts, pc, started, all, faulty, report, visible, saved, exit>>

RunnerReturns ==
    /\ pc = "collect" /\ SG!Return /\ pc' = "m1"
    /\ UNCHANGED <<opts, started, events, all, faulty, report, visible, saved, exit>>

\* Which engines this scan evaluates, and which comes after which.
Selected(e) == CASE e = "m1" -> TRUE [] e = "m6" -> opts.aiml
                 [] e = "m8" -> opts.ci [] e = "rulepack" -> opts.pack

Later(e) == CASE e = "m1" -> {"m6", "m8", "rulepack"} [] e = "m6" -> {"m8", "rulepack"}
              [] e = "m8" -> {"rulepack"}             [] e = "rulepack" -> {}

After(e) == LET left == {d \in Later(e) : Selected(d)}
            IN  IF left = {} THEN "report" ELSE CHOOSE d \in left : left \ {d} \subseteq Later(d)

\* Mutant: the findings of a rule pack are not announced.
EvaluatesQuietly(e) ==
    /\ pc = e
    /\ \E fs \in Outputs :
          /\ all' = all \o fs
          /\ events' = events \o (<<Ev("rule_evaluated", e)>>
                                   \o (IF e = "rulepack" THEN <<>> ELSE Announced(fs)))
    /\ pc' = After(e)
    /\ UNCHANGED <<opts, started, verdict, gathered, faulty, report, visible, saved, exit>>

\* An engine, or the rule pack, returns findings: all of them are announced.
Evaluates(e) ==
    /\ pc = e
    /\ \E fs \in Outputs :
          /\ all' = all \o fs
          /\ events' = events \o (<<Ev("rule_evaluated", e)>> \o Announced(fs))
    /\ pc' = After(e)
    /\ UNCHANGED <<opts, started, verdict, gathered, faulty, report, visible, saved, exit>>

\* Mutant: a failed add-on ends the event stream, but not the scan.
AddOnFailsLoudly(e) ==
    /\ pc = e /\ e \in {"m6", "m8"}
    /\ faulty' = faulty \cup {e}
    /\ Emit(Ev("scan_failed", e))
    /\ pc' = After(e)
    /\ UNCHANGED <<opts, started, verdict, gathered, all, report, visible, saved, exit>>

\* M6 and M8 are add-ons: their errors are events, and the scan goes on.
AddOnFails(e) ==
    /\ pc = e /\ e \in {"m6", "m8"}
    /\ faulty' = faulty \cup {e}
    /\ Emit(Ev("rule_evaluated", e))
    /\ pc' = After(e)
    /\ UNCHANGED <<opts, started, verdict, gathered, all, report, visible, saved, exit>>

\* M1 failed, or the rule pack is not valid: the scan has no report.
ScanFails(e) ==
    /\ pc = e /\ e \in {"m1", "rulepack"}
    /\ faulty' = faulty \cup {e}
    /\ Emit(Ev("scan_failed", e))
    /\ exit' = IF e = "rulepack" THEN "InvalidInput" ELSE "InternalError"
    /\ pc' = "done"
    /\ UNCHANGED <<opts, started, verdict, gathered, all, report, visible, saved>>

Report ==
    /\ pc = "report"
    /\ report' = Aggregate(all)
    /\ Emit(Ev("scan_completed", "scan")) /\ pc' = "filter"
    /\ UNCHANGED <<opts, started, verdict, gathered, all, faulty, visible, saved, exit>>
---------------------------------------------------------------------------------
(* relevance and scanCmd.                                                  *)

\* What baseline.Fingerprint hashes: two titles share one.
Fingerprint(f) == <<f.id, f.symptom>>

\* Configuration and active baseline entries: by ID, or by fingerprint.
Suppressed(f) == f.id \in opts.ids \/ Fingerprint(f) \in opts.fingerprints

\* ClassifyFinding.
Actionability(f) == IF f.sev >= High THEN "high"
                    ELSE IF f.sev = Medium /\ f.id \notin Optional \cup EvidenceOnly
                    THEN "medium" ELSE "low"

\* Mutant: one suppressed instance hides all findings with its ID.
IsHiddenByID(f) ==
    /\ ~opts.hidden
    /\ \/ \E g \in ToSet(report) : g.id = f.id /\ Suppressed(g)
       \/ CASE opts.view = "all" -> FALSE
            [] opts.view = "ci"  -> f.id \notin CiIds
            [] opts.view = "actionable" ->
                 f.id \in EvidenceOnly \/ Actionability(f) = "low" \/ f.sev < Medium

\* relevance.IsHidden.
IsHidden(f) ==
    /\ ~opts.hidden
    /\ \/ Suppressed(f)
       \/ CASE opts.view = "all" -> FALSE
            [] opts.view = "ci"  -> f.id \notin CiIds
            [] opts.view = "actionable" ->
                 f.id \in EvidenceOnly \/ Actionability(f) = "low" \/ f.sev < Medium

FilterReport ==
    /\ pc = "filter"
    /\ visible' = {f \in ToSet(report) : ~IsHidden(f)}
    /\ pc' = IF opts.save THEN "persist" ELSE "exit"
    /\ UNCHANGED <<opts, started, verdict, gathered, events, all, faulty, report, saved, exit>>

\* --save-report: the filtered report is stored, or the command fails.
Persist ==
    /\ pc = "persist"
    /\ \/ saved' = "yes" /\ pc' = "exit" /\ UNCHANGED exit
       \/ saved' = "failed" /\ pc' = "done" /\ exit' = "InternalError"
    /\ UNCHANGED <<opts, started, verdict, gathered, events, all, faulty, report, visible>>

\* maxSeverity starts at info.
MaxSeverity == IF visible = {} THEN 0
               ELSE CHOOSE m \in {f.sev : f \in visible} : \A f \in visible : f.sev <= m

Incomplete == {"partial", "timeout", "permission_denied", "failed"}

Failing == opts.threshold # Off /\ MaxSeverity >= opts.threshold

\* Mutant: a collector that was cut short counts as complete.
ExitCodeFailedOnly ==
    IF Failing THEN "FindingsExist"
    ELSE IF \E c \in Collectors : verdict[c] = "failed" THEN "CollectorPartial"
    ELSE "Success"

\* exitCodeFromResultsWithThreshold: findings first, then the first collector
\* of the list that is not complete.
ExitCode ==
    LET bad == {c \in Collectors : verdict[c] \in Incomplete}
        first == CHOOSE c \in bad : \A d \in bad : c <= d
    IN  IF Failing THEN "FindingsExist"
        ELSE IF bad = {} THEN "Success"
        ELSE IF verdict[first] = "permission_denied" THEN "PermissionDenied"
        ELSE "CollectorPartial"

Exit ==
    /\ pc = "exit"
    /\ exit' = ExitCode /\ pc' = "done"
    /\ UNCHANGED <<opts, started, verdict, gathered, events, all, faulty, report, visible, saved>>

Collecting == RunnerReturns \/ (\E c \in Collectors : CollectorStarted(c) \/ CollectorDone(c))
Evaluating == \E e \in Engines : Evaluates(e) \/ AddOnFails(e) \/ ScanFails(e)
Command    == FilterReport \/ Persist \/ Exit

Next == Start \/ Collecting \/ Evaluating \/ Report \/ Command

\* The collectors' runner returns (CollectorRunner, CallReturns), and so do the
\* engines, which are pure functions of the snapshot.
Fairness == WF_vars(Next)

Spec     == Init /\ [][Next]_vars
FairSpec == Spec /\ Fairness
---------------------------------------------------------------------------------
(* Properties.                                                             *)

Kinds(type) == {i \in DOMAIN events : events[i].type = type}
Terminal    == Kinds("scan_completed") \cup Kinds("scan_failed")

\* The events tell one story: started first, each collector once and in order,
\* all of them before the first rule, one terminal event, and nothing after it.
\* Scan has returned when, and only when, the terminal event is out.
EventLogIsWellFormed ==
    /\ \A i \in DOMAIN events : i = 1 <=> events[i].type = "scan_started"
    /\ \A i, j \in DOMAIN events :
          /\ events[i] = events[j] /\ events[i].type # "finding_added" => i = j
          /\ j \in Kinds("collector_done") /\ i \in Kinds("rule_evaluated") \cup Terminal => j < i
    /\ \A j \in Kinds("collector_done") :
          \E i \in Kinds("collector_started") : i < j /\ events[i].of = events[j].of
    /\ Terminal \subseteq {Len(events)}
    /\ Terminal # {} <=> pc \in {"filter", "persist", "exit", "done"}

completed == Kinds("scan_completed") # {}

\* Progress and report agree: what was announced is in the report, what is in
\* the report was announced, whichever engines ran, failed, or repeated a finding.
EventsTellTheReport ==
    completed => {events[i].of : i \in Kinds("finding_added")} = {Key(f) : f \in ToSet(report)}

\* The report has each finding once, as severe as its worst report, with the
\* evidence of all its reports, the worst first.
AggregateIsFaithful ==
    completed =>
      /\ \A i, j \in DOMAIN report :
            i < j => Key(report[i]) # Key(report[j]) /\ ~RanksBefore(report[j], report[i])
      /\ \A f \in ToSet(report) :
            LET same == {g \in ToSet(all) : Key(g) = Key(f)}
            IN  /\ f.ev = UNION {g.ev : g \in same}
                /\ \A g \in same : ~RanksBefore(g, f)

filtered == completed /\ pc \in {"persist", "exit", "done"}

\* A high or critical finding is out of sight only if this very finding, or its
\* ID, was suppressed, or the view asks for other findings.
SevereIsShown ==
    filtered => \A f \in ToSet(report) :
        f.sev >= High /\ f \notin visible =>
            \/ Suppressed(f) \/ f.id \in EvidenceOnly
            \/ opts.view = "ci" /\ f.id \notin CiIds

\* Exit code 0 is earned: a whole scan, a saved report if one was asked for, and
\* nothing in sight that reaches the threshold.  Exit code 1 is too: "baselined
\* findings are treated as suppressed: they [...] do not contribute to exit codes".
ExitIsHonest ==
    /\ exit = "Success" =>
         /\ completed /\ (opts.save => saved = "yes")
         /\ \A c \in Collectors : verdict[c] \notin Incomplete \cup {Undecided}
         /\ opts.threshold # Off => \A f \in visible : f.sev < opts.threshold
    /\ filtered /\ exit = "FindingsExist" /\ ~opts.hidden /\ opts.threshold > 0 =>
         \E f \in ToSet(report) : ~Suppressed(f) /\ f.sev >= opts.threshold
=================================================================================
