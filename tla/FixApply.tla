-------------------------------- MODULE FixApply --------------------------------
(***************************************************************************)
(* "devdiag fix": runFix, Planner.Resolve, Executor.Execute and            *)
(* AuditLog.Write.  Several processes may run it in one repository; they   *)
(* share the append-only audit log.  One AuditLog.Write is two appends, of *)
(* the entry and of its newline, and may fail at either; a process may be  *)
(* killed at any step; a fix command may end in every way cmdrunner knows. *)
(***************************************************************************)
EXTENDS Naturals, Sequences, FiniteSets

CONSTANTS Fixers,        \* processes that run devdiag fix
          Hints,         \* fix hints a finding may carry
          Registered,    \* those whose template is applicable and can be bound
          Class,         \* [Hints -> Classes], the class of the template
          Blocklisted,   \* those whose bound command IsBlockedCommand matches
          CommandLines,  \* what the processes may be asked to do
          MaxFaults,     \* bound on failed writes of the audit log
          MaxCrashes,    \* bound on killed processes
          NoHint         \* no --hint

Classes  == {"safe", "guarded", "manual", "blocked"}
Outcomes == {"ok", "exit", "timeout", "notFound", "perm"}
Kinds    == {"preflight", "refused", "executed"}

\* apply and fresh are flags, tty says whether stdin is a terminal, found
\* whether the report has the finding, and hints are the finding's FixHints.
CommandLineType == [apply: BOOLEAN, fresh: BOOLEAN, tty: BOOLEAN, found: BOOLEAN,
                    hint: Hints \cup {NoHint}, hints: Seq(Hints)]

ASSUME FixAssumption ==
    /\ Registered \subseteq Hints /\ Blocklisted \subseteq Hints
    /\ Class \in [Hints -> Classes] /\ NoHint \notin Hints
    /\ \A l \in CommandLines : l \in CommandLineType
    /\ MaxFaults \in Nat /\ MaxCrashes \in Nat

VARIABLES line,       \* the command line of each process
          pc,         \* where each process is
          queue,      \* proposals that are still to be executed
          half,       \* the entry is in the log, its newline is not
          confirmed,  \* did the user confirm the proposal at hand?
          ran,        \* the commands each process ran, with their outcome
          flags,      \* runFix's refused, internalErr and permDenied
          exit,       \* the exit code of a process that ended
          log,        \* the audit log: entries and newlines as they were appended
          faults, crashes

procVars == <<line, pc, queue, half, confirmed, ran, flags, exit>>
vars     == <<procVars, log, faults, crashes>>

Flags == {"refused", "internalErr", "permDenied"}
Codes == {"Success", "InvalidInput", "CollectorPartial", "PermissionDenied",
          "UnsafeRefused", "InternalError"}

TypeOK ==
    /\ line \in [Fixers -> CommandLines]
    /\ pc \in [Fixers -> {"resolve", "blocked", "preflight", "gate", "refusal", "run",
                          "final", "exit", "ended"}]
    /\ queue \in [Fixers -> Seq(Registered)]
    /\ half \in [Fixers -> BOOLEAN] /\ confirmed \in [Fixers -> BOOLEAN]
    /\ ran \in [Fixers -> Seq([hint: Hints, outcome: Outcomes])]
    /\ flags \in [Fixers -> SUBSET Flags]
    /\ exit \in [Fixers -> Codes \cup {"none", "killed"}]
    /\ log \in Seq([by: Fixers, part: {"entry", "newline"}, kind: Kinds, hint: Hints])
    /\ faults \in 0..MaxFaults /\ crashes \in 0..MaxCrashes

Init ==
    /\ line \in [Fixers -> CommandLines]
    /\ pc = [p \in Fixers |-> "resolve"]
    /\ queue = [p \in Fixers |-> <<>>]
    /\ half = [p \in Fixers |-> FALSE]
    /\ confirmed = [p \in Fixers |-> FALSE]
    /\ ran = [p \in Fixers |-> <<>>]
    /\ flags = [p \in Fixers |-> {}]
    /\ exit = [p \in Fixers |-> "none"]
    /\ log = <<>> /\ faults = 0 /\ crashes = 0
---------------------------------------------------------------------------------
(* Planning.                                                               *)

\* The hints of hs that are in S, in the order given.
Select(hs, S) ==
    LET kept[i \in 0..Len(hs)] ==
          IF i = 0 THEN <<>>
          ELSE IF hs[i] \in S THEN Append(kept[i - 1], hs[i]) ELSE kept[i - 1]
    IN  kept[Len(hs)]

OfClass(hs, c) == Select(hs, {h \in Hints : Class[h] = c})

\* Safe before guarded before manual before blocked, else in the order given.
RankProposals(hs) == OfClass(hs, "safe") \o OfClass(hs, "guarded")
                     \o OfClass(hs, "manual") \o OfClass(hs, "blocked")

\* Hints without a template that can be bound yield no proposal.
Resolve(l) == RankProposals(Select(l.hints, Registered))

FilterByHint(l, hs) ==
    IF l.hint = NoHint THEN hs ELSE Select(hs, {l.hint})

Exit(p, code) == /\ pc' = [pc EXCEPT ![p] = "ended"]
                 /\ exit' = [exit EXCEPT ![p] = code]

\* Where Execute begins for a proposal.
EntryOf(h) == IF Class[h] = "blocked" THEN "blocked" ELSE "preflight"

Begin(p, hs) ==
    /\ queue' = [queue EXCEPT ![p] = hs]
    /\ pc' = [pc EXCEPT ![p] = IF hs = <<>> THEN "exit" ELSE EntryOf(Head(hs))]

\* No report, or the fresh scan failed.
NoReport(p) ==
    /\ pc[p] = "resolve"
    /\ Exit(p, "CollectorPartial")
    /\ UNCHANGED <<line, queue, half, confirmed, ran, flags, log, faults, crashes>>

\* From Resolve to the loop over the proposals.
Plan(p) ==
    /\ pc[p] = "resolve"
    /\ LET l == line[p]
           proposals == Resolve(l)
           chosen == FilterByHint(l, proposals)
       IN IF ~l.found
          THEN Exit(p, IF l.fresh THEN "Success" ELSE "InvalidInput") /\ UNCHANGED queue
          ELSE IF proposals = <<>> THEN Exit(p, "Success") /\ UNCHANGED queue
          ELSE IF chosen = <<>> THEN Exit(p, "InvalidInput") /\ UNCHANGED queue
          ELSE IF l.apply /\ l.hint = NoHint /\ Len(chosen) > 1
          THEN Exit(p, "UnsafeRefused") /\ UNCHANGED queue
          ELSE Begin(p, IF l.apply THEN chosen ELSE <<>>) /\ UNCHANGED exit
    /\ UNCHANGED <<line, half, confirmed, ran, flags, log, faults, crashes>>
---------------------------------------------------------------------------------
(* What runFix makes of Execute's error.                                   *)

This(p) == Head(queue[p])

Next1(p) == Begin(p, Tail(queue[p]))

\* Execute returned an error: denied if it wraps ErrPermissionDenied.
Fail(p, denied) ==
    /\ flags' = [flags EXCEPT ![p] = @ \cup
                   {IF denied THEN "permDenied"
                    ELSE IF Class[This(p)] # "safe" THEN "refused"
                    ELSE "internalErr"}]
    /\ Next1(p)

Succeed(p) == Next1(p) /\ UNCHANGED flags
---------------------------------------------------------------------------------
(* AuditLog.Write, from preflight, refusals and the final entry.           *)

EntryKind(p) == CASE pc[p] = "preflight" -> "preflight"
                  [] pc[p] \in {"blocked", "refusal"} -> "refused"
                  [] pc[p] = "final" -> "executed"

LastOutcome(p) == ran[p][Len(ran[p])].outcome

\* Mutant: the command runs whether or not its preflight entry could be written.
AuditReturnsIgnored(p, err) ==
    CASE pc[p] = "preflight" -> pc' = [pc EXCEPT ![p] = "gate"] /\ UNCHANGED <<queue, flags>>
      [] pc[p] \in {"blocked", "refusal"} -> Fail(p, FALSE)
      [] pc[p] = "final" -> IF err = "nil" /\ LastOutcome(p) = "ok" THEN Succeed(p)
                            ELSE Fail(p, err = "nil" /\ LastOutcome(p) = "perm")

\* Mutant: an unwritten final entry does not fail the fix.
AuditReturnsUnlessFinal(p, err) ==
    CASE pc[p] = "preflight" ->
           IF err = "nil" THEN pc' = [pc EXCEPT ![p] = "gate"] /\ UNCHANGED <<queue, flags>>
           ELSE Fail(p, err = "perm")
      [] pc[p] \in {"blocked", "refusal"} -> Fail(p, FALSE)
      [] pc[p] = "final" -> IF LastOutcome(p) = "ok" THEN Succeed(p)
                            ELSE Fail(p, LastOutcome(p) = "perm")

\* Write returned: refusals ignore its error, preflight refuses on it, and an
\* unwritten final entry fails the fix, whatever its command did.
AuditReturns(p, err) ==
    CASE pc[p] = "preflight" ->
           IF err = "nil" THEN pc' = [pc EXCEPT ![p] = "gate"] /\ UNCHANGED <<queue, flags>>
           ELSE Fail(p, err = "perm")
      [] pc[p] \in {"blocked", "refusal"} -> Fail(p, FALSE)
      [] pc[p] = "final" -> IF err = "nil" /\ LastOutcome(p) = "ok" THEN Succeed(p)
                            ELSE Fail(p, err = "nil" /\ LastOutcome(p) = "perm")

Writing(p) == pc[p] \in {"blocked", "preflight", "refusal", "final"}

Appended(p, part) ==
    Append(log, [by |-> p, part |-> part, kind |-> EntryKind(p), hint |-> This(p)])

WriteEntry(p) ==
    /\ Writing(p) /\ ~half[p]
    /\ log' = Appended(p, "entry")
    /\ half' = [half EXCEPT ![p] = TRUE]
    /\ UNCHANGED <<line, pc, queue, confirmed, ran, flags, exit, faults, crashes>>

WriteNewline(p) ==
    /\ Writing(p) /\ half[p]
    /\ log' = Appended(p, "newline")
    /\ half' = [half EXCEPT ![p] = FALSE]
    /\ AuditReturns(p, "nil")
    /\ UNCHANGED <<line, confirmed, ran, exit, faults, crashes>>

\* MkdirAll, OpenFile or the Write of the entry fails (os.ErrPermission, if it
\* was denied), or the Write of the newline, or the Sync after it.
WriteFails(p) ==
    /\ Writing(p) /\ faults < MaxFaults
    /\ faults' = faults + 1
    /\ IF half[p]
       THEN log' \in {log, Appended(p, "newline")} /\ AuditReturns(p, "other")
       ELSE UNCHANGED log /\ \E err \in {"other", "perm"} : AuditReturns(p, err)
    /\ half' = [half EXCEPT ![p] = FALSE]
    /\ UNCHANGED <<line, confirmed, ran, exit, crashes>>
---------------------------------------------------------------------------------
(* The gates and the command.                                              *)

\* Mutant: guarded fixes of a saved report do not need --fresh.
GateUnlessStale(p) ==
    /\ pc[p] = "gate"
    /\ IF Class[This(p)] = "guarded"
       THEN \E yes \in (IF line[p].tty THEN BOOLEAN ELSE {FALSE}) :
               /\ confirmed' = [confirmed EXCEPT ![p] = yes]
               /\ pc' = [pc EXCEPT ![p] = IF yes THEN "run" ELSE "refusal"]
       ELSE /\ confirmed' = [confirmed EXCEPT ![p] = FALSE]
            /\ pc' = [pc EXCEPT ![p] = IF Class[This(p)] = "manual" THEN "refusal" ELSE "run"]
    /\ UNCHANGED <<line, queue, half, ran, flags, exit, log, faults, crashes>>

\* A guarded fix needs a fresh scan and a user at a terminal who says yes.
Gate(p) ==
    /\ pc[p] = "gate"
    /\ IF Class[This(p)] = "guarded"
       THEN \E yes \in (IF line[p].fresh /\ line[p].tty THEN BOOLEAN ELSE {FALSE}) :
               /\ confirmed' = [confirmed EXCEPT ![p] = yes]
               /\ pc' = [pc EXCEPT ![p] = IF yes THEN "run" ELSE "refusal"]
       ELSE /\ confirmed' = [confirmed EXCEPT ![p] = FALSE]
            /\ pc' = [pc EXCEPT ![p] = IF Class[This(p)] = "manual" THEN "refusal" ELSE "run"]
    /\ UNCHANGED <<line, queue, half, ran, flags, exit, log, faults, crashes>>

\* The runtime blocklist: an error without an audit entry.
RunBlocked(p) ==
    /\ pc[p] = "run" /\ This(p) \in Blocklisted
    /\ Fail(p, FALSE)
    /\ UNCHANGED <<line, half, confirmed, ran, exit, log, faults, crashes>>

RunCommand(p) ==
    /\ pc[p] = "run" /\ This(p) \notin Blocklisted
    /\ \E o \in Outcomes :
          ran' = [ran EXCEPT ![p] = Append(@, [hint |-> This(p), outcome |-> o])]
    /\ pc' = [pc EXCEPT ![p] = "final"]
    /\ UNCHANGED <<line, queue, half, confirmed, flags, exit, log, faults, crashes>>

ExitCodeFromFixResults(fs) ==
    IF "internalErr" \in fs THEN "InternalError"
    ELSE IF "permDenied" \in fs THEN "PermissionDenied"
    ELSE IF "refused" \in fs THEN "UnsafeRefused"
    ELSE "Success"

ReportExit(p) ==
    /\ pc[p] = "exit"
    /\ Exit(p, ExitCodeFromFixResults(flags[p]))
    /\ UNCHANGED <<line, queue, half, confirmed, ran, flags, log, faults, crashes>>

Kill(p) ==
    /\ pc[p] # "ended" /\ crashes < MaxCrashes
    /\ crashes' = crashes + 1
    /\ Exit(p, "killed")
    /\ UNCHANGED <<line, queue, half, confirmed, ran, flags, log, faults>>
---------------------------------------------------------------------------------
Step(p) == \/ NoReport(p) \/ Plan(p)
           \/ WriteEntry(p) \/ WriteNewline(p) \/ WriteFails(p)
           \/ Gate(p) \/ RunBlocked(p) \/ RunCommand(p) \/ ReportExit(p)

Next == \E p \in Fixers : Step(p) \/ Kill(p)

Spec     == Init /\ [][Next]_vars
---------------------------------------------------------------------------------
(* Properties.                                                             *)

\* How many whole lines of kind k p has entered for hint h.
LinesOf(p, k, h) ==
    Cardinality({i \in 1..Len(log) :
                   log[i] = [by |-> p, part |-> "newline", kind |-> k, hint |-> h]})

RunsOf(p, h) == Cardinality({i \in 1..Len(ran[p]) : ran[p][i].hint = h})

\* No command runs before the log holds a preflight entry for this very run of
\* it, whatever other processes write and whichever writes fail.
MutationIsAnnounced ==
    [][\A p \in Fixers : \A h \in Hints :
         RunsOf(p, h)' > RunsOf(p, h) => LinesOf(p, "preflight", h) > RunsOf(p, h)]_vars

\* What runs is what the user asked for: a safe fix, or a guarded one that was
\* confirmed against a fresh scan, the only one or one chosen with --hint.
NothingRunsUnasked ==
    [][\A p \in Fixers : ran'[p] # ran[p] =>
         /\ line[p].apply
         /\ Class[This(p)] = "safe" \/ (Class[This(p)] = "guarded" /\ confirmed[p]
                                        /\ line[p].fresh)
         /\ line[p].hint = This(p) \/ (line[p].hint = NoHint
                                       /\ Resolve(line[p]) = <<This(p)>>)]_vars

\* A process asked to apply that exits with 0 ran everything it chose, each
\* command succeeded, and the log has a whole entry for each.
SuccessIsTrue ==
    \A p \in Fixers : exit[p] = "Success" /\ line[p].apply /\ line[p].found =>
        /\ Len(ran[p]) = Len(FilterByHint(line[p], Resolve(line[p])))
        /\ \A k \in DOMAIN ran[p] : ran[p][k].outcome = "ok"
        /\ \A h \in Hints : LinesOf(p, "executed", h) = RunsOf(p, h)

\* "AuditLog writes append-only JSON lines": no entry follows another one
\* without a newline between them.
EntriesAreLines ==
    \A k \in 1..(Len(log) - 1) : log[k].part = "entry" => log[k + 1].part = "newline"
=================================================================================
