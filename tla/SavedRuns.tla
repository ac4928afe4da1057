------------------------------- MODULE SavedRuns -------------------------------
(***************************************************************************)
(* .devdiag/runs of one project: scan --save-report, repro and trace write *)
(* a directory for each run, file by file and in place, while report,      *)
(* issue and capsule create read what is there, the run that --latest      *)
(* stands for first of all.  Every command is a process of its own and may *)
(* be killed; every write may fail.                                        *)
(***************************************************************************)
EXTENDS Integers, Sequences, SequencesExt, FiniteSets

CONSTANTS Users,                 \* processes
          MaxRuns, MaxCommands,  \* bounds on runs and on commands
          MaxTime,               \* and on ticks of the file system's clock
          Never                  \* a time that has not come

ASSUME SavedAssumption ==
    /\ MaxRuns \in Nat \ {0} /\ MaxCommands \in Nat /\ MaxTime \in Nat /\ Never \notin Nat

RunIds == 1..MaxRuns

\* The files of a run in the order its command writes them.
Parts(kind) == CASE kind = "scan"  -> <<"report">>
                 [] kind = "repro" -> <<"report", "repro", "stdout", "stderr">>
                 [] kind = "trace" -> <<"report", "trace">>
                 [] OTHER -> <<>>

Files == {"report", "repro", "stdout", "stderr", "trace"}

VARIABLES clock, commands,       \* the file system's clock; commands begun
          kindOf,                \* per run: the command that made it
          dirTime, content,      \* when its directory last changed; its files
          began, whole, over,    \* when its command began, ended well, was gone
          archive,               \* per run, support-<run>.devdiag.tgz: its members, whether two
                                 \* commands wrote it, and whether the run was whole before
          job                    \* per process

storeVars == <<clock, commands, kindOf, dirTime, content, began, whole, over, archive, job>>

Idle == [at |-> "idle", kind |-> "none", id |-> 0, n |-> 0, clean |-> TRUE, have |-> <<>>, settled |-> FALSE]

NoArchive == [members |-> <<>>, mixed |-> FALSE, settled |-> FALSE]

StoreInit ==
    /\ clock = 0 /\ commands = 0
    /\ kindOf = [i \in RunIds |-> "none"]
    /\ dirTime = [i \in RunIds |-> Never] /\ content = [i \in RunIds |-> [f \in Files |-> "none"]]
    /\ began = [i \in RunIds |-> Never] /\ whole = [i \in RunIds |-> Never] /\ over = [i \in RunIds |-> Never]
    /\ archive = [i \in RunIds |-> NoArchive]
    /\ job = [u \in Users |-> Idle]

Put(u, j) == job' = [job EXCEPT ![u] = j]

Tick ==
    /\ clock < MaxTime /\ clock' = clock + 1
    /\ UNCHANGED <<commands, kindOf, dirTime, content, began, whole, over, archive, job>>
---------------------------------------------------------------------------------
(* Commands that save a run.                                               *)

Used == {i \in RunIds : kindOf[i] # "none"}

BeginRun(u, kind) ==
    /\ job[u] = Idle /\ commands < MaxCommands /\ Used # RunIds
    /\ commands' = commands + 1
    /\ LET i == Cardinality(Used) + 1 IN
          /\ kindOf' = [kindOf EXCEPT ![i] = kind] /\ began' = [began EXCEPT ![i] = clock]
          /\ Put(u, [Idle EXCEPT !.at = "mkdir", !.kind = kind, !.id = i, !.n = 1])
    /\ UNCHANGED <<clock, dirTime, content, whole, over, archive>>

\* The writer is gone; was every file written?
Gone(u, clean) ==
    /\ Put(u, Idle)
    /\ over' = [over EXCEPT ![job[u].id] = clock]
    /\ whole' = IF clean THEN [whole EXCEPT ![job[u].id] = clock] ELSE whole

Stay == UNCHANGED <<over, whole>>

\* persistReport and writeReproArtifacts end with the first error; a trace only
\* warns, and goes on to its second file.
NextPart(u, clean) ==
    LET j == job[u] IN
    IF (clean \/ j.kind = "trace") /\ j.n < Len(Parts(j.kind))
    THEN Put(u, [j EXCEPT !.at = "create", !.n = @ + 1, !.clean = @ /\ clean]) /\ Stay
    ELSE Gone(u, clean /\ j.clean)

\* MkdirAll: repro makes logs/ in it at once.
MakeDir(u) ==
    /\ job[u].at = "mkdir"
    /\ \/ /\ dirTime' = [dirTime EXCEPT ![job[u].id] = clock]
          /\ Put(u, [job[u] EXCEPT !.at = "create"]) /\ Stay
       \/ NextPart(u, FALSE) /\ UNCHANGED dirTime
    /\ UNCHANGED <<clock, commands, kindOf, content, began, archive>>

Part(u) == Parts(job[u].kind)[job[u].n]

\* os.WriteFile makes the file first; that changes the directory it is in, which
\* for a log is logs/.
CreatePart(u) ==
    /\ job[u].at = "create"
    /\ LET i == job[u].id IN
       \/ /\ content' = [content EXCEPT ![i][Part(u)] = "torn"]
          /\ dirTime' = IF Part(u) \in {"stdout", "stderr"} THEN dirTime ELSE [dirTime EXCEPT ![i] = clock]
          /\ Put(u, [job[u] EXCEPT !.at = "fill"]) /\ Stay
       \/ NextPart(u, FALSE) /\ UNCHANGED <<content, dirTime>>
    /\ UNCHANGED <<clock, commands, kindOf, began, archive>>

\* A write that fails leaves what it wrote; chmod may fail after it.
FillPart(u) ==
    /\ job[u].at = "fill"
    /\ LET filled == [content EXCEPT ![job[u].id][Part(u)] = "whole"] IN
       \/ content' = filled /\ NextPart(u, TRUE)
       \/ content' \in {content, filled} /\ NextPart(u, FALSE)
    /\ UNCHANGED <<clock, commands, kindOf, dirTime, began, archive>>
---------------------------------------------------------------------------------
(* Commands that read a run.                                               *)

Dirs == {i \in RunIds : dirTime[i] # Never}

\* Mutant: the first directory in the order of names.
LatestByName == {i \in Dirs : \A d \in Dirs : i <= d}

\* FindLatestRunID: the directory that changed last; of several, the first in the
\* order of names, in which IDs of one second are at random.
Latest == {i \in Dirs : \A d \in Dirs : dirTime[i] >= dirTime[d]}

\* A run is named, or the latest is taken; one that is not there is an error.
BeginRead(u, kind) ==
    /\ job[u] = Idle /\ commands < MaxCommands
    /\ commands' = commands + 1
    /\ \E i \in Dirs :
          /\ i \in Latest \/ kind = "capsule"
          /\ Put(u, [Idle EXCEPT !.at = "read", !.kind = kind, !.id = i, !.n = 1, !.settled = whole[i] # Never])
    /\ UNCHANGED <<clock, kindOf, dirTime, content, began, whole, over, archive>>

\* What capsule create reads, in its order; report and issue stop at the first.
Reads(kind) == IF kind = "capsule" THEN <<"report", "repro", "stdout", "stderr", "trace">> ELSE <<"report">>

\* JSON that is cut short does not parse: a report is then an error, other files
\* are left out; logs are taken as they are.
Taken(f, x) == IF x = "none" \/ (x = "torn" /\ f \notin {"stdout", "stderr"}) THEN <<>> ELSE <<[file |-> f, is |-> x]>>

\* The archive is opened, and emptied, after the second file.
ReadPart(u) ==
    /\ job[u].at = "read"
    /\ LET j == job[u]
           f == Reads(j.kind)[j.n]
           x == content[j.id][f]
       IN  IF f = "report" /\ (x # "whole" \/ j.kind = "report") THEN Put(u, Idle)
           ELSE Put(u, [j EXCEPT !.have = @ \o Taken(f, x),
                                 !.n = @ + 1,
                                 !.at = CASE f = "repro" -> "open" [] f = "trace" -> "build" [] OTHER -> "read"])
    /\ UNCHANGED <<clock, commands, kindOf, dirTime, content, began, whole, over, archive>>

OpenArchive(u) ==
    /\ job[u].at = "open"
    /\ LET emptied == [archive EXCEPT ![job[u].id] = NoArchive] IN
       \/ archive' = emptied /\ Put(u, [job[u] EXCEPT !.at = "read"])
       \/ archive' \in {archive, emptied} /\ Put(u, Idle)     \* cannot be opened, or chmod fails
    /\ UNCHANGED <<clock, commands, kindOf, dirTime, content, began, whole, over>>

Manifest == [file |-> "manifest", is |-> "whole"]

\* Mutant: the manifest is written first.
MembersManifestFirst(u) == <<Manifest>> \o job[u].have

Members(u) == job[u].have \o <<Manifest>>

\* Build: members go through gzip's buffer, into a file that another command may
\* have written since it was opened.
Written(u, k) ==
    LET a == archive[job[u].id] IN
    archive' = [archive EXCEPT ![job[u].id] = [members |-> SubSeq(Members(u), 1, k),
                                               mixed   |-> a.mixed \/ a.members # <<>>,
                                               settled |-> job[u].settled]]

\* An error while a member is written is told (and a kill leaves the same behind);
\* one that comes when the writers are closed is not looked at.
BuildArchive(u) ==
    /\ job[u].at = "build"
    /\ \E k \in 0..Len(Members(u)) :
          /\ Written(u, k)
          /\ \/ Put(u, [job[u] EXCEPT !.at = "created"])
             \/ k < Len(Members(u)) /\ Put(u, Idle)
    /\ UNCHANGED <<clock, commands, kindOf, dirTime, content, began, whole, over>>

\* "Capsule created".
SayCreated(u) ==
    /\ job[u].at = "created"
    /\ Put(u, Idle)
    /\ UNCHANGED <<clock, commands, kindOf, dirTime, content, began, whole, over, archive>>

\* capsule inspect, and issue template --capsule.
Valid(a) == \E i \in DOMAIN a.members : a.members[i].file = "manifest"
---------------------------------------------------------------------------------
Kill(u) ==
    /\ job[u] # Idle
    /\ IF job[u].at \in {"mkdir", "create", "fill"} THEN Gone(u, FALSE) ELSE Put(u, Idle) /\ Stay
    /\ UNCHANGED <<clock, commands, kindOf, dirTime, content, began, archive>>

StoreStep(u) ==
    \/ MakeDir(u) \/ CreatePart(u) \/ FillPart(u)
    \/ ReadPart(u) \/ OpenArchive(u) \/ BuildArchive(u) \/ SayCreated(u) \/ Kill(u)

StoreBegin(u) == \/ \E kind \in {"scan", "repro"} : BeginRun(u, kind)
                 \/ \E kind \in {"report", "capsule"} : BeginRead(u, kind)

StoreNext == Tick \/ \E u \in Users : StoreStep(u) \/ StoreBegin(u)

StoreSpec == StoreInit /\ [][StoreNext]_storeVars
---------------------------------------------------------------------------------
(* Properties.                                                             *)

\* --latest: a run is never taken for the latest when another was begun after all
\* of it was over, and was saved whole.
LatestIsLast ==
    \A l \in Latest, b \in RunIds : over[l] # Never /\ whole[b] # Never => over[l] >= began[b]

\* A capsule of a run that had been saved whole and that capsule inspect calls
\* valid has all files of the run, each of them whole - but for archives that two
\* commands wrote at the same time.
CapsuleIsWhole ==
    \A i \in RunIds :
        Valid(archive[i]) /\ archive[i].settled /\ ~archive[i].mixed =>
            \A f \in ToSet(Parts(kindOf[i])) : [file |-> f, is |-> "whole"] \in ToSet(archive[i].members)

\* "capsule inspect validates a generated capsule": what is said to be created is
\* an archive with a manifest.
CreatedIsValid ==
    \A u \in Users : job[u].at = "created" => Valid(archive[job[u].id])
=================================================================================
