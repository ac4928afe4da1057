# devdiag: TLA+ models and proofs

This directory holds formal models of devdiag, the TLC configurations that check
them on small instances, and TLAPS proofs of theorems about them.  Line numbers
refer to `src/`, the repository at the commit the models were made from.

Contents: [the system](#the-system), [modules](#modules), [runs](#runs),
[known divergences](#known-divergences), [fairness](#fairness),
[proofs](#proofs), [limits](#limits), [plan](#plan).

## The system

devdiag is a command line tool.  A *scan* runs some thirty *collectors* against a
repository and its host, gives their results to *rule engines*, and reports
*findings*; other commands fix, suppress, trace, reproduce or show what was
found, work on a remote target, or update devdiag itself.

| part | state it keeps | operations | what is hard, and what makes it correct |
|---|---|---|---|
| `collectors/runner.go` | one slot per result, a channel of results, per collector a context and a channel | `RunWithObserver`, `runOne` | one goroutine per collector and one more per call of `Collect`; budgets, a grace period, panics, cancellation, late answers. Every collector has one result, in its place, honest about what is missing, and the call returns |
| `collectors/*` | none | `Collect` | read files, run commands; some hang. Evidence must match the status |
| `cmdrunner`, `trace/runner.go` | process group, captured output | `RunWithOptions`, `runWithGroupKill` | deadline against exit, children that daemonise or ignore signals, output caps. The result is the truth about the command; interrupted calls return |
| `app/scan.go`, `app/events.go` | event stream, accumulated findings | `Scan`, `Emit` | concurrent emitters, engines that fail after others have announced findings. Events and report tell one story |
| `findings/aggregator.go` | none | `Add` | duplicates from several engines. The worst severity and all evidence survive |
| `relevance`, `cli/scan.go`, `cli/shared.go` | none | `IsHidden`, `FilterReport`, `persistReport`, exit codes | suppressions, views, thresholds, incomplete collectors. Nothing severe disappears unasked; 0 is earned |
| `tui` | the accepted session, progress, report; a bounded channel per scan | `startScan`, `nextEvent`, `Update`, `ReRun`, `cancelScan` | messages of several scans in any order, a full channel, quit and cancel at any moment. No mixing, no loss, no hang |
| `updater` | installed binary, `.old`, `.new`, lock file | `SwapBinary`, `acquireLock`, rollback | crashes and I/O errors between any two steps, several updaters, stale locks. Updaters do not interleave, a complete binary remains, updates are all or nothing: as long as no lock is stolen from its owner |
| `fix` | audit log, the working tree | `Resolve`, `Execute`, `AuditLog.Write` | gates by class of fix, confirmation, stale evidence, failing audit writes, kills. Nothing runs unasked or unannounced |
| `remote` | session directories on the target, manifests in a local cache | `sync`, `enter`, `clean` | failing commands, killed clients, several clients, torn cache files, quoting. What is called cleaned is clean |
| `baseline` | one file of suppressions | load, prune, add, remove, import, save | concurrent load-change-save, crash in a save, expired entries |
| `artifact`, `capsule`, `repro` | `.devdiag/runs`, `.devdiag/capsules` | save a run, find the latest, pack and inspect it | files written in place and read meanwhile, equal times, kills between two files. `--latest` is the latest; a valid capsule is whole |
| `trace` parser, eBPF | the strace file; maps, ring and channel of the eBPF reader | `Run`, `readTraceFile`, `RunEBPF`, `analyze`, fallbacks | calls of several threads interrupted and resumed, the event cap, a full ring, a reader that fills a channel. Events happened; what is missing is admitted; the exit code is honest whatever `--fail-severity` says; the command returns, unless a process left its group |
| `agent` | a sandbox copy | copy, run, clean up | cleanup that fails after the run |
| `rules` | none | `M1Engine`, `M6Engine`, `M8Engine` | evidence is missing when a probe failed, and most rules cannot tell. No false alarm, no silent gap |
| `rulepack`, `configschema`, `redact`, `pathfilter`, `domain`, `schema`, `output`, `logging` | none | pure functions and tables | the right finding for the evidence, nothing secret in the output |
| `scripts/` | the installation | install, action | the shell form of the update |

How they interact.  `scan` and the TUI call `app.Scan`, which calls the collector
runner and is called back by it (`eventObserver`), from several goroutines at
once, through a mutex (`MutexSink`).  Collectors and fixes run external programs
through `cmdrunner`.  The TUI receives events through a channel and messages
through bubbletea's loop.  Fixes read saved reports; scans read the baseline.
Processes of devdiag share files with each other (audit log, update lock and
binaries, session cache, baseline) and no memory.

## Modules

| module | models | correspondence |
|---|---|---|
| `ScatterGather` | what `RunWithObserver` promises its caller | abstract: every task is decided once, the call returns when all are |
| `CollectorRunner` (`MCCollectorRunner`) | `collectors/runner.go` | per collector a *worker* goroutine (`wpc`), a *body* goroutine (`bpc`), the `done` channel and `collectCtx`; the caller's loop and `resultCh`. Both arms of a `select` that are ready are alternatives. `Answers` are what `Collect` may return |
| `CollectorRunnerProofs`, `UpdateSwapProofs`, `TuiSessionProofs`, `CmdRunnerProofs`, `FixApplyProofs`, `RemoteSessionProofs`, `ScanPipelineProofs`, `TracedRunsProofs` | theorems about the module each is named after | see [proofs](#proofs) |
| `CmdRunner` | `cmdrunner/runner.go`, `buffer.go`, `trace/runner.go:159-185` | `pc` walks through the selects; `waiter` is the goroutine in `cmd.Wait` with `waitCh`; processes, their group and their hold on the pipe are the environment |
| `ScanPipeline` (`MCScanPipeline`) | `app/scan.go`, `app/events.go`, `findings`, `relevance`, `cli/scan.go`, exit codes in `cli/shared.go` | `pc` is where `Scan` and then `scanCmd` are; the collectors are `ScatterGather` (INSTANCE), so that the proof about `CollectorRunner` carries over; aggregation and filtering are operators |
| `TuiSession` | `tui/update.go`, `tui/model.go` | per scan its goroutine (`scan`), its channel, `done`, and the messages its commands have put into the loop; `HandleStarted`, `HandleEvent`, `HandleDone`, `ReRun`, `Quit` are `Update`'s cases |
| `UpdateSwap` | `updater/swap.go`, called from `cli/update.go` | one `pc` per updater process; the files `target`, `old`, `staged` hold a release, nothing, or something `Torn`; `lock` has an owner and an age; `runs` says which processes run the very file that `target` names; `stolen` and `overtaken` are history variables |
| `FixApply` (`MCFixApply`) | `cli/fix.go`, `fix/planner.go`, `fix/executor.go`, `fix/audit.go` | one `pc` per `devdiag fix` process; `log` is the file, with each append a step |
| `RemoteSession` | `cli/remote.go`, `remote/session`, `remote/inject/upload.go` | one `pc` per client process; `remote` is the set of files on the target, each with the path the shell gave it; `cache` the local manifests |
| `Evidence` | the results that collectors give to rules | a status, the partial flag, evidence by source |
| `RepoEvidence`, `HostEvidence` | `collectors/*`: what each reports of the files it reads and the commands it runs | one operator per `Collect`; the host is a record with a field per file or command, each of which may be denied, malformed, failing or slow |
| `Versions`, `M1Rules`, `M6Rules`, `M8Rules` | `rules/*engine.go` | one operator per rule function; a finding is an ID, a severity and what it is about |
| `Diagnosis` (`MCDiagnosis`) | `app/options.go`, the check commands, and the composition of collectors and rules | `truth` is a host, `failed` the probes that fail on it, `report` what a scan says; probes fail one after another |
| `TraceCapture` | `cli/trace.go`, `trace/*`, the eBPF programs | per thread its place in its script and the call it is in; `file` is strace's output line by line; `pending`, `ring`, `hand`, `chan` are the way of an eBPF event; `phase` is where the command is |
| `SavedRuns` | `artifact`, `capsule`, saving by `scan`, `repro` and `trace`, reading by `report`, `issue` and `capsule` | one `pc` per process; a run is its files in the order its command writes them; an archive is the sequence of its members, or cut short |
| `TracedRuns` (`MCTracedRuns`) | the whole trace command | composition: `TraceCapture`, then `SavedRuns` with other commands beside it |
| `BaselineStore` (`MCBaselineStore`) | `baseline/baseline.go`, `cli/baseline.go`, what `scan` does with the file | one `pc` per devdiag process: load, change (`mem`), temporary file (`tmp`), rename; `file` is a set of entries, nothing, or `Torn`; `report` the latest saved report; `fresh` is a history variable: nobody else has saved since this process looked |

`PROJECT.json` maps each definition to the lines it translates.  Definitions
whose comment starts with *Mutant* are not part of a model: each is a plausible
bug in the code that one property must find.

Data is abstracted to what the properties tell apart.  A collector's result is
its status, whether it is marked partial, and the errors its notes name; a
finding is an ID, a title, a symptom, a severity, a confidence and
evidence: the aggregator tells findings apart by the first three (`Key`), the
baseline by ID and symptom (`Fingerprint`); a binary is its release; a path is which file and how it was quoted; a
command's output is a number of bytes.  Findings are compared after redaction in
`relevance` and before it in the aggregator; the models take an instance's
identity to survive redaction.

## Runs

Each module has a type invariant, `TypeOK` (or `CaptureTypeOK`).  It is not a
property of the runs listed here, as it tells little about the code; it is proved
for every module that has a proof module (for `SavedRuns` it is `StoreTypeOK`, a
conjunct of the proved invariant).

| run | instance | what it shows |
|---|---|---|
| `CollectorRunner` | 2 collectors, one with a budget, 4 answers, a panic, or none; a context that ends or not | `ReturnedAsAnnounced`: slot i holds collector i's result, the one the observer saw; `PunctualAnswerSurvives`: an answer before the budget's end is not lost to others' trouble; `IncompleteIsMarked`: hung, failed or panicked collectors are marked; `Promise`: it implements `ScatterGather`; `CallReturns`, `LateBodyEnds` |
| `CmdRunner` | 3 processes, up to 2 bytes, cap of 1 byte, both callers | `OutputIsWhole`, `ResultIsHonest`, `SurvivorsAreQuiet`: what an interrupted command may leave behind, `InterruptedCallReturns` |
| `ScanPipeline` | 2 collectors with 3 statuses, 4 outputs per engine, 24 option sets | `EventLogIsWellFormed`, `EventsTellTheReport`, `AggregateIsFaithful`, `SevereIsShown`, `ExitIsHonest` |
| `Diagnosis` | some thousand hosts, each a quiet one changed in a part, up to 2 of 31 probes failing | `UnmarkedMeansTrue`: a report without a mark of incompleteness is the report of the whole host, but for the probes named in `Silent`; `FalseAlarmsAreKnown`: a failing probe raises no false finding but those in `Alarms`; `VersionsMeanWhatTheySay`: version checks against a reference reading of ranges; `ChecksMissNothing`: `devdiag check` against `scan`; `SameServicesNoDrift` |
| `TracedRuns` | 3 programs of 2 or 3 threads, a child that leaves the group, a strace with and without `--kill-on-exit`, both backends, a cap of 2 events, ring and channel of 1; then 2 runs and 3 commands | `EventsAreReal`: an event's name and result are of one call that was made; `MissingIsSaid`: calls that are not in the trace are admitted, where the code can know; `TraceExitIsHonest`: exit codes 0, 1 and 7 for every `--fail-severity`; `LatestIsLast`; `CapsuleIsWhole`; `TraceReturns` |
| `TuiSession` | 3 scans, 2 events each, a channel of 1 | `ProgressIsAPrefix`: progress shown is a prefix of one scan's events; `OutcomeIsComplete`: an outcome comes after all of them; `ScanningEnds` |
| `UpdateSwap` | 2 updaters, started at any time, 3 releases, a crash, any I/O error, a lock left behind that ages | `OnlyTheftInterleaves`: two updaters swap at once only after a lock was removed from under its owner; `OnlyOvertakingLosesBoth`: target or backup is complete at any moment, unless a lock was stolen, or broken by a process whose own binary had been replaced; `SwapIsAllOrNothing`; `LockIsFreedAgain` |
| `FixGates` | every class of fix, every flag, 2 failing audit writes, a kill | `MutationIsAnnounced`: a preflight entry precedes what runs; `NothingRunsUnasked`; `SuccessIsTrue` |
| `RemoteSession` | 2 clients, 2 sessions of 2 files, a fault, a kill | `CleanedIsClean`, `ReportIsHonest`, `CachedIsCleanedAtLast` |
| `BaselineStore` | 2 processes, 3 commands out of 12 command lines, 3 findings, 2 units of time, a hand-written file or none | `EntriesChangeAsAsked`: an entry comes or goes only when a command names it, it expired, a forced create drops it, or two saves overlap |
| `UpdateLockRace`, `RemoteSshClean` | small | a documented promise the code breaks, see below |

Why these bounds are enough.  Collectors interact only through the caller's loop
and the scan's context, so two of them, with different bounds on their time, show
every kind of interference; the theorems hold for any number.  The command's
third process is the first that can be both out of the group and a child of a
child.  Two bytes and a cap of one reach all cases of `CappedBuffer.Write`.  Two
engines suffice for a duplicate; three can run in one scan.  Three scans let a
message of the first overtake those of both others.  A lock race needs two
updaters and one crash.  `Overruns = FALSE` lets only the lock of a dead process
grow older than an hour; the theorems hold for `TRUE` as well.  The updaters may
be started at a stale lock, and the run reaches the race of `UpdateLockRace` and
the late backup of `UpdateLateBackup`: its properties say that these are the only
ways to what the two violate.  Three baseline commands are a scan that saves its
report, a create from it, and one that overlaps both.  Two files in a session let the first or the last
removal fail; two clients overlap in any pair of operations.  A host of
`MCDiagnosis` differs from the quiet one in what one family of rules reads;
rules of different families share no evidence but the configuration's, and two
failures show every pair that one rule reads.  A cap of two events falls before,
between and after the two lines of an interrupted call; a ring of one is full
at the second event.  A run of another command can be begun before, during and
after the traced one is saved, packed and read.

Constants that are bounds and nothing else: `MaxBytes`, `MaxReruns`,
`EventsPerScan`, `ChannelCap`, `Newest`, `MaxCrashes`, `MaxFaults`,
`MaxSessions`, `NumFiles`, `MaxCommands`, `MaxTime`, `MaxRuns`, `RingCap`,
`ChanCap`, `MaxFailed`, `DenialCap` (20 in the code). `MaxEvents` is an option of
the program.  Where a run says `CHECK_DEADLOCK FALSE`, the system
really stops: a call that has returned, a command that has exited.

## Known divergences

What the code does, against what its own comments, help or tests say.  The first
two are runs of the project; the others have a property in their module and a
configuration that reproduces them (`tlc -config X.cfg M`).

| configuration, property | divergence |
|---|---|
| `UpdateLockRace`, `MutualExclusion` | "two concurrent updaters must not interleave" (`updater/swap.go:39-41`): a lock is found stale and removed by name in two steps, so that a fresh lock can be removed |
| `RemoteSshClean`, `CleanedIsClean` | SSH paths: upload quotes `$HOME`, clean quotes `~`; a clean removes nothing and records `cleaned` |
| `TuiSinkBlocks`, `CancelledScanEnds` | "ensures progress events never deadlock" (`tui/update.go:35`): a cancelled scan that nobody reads waits in `Emit` |
| `TuiRerunCancels`, `ReRunCancelsActive` | "cancelling any active scan first" (`tui/model.go:288`): not before the started message was handled |
| `TuiStaleReport`, `LatestScanIsShown` | a started message handled late makes an older scan's report the shown one (`tui/update.go:137`) |
| `UpdateFailure`, `FailureLeavesTarget` | "Any failure leaves the installed binary untouched" (`updater/apply.go:22`): a restore that fails removes it; the backup remains |
| `FixAuditLines`, `EntriesAreLines` | "append-only JSON lines" (`fix/audit.go:14`): entry and newline are two appends, and processes do not exclude each other |
| `RemoteOrphans`, `OrphansAreListed` | "every created file can be cleaned up later" (`cli/remote.go:48`): not after an upload that failed half way |
| `RemoteManifestStays`, `CleanedLeavesNothing` | the same sentence: `manifest.json` and its directory stay |
| `CmdSurvivors`, `TimeoutKillsChildren` | "timeouts kill spawned children too" (`repro/runner.go:24-26`): not a child that ignores SIGTERM and has let go of the output when the leader ends within the grace period |
| `BaselineOverwrite`, `NeverOverwritesUnforced` | "baseline already exists at %s; use --force to overwrite" (`cli/baseline.go:155`): the check and the rename are far apart, and a file made in between is replaced without `--force` |
| `BaselineSweep`, `SweepKeepsSuppressing` | the README gives `create --reason "updated reason" --all --force` as the way to renew a baseline (`README.md:216-220`): the saved report lacks what the old baseline hid, so that what was suppressed no longer is |
| `UpdateLateBackup`, `RecoveryPoint` | "so devdiag.old itself survives as a recovery point even if this restore is interrupted" (`updater/swap.go:70-72`): an updater that was already running when another one died in its restore, and that breaks the lock when it is old enough, copies the torn binary over the good backup |
| `CapsuleFlush`, `CreatedIsValid` | "`capsule inspect` validates a generated capsule" (`docs/release/m4-repro-capsule-verification.md:43`): errors of closing tar and gzip are dropped (`capsule/builder.go:54`), so that a capsule cut short is reported as created |

Others are recorded in the models as they are in the code, without a
configuration of their own:

* Exit codes.  "1 = findings exist" (`cli/shared.go:111`): with `--fail-severity
  info` a scan without findings exits 1, as the maximum of no severities is info.
  Exit code 5, "unsafe operation refused" (`cli/shared.go:223`), is also that of a
  fix that was confirmed, ran and failed.
  A trace with connections refused or addresses taken exits 0 with
  `--fail-severity critical` or `off`, and one with nothing to tell exits 1 with
  `info`; `TraceExitIsHonest` is stated relative to the threshold.
* Versions.  `>= 18`, with a space, and `~>` are read as bare versions, the name of
  an LTS line as one that nothing has (`m1engine.go:527-598`): such pins are called
  violated more often than they are. `VersionsMeanWhatTheySay` claims one direction
  of them only.
* Rules.  "Built-in deterministic finding engines" (`CONTRIBUTING.md:17`):
  `extractLocalRuntimes` (`rules/m8engine.go:542`) takes runtimes in the order of
  a map, so that a host scanned again may have other findings. F-DOCKER-003 cannot fire (`m1engine.go:1155-1166`). F-CI-ENV-002 fires
  for variables that CI does set (`m8engine.go:84-99` against `:283-305`).
  `${V:?set-me}` counts as a reference with a default (`m1engine.go:289-296`).
  F-DISK-001 is raised when the file system could not be asked. The `engines` of
  `package.json` are not compared with the host. `docker.io/node` and `node` are
  taken for different images.
* Collectors.  Any "dial unix" error is a denied permission (`docker.go:86`); a
  compose plugin that does not answer in time is missing; denials of one kind
  crowd out those of another under the cap; `HasCISignal` ignores
  `.gitlab-ci.yml` (`repo.go:144-163`); ports in a compose file are expanded from
  the environment of devdiag, not from `.env` (`compose.go:298-373`);
  `permission.go:57` takes what `os.Stat` returns for a `unix.Stat_t`, which it is
  not, so that no file is ever reported as owned by root; a cache that cannot be
  inspected is left out of the report (`cache.go:159-162`).
* Trace.  A command that prints "permission denied" makes strace look
  unavailable (`runner.go:102-113`); a strace that cannot start its command ends
  with 0; a line of a core dump parses as an event; with `--scope process` eBPF
  falls back to raw tracepoints, since the programs' map has no clone, fork and
  vfork (`ebpf_support.go:100-105`, `ebpf_runner_linux.go:284-306`), and those
  follow no children; `pending_events` is keyed by process, so that two threads
  in a call mix; events lost in a full ring or in one closed right after the
  command leave no mark. `MissingIsSaid` and `EventsAreReal` name these cases.
  "Orphan cleanup is guaranteed by the process-group kill" (`runner.go:188-190`):
  not of processes that left the group. With a strace older than 6.6 they live on,
  hold its stderr, and `cmd.Wait` waits for them (`Outlived` in `TraceReturns`).
* Runs.  A newest run whose command was killed shadows older ones for
  `--latest`; a capsule made while its run is written lacks parts and says
  nothing; `inspect` does not compare the manifest's list with the members.

## Fairness

* `CollectorRunner`, `CmdRunner`, `TuiSession`: weak fairness of every goroutine
  and timer, because the Go scheduler runs what can run and timers fire.
  Nothing is assumed of `Collect`, of external processes or of the user:
  `CallReturns` has the condition that the scan's context ended or the
  collectors without a budget answered, `InterruptedCallReturns` excepts a
  process outside the group that keeps the output open.
* `UpdateSwap`: a process that runs goes on (WF); a user starts the update again
  whenever it is not running, and gets past network and file system now and then
  (SF); a dead process's lock grows older. `LockIsFreedAgain` is about exactly such
  a user.
* `RemoteSession`: commands in progress go on (WF per client); a user who can read
  sessions in the cache runs `clean --all` again (SF).
* `TraceCapture`: devdiag, strace and the kernel go on (WF); its deadline passes.
  Nothing is assumed of the traced command, nor of what leaves its process group.
* `FixApply`, `BaselineStore`, `ScanPipeline`, `Diagnosis`, `SavedRuns`: none, as
  their properties are safety.

## Proofs

Eight modules hold theorems; each is about the module it is named after, and
holds for every value of its constants: any number of processes, clients, scans
or collectors, any cap, any number of faults and kills.  All are safety: `[]` of
a state predicate, or `[][...]_vars`.  Nothing is assumed but the named
assumptions of the modules, which TLC evaluates in each run, and the one
hypothesis below, which stands in the theorems themselves.

All proofs go the same way.  What a run checks is seldom inductive: it speaks of
the end of a call, and the proof has to know what is true on the way there.
`IInv` says it for every position; `IInvHolds` proves it inductive, with one lemma
per action, and the listed properties follow from it.  Every `IInv` was checked
with TLC on its run's instance before it was proved.  Action properties are
proved from one step that starts in `IInv`.

| module | theorems | what `IInv` adds to the properties |
|---|---|---|
| `CollectorRunnerProofs` | `ReturnIsComplete` (`ReturnedAsAnnounced`), `PunctualAnswersSurvive`, `IncompleteAlwaysMarked`, `RunnerKeepsPromise` (`Promise`) | a result travels from the body through `done` to the worker, to the observer, through `resultCh` and into its slot: for each position of the worker, where the result is, that it is in one place only, and what it may be, given whether the collector answered in time |
| `UpdateSwapProofs` | `TheftAloneInterleaves` (`OnlyTheftInterleaves`), `OvertakingAloneLosesBoth` (`OnlyOvertakingLosesBoth`), `SwapsAreAllOrNothing` (`SwapIsAllOrNothing`) | until a lock is stolen, who swaps owns the lock and knows what it wrote (`Held`, `Swaps`); until an updater overtakes another as well, for each step under the lock, which of the files are complete and what the rollback relies on (`Recoverable`): whoever breaks a lock runs the installed file, and a file that is executed is not written to, so that it breaks the lock over a complete binary |
| `TuiSessionProofs` | `ProgressStaysAPrefix` (`ProgressIsAPrefix`), `OutcomesAreComplete` | each channel holds the latest events of its scan, in order; what has left the accepted scan's channel is in the progress list, but for the event of the message in flight |
| `CmdRunnerProofs` | `OutputStaysWhole`, `ResultStaysHonest`, `SurvivorsStayQuiet` | where the goroutine in `cmd.Wait` is for each place of the caller, what the buffer holds of what was read, which signals and errors can have come before |
| `FixApplyProofs` | `SuccessStaysTrue`, `MutationStaysAnnounced`, `NothingEverRunsUnasked` | the proposals still to be executed are the rest of those asked for; those before are counted in what ran and in the log, line by line, at every point of `Execute` |
| `RemoteSessionProofs` | `CleanedStaysClean`, `ReportsStayHonest` | until its manifest is cached a session has one client; what a clean has removed stays removed; a clean whose `failed` is not set has removed all it has passed |
| `ScanPipelineProofs` | `TheLogStaysWellFormed`, `EventsAgreeWithTheReport` (`EventsTellTheReport`), `TheReportIsFaithful` (`AggregateIsFaithful`), `SevereStaysShown`, `ExitStaysHonest` | what the event log, the findings so far, the report, what is visible and the exit code say of each other at each place of `Scan` and `scanCmd` |
| `TracedRunsProofs`, the store | `LatestStaysLast` (`LatestIsLast`), `CapsulesStayWhole` (`CapsuleIsWhole`) | a run has one writer, which is gone when the run is over or whole; its directory changes only while the writer is there, so that what ended before another began is older; who packs a whole run has, of the files it has passed, those the run has |
| `TracedRunsProofs`, the capture (`CaptureInv`) | `EventsStayReal` (`EventsAreReal`), `MissingStaysSaid` (`MissingIsSaid`), `TraceExitStaysHonest` (`TraceExitIsHonest`) | strace: somebody who read its file now, but for a line that is open, would have all calls that completed, in their order, or have stopped at the cap, and would hold only calls that are still being made or never will return, at most one of a thread; eBPF: channel, hand and ring, put together, are calls that were made, in their order, each with its own result unless `lost` says `mixed`, and all of them unless `lost` says why not; how the command ended is known when its tracer stops |

`TypeCorrect` (`Spec => []TypeOK`) is proved in the first seven modules; the types
of `TracedRuns` are parts of `IInv` (`StoreTypeOK`) and of `CaptureInv` (`CaptureTyped`).

Hypothesis of theorems:

* `RemoteSessionProofs`: `Kind = "container"`. On SSH targets a clean removes
  nothing (`RemoteSshClean`).

Lemmas about operators.  `RunnerKeepsPromise` maps a worker's decision to
`Decide`, the caller's return to `Return` and every other step to a stutter; the
promise is what `ScanPipeline` builds on, so that the theorems of both together
speak of the whole scan.  What the aggregator computes (`Deduped`, a fold over a
sequence, and `Select` of `FixApply`) is proved for sequences of any length: the
library's induction theorems cannot be used, as they take an operator, and
`NumbersByInduction` states induction for a set of numbers, from the well-founded
order of `Nat`.  `AddIsFaithful` is its step: one more finding is merged into the
one of its key or is appended, and evidence and rank are kept.  `StableSorted`
is defined by places; that no two findings get one place, and all do, is a
counting argument (`AheadGrows`, `PlaceFacts`).

What `readTraceFile` makes of a file (`ReadLines`) and which calls it should have
(`Wanted`, `Returned`, all `Select`) are recursive functions of a sequence.
`ReadOneMore` and `SelectOfAppend` say what one more member does, for sequences
of any length, so that each step of a thread, which appends a line or completes
the last one, is one step of the reader: `FollowsFile` is kept because the key
of an unfinished call is its thread and name (`PairKey`), and a thread is in one
call at a time. The events of eBPF need no reader: `Flow` is the concatenation
of where an event can be, and moving it from one to the next leaves it as it is.

Checking the proofs found where the models could not be reasoned about: findings
of `ScanPipeline` and command lines of `FixApply` had no type, and what a view
leaves visible is now a set, as the report's order is the aggregator's. In
`TraceCapture` a command whose first thread makes no call was taken for one that
had already ended, and nothing said that the missing result of a torn line
(`NoCall`) is not a call.

## Limits

Only model-checked: every liveness property (TLAPS proves neither liveness under
fairness nor ENABLED), and the safety of `Diagnosis` (`UnmarkedMeansTrue`,
`FalseAlarmsAreKnown`, `VersionsMeanWhatTheySay`, `ChecksMissNothing`,
`SameServicesNoDrift`), whose content is in the operators for collectors and
rules and whose hosts TLC enumerates, and of `BaselineStore`
(`EntriesChangeAsAsked`): an import merges its source entry by entry, by a function
recursive in sets, so a proof needs induction over data or a merge restated without it.
No module declares a RECURSIVE operator.

Not modelled: the parts `PROJECT.json` lists as `not_modelled`, with their
reasons.  Left out for good: formatting, logging, HTTP and archive formats,
argument lists of docker, kubectl and ssh, and the kernel's reuse of process ids.
In the modelled parts: the reasons and the order of baseline entries, two entries
of one key in a hand-written baseline (`remove` takes one of them), `export
--output` onto the baseline itself, how a line of strace is split into words,
default fixes and layers of a finding, install metadata after an update,
`remote doctor` and `status`, panes and filters of the TUI, the text patterns of
the repro classifier, evidence that is shown and read by no rule, and
`.devdiag/latest`, which is written and never read.

Two hazards are known and have no property among the runs: `Emit` of a superseded
scan (`TuiSinkBlocks`) and two processes in one audit log (`FixAuditLines`); the
configurations above show what happens. The hazards of the agent sandbox
are listed, with no module yet.

## Plan

1. Proofs: `BaselineStore`, once the merge of an import is stated without recursion.
2. `AgentSandbox`: the copy, the run and the cleanup whose error is dropped.
3. Path filter, the registry of fixes and the validation of their evidence as
   pure operators.
