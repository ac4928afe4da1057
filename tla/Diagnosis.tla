-------------------------------- MODULE Diagnosis -------------------------------
(***************************************************************************)
(* What a scan says of a host, and of a host it only half sees.  truth is  *)
(* the host; some probes of it fail, one after the other, as files lose    *)
(* their permissions and commands run into their time limits; and the host *)
(* is scanned again after each.  The scan runs the collectors its options  *)
(* and the repository call for and evaluates the rules on what they hand   *)
(* over.  How collectors run concurrently, are cancelled and time out is   *)
(* CollectorRunner, what becomes of the findings is ScanPipeline.          *)
(***************************************************************************)
EXTENDS RepoEvidence, HostEvidence, M6Rules, M8Rules

CONSTANTS
    Cases,        \* the hosts and options scanned: [host, opts], opts a subset of {"ai-ml", "ci"}
    MaxFailed,    \* bound: probes that fail, of one host
    DenialCap     \* lines a scan takes from the security logs

VARIABLES truth, opts, failed, report

vars == <<truth, opts, failed, report>>

(* Which collectors run. *)

\* .gitlab-ci.yml alone is none.
HasCISignal(h) == \E i \in DOMAIN h.workflows : ~h.workflows[i].lab

Always == {"config", "repo", "env", "compose", "git", "runtime", "host", "host_runtime", "disk",
           "port", "network", "systemd", "security", "permission"}

Build(h, o) ==
    Always
    \cup (IF HasDockerSignal(h) THEN {"docker"} ELSE {})
    \cup (IF HasPodmanSignal(h) THEN {"podman"} ELSE {})
    \cup (IF HasDockerSignal(h) \/ HasPodmanSignal(h) THEN {"compose_status"} ELSE {})
    \cup (IF HasCISignal(h) \/ "ci" \in o THEN {"ci"} ELSE {})
    \cup (IF "ai-ml" \in o THEN {"gpu", "cuda", "pythonml", "gpudocker", "cache"} ELSE {})

Collect(n, h) ==
    CASE n = "config" -> CollectConfig(h)         [] n = "repo" -> CollectRepo(h)
      [] n = "env" -> CollectEnv(h)               [] n = "compose" -> CollectCompose(h)
      [] n = "git" -> CollectGit(h)               [] n = "runtime" -> CollectRuntime(h)
      [] n = "host" -> CollectHost(h)             [] n = "host_runtime" -> CollectHostRuntime(h)
      [] n = "disk" -> CollectDisk(h)             [] n = "port" -> CollectPort(h)
      [] n = "network" -> CollectNetwork(h)       [] n = "permission" -> CollectPermission(h)
      [] n = "security" -> CollectSecurity(h, DenialCap)
      [] n = "systemd" -> CollectSystemd(h, HasDockerSignal(h))
      [] n = "docker" -> CollectDocker(h)         [] n = "podman" -> CollectPodman(h)
      [] n = "compose_status" -> CollectComposeStatus(h)
      [] n = "ci" -> CollectCI(h)                 [] n = "gpu" -> CollectGpu(h)
      [] n = "cuda" -> CollectCuda(h)             [] n = "pythonml" -> CollectPythonML(h)
      [] n = "gpudocker" -> CollectGpuDocker(h)   [] n = "cache" -> CollectCache(h)

Results(names, h) == [n \in names |-> Collect(n, h)]

\* Only check gpu runs a container to verify the GPU.
Unverified(h) == [h EXCEPT !.toolkit.verify.on = FALSE]

\* Every outcome of the rules on a scan of h.
Scan(h, o) ==
    LET c == Results(Build(h, o), Unverified(h))
    IN  {M1(c) \cup (IF "ai-ml" \in o THEN M6(c) ELSE {}) \cup m8 :
            m8 \in IF "ci" \in DOMAIN c THEN M8Outcomes(c) ELSE {{}}}

(* devdiag check <domain>: its own collectors, and of the rules' findings  *)
(* the ones whose ID is in its scope; gpu is check gpu --python.           *)
Checks == [
    env        |-> {"config", "env", "compose"},       runtimes   |-> {"runtime", "host_runtime"},
    git        |-> {"git", "repo"},                    ports      |-> {"env", "compose", "port"},
    services   |-> {"systemd", "network"},             network    |-> {"network", "host"},
    filesystem |-> {"disk", "permission"},             security   |-> {"security"},
    containers |-> {"docker", "podman", "compose_status"},
    containersGPU |-> {"docker", "podman", "compose_status", "gpu", "gpudocker"},   \* containers --gpu
    ci         |-> {"config", "ci", "env", "compose", "runtime", "host", "host_runtime", "repo"},
    gpu        |-> {"gpu", "cuda", "pythonml", "gpudocker"},                        cache |-> {"cache"}]

ContainerIDs == {"F-CONTAINER-001", "F-CONTAINER-003", "F-DOCKER-001", "F-DOCKER-002", "F-DOCKER-003", "F-PODMAN-001"}

Scope == [
    env        |-> {"F-ENV-001", "F-ENV-001-OPTIONAL", "F-ENV-002"},
    runtimes   |-> {"F-RUNTIME-DECL-001"} \cup {runtimeFindingID(r) : r \in Runtimes} \cup {"F-RUNTIME-003"},
    git        |-> {"F-GIT-001", "F-GIT-002", "F-PM-001"},   ports    |-> {"F-PORT-001"},
    services   |-> {"F-SVC-001"},                            network  |-> {"F-NET-001"},
    filesystem |-> {"F-DISK-001", "F-FS-001", "F-PERM-002"},
    security   |-> {"F-SEC-SELINUX-001", "F-SEC-APPARMOR-001"},
    containers |-> ContainerIDs,
    containersGPU |-> ContainerIDs \cup {"F-GPU-001", "F-GPU-002", "F-DOCKER-GPU-001", "F-DOCKER-GPU-002"},
    ci         |-> {"F-CI-ENV-001", "F-CI-ENV-002", "F-CI-ENV-DEPLOY-INFO", "F-CI-RUNTIME-001", "F-CI-PACKAGE-001",
                    "F-CI-PACKAGE-002", "F-CI-COMMAND-001", "F-CI-SERVICE-001", "F-CI-SERVICE-002",
                    "F-CI-CONTAINER-001", "F-CI-SHELL-001"},
    gpu        |-> {"F-GPU-001", "F-GPU-002", "F-ML-PYTORCH-001", "F-ML-PYTORCH-002", "F-ML-TF-001", "F-ML-JAX-001",
                    "F-DOCKER-GPU-001", "F-DOCKER-GPU-002"},
    cache      |-> {"F-CACHE-001", "F-CACHE-002", "F-CACHE-003"}]

\* Every outcome of a check; ci, gpu and cache are not scoped.
Check(d, h) ==
    LET c == Results(Checks[d], IF d = "gpu" THEN h ELSE Unverified(h))
        scoped(F) == {f \in F : f[1] \in Scope[d]}
    IN  CASE d = "ci" -> M8Outcomes(c)
          [] d \in {"gpu", "cache"} -> {M6(c)}
          [] d = "containersGPU" -> {scoped(M1(c) \cup M6(c))}
          [] OTHER -> {scoped(M1(c))}

(* Probes that fail.  Fails[p] is what the host looks like without p.      *)

NoAnswer(f, from, to) == [x \in DOMAIN f |-> IF f[x].at = from THEN [f[x] EXCEPT !.at = to] ELSE f[x]]

\* Their names say the file or the command.
FileProbes == {"example", "env", "config", "package.json", "compose", "workflows", "tcp", "logs",
               "statfs", "proc", "modules", "caches"}
CommandProbes == {"git", "ls-files", "check-ignore", "systemctl", "docker.service", "versions",
                  "compose version", "docker info", "compose config", "compose ps", "docker df",
                  "podman info", "nvidia-smi", "lspci", "mokutil", "nvidia-ctk", "nvcc",
                  "python", "import"}
Probes == FileProbes \cup CommandProbes

Without(p, h) ==
    CASE p = "example"      -> IF h.example.at = "read" THEN [h EXCEPT !.example.at = "denied"] ELSE h
      [] p = "env"          -> IF h.env.at = "read" THEN [h EXCEPT !.env.at = "denied"] ELSE h
      [] p = "config"       -> IF h.config.at = "read" THEN [h EXCEPT !.config.at = "denied"] ELSE h
      [] p = "package.json" -> IF h.pkg.at = "read" THEN [h EXCEPT !.pkg.at = "denied", !.engines = {}] ELSE h
      [] p = "compose"      -> IF h.composeFile.at = "read" THEN [h EXCEPT !.composeFile.at = "bad"] ELSE h
      [] p = "workflows"    -> [h EXCEPT !.workflows = NoAnswer(@, "read", "bad")]
      [] p = "tcp"          -> [h EXCEPT !.tcp = NoAnswer(@, "read", "denied")]
      [] p = "logs"         -> [h EXCEPT !.logs = NoAnswer(@, "read", "denied")]
      [] p = "statfs"       -> [h EXCEPT !.disk.at = "failed"]
      [] p = "proc"         -> [h EXCEPT !.gpu.proc = FALSE]
      [] p = "modules"      -> [h EXCEPT !.gpu.modules = "unknown"]
      [] p = "caches"       -> [h EXCEPT !.caches = NoAnswer(@, "read", "denied")]
      [] p = "git"          -> [h EXCEPT !.git = "fails"]
      [] p = "ls-files"     -> [h EXCEPT !.tracked.at = "failed"]
      [] p = "check-ignore" -> [h EXCEPT !.ignored = "failed"]
      [] p = "systemctl"    -> [h EXCEPT !.systemctl = "slow"]
      [] p = "docker.service" -> [h EXCEPT !.dockerService = "slow"]
      [] p = "versions"     -> [h EXCEPT !.tools = NoAnswer(@, "ok", "fails")]
      [] p = "compose version" -> IF h.docker.cli.plugin = "ok" THEN [h EXCEPT !.docker.cli.plugin = "slow"] ELSE h
      [] p = "docker info"  -> IF h.docker.info = "ok" THEN [h EXCEPT !.docker.info = "slow"] ELSE h
      [] p = "compose config" -> [h EXCEPT !.docker.config = "slow"]
      [] p = "compose ps"   -> [h EXCEPT !.docker.ps = "slow"]
      [] p = "docker df"    -> [h EXCEPT !.docker.df = "slow"]
      [] p = "podman info"  -> IF h.podman.info = "ok" THEN [h EXCEPT !.podman.info = "slow"] ELSE h
      [] p = "nvidia-smi"   -> IF h.gpu.smi = "ok" THEN [h EXCEPT !.gpu.smi = "slow"] ELSE h
      [] p = "lspci"        -> [h EXCEPT !.gpu.lspci = FALSE]
      [] p = "mokutil"      -> [h EXCEPT !.gpu.secureBoot = "unknown"]
      [] p = "nvidia-ctk"   -> IF h.toolkit.ctk = "ok" THEN [h EXCEPT !.toolkit.ctk = "slow"] ELSE h
      [] p = "nvcc"         -> IF h.cuda.nvcc = "ok" THEN [h EXCEPT !.cuda.nvcc = "slow"] ELSE h
      [] p = "python"       -> IF h.ml.python = "ok" THEN [h EXCEPT !.ml.python = "slow"] ELSE h
      [] p = "import"       -> [h EXCEPT !.ml.frameworks = NoAnswer(@, "ok", "fails")]

\* Probes are of different parts of the host, so their order is no matter.
SeenWithout(S) == FoldSet(Without, truth, S)
Seen == SeenWithout(failed)

Init == /\ \E x \in Cases : truth = x.host /\ opts = x.opts
        /\ failed = {}
        /\ report \in Scan(truth, opts)

\* One more probe fails, if it told anything, and the host is scanned again.
ProbeFails(p) ==
    /\ Cardinality(failed) < MaxFailed
    /\ Without(p, truth) # truth
    /\ p \notin failed
    /\ failed' = failed \cup {p}
    /\ report' \in Scan(SeenWithout(failed \cup {p}), opts)
    /\ UNCHANGED <<truth, opts>>

\* The same host, scanned again.
Rescan == report' \in Scan(Seen, opts) /\ UNCHANGED <<truth, opts, failed>>

Next == Rescan \/ \E p \in Probes : ProbeFails(p)

Spec == Init /\ [][Next]_vars

(* Properties. *)

\* What a scan without failures would say, and its results.
Truly == Scan(truth, opts)
Handed == Results(Build(Seen, opts), Unverified(Seen))

\* The failures no result shows: these collectors answer ok whatever became
\* of the read or the command (a python that does not answer has no
\* frameworks, a .env that may not be read sets no variable).
Silent == {"example", "env", "ls-files", "check-ignore", "package.json", "tcp", "logs", "docker.service",
           "versions", "docker df", "proc", "lspci", "modules", "mokutil", "caches", "python"}

\* When no result says that it has gaps, and none of the probes that fail in
\* silence failed, the scan says what it would have said of the whole host:
\* collectors report ok with partial evidence for the probes above alone.
UnmarkedMeansTrue ==
    failed \cap Silent = {} /\ (\A n \in DOMAIN Handed : ~Marked(Handed[n])) => report \in Truly

\* The findings that a failed probe can raise of a host that does not have
\* the problem.  "docker info" and others are meant to; the rest are gaps
\* that rules read as facts: no free space, no key in .env, not ignored.
Alarms(p) ==
    CASE p = "example" -> {"F-CI-ENV-001"}
      [] p = "env" -> {"F-ENV-002", "F-CI-ENV-001"}
      [] p = "config" -> {"F-ENV-001", "F-CI-ENV-001", "F-CI-ENV-002", "F-CI-ENV-DEPLOY-INFO"}
      [] p = "package.json" -> {"F-CI-COMMAND-001", "F-CI-PACKAGE-001"}
      [] p = "compose" -> {"F-CI-SERVICE-001"}
      [] p = "workflows" -> {}
      [] p = "check-ignore" -> {"F-GIT-002"}
      [] p = "statfs" -> {"F-DISK-001"}
      [] p = "docker.service" -> {"F-SVC-001"}
      [] p = "docker info" -> {"F-DOCKER-001"}
      [] p = "podman info" -> {"F-PODMAN-001"}
      [] p = "nvidia-smi" -> {"F-GPU-001"}
      [] p = "modules" -> {"F-GPU-001", "F-GPU-002"}
      [] p = "nvidia-ctk" -> {"F-DOCKER-GPU-001"}
      [] OTHER -> {}

\* A failed probe raises no other finding than its own ones, whatever else
\* failed: no version is called wrong because it could not be asked for, no
\* port taken, no container down because the table or docker did not answer.
FalseAlarmsAreKnown ==
    IDs(report) \ UNION {IDs(r) : r \in Truly} \subseteq UNION {Alarms(p) : p \in failed}

\* A runtime is called wrong when and only when its version is not one that
\* the pin allows, as node and Cargo read it; but a caret on 0.0.z is read
\* as on 0.0, a lone = is no constraint, and alternatives are not read.  Of
\* ">= 18.2" and "<= 18.2", with a space, of "~>" and of the name of an LTS
\* line it is true that what is not called wrong is allowed: more is refused.
VersionsMeanWhatTheySay ==
    LET asked == DOMAIN truth.pins \cap {r \in DOMAIN truth.tools : truth.tools[r].at = "ok"}
        half == {">= ", "<= ", "~>", "lts"}
        read(s) == /\ s.op \notin {"||", "=", "> ", "< "} \cup half /\ \A i \in DOMAIN s.also : s.also[i].op # "||"
                   /\ ~(s.op = "^" /\ Len(s.v) = 3 /\ s.v[1] = 0 /\ s.v[2] = 0)
    IN  failed = {} =>
            \A r \in asked :
                LET wrong   == <<runtimeFindingID(r), Medium, r>> \in report
                    allowed == MeansAllowed(truth.pins[r], truth.tools[r].version)
                IN  /\ read(truth.pins[r]) => wrong = ~allowed
                    /\ truth.pins[r].op \in half /\ Len(truth.pins[r].v) < 3 => wrong \/ allowed

\* devdiag check misses nothing that a scan finds in its scope, and calls
\* nothing less severe, although it runs fewer collectors.
ChecksMissNothing ==
    LET misses(g, d) == {f \in report : f[1] \in Scope[d] /\ ~\E x \in g : x[1] = f[1] /\ x[2] >= f[2]}
    IN  \A d \in DOMAIN Checks :
            (d \in {"containersGPU", "gpu", "cache"} => "ai-ml" \in opts) =>
                \E g \in Check(d, Seen) : misses(g, d) = {}

\* What docker takes an image for: docker.io/library when neither is said.
Meaning(i) == [tag  |-> IF i.tag = "" THEN "latest" ELSE i.tag,
               path |-> LET short == IF i.path[1] \in {"docker.io", "index.docker.io"} THEN Tail(i.path) ELSE i.path
                        IN  IF short = i.path /\ i.path[1] \in Registries THEN i.path
                            ELSE <<"docker.io">> \o (IF Len(short) = 1 THEN <<"library">> ELSE <<>>) \o short]

\* Services of CI that are those of the compose file, in whichever jobs they
\* are spread and however their images are spelled, are no drift.  The one
\* spelling that is not seen through is docker.io/<image> without library.
SameServicesNoDrift ==
    LET c    == Handed
        all  == ToSet(IF "ci" \in DOMAIN c /\ Has(c["ci"], "services") THEN c["ci"].ev.services ELSE <<>>)
        here == Of(c["compose"], "services")
        seenThrough(i) == ~(Len(i.path) = 2 /\ i.path[1] \in {"docker.io", "index.docker.io"})
        same(s, t) == /\ s.name = t.name /\ s.image # NoImage /\ t.image # NoImage
                      /\ Meaning(s.image) = Meaning(t.image) /\ seenThrough(s.image) /\ seenThrough(t.image)
        meets(t) == LET ports == UNION {s.ports : s \in {s \in all : s.name = t.name}}
                    IN  ~Disjoint(ports, t.ports)
    IN  /\ here # {}
        /\ \A s \in all : \E t \in here : same(s, t)
        /\ \A t \in here : meets(t) /\ \E s \in all : same(s, t)
        => {"F-CI-SERVICE-001", "F-CI-SERVICE-002"} \cap IDs(report) = {}
=================================================================================
