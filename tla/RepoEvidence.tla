------------------------------ MODULE RepoEvidence ------------------------------
(***************************************************************************)
(* The collectors that read the repository: env, git, config, repo,        *)
(* compose, runtime and ci.  h is what they would find, one field per file *)
(* or command; "denied", "bad" and "failed" are reads that went wrong.     *)
(***************************************************************************)
EXTENDS Evidence, SequencesExt

(* .env files: a file is [at, lines]; a line assigns a key, opens a value  *)
(* in quotes, ends one, is blank, or is none of these.                     *)

Line(kind, key) == [kind |-> kind, key |-> key]

\* One line of parseEnvFileKeys: inside a value in quotes only its end counts.
ParseLine(acc, l) ==
    IF acc.quoted
    THEN [acc EXCEPT !.quoted = l.kind \notin {"opens", "ends"}]
    ELSE [keys   |-> IF l.kind \in {"assigns", "opens"} THEN acc.keys \cup {l.key} ELSE acc.keys,
          quoted |-> l.kind = "opens"]

EnvKeys(file) == FoldLeft(ParseLine, [keys |-> {}, quoted |-> FALSE], file.lines).keys

\* env: never anything but ok, whatever could not be read.
CollectEnv(h) ==
    LET read(f)  == f.at = "read"
        keys(f)  == IF read(f) THEN EnvKeys(f) ELSE {}
        lists(f, source) == When(keys(f) # {}, source, keys(f))
        lacks(f) == keys(h.example) \ keys(f)
    IN  Ok(lists(h.example, "example_keys") @@ lists(h.env, "env_keys") @@ lists(h.envLocal, "local_keys")
           @@ When(h.env.at = "absent", "env_missing", TRUE)
           @@ When(read(h.example) /\ read(h.env) /\ lacks(h.env) # {}, "missing_keys", lacks(h.env)))

(* git: each of its commands may fail, and only the first two are noticed. *)
CollectGit(h) ==
    IF h.git # "ok" THEN Result("unavailable", TRUE, Nothing)
    ELSE LET tracked == IF h.tracked.at = "ok" THEN h.tracked.risky ELSE {}
         IN  Ok(When(tracked # {}, "tracked_env", tracked)
                @@ [env_exists |-> h.env.at # "absent", env_ignored |-> h.ignored = "yes"])

(* config: devdiag.yaml, validated; a file that cannot be used is no file. *)
ConfigKeys == {"ignore", "optional", "required",
               "ignoreLocal", "ignoreCI", "localRequired", "deploymentOnly", "ciOnly"}

CollectConfig(h) ==
    CASE h.config.at = "absent" -> Ok(Nothing)
      [] h.config.at = "denied" -> Result("partial", FALSE, Nothing)
      [] h.config.at = "bad"    -> Result("partial", TRUE, Nothing)
      [] h.config.at = "read"   ->
            Ok([k \in {k \in DOMAIN h.config.keys : h.config.keys[k] # {}} |-> h.config.keys[k]])

(* repo: what kind of project this is, and the commands its files name.    *)
LockManager(locks) ==
    CASE "pnpm-lock.yaml" \in locks -> "pnpm"
      [] "pnpm-lock.yaml" \notin locks /\ "yarn.lock" \in locks -> "yarn"
      [] locks \cap {"pnpm-lock.yaml", "yarn.lock"} = {} /\ "bun.lock" \in locks -> "bun"
      [] OTHER -> "npm"

Command(pm, args) == [pm |-> pm, args |-> args]

CollectRepo(h) ==
    LET scripts == IF h.pkg.at # "read" THEN {}
                   ELSE {Command(IF h.pkg.pm # "" THEN h.pkg.pm ELSE LockManager(h.locks), s) :
                            s \in h.pkg.scripts}
        targets == {Command("make", t) : t \in h.targets}
    IN  Ok(When(h.locks # {}, "lockfiles", h.locks)
           @@ When(h.composeFile.at # "absent", "compose", TRUE)
           @@ When(h.devcontainer.at = "plain", "devcontainer", TRUE)
           @@ When(h.devcontainer.at = "image", "devcontainer_image", h.devcontainer.image)
           @@ When(h.pkg.at = "read" /\ h.pkg.pm # "", "package_manager", h.pkg.pm)
           @@ When(scripts \cup targets # {}, "commands", scripts \cup targets))

HasDockerSignal(h) == h.composeFile.at # "absent" \/ h.devcontainer.at # "absent" \/ h.dockerfile
HasPodmanSignal(h) == h.containerfile

(* compose: references to variables, published ports, services.  A port   *)
(* is [form, host, var]: a number, or a variable of the environment that   *)
(* devdiag runs in (not of .env) with host as what its form names.  0 is   *)
(* no number, a range or an address say.                                   *)
resolveHostPort(environ, p) ==
    LET set   == p.var \in DOMAIN environ
        value == IF set THEN environ[p.var] ELSE 0
    IN  CASE p.form = "plain" -> p.host
          [] p.form = "$"     -> value
          [] p.form = ":-"    -> IF value # 0 THEN value ELSE p.host
          [] p.form = "-"     -> IF set THEN value ELSE p.host
          [] p.form = ":+"    -> IF value # 0 THEN p.host ELSE 0
          [] p.form = "+"     -> IF set THEN p.host ELSE 0

hostPorts(environ, ports) == {resolveHostPort(environ, p) : p \in ports} \ {0}

\* A service without image or ports, built here say, leaves no trace.
serviceSpecs(h) ==
    LET told == {s \in h.composeFile.services : s.image.path # <<>> \/ s.ports # {}}
    IN  {[s EXCEPT !.ports = hostPorts(h.environ, @)] : s \in told}

CollectCompose(h) ==
    CASE h.composeFile.at = "absent" -> Ok(Nothing)
      [] h.composeFile.at = "bad"    -> Result("partial", FALSE, Nothing)
      [] h.composeFile.at = "read"   ->
            LET ports == UNION {s.ports : s \in serviceSpecs(h)}
            IN  Ok(When(h.composeFile.refs # {}, "refs", h.composeFile.refs)
                   @@ When(ports # {}, "host_ports", ports)
                   @@ When(serviceSpecs(h) # {}, "services", serviceSpecs(h)))

(* runtime: the versions that pin files ask for, by runtime, what the      *)
(* engines of package.json files ask of node, and their package manager.   *)
CollectRuntime(h) == Ok(When(DOMAIN h.pins # {}, "pins", h.pins) @@ When(h.engines # {}, "engines", h.engines)
                        @@ When(h.pkg.at = "read" /\ h.pkg.pm # "", "package_manager", h.pkg.pm))

(* ci: the workflows of GitHub, in order, and .gitlab-ci.yml.  A workflow  *)
(* is [at, lab, env, shell, image, tag, jobs], a job [env, steps, matrix,  *)
(* services, image, tag, shell], a step [run, setup, env]; what a file     *)
(* leaves out is empty.  tag is the version that an image of node names.   *)
NoImage == [path |-> <<>>, tag |-> ""]
NoRun   == Command("", "")
NoSetup == [runtime |-> "", ask |-> [op |-> "none", v |-> <<>>, also |-> <<>>]]

stepEvidence(steps) ==
    [env |-> UNION {s.env : s \in steps}, setup |-> {s.setup : s \in steps} \ {NoSetup},
     runs |-> {s.run : s \in steps} \ {NoRun}]

\* The ports of a service are those of the host; one that is not published
\* to a port of its own is 0.
parseServices(services) == [i \in DOMAIN services |-> [services[i] EXCEPT !.ports = @ \ {0}]]

parseJob(j) ==
    LET steps == stepEvidence(ToSet(j.steps))
    IN  [env |-> j.env \cup steps.env, setup |-> steps.setup \cup j.matrix, runs |-> steps.runs,
         shells |-> {j.shell} \ {""}, containers |-> {j.image} \ {NoImage}, services |-> parseServices(j.services)]

\* GitLab: an image of node says which version, a service is only its image.
runtimeFromImage(image, tag) ==
    IF image.path # <<>> /\ Last(image.path) = "node" /\ image.tag # ""
    THEN {[runtime |-> "node", ask |-> tag]} ELSE {}

gitLabJob(j) ==
    [env |-> j.env, setup |-> runtimeFromImage(j.image, j.tag), runs |-> stepEvidence(ToSet(j.steps)).runs,
     shells |-> {}, containers |-> {j.image} \ {NoImage},
     services |-> [i \in DOMAIN j.services |-> [j.services[i] EXCEPT !.ports = {}, !.name = Last(j.services[i].image.path)]]]

Joined(a, b) ==
    [env |-> a.env \cup b.env, setup |-> a.setup \cup b.setup, runs |-> a.runs \cup b.runs,
     shells |-> a.shells \cup b.shells, containers |-> a.containers \cup b.containers, services |-> a.services \o b.services]

parseWorkflow(w) ==
    LET job(acc, j) == Joined(acc, IF w.lab THEN gitLabJob(j) ELSE parseJob(j))
    IN  FoldLeft(job, [env |-> w.env, runs |-> {}, shells |-> IF w.lab THEN {} ELSE {w.shell} \ {""},
                       setup |-> IF w.lab THEN runtimeFromImage(w.image, w.tag) ELSE {},
                       containers |-> IF w.lab THEN {w.image} \ {NoImage} ELSE {}, services |-> <<>>], w.jobs)

\* A workflow that does not parse is left out, and noted; a directory that
\* cannot be listed is taken for none.  Without a job there is no evidence.
ReadWorkflows(h) == SelectSeq(h.workflows, LAMBDA w : w.at = "read")

\* Mutant: a workflow that does not parse is dropped without a word.
CollectCIQuiet(h) ==
    LET good == ReadWorkflows(h)
        join(acc, w) == Joined(acc, parseWorkflow(w))
    IN  Ok(IF good = <<>> THEN Nothing ELSE FoldLeft(join, parseWorkflow(Head(good)), Tail(good)))

CollectCI(h) ==
    LET good == ReadWorkflows(h)
        join(acc, w) == Joined(acc, parseWorkflow(w))
    IN  Result(IF good = h.workflows THEN "ok" ELSE "partial", FALSE,
               IF \A i \in DOMAIN good : ~good[i].lab /\ good[i].jobs = <<>> /\ good[i].env = {} /\ good[i].shell = ""
               THEN Nothing
               ELSE FoldLeft(join, parseWorkflow(Head(good)), Tail(good)))
=================================================================================
