------------------------------ MODULE MCDiagnosis ------------------------------
(* Hosts for TLC: a quiet one, and families that differ from it in a part. *)
EXTENDS Diagnosis

File(at, keys) == [at |-> at, lines |-> SetToSeq({Line("assigns", k) : k \in keys})]
Image(path, tag) == [path |-> path, tag |-> tag]
Service(name, image, ports) == [name |-> name, image |-> image, ports |-> ports]

Quiet == [
    example |-> File("absent", {}), env |-> File("absent", {}), envLocal |-> File("absent", {}),
    git |-> "ok", tracked |-> [at |-> "ok", risky |-> {}], ignored |-> "yes",
    config |-> [at |-> "absent", keys |-> Nothing],
    locks |-> {}, environ |-> Nothing, pkg |-> [at |-> "absent", pm |-> "", scripts |-> {}, lines |-> {}], targets |-> {},
    composeFile |-> [at |-> "absent", refs |-> {}, services |-> {}],
    devcontainer |-> [at |-> "absent", image |-> NoImage], dockerfile |-> FALSE, containerfile |-> FALSE,
    pins |-> Nothing, engines |-> {}, workflows |-> <<>>,
    osRelease |-> "read", shell |-> "bash", proxy |-> FALSE, noProxy |-> FALSE,
    tcp |-> [tcp4 |-> [at |-> "read", ports |-> {}]], files |-> Nothing, logs |-> <<>>,
    disk |-> [at |-> "read", gib |-> 50, pct |-> 50, inodes |-> 50],
    systemctl |-> "ok", dockerService |-> "ok",
    tools |-> [r \in Runtimes |-> [at |-> "ok", version |-> <<1>>]],
    docker |-> [cli |-> [at |-> "ok", plugin |-> "ok", legacy |-> "absent"], info |-> "ok", config |-> "ok",
                ps |-> "ok", services |-> {}, mounts |-> {}, df |-> "fails"],
    podman |-> [at |-> "ok", info |-> "ok"],
    gpu |-> [smi |-> "absent", devices |-> 0, proc |-> FALSE, lspci |-> FALSE, modules |-> "", secureBoot |-> "false"],
    toolkit |-> [ctk |-> "absent", runtime |-> FALSE, daemonJson |-> FALSE,
                 verify |-> [on |-> FALSE, image |-> "ok", pull |-> FALSE, run |-> "ok"]],
    cuda |-> [nvcc |-> "absent", version |-> <<>>, driver |-> <<>>],
    ml |-> [python |-> "ok", frameworks |-> Nothing], caches |-> Nothing]

Config(f) == [at |-> "read", keys |-> f]

(* Keys that the example names, .env sets, the configuration excuses and   *)
(* CI sets.                                                                *)
NoTag == Ask("any", <<>>)
Job(services) == [env |-> {}, steps |-> <<>>, matrix |-> {}, services |-> services, image |-> NoImage, tag |-> NoTag, shell |-> ""]
Workflow(env, jobs) ==
    [at |-> "read", lab |-> FALSE, env |-> {[key |-> k, value |-> "plain"] : k \in env}, shell |-> "",
     image |-> NoImage, tag |-> NoTag, jobs |-> jobs]

Configs == {Quiet.config} \cup {Config("optional" :> keys) : keys \in {{"A"}, {"A", "B"}}}
           \cup {Config([ignore |-> {"A"}, ignoreLocal |-> {"C", "RELEASE_SHA"}, ignoreCI |-> {"B"}])}

EnvHosts ==
    {[Quiet EXCEPT !.example = File("read", ex), !.env = File(e[1], e[2]),
                   !.config = conf, !.tracked.risky = IF e[1] = "read" THEN {".env"} ELSE {},
                   !.composeFile = IF ref = "" THEN @ ELSE [at |-> "read", refs |-> {[var |-> "A", form |-> ref]}, services |-> {}],
                   !.workflows = IF ci THEN <<Workflow({"A", "C", "RELEASE_SHA"}, <<>>)>> ELSE <<>>]
        : ex \in {{"A"}, {"A", "B"}}, conf \in Configs,
          e \in {<<"absent", {}>>, <<"read", {}>>, <<"read", {"A"}>>, <<"read", {"B", "C"}>>},
          ref \in {"", "$", ":-"}, ci \in BOOLEAN}

\* A value in quotes that spans lines, one of which looks like an assignment.
QuotedHosts ==
    {[Quiet EXCEPT !.example = File("read", {"A", "B"}),
                   !.env = [at |-> "read", lines |-> <<Line("opens", "A"), Line("assigns", "B"), Line("ends", ""), Line("assigns", "C")>>]]}

(* Versions asked for and installed. *)
Parts == {<<18>>, <<18, 2>>, <<18, 2, 1>>, <<0, 2>>, <<0, 2, 3>>, <<0, 0, 3>>}
Asks  == {Ask(op, v) : op \in {"", "x", "^", "~", ">=", "<=", ">", "<", "="}, v \in Parts}
         \cup {Ask(op, v) : op \in {">= ", "<= ", "> ", "< ", "~>", "lts"}, v \in {<<18>>, <<18, 2>>, <<0, 2, 3>>}}
         \cup {Both(Ask(">=", <<18>>), "<", <<20>>), Both(Ask(">= ", <<18>>), "<", <<20>>), Both(Ask(">=", <<18, 2>>), "||", <<20>>),
               Both(Both(Ask(">", <<0, 2>>), "<", <<0, 4>>), "<=", <<0, 3>>), Ask("any", <<>>)}
There == {<<18, 2, 1>>, <<18, 3>>, <<19>>, <<0, 2, 3>>, <<0, 2, 4>>, <<0, 3>>, <<0, 0, 4>>, <<17, 9>>, <<1, 0>>, <<20>>}

VersionHosts == {[Quiet EXCEPT !.pins = ("node" :> a), !.tools["node"].version = v] : a \in Asks, v \in There}

(* Docker, compose, ports and the rest of the host. *)
Plain(n) == [form |-> "plain", host |-> n, var |-> ""]
Web(image, ports) == Service("web", image, ports)

DockerHosts ==
    {[Quiet EXCEPT !.composeFile = IF compose THEN [at |-> "read", refs |-> {}, services |-> {Web(NoImage, {Plain(80)})}] ELSE @,
                   !.dockerfile = ~compose, !.containerfile = TRUE,
                   !.docker.cli.plugin = plugin, !.docker.info = info, !.dockerService = service,
                   !.docker.services = {[name |-> "web", state |-> state, health |-> ""]},
                   !.docker.mounts = {[name |-> "data", there |-> FALSE]},
                   !.tcp["tcp4"].ports = {80}]
        : compose \in BOOLEAN, plugin \in {"ok", "fails"}, info \in {"ok", "down", "denied"},
          service \in {"ok", "fails"}, state \in {"running", "exited"}}

Word(kind, file, ends) == [kind |-> kind, file |-> file, ends |-> ends]
XLine == <<Word("assigns", "", FALSE), Word("other", "", TRUE), Word("file", "x.sh", FALSE), Word("file", "y.sh", FALSE)>>

Lines(kinds) == [i \in 1..Len(kinds) |-> [kind |-> kinds[i], id |-> 1, root |-> i = 1]]

HostHosts ==
    {[Quiet EXCEPT !.env = File("read", {"A"}), !.ignored = ignored, !.disk = [at |-> "read", gib |-> g, pct |-> 8, inodes |-> 50],
                   !.pkg = [at |-> "read", pm |-> "", scripts |-> {"x"}, lines |-> {XLine}], !.locks = {"yarn.lock", "package-lock.json"},
                   !.files = ("x.sh" :> [at |-> "read", exec |-> FALSE]), !.proxy = TRUE,
                   !.logs = <<[at |-> "read", lines |-> Lines(log)]>>]
        : ignored \in {"yes", "no"}, g \in {0, 3, 50},
          log \in {<<>>, <<"selinux">>, <<"selinux", "selinux", "apparmor">>, <<"apparmor">>}}

(* CI against compose: images spelled in several ways, one job or two. *)
Node(path) == Image(path, "")
NodePaths == {<<"node">>, <<"library", "node">>, <<"docker.io", "library", "node">>, <<"docker.io", "node">>,
              <<"ghcr.io", "node">>}

CIServiceHosts ==
    {[Quiet EXCEPT !.composeFile = [at |-> "read", refs |-> {}, services |-> {Web(Image(p, "latest"), {Plain(80), Plain(81)})}],
                   !.workflows = <<Workflow({}, jobs)>>]
        : p \in NodePaths,
          jobs \in {<<>>} \cup {<<Job(<<Web(Node(q), {80})>>)>> : q \in NodePaths}
                   \cup {<<Job(<<Web(Node(q), {80})>>), Job(<<Web(Node(q), {0, 9})>>)>> : q \in NodePaths}
                   \cup {<<Job(<<Web(NoImage, {80}), Service("db", Node(<<"pg">>), {})>>)>>}}

\* One job: shell, container, command, setup; the repository says otherwise.
Step(run, setup) == [run |-> run, setup |-> setup, env |-> {}]

CIJobHosts ==
    {[Quiet EXCEPT !.pkg = [at |-> "read", pm |-> "pnpm", scripts |-> {"test"}, lines |-> {}], !.targets = {"all"},
                   !.engines = {Ask(">=", <<18>>), Ask("", <<16>>)}, !.shell = "zsh",
                   !.devcontainer = [at |-> "image", image |-> Node(<<"node">>)],
                   !.workflows = <<[Workflow({}, <<[Job(<<>>) EXCEPT !.image = Image(p, "18"), !.tag = Ask("", <<18>>), !.shell = "bash",
                                       !.steps = <<Step(Command(pm, "test"), NoSetup),
                                                   Step(NoRun, [runtime |-> "node", ask |-> Ask("x", <<18>>)])>>]>>) EXCEPT !.lab = lab]>>]
             : p \in NodePaths, pm \in {"pnpm", "npm"}, lab \in BOOLEAN}

CIHosts == CIServiceHosts \cup CIJobHosts

(* A published port in each form, and the environment it is taken from.    *)
PortHosts ==
    {[Quiet EXCEPT !.composeFile = [at |-> "read", refs |-> {}, services |-> {Web(NoImage, {[form |-> f, host |-> 80, var |-> "PORT"]})}],
                   !.environ = e, !.tcp = [t \in {"tcp4", "tcp6"} |-> [at |-> "read", ports |-> IF t = "tcp6" THEN {80, 90} ELSE {}]]]
        : f \in {"plain", "$", ":-", "-", ":+", "+"}, e \in {Nothing, "PORT" :> 0, "PORT" :> 90}}

(* GPU, frameworks and caches, for the ai-ml profile. *)
GpuHosts ==
    {[Quiet EXCEPT !.gpu = [smi |-> smi, devices |-> 1, proc |-> proc, lspci |-> ~proc, modules |-> modules, secureBoot |-> "true"],
                   !.dockerfile = docker, !.docker.df = "ok",
                   !.toolkit.ctk = ctk, !.toolkit.verify.on = docker,
                   !.cuda = [nvcc |-> "ok", version |-> <<12, 4>>, driver |-> <<12, 2>>],
                   !.ml.frameworks = [f \in {"torch", "jax"} |-> [at |-> "ok", cuda |-> f = "torch", gpus |-> 0]],
                   !.caches = [pip |-> [at |-> "read", writable |-> ~docker, root |-> docker]]]
        : smi \in {"ok", "absent", "fails"}, proc \in BOOLEAN, modules \in {"nvidia", ""}, docker \in BOOLEAN, ctk \in {"ok", "absent"}}

MCCases ==
    {[host |-> h, opts |-> {}] : h \in EnvHosts \cup QuotedHosts \cup VersionHosts \cup DockerHosts \cup HostHosts \cup CIHosts \cup PortHosts}
    \cup {[host |-> h, opts |-> {"ai-ml", "ci"}] : h \in GpuHosts}
    \cup {[host |-> h, opts |-> {"ci"}] : h \in CIJobHosts}
=================================================================================
