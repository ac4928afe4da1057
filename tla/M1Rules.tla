--------------------------------- MODULE M1Rules --------------------------------
(***************************************************************************)
(* rules/m1engine.go: what each rule finds in the results of a scan.  c is *)
(* a function from the names of the collectors that ran to their results.  *)
(***************************************************************************)
EXTENDS Evidence, Versions

\* A collector that did not run is no different from one with no evidence.
From1(c, name) == IF name \in DOMAIN c THEN c[name] ELSE Result("absent", FALSE, Nothing)

(* env: the keys the example names and .env lacks. *)
IsOptional(conf, k) == (Of(conf, "required") # {} /\ k \notin Of(conf, "required")) \/ k \in Of(conf, "optional")

envRules(c) ==
    LET env  == c["env"]
        conf == From1(c, "config")
        kept(keys) == keys \ Of(conf, "ignore")
        lacked == kept(Of(env, "missing_keys"))
        optional == {k \in lacked : IsOptional(conf, k)}
        example  == kept(Of(env, "example_keys"))
        bare == Has(env, "env_missing") /\ example # {}
        all  == \A k \in example : IsOptional(conf, k)
    IN  Found(lacked \ optional # {}, "F-ENV-001", Medium, lacked \ optional)
        \cup Found(optional # {}, "F-ENV-001-OPTIONAL", Info, optional)
        \cup Found(bare /\ ~all, "F-ENV-001", Medium, example)
        \cup Found(bare /\ all, "F-ENV-001-OPTIONAL", Info, example)

(* compose: a reference is [var, form].  A dash anywhere in the braces     *)
(* makes it one with a default, be it in the message of an error check.    *)
HasDefault(ref) == ref.form \in {":-", "-", ":+", "+", ":? with dash"}

composeRules(c) ==
    LET keys == Of(From1(c, "env"), "env_keys") \cup Of(From1(c, "env"), "local_keys")
    IN  FoundAll({r.var : r \in {r \in Of(c["compose"], "refs") : r.var \notin keys /\ ~HasDefault(r)}},
                 "F-ENV-002", Medium)

gitRules(c) ==
    LET git == c["git"]
        tracked == Of(git, "tracked_env")
    IN  Found(tracked # {}, "F-GIT-001", Medium, tracked)
        \cup Found(Says(git, "env_exists", TRUE) /\ ~Says(git, "env_ignored", TRUE), "F-GIT-002", Medium, ".env")

repoRules(c) == LET locks == Of(c["repo"], "lockfiles")
                IN  Found(Cardinality(locks) > 1, "F-PM-001", Medium, locks)

runtimeRules(c) == Found(c["runtime"].ev # Nothing, "F-RUNTIME-DECL-001", Info, "declared")

runtimeFindingID(r) ==
    CASE r = "node" -> "F-RUNTIME-001" [] r = "python" -> "F-RUNTIME-002" [] r = "dotnet" -> "F-RUNTIME-004"
      [] r = "go" -> "F-RUNTIME-005" [] r = "rustc" -> "F-RUNTIME-006" [] OTHER -> "F-RUNTIME-003"

hostRuntimeRules(c) ==
    LET host == c["host_runtime"]
        pins == IF Has(From1(c, "runtime"), "pins") THEN c["runtime"].ev.pins ELSE Nothing
        missing == {r \in DOMAIN pins : r \in host.ev.missing}
        wrong == {r \in DOMAIN pins \cap DOMAIN host.ev.versions :
                     ~versionsCompatible(pins[r], Installed(host.ev.versions[r]))}
    IN  FoundAll(missing, "F-RUNTIME-003", High)
        \cup {<<runtimeFindingID(r), Medium, r>> : r \in wrong}

(* disk: GiB and percent free; evidence that is not there reads as zero.   *)
diskRules(c) ==
    LET d == IF Has(c["disk"], "free") THEN c["disk"].ev.free ELSE [gib |-> 0, pct |-> 0, inodes |-> -1]
        low(gib, pct) == d.gib < gib \/ d.pct < pct \/ (d.inodes >= 0 /\ d.inodes < pct)
    IN  Found(low(1, 2), "F-DISK-001", Medium, "critical")
        \cup Found(~low(1, 2) /\ low(5, 10), "F-DISK-001", Medium, "low")

portRules(c) == FoundAll(Of(From1(c, "compose"), "host_ports") \cap Of(c["port"], "listening"), "F-PORT-001", High)

networkRules(c) == Found(Has(c["network"], "proxy") /\ ~Has(c["network"], "no_proxy"), "F-NET-001", Low, "proxy")

systemdRules(c) == Found(Says(c["systemd"], "docker", "inactive"), "F-SVC-001", Medium, "docker")

permissionRules(c) == FoundAll(Of(c["permission"], "not_executable"), "F-FS-001", Medium)
                      \cup FoundAll(Of(c["permission"], "root_owned"), "F-PERM-002", Low)

securityRules(c) ==
    LET denials == Of(c["security"], "denials")
    IN  Found("selinux" \in denials, "F-SEC-SELINUX-001", Medium, "selinux")
        \cup Found("apparmor" \in denials, "F-SEC-APPARMOR-001", Medium, "apparmor")

(* docker: how bad a daemon that does not answer is depends on the repo.   *)
dockerDaemonSeverityTrusting(c) ==   \* mutant: no repo, or half of one, is no sign of containers
    LET repo == From1(c, "repo")
    IN  IF Has(repo, "compose") \/ Has(repo, "devcontainer") THEN High ELSE Medium

dockerDaemonSeverity(c) ==
    LET repo == From1(c, "repo")
        runs == Has(repo, "compose") \/ Has(repo, "devcontainer") \/ Has(repo, "devcontainer_image")
    IN  IF "repo" \notin DOMAIN c \/ Marked(repo) \/ runs THEN High ELSE Medium

dockerRules(c) ==
    LET docker == c["docker"]
        down   == docker.status = "unavailable"
        denied == Has(docker, "permission_denied")
        \* asked of the compose collector, which has no such source
        uses   == Has(From1(c, "compose"), "compose")
    IN  Found(down /\ denied, "F-DOCKER-002", Medium, "socket")
        \cup Found(down /\ ~denied, "F-DOCKER-001", dockerDaemonSeverity(c), "daemon")
        \cup Found(uses /\ Has(docker, "plugin") /\ docker.ev.plugin \in {"missing", "legacy"},
                   "F-DOCKER-003", Medium, "plugin")

podmanRules(c) == Found(c["podman"].status = "unavailable", "F-PODMAN-001", Medium, "podman")

composeStatusRules(c) ==
    LET states == Of(c["compose_status"], "states")
        mounts == Of(c["compose_status"], "bind_mounts")
        bad    == {"exited", "dead", "restarting"}
    IN  FoundAll({s.name : s \in {s \in states : s.state \in bad \/ s.health = "unhealthy"}}, "F-CONTAINER-001", High)
        \cup FoundAll({m.name : m \in {m \in mounts : ~m.there}}, "F-CONTAINER-003", Medium)

(* repro: a command that was run again, and how its output was read.       *)
reproKinds == [permission_denied |-> "F-REPRO-002", missing_file |-> "F-REPRO-003",
               address_in_use |-> "F-REPRO-004", connection_refused |-> "F-REPRO-005",
               runtime_version_failure |-> "F-REPRO-006", dependency_failure |-> "F-REPRO-007",
               compose_config_error |-> "F-REPRO-008"]

reproRules(c) ==
    LET repro == c["repro"]
        kinds == Of(repro, "classifications")
    IN  IF repro.status = "timeout" THEN {<<"F-REPRO-009", High, "command">>}
        ELSE {<<reproKinds[k], Medium, "command">> : k \in kinds \cap DOMAIN reproKinds}
             \cup Found(Says(repro, "failed", TRUE) /\ kinds = {}, "F-REPRO-001", High, "command")

(* Every rule whose collector ran. *)
M1(c) ==
    UNION {CASE n = "env" -> envRules(c)       [] n = "compose" -> composeRules(c)
             [] n = "git" -> gitRules(c)       [] n = "repo" -> repoRules(c)
             [] n = "runtime" -> runtimeRules(c) [] n = "host_runtime" -> hostRuntimeRules(c)
             [] n = "disk" -> diskRules(c)     [] n = "port" -> portRules(c)
             [] n = "network" -> networkRules(c) [] n = "systemd" -> systemdRules(c)
             [] n = "security" -> securityRules(c) [] n = "permission" -> permissionRules(c)
             [] n = "docker" -> dockerRules(c) [] n = "podman" -> podmanRules(c)
             [] n = "compose_status" -> composeStatusRules(c) [] n = "repro" -> reproRules(c)
             [] OTHER -> {}
           : n \in DOMAIN c}
=================================================================================
