--------------------------------- MODULE M8Rules --------------------------------
(***************************************************************************)
(* rules/m8engine.go: where the project as CI runs it and as it is here    *)
(* drift apart.  An image is [path, tag], a service [name, image, ports,   *)
(* inner], a variable of CI [key, value]; a value is "context" when it is  *)
(* taken from github, runner or env.                                       *)
(***************************************************************************)
EXTENDS M1Rules

(* Variables. *)

ControlKeys == {"CI", "GITHUB_TOKEN", "NODE_ENV"}       \* and GITHUB_*, RUNNER_*, ACTIONS_*
DeployKeys  == {"OCI_REGION", "RELEASE_SHA"}            \* by their names
isIgnoredCIEnv(v) == v.key \in ControlKeys \/ (v.key \notin DeployKeys /\ v.value = "context")

\* The variables CI sets, less what is never asked for here.
allCIEnvKeys(c) ==
    LET conf == From1(c, "config")
    IN  {v.key : v \in {v \in Of(c["ci"], "env") : ~isIgnoredCIEnv(v)}}
        \ (Of(conf, "ignoreLocal") \cup Of(conf, "ciOnly"))

localEnvKeys(c) ==
    LET env == From1(c, "env") IN Of(env, "env_keys") \cup Of(env, "example_keys") \cup Of(env, "local_keys")

envParity(c) ==
    LET conf    == From1(c, "config")
        lacked  == allCIEnvKeys(c) \ localEnvKeys(c)
        deploy  == {k \in lacked \ Of(conf, "localRequired") : k \in Of(conf, "deploymentOnly") \cup DeployKeys}
        noCI    == (Of(From1(c, "env"), "env_keys") \ Of(conf, "ignoreCI")) \ allCIEnvKeys(c)
    IN  Found(lacked \ deploy # {}, "F-CI-ENV-001", Medium, lacked \ deploy)
        \cup Found(deploy # {}, "F-CI-ENV-DEPLOY-INFO", Info, deploy)
        \cup Found(noCI # {}, "F-CI-ENV-002", Low, noCI)

(* Runtimes: a pin file, or for node the engines of any package.json; of   *)
(* several the last in the order of a map, which is any.                   *)
LocalRuntimes(c) ==
    LET runtime == From1(c, "runtime")
        pins == IF Has(runtime, "pins") THEN runtime.ev.pins ELSE Nothing
        node == Of(runtime, "engines") \cup (IF "node" \in DOMAIN pins THEN {pins["node"]} ELSE {})
    IN  IF node = {} THEN {pins} ELSE {("node" :> n) @@ pins : n \in node}

runtimeParity(c, local) ==
    LET asked == {s \in Of(c["ci"], "setup") : s.ask.op # "opaque"}
    IN  FoundAll({s.runtime : s \in {s \in asked : s.runtime \notin DOMAIN local}}, "F-CI-PACKAGE-001", Low)
        \cup FoundAll({s.runtime : s \in {s \in asked : s.runtime \in DOMAIN local
                                                        /\ ~versionsCompatible(local[s.runtime], s.ask)}},
                      "F-CI-RUNTIME-001", Medium)

(* Commands: [pm, args], pm being the first word.  Only a command of npm,  *)
(* pnpm, yarn or bun can be one of another manager.                        *)
Managers == {"npm", "pnpm", "yarn", "bun"}

commandParity(c) ==
    LET repo  == From1(c, "repo")
        local == Of(repo, "commands")
        pm    == IF Has(repo, "package_manager") THEN repo.ev.package_manager ELSE ""
        bare(r) == IF r.pm \in Managers THEN r.args ELSE <<r.pm, r.args>>
        other(r) == /\ pm # "" /\ r.pm \in Managers \ {pm}
                    /\ \E l \in local : (l.pm \in Managers) = (r.pm \in Managers) /\ bare(l) = bare(r)
        runs == Of(c["ci"], "runs")
        unknown == {r \in runs : ~other(r) /\ r \notin local}
    IN  FoundAll({r \in runs : other(r)}, "F-CI-PACKAGE-002", Low)
        \cup Found(local # {} /\ unknown # {}, "F-CI-COMMAND-001", Low, unknown)

(* Services. *)

Registries == {"docker.io", "index.docker.io", "ghcr.io"}

normalizeContainerImage(i) ==
    LET p == i.path
    IN  [tag  |-> IF i.tag = "" THEN "latest" ELSE i.tag,
         path |-> CASE Len(p) = 1 -> <<"docker.io", "library">> \o p
                    [] Len(p) = 2 /\ p[1] \notin Registries -> <<"docker.io">> \o p
                    [] OTHER -> IF p[1] = "index.docker.io" THEN <<"docker.io">> \o Tail(p) ELSE p]

Pulled(i) == i.path # <<>>

CIServicesLastJob(c) ==   \* mutant: the last mention of a service stands alone
    LET all == IF Has(c["ci"], "services") THEN c["ci"].ev.services ELSE <<>>
        last(n) == CHOOSE i \in 1..Len(all) : all[i].name = n /\ \A j \in (i + 1)..Len(all) : all[j].name # n
    IN  [n \in {all[i].name : i \in 1..Len(all)} |-> [image |-> all[last(n)].image, ports |-> all[last(n)].ports]]

\* Mentions of one name are one service: the last image, all the ports.
CIServices(c) ==
    LET all == IF Has(c["ci"], "services") THEN c["ci"].ev.services ELSE <<>>
        of(n) == {i \in 1..Len(all) : all[i].name = n}
        images(n) == {i \in of(n) : Pulled(all[i].image)}
        last(S) == CHOOSE i \in S : \A j \in S : j <= i
    IN  [n \in {all[i].name : i \in 1..Len(all)} |->
            [image |-> IF images(n) = {} THEN [path |-> <<>>, tag |-> ""] ELSE all[last(images(n))].image,
             ports |-> UNION {all[i].ports : i \in of(n)}]]

Disjoint(S, T) == S # {} /\ T # {} /\ S \cap T = {}

serviceMismatch(s, t) ==
    \/ Pulled(s.image) /\ Pulled(t.image) /\ normalizeContainerImage(s.image) # normalizeContainerImage(t.image)
    \/ Disjoint(s.ports, t.ports)

serviceParity(c) ==
    LET ci    == CIServices(c)
        here  == Of(From1(c, "compose"), "services")
        names == {s.name : s \in here}
        ports == Of(From1(c, "compose"), "host_ports")
        lone  == {n \in DOMAIN ci \ names : names # {} \/ ci[n].ports \cap ports = {}}
        drift == {s.name : s \in {s \in here : s.name \in DOMAIN ci /\ serviceMismatch(ci[s.name], s)}}
    IN  FoundAll(lone \cup drift, "F-CI-SERVICE-001", Medium)
        \cup (IF DOMAIN ci = {} THEN {} ELSE FoundAll(names \ DOMAIN ci, "F-CI-SERVICE-002", Low))

containerParity(c) ==
    LET repo == From1(c, "repo")
    IN  IF ~Has(repo, "devcontainer_image") THEN {}
        ELSE FoundAll({i \in Of(c["ci"], "containers") :
                          normalizeContainerImage(i) # normalizeContainerImage(repo.ev.devcontainer_image)},
                      "F-CI-CONTAINER-001", Medium)

shellParity(c) ==
    LET host == From1(c, "host")
    IN  IF ~Has(host, "shell") THEN {}
        ELSE FoundAll(Of(c["ci"], "shells") \ {host.ev.shell}, "F-CI-SHELL-001", Low)

(* Each outcome of an evaluation: nothing at all without evidence of CI.   *)
M8Outcomes(c) ==
    IF "ci" \notin DOMAIN c \/ c["ci"].ev = Nothing THEN {{}}
    ELSE {envParity(c) \cup runtimeParity(c, local) \cup commandParity(c)
          \cup serviceParity(c) \cup containerParity(c) \cup shellParity(c) : local \in LocalRuntimes(c)}

=================================================================================
