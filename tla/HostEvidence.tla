------------------------------ MODULE HostEvidence ------------------------------
(***************************************************************************)
(* The collectors that ask the host: files under /proc and /sys, and        *)
(* commands with a time limit.  h is what they would find.  A command      *)
(* answers "ok", "fails", "slow" (it is stopped at its limit), "denied" or *)
(* "absent"; what it says when it works is a field beside it.              *)
(***************************************************************************)
EXTENDS Evidence, SequencesExt

(* Always ok, whatever could not be read. *)

CollectHost(h) == Ok(When(h.osRelease = "read", "os", TRUE) @@ When(h.shell # "", "shell", h.shell))

CollectNetwork(h) == Ok(When(h.proxy, "proxy", TRUE) @@ When(h.noProxy, "no_proxy", TRUE))

\* h.tcp lists the listening ports of each table; a table that cannot be
\* opened is passed over.
CollectPort(h) ==
    LET open == {t \in DOMAIN h.tcp : h.tcp[t].at = "read"}
    IN  Ok([listening |-> UNION {h.tcp[t].ports : t \in open}])

\* The files that the words of a script run: the ones that stand where a
\* command does, after a separator or the variables set for it.  A word is
\* [kind, file, ends]; ends when a separator is stuck to it.
directPackageScriptExecutables(words) ==
    LET word(acc, w) ==
            CASE w.kind = "separator" -> [acc EXCEPT !.first = TRUE]
              [] acc.first /\ w.kind = "assigns" -> acc
              [] OTHER -> [run |-> IF acc.first /\ w.kind = "file" THEN acc.run \cup {w.file} ELSE acc.run,
                           first |-> w.ends]
    IN  FoldLeft(word, [run |-> {}, first |-> TRUE], words).run

\* A file is [at, exec]; only those that package.json runs count.  Whether root
\* owns one is asked of a Stat_t of another package than os.Stat's, so that no
\* file is ever root's.
CollectPermission(h) ==
    LET run   == IF h.pkg.at = "read" THEN UNION {directPackageScriptExecutables(l) : l \in h.pkg.lines} ELSE {}
        seen  == {f \in run \cap DOMAIN h.files : h.files[f].at = "read"}
        plain == {f \in seen : ~h.files[f].exec}
    IN  Ok(When(plain # {}, "not_executable", plain))

\* A line of a log is [kind, id, root].  The lines of one audit record share
\* an id, and any of them may be the one that names the repository.
lineMatchesRoot(log, l) == \E m \in ToSet(log.lines) : m.root /\ (m = l \/ (l.id # 0 /\ m.id = l.id))

\* Each security log in turn: the denials that concern the repository, up to
\* the cap.  A log that may not be read is an entry of its own, one that
\* fails otherwise a note.
ReadLog(cap, acc, log) ==
    LET line(a, l) == IF a.full \/ l.kind = "other" \/ ~lineMatchesRoot(log, l) THEN a
                      ELSE [told |-> a.told \o <<l.kind>>, full |-> Len(a.told) + 1 >= cap]
    IN  CASE acc.full -> acc
          [] ~acc.full /\ log.at = "read"   -> FoldLeft(line, acc, log.lines)
          [] ~acc.full /\ log.at = "denied" -> [acc EXCEPT !.told = @ \o <<"access_denied">>]
          [] OTHER -> acc

CollectSecurity(h, cap) ==
    LET read(acc, log) == ReadLog(cap, acc, log)
        all == FoldLeft(read, [told |-> <<>>, full |-> FALSE], h.logs)
    IN  Ok([denials |-> ToSet(all.told), capped |-> all.full])

(* Unavailable or partial when the probe fails. *)

CollectDisk(h) == IF h.disk.at = "read" THEN Ok([free |-> h.disk])
                  ELSE Result("unavailable", TRUE, Nothing)

CollectSystemd(h, expectsDocker) ==
    CASE h.systemctl \notin {"ok", "degraded"} -> Result("unavailable", FALSE, [systemd |-> h.systemctl])
      [] OTHER -> Ok([systemd |-> h.systemctl,
                      docker  |-> IF ~expectsDocker THEN "not_applicable"
                                  ELSE IF h.dockerService = "ok" THEN "active" ELSE "inactive"])

Runtimes == {"node", "python", "go", "rustc", "dotnet"}

\* Mutant: a command that gives no version is one that is not there.
CollectHostRuntimeStrict(h) ==
    LET found == {r \in DOMAIN h.tools : h.tools[r].at = "ok"}
    IN  Ok([missing |-> Runtimes \ found, versions |-> [r \in found |-> h.tools[r].version]])

\* A runtime is on the path or missing; a version command that fails leaves
\* an empty version.
CollectHostRuntime(h) ==
    LET found == {r \in DOMAIN h.tools : h.tools[r].at # "absent"}
    IN  Ok([missing  |-> Runtimes \ found,
            versions |-> [r \in {r \in found : h.tools[r].at = "ok"} |-> h.tools[r].version]])

(* docker: the plugin probe runs before the daemon is asked. *)
CollectDocker(h) ==
    LET d == h.docker
        plugin == CASE d.cli.plugin = "ok" -> "available"
                    [] d.cli.plugin # "ok" /\ d.cli.legacy = "ok" -> "legacy"
                    [] OTHER -> "missing"
    IN  CASE d.cli.at = "absent" -> Ok([binary |-> "not_found"])
          [] d.cli.at = "ok" /\ d.info # "ok" ->
                \* stderr names the socket, or says permission denied
                Result("unavailable", FALSE,
                       [binary |-> "present", plugin |-> plugin]
                       @@ When(d.info \in {"denied", "noSocket"}, "permission_denied", TRUE))
          [] OTHER -> Ok([binary |-> "present", plugin |-> plugin])

(* podman: --version is only asked whether the binary is there. *)
CollectPodman(h) ==
    CASE h.podman.at = "absent" -> Ok([podman |-> "not_found"])
      [] h.podman.at = "ok" /\ h.podman.info # "ok" ->
            Result("unavailable", FALSE, [podman |-> "present"]
                                         @@ When(h.podman.info = "noRuntimeDir", "runtime_dir", TRUE))
      [] OTHER -> Ok([podman |-> "present"])

(* compose_status: config, then ps; services are [name, state, health].    *)
configAnswer(d) == CASE d.cli.at = "absent" -> "absent"
                     [] d.cli.at # "absent" /\ d.cli.plugin # "ok" -> d.cli.plugin
                     [] OTHER -> d.config

CollectComposeStatus(h) ==
    LET d == h.docker
        mounts == When(d.mounts # {}, "bind_mounts", d.mounts)
    IN  CASE h.composeFile.at = "absent" -> Ok(Nothing)
          [] h.composeFile.at # "absent" /\ configAnswer(d) \in {"fails", "garbled"} -> Result("partial", FALSE, Nothing)
          [] h.composeFile.at # "absent" /\ configAnswer(d) \notin {"ok", "fails", "garbled"} ->
                Result("unavailable", FALSE, Nothing)
          [] h.composeFile.at # "absent" /\ configAnswer(d) = "ok" ->
                IF d.ps = "ok" THEN Ok(mounts @@ When(d.services # {}, "states", d.services))
                ELSE Result("partial", FALSE, mounts)

(* gpu: nvidia-smi, then /proc, then lspci. *)
SmiStatus(g) ==
    CASE g.smi = "slow"   -> "timeout"
      [] g.smi = "absent" -> "not_found"
      [] g.smi = "ok"     -> "ok"
      [] g.smi = "garbled" -> "parse_error"
      [] g.smi = "denied" -> "permission_denied"
      [] OTHER -> "error"

CollectGpu(h) ==
    LET g == h.gpu
        present  == g.smi = "ok" /\ g.devices > 0
        hardware == present \/ g.proc \/ g.lspci
    IN  Result(CASE g.smi = "slow" -> "timeout" [] g.smi = "denied" -> "permission_denied" [] OTHER -> "ok",
               g.smi \notin {"ok", "absent"},
               [gpu_present |-> present, gpu_hardware |-> hardware,
                module |-> g.modules = "nvidia", smi |-> SmiStatus(g), secure_boot |-> g.secureBoot])

(* gpudocker: three toolkits, docker info, and a run of nvidia-smi in a    *)
(* container when asked for.                                               *)
VerifyGpu(v) ==
    CASE v.image = "slow" -> "timeout"
      [] v.image = "fails" /\ ~v.pull -> "image_missing"
      [] v.image # "slow" /\ (v.image = "ok" \/ v.pull) ->
            CASE v.run = "slow" -> "timeout" [] v.run = "ok" -> "success" [] OTHER -> "failed"

CollectGpuDocker(h) ==
    LET d == h.docker
        t == h.toolkit
        slow == t.ctk = "slow" \/ (d.cli.at = "ok" /\ d.info = "slow")
                \/ (t.verify.on /\ VerifyGpu(t.verify) = "timeout")
        runtime == IF d.cli.at = "absent" \/ d.info = "slow" THEN FALSE
                   ELSE IF d.info = "ok" THEN t.runtime ELSE t.daemonJson
    IN  Result(IF slow THEN "timeout" ELSE "ok", slow,
               [docker_binary |-> d.cli.at # "absent", docker_daemon |-> d.cli.at = "ok" /\ d.info = "ok",
                gpu_runtime |-> runtime, toolkit |-> t.ctk = "ok"]
               @@ When(t.verify.on, "verify", VerifyGpu(t.verify)))

(* cuda: the toolkit's version, and whether the driver is new enough. *)
CollectCuda(h) ==
    LET newer(a, b) == a[1] > b[1] \/ (a[1] = b[1] /\ a[2] > b[2])
    IN  CASE h.cuda.nvcc = "slow" -> Result("timeout", FALSE, Nothing)
          [] h.cuda.nvcc = "ok" ->
                Ok((IF h.cuda.driver = <<>> THEN Nothing
                    ELSE [cuda_newer |-> newer(h.cuda.version, h.cuda.driver)])
                   @@ [cuda |-> h.cuda.version])
          [] OTHER -> Ok(Nothing)

(* pythonml: which frameworks can be imported, then each asked in turn.  A *)
(* python that does not answer at all has none.                            *)
detectPackages(m) == IF m.python = "ok" THEN {f \in DOMAIN m.frameworks : m.frameworks[f].at # "absent"} ELSE {}

probed(m) == {f \in detectPackages(m) : m.frameworks[f].at = "ok"}

CollectPythonML(h) ==
    LET m == h.ml
    IN  Result("ok", m.python = "garbled" \/ probed(m) # detectPackages(m),
               When(probed(m) # {}, "frameworks", [f \in probed(m) |-> m.frameworks[f]]))

(* cache: owner and mode bits of each cache directory; one that cannot be  *)
(* looked at is passed over as one that is not there.                      *)
inspectCache(d) == [writable |-> d.writable, root |-> d.root]

inspectDockerCache(d) == d.cli.at = "ok" /\ d.df = "ok"

CollectCache(h) ==
    LET there == {t \in DOMAIN h.caches : h.caches[t].at = "read"}
    IN  Ok([caches |-> [t \in there |-> inspectCache(h.caches[t])]]
           @@ When(inspectDockerCache(h.docker), "docker_cache", TRUE))
=================================================================================
