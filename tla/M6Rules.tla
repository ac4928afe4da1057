--------------------------------- MODULE M6Rules --------------------------------
(* rules/m6engine.go: GPU, ML frameworks, GPU containers and caches. *)
EXTENDS Evidence

Field(c, n, f, none) == IF n \in DOMAIN c /\ Has(c[n], f) THEN c[n].ev[f] ELSE none

nvidiaSMIDriverUnavailable(status) == status \in {"error", "permission_denied", "timeout", "parse_error"}

gpuRules(c) ==
    LET present == Field(c, "gpu", "gpu_present", FALSE)
        there   == Field(c, "gpu", "gpu_hardware", FALSE)
        loaded  == Field(c, "gpu", "module", FALSE)
        smi     == Field(c, "gpu", "smi", "")
    IN  Found(there /\ (~loaded \/ (~present /\ nvidiaSMIDriverUnavailable(smi))), "F-GPU-001", High, "driver")
        \cup Found(Field(c, "gpu", "secure_boot", "unknown") = "true" /\ ~loaded /\ there,
                   "F-GPU-002", Medium, "secure boot")

mlRules(c) ==
    LET told == Field(c, "pythonml", "frameworks", Nothing)
        here(f) == f \in DOMAIN told
        present == Field(c, "gpu", "gpu_present", FALSE)
        blind(f) == here(f) /\ told[f].gpus = 0
    IN  Found(here("torch") /\ ~told["torch"].cuda /\ present, "F-ML-PYTORCH-001", Medium, "torch")
        \cup Found(blind("torch") /\ told["torch"].cuda, "F-ML-PYTORCH-002", Medium, "torch")
        \cup Found(blind("tensorflow") /\ present, "F-ML-TF-001", Medium, "tensorflow")
        \cup Found(blind("jax") /\ present, "F-ML-JAX-001", Medium, "jax")

gpuDockerRules(c) ==
    LET d(f) == Field(c, "gpudocker", f, FALSE)
    IN  Found(/\ Field(c, "gpu", "gpu_present", FALSE) /\ d("docker_binary") /\ d("docker_daemon")
              /\ ~d("gpu_runtime") /\ ~d("toolkit"), "F-DOCKER-GPU-001", Medium, "runtime")
        \cup Found(Field(c, "gpudocker", "verify", "") \in {"failed", "timeout"}, "F-DOCKER-GPU-002", Medium, "verify")

cacheRules(c) ==
    LET caches == Field(c, "cache", "caches", Nothing)
    IN  FoundAll({t \in DOMAIN caches : ~caches[t].writable}, "F-CACHE-001", Low)
        \cup FoundAll({t \in DOMAIN caches : caches[t].root}, "F-CACHE-002", Low)
        \cup Found(Field(c, "cache", "docker_cache", FALSE), "F-CACHE-003", Low, "docker")

M6(c) == gpuRules(c) \cup mlRules(c) \cup gpuDockerRules(c) \cup cacheRules(c)
=================================================================================
