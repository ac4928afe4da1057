------------------------------ MODULE RemoteSession ------------------------------
(***************************************************************************)
(* "devdiag remote sync | enter | clean" on one target.  A sync uploads    *)
(* the profile's files to a directory of its own session, writes the       *)
(* manifest beside them and then a copy of it to the local session cache;  *)
(* a clean reads the cache, removes the files the manifests list and marks *)
(* the cached manifests as cleaned.  Several clients of one user may run.  *)
(* Every remote command may fail, a cache file is truncated before it is   *)
(* written, and a client may be killed at any step.                        *)
(***************************************************************************)
EXTENDS Naturals, Sequences, FiniteSets

CONSTANTS Clients,      \* processes that run devdiag remote
          MaxSessions,  \* bound on syncs and enters
          NumFiles,     \* number of files in the profile
          Kind,         \* "container" (also Kubernetes) or "ssh"
          MaxFaults,    \* bound on remote commands and cache writes that fail
          MaxCrashes    \* bound on killed clients

Sessions == 1..MaxSessions
Files    == 1..NumFiles
Manifest == 0           \* manifest.json, which no manifest lists

ASSUME RemoteAssumption ==
    /\ MaxSessions \in Nat \ {0} /\ NumFiles \in Nat \ {0} /\ Kind \in {"container", "ssh"}
    /\ MaxFaults \in Nat /\ MaxCrashes \in Nat

VARIABLES remote,    \* files on the target: [place, session, file]
          cache,     \* per session: the status in its cached manifest, or what else is there
          nextID,    \* sessions so far; also the order of CreatedAt
          pc,        \* where each client is
          op,        \* its subcommand
          todo,      \* sessions it has to clean, or the one it syncs
          at,        \* its place in that list
          file,      \* the next of that session's files to remove
          lastErr,   \* cleanManifest's lastErr is not nil
          failed,    \* failCount > 0
          outcome,   \* how the client's latest command ended
          faults, crashes

clientVars == <<pc, op, todo, at, file, lastErr, failed, outcome>>
vars == <<remote, cache, nextID, clientVars, faults, crashes>>

(* A path under "~/", once quoted for the remote shell, names a directory  *)
(* called "$HOME" (ShellPath first) or "~" (as it is) in the login         *)
(* directory; a container path is absolute.                                *)
ShellPathQuoted == IF Kind = "ssh" THEN "$HOME" ELSE "root"
PathQuoted      == IF Kind = "ssh" THEN "~" ELSE "root"

At(place, s, fs) == [place: {place}, session: {s}, file: fs]

TypeOK ==
    /\ remote \subseteq [place: {"root", "$HOME", "~"}, session: Sessions, file: Files \cup {Manifest}]
    /\ cache \in [Sessions -> {"none", "torn", "active", "cleaned"}]
    /\ nextID \in 0..MaxSessions
    /\ pc \in [Clients -> {"idle", "upload", "manifest", "openCache", "writeCache", "shell",
                           "remove", "rmdir", "openCleaned", "writeCleaned"}]
    /\ op \in [Clients -> {"none", "sync", "enter", "clean"}]
    /\ todo \in [Clients -> Seq(Sessions)] /\ at \in [Clients -> 1..MaxSessions]
    /\ file \in [Clients -> 1..(NumFiles + 1)]
    /\ lastErr \in [Clients -> BOOLEAN] /\ failed \in [Clients -> BOOLEAN]
    /\ outcome \in [Clients -> {"none", "synced", "failed", "cleaned", "partial"}]
    /\ faults \in 0..MaxFaults /\ crashes \in 0..MaxCrashes

Init ==
    /\ remote = {} /\ cache = [s \in Sessions |-> "none"] /\ nextID = 0
    /\ pc = [c \in Clients |-> "idle"] /\ op = [c \in Clients |-> "none"]
    /\ todo = [c \in Clients |-> <<>>] /\ at = [c \in Clients |-> 1]
    /\ file = [c \in Clients |-> 1]
    /\ lastErr = [c \in Clients |-> FALSE] /\ failed = [c \in Clients |-> FALSE]
    /\ outcome = [c \in Clients |-> "none"]
    /\ faults = 0 /\ crashes = 0
-----------------------------------------------------------------------------------
Goto(c, l) == pc' = [pc EXCEPT ![c] = l]
This(c)    == todo[c][at[c]]

End(c, o) == Goto(c, "idle") /\ outcome' = [outcome EXCEPT ![c] = o]

Fault == faults < MaxFaults /\ faults' = faults + 1

(* sync and enter.                                                         *)

StartSync(c, o) ==
    /\ pc[c] = "idle" /\ nextID < MaxSessions
    /\ nextID' = nextID + 1
    /\ op' = [op EXCEPT ![c] = o]
    /\ todo' = [todo EXCEPT ![c] = <<nextID'>>] /\ at' = [at EXCEPT ![c] = 1]
    /\ failed' = [failed EXCEPT ![c] = FALSE]
    /\ Goto(c, "upload")
    /\ UNCHANGED <<remote, cache, file, lastErr, outcome, faults, crashes>>

\* A failed or cancelled upload may leave any part of the files behind.
Upload(c) ==
    /\ pc[c] = "upload"
    /\ \/ /\ remote' = remote \cup At(ShellPathQuoted, This(c), Files)
          /\ Goto(c, "manifest") /\ UNCHANGED <<outcome, faults>>
       \/ /\ \E part \in SUBSET Files :
                remote' = remote \cup At(ShellPathQuoted, This(c), part)
          /\ End(c, "failed") /\ Fault
    /\ UNCHANGED <<cache, nextID, op, todo, at, file, lastErr, failed, crashes>>

\* A manifest that could not be written is only a warning.
WriteManifest(c) ==
    /\ pc[c] = "manifest"
    /\ \/ /\ remote' = remote \cup At(ShellPathQuoted, This(c), {Manifest})
          /\ UNCHANGED faults
       \/ UNCHANGED remote /\ Fault
    /\ Goto(c, "openCache")
    /\ UNCHANGED <<cache, nextID, op, todo, at, file, lastErr, failed, outcome, crashes>>

\* What follows WriteCache(manifest), whose error is only a warning.
AfterCached(c) == IF op[c] = "enter" THEN Goto(c, "shell") /\ UNCHANGED outcome
                  ELSE End(c, "synced")

OpenCache(c) ==
    /\ pc[c] = "openCache"
    /\ \/ /\ cache' = [cache EXCEPT ![This(c)] = "torn"]
          /\ Goto(c, "writeCache") /\ UNCHANGED <<outcome, faults>>
       \/ UNCHANGED cache /\ AfterCached(c) /\ Fault
    /\ UNCHANGED <<remote, nextID, op, todo, at, file, lastErr, failed, crashes>>

WriteCache(c) ==
    /\ pc[c] = "writeCache"
    /\ \/ cache' = [cache EXCEPT ![This(c)] = "active"] /\ UNCHANGED faults
       \/ UNCHANGED cache /\ Fault
    /\ AfterCached(c)
    /\ UNCHANGED <<remote, nextID, op, todo, at, file, lastErr, failed, crashes>>

BeginClean(c) == /\ Goto(c, "remove")
                 /\ file' = [file EXCEPT ![c] = 1]
                 /\ lastErr' = [lastErr EXCEPT ![c] = FALSE]

\* The shell ends, with any exit code; then --cleanup=always or never.
ShellExits(c) ==
    /\ pc[c] = "shell"
    /\ \/ BeginClean(c) /\ UNCHANGED outcome
       \/ End(c, "synced") /\ UNCHANGED <<file, lastErr>>
    /\ UNCHANGED <<remote, cache, nextID, op, todo, at, failed, faults, crashes>>
-----------------------------------------------------------------------------------
(* clean, and the cleanup after a shell.                                   *)

\* Cached manifests that can be read; a torn one is skipped.
Readable == {s \in Sessions : cache[s] \in {"active", "cleaned"}}
Latest   == {s \in Readable : \A t \in Readable : t <= s}

\* ReadCacheBySessionID, ReadCache or ListCache: the selections of a clean.
Selections == {{s} : s \in Readable} \cup {Latest, Readable}

\* The directory listing sorts by name: any order of the sessions.
StartClean(c, sel) ==
    /\ pc[c] = "idle"
    /\ op' = [op EXCEPT ![c] = "clean"]
    /\ failed' = [failed EXCEPT ![c] = FALSE]
    /\ IF sel = {}
       THEN End(c, "cleaned") /\ UNCHANGED <<todo, at, file, lastErr>>
       ELSE /\ todo' \in {[todo EXCEPT ![c] = q] :
                             q \in {p \in [1..Cardinality(sel) -> sel] :
                                       \A s \in sel : \E k \in DOMAIN p : p[k] = s}}
            /\ at' = [at EXCEPT ![c] = 1]
            /\ BeginClean(c) /\ UNCHANGED outcome
    /\ UNCHANGED <<remote, cache, nextID, faults, crashes>>

\* Mutant: a file that could not be removed is forgotten.
RemoveFileIgnored(c) ==
    /\ pc[c] = "remove"
    /\ \/ /\ remote' = remote \ At(PathQuoted, This(c), {file[c]})
          /\ UNCHANGED <<lastErr, faults>>
       \/ UNCHANGED <<remote, lastErr>> /\ Fault
    /\ file' = [file EXCEPT ![c] = @ + 1]
    /\ IF file[c] = NumFiles THEN Goto(c, "rmdir") ELSE UNCHANGED pc
    /\ UNCHANGED <<cache, nextID, op, todo, at, failed, outcome, crashes>>

\* Mutant: the loop leaves out the last file.
RemoveFileButLast(c) ==
    /\ pc[c] = "remove"
    /\ \/ /\ remote' = remote \ At(PathQuoted, This(c), {file[c]})
          /\ UNCHANGED <<lastErr, faults>>
       \/ /\ remote' \in {remote, remote \ At(PathQuoted, This(c), {file[c]})}
          /\ lastErr' = [lastErr EXCEPT ![c] = TRUE] /\ Fault
    /\ file' = [file EXCEPT ![c] = @ + 1]
    /\ IF file[c] + 1 = NumFiles THEN Goto(c, "rmdir") ELSE UNCHANGED pc
    /\ UNCHANGED <<cache, nextID, op, todo, at, failed, outcome, crashes>>

\* rm -f of one file; the loop goes on after an error.
RemoveFile(c) ==
    /\ pc[c] = "remove"
    /\ \/ /\ remote' = remote \ At(PathQuoted, This(c), {file[c]})
          /\ UNCHANGED <<lastErr, faults>>
       \/ /\ remote' \in {remote, remote \ At(PathQuoted, This(c), {file[c]})}
          /\ lastErr' = [lastErr EXCEPT ![c] = TRUE] /\ Fault
    /\ file' = [file EXCEPT ![c] = @ + 1]
    /\ IF file[c] = NumFiles THEN Goto(c, "rmdir") ELSE UNCHANGED pc
    /\ UNCHANGED <<cache, nextID, op, todo, at, failed, outcome, crashes>>

Advance(c) ==
    IF at[c] < Len(todo[c])
    THEN at' = [at EXCEPT ![c] = @ + 1] /\ BeginClean(c) /\ UNCHANGED outcome
    ELSE /\ End(c, IF failed'[c] THEN "partial" ELSE "cleaned")
         /\ UNCHANGED <<at, file, lastErr>>

\* Mutant: only the last manifest's error counts.
NextManifestForgets(c, err) == failed' = [failed EXCEPT ![c] = err] /\ Advance(c)

\* The next manifest of the list, or the end of the command.
NextManifest(c, err) == failed' = [failed EXCEPT ![c] = @ \/ err] /\ Advance(c)

\* rmdir of the empty directories, the last command of cleanManifest.
RemoveDirs(c) ==
    /\ pc[c] = "rmdir"
    /\ \E err \in BOOLEAN :
          /\ IF err THEN Fault ELSE UNCHANGED faults
          /\ IF err \/ lastErr[c]
             THEN NextManifest(c, TRUE)
             ELSE Goto(c, "openCleaned") /\ UNCHANGED <<failed, at, outcome, file, lastErr>>
    /\ UNCHANGED <<remote, cache, nextID, op, todo, crashes>>

\* The status "cleaned" goes to the cache; an error of WriteCache is dropped.
OpenCleaned(c) ==
    /\ pc[c] = "openCleaned"
    /\ \/ /\ cache' = [cache EXCEPT ![This(c)] = "torn"] /\ Goto(c, "writeCleaned")
          /\ UNCHANGED <<failed, at, outcome, file, lastErr, faults>>
       \/ UNCHANGED cache /\ NextManifest(c, FALSE) /\ Fault
    /\ UNCHANGED <<remote, nextID, op, todo, crashes>>

WriteCleaned(c) ==
    /\ pc[c] = "writeCleaned"
    /\ \/ cache' = [cache EXCEPT ![This(c)] = "cleaned"] /\ UNCHANGED faults
       \/ UNCHANGED cache /\ Fault
    /\ NextManifest(c, FALSE)
    /\ UNCHANGED <<remote, nextID, op, todo, crashes>>
-----------------------------------------------------------------------------------
Kill(c) ==
    /\ pc[c] # "idle" /\ crashes < MaxCrashes
    /\ crashes' = crashes + 1
    /\ End(c, "none")
    /\ UNCHANGED <<remote, cache, nextID, op, todo, at, file, lastErr, failed, faults>>

SyncStep(c)  == Upload(c) \/ WriteManifest(c) \/ OpenCache(c) \/ WriteCache(c) \/ ShellExits(c)
CleanStep(c) == RemoveFile(c) \/ RemoveDirs(c) \/ OpenCleaned(c) \/ WriteCleaned(c)

Next == \E c \in Clients :
          \/ \E o \in {"sync", "enter"} : StartSync(c, o)
          \/ \E sel \in Selections : StartClean(c, sel)
          \/ SyncStep(c) \/ CleanStep(c)
          \/ Kill(c)

\* Commands end, and a user who still has something cached runs clean --all.
Fairness == /\ \A c \in Clients : WF_vars(SyncStep(c) \/ CleanStep(c))
            /\ SF_vars(\E c \in Clients : StartClean(c, Readable))

Spec     == Init /\ [][Next]_vars
FairSpec == Spec /\ Fairness
-----------------------------------------------------------------------------------
(* Properties.                                                             *)

FilesOf(s) == {r \in remote : r.session = s /\ r.file # Manifest}

\* A session whose cached manifest says "cleaned" has none of its files left on
\* the target, whichever removals failed and whoever cleaned at the same time.
CleanedIsClean == \A s \in Sessions : cache[s] = "cleaned" => FilesOf(s) = {}

\* A clean that ends with status "cleaned" has removed the files of every
\* session it was to clean: one failure, first or last, is reported.
ReportIsHonest ==
    [][\A c \in Clients :
         pc[c] # "idle" /\ op[c] = "clean" /\ outcome'[c] = "cleaned" /\ pc'[c] = "idle"
           => \A r \in remote' : r.file # Manifest =>
                                   \A k \in DOMAIN todo[c] : r.session # todo[c][k]]_vars

\* A user who keeps running clean --all gets rid of the files of every session
\* that was cached once, whatever failed or was killed on the way.
CachedIsCleanedAtLast ==
    \A s \in Sessions : cache[s] = "active" ~> FilesOf(s) = {}

\* "a manifest so every created file can be cleaned up later": the files of a
\* session no client works on are named by a manifest that clean can read.
OrphansAreListed ==
    \A s \in Sessions :
        FilesOf(s) # {} /\ (\A c \in Clients : pc[c] = "idle") => s \in Readable

\* The same promise, of a session that was cleaned: nothing is left of it.
CleanedLeavesNothing ==
    \A s \in Sessions : cache[s] = "cleaned" => \A r \in remote : r.session # s
=================================================================================
