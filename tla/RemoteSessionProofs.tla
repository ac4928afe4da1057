---------------------------- MODULE RemoteSessionProofs ----------------------------
(***************************************************************************)
(* Safety of sync, enter and clean on a container, for any number of       *)
(* clients, sessions and files.                                            *)
(*                                                                         *)
(* A session has one client until its manifest is cached (Alone), so what  *)
(* a clean has removed stays removed (Removed), and only then does a       *)
(* client call a session cleaned.                                          *)
(***************************************************************************)
EXTENDS RemoteSession, FiniteSetTheorems, SequenceTheorems, TLAPS

Syncing  == {"upload", "manifest", "openCache", "writeCache"}
Emptied  == {"rmdir", "openCleaned", "writeCleaned"}
Cleaning == {"remove"} \cup Emptied

Gone(files, s, fs) == \A r \in files : r.session = s => r.file \notin fs

Numbered == \A s \in Sessions : s > nextID => cache[s] = "none"

Placed(c) ==
    /\ Len(todo[c]) <= MaxSessions
    /\ pc[c] # "idle" => /\ at[c] <= Len(todo[c])
                         /\ \A k \in 1..Len(todo[c]) : todo[c][k] <= nextID
    /\ pc[c] \in Syncing \cup {"shell"} => /\ op[c] \in {"sync", "enter"}
                                           /\ Len(todo[c]) = 1 /\ ~failed[c]
    /\ pc[c] = "remove" => file[c] <= NumFiles

Alone(c) ==
    pc[c] \in Syncing =>
        /\ cache[This(c)] \in {"none", "torn"}
        /\ \A d \in Clients \ {c} :
              pc[d] # "idle" => \A k \in 1..Len(todo[d]) : todo[d][k] # This(c)

Removed(c) ==
    /\ pc[c] \in Cleaning /\ ~failed[c] =>
          \A k \in 1..Len(todo[c]) : k < at[c] => Gone(remote, todo[c][k], Files)
    /\ pc[c] = "remove" /\ ~lastErr[c] => Gone(remote, This(c), 1..(file[c] - 1))
    /\ pc[c] \in Emptied /\ ~lastErr[c] => Gone(remote, This(c), Files)
    /\ pc[c] \in {"openCleaned", "writeCleaned"} => ~lastErr[c]

ClientInv(c) == Placed(c) /\ Alone(c) /\ Removed(c)

Rooted == \A r \in remote : r.place = "root"

CleanedIsGone == \A s \in Sessions : cache[s] = "cleaned" => Gone(remote, s, Files)

IInv == TypeOK /\ Rooted /\ Numbered /\ CleanedIsGone /\ \A c \in Clients : ClientInv(c)
-----------------------------------------------------------------------------------
LEMMA InitIInv == Init => IInv
<1> SUFFICES ASSUME Init PROVE IInv
  OBVIOUS
<1> USE RemoteAssumption DEF Init, Sessions, Files
<1>1. TypeOK
  BY DEF TypeOK
<1>2. Rooted /\ Numbered /\ CleanedIsGone
  BY DEF Rooted, Numbered, CleanedIsGone
<1>3. \A c \in Clients : ClientInv(c)
  BY DEF ClientInv, Placed, Alone, Removed, Syncing, Emptied, Cleaning
<1> QED BY <1>1, <1>2, <1>3 DEF IInv

(* What the steps of a client do to the others and to what they share.     *)

Same(d) ==
    /\ pc'[d] = pc[d] /\ op'[d] = op[d] /\ todo'[d] = todo[d] /\ at'[d] = at[d]
    /\ file'[d] = file[d] /\ lastErr'[d] = lastErr[d] /\ failed'[d] = failed[d]
    /\ outcome'[d] = outcome[d]

\* The sessions in the list of c are the ones it had, a new one or cached ones.
Listed(c) ==
    \/ pc[c] # "idle" /\ todo'[c] = todo[c]
    \/ \A k \in 1..Len(todo'[c]) : \/ todo'[c][k] > nextID
                                   \/ cache[todo'[c][k]] \in {"active", "cleaned"}

Step(c) ==
    /\ \A d \in Clients \ {c} : Same(d)
    /\ nextID' >= nextID
    /\ \A r \in remote' : r \in remote \/ (pc[c] \in Syncing /\ r.session = This(c))
    /\ \A r \in remote' : r \in remote \/ r.place = "root"
    /\ \A s \in Sessions :
          cache'[s] = cache[s] \/ (pc[c] # "idle" /\ s = This(c))
    /\ cache'[This(c)] = "cleaned" =>
          cache[This(c)] = "cleaned" \/ (pc[c] = "writeCleaned" /\ UNCHANGED remote)
    /\ pc'[c] # "idle" => Listed(c)

\* Cardinality of a selection.
LEMMA SelectionIsSmall ==
  ASSUME NEW S \in SUBSET Sessions, S # {}
  PROVE  Cardinality(S) \in 1..MaxSessions
<1>1. /\ IsFiniteSet(1..MaxSessions)
      /\ Cardinality(1..MaxSessions) = IF 1 > MaxSessions THEN 0 ELSE MaxSessions - 1 + 1
  BY RemoteAssumption, FS_Interval
<1>2. IsFiniteSet(S) /\ Cardinality(S) <= Cardinality(1..MaxSessions)
  BY <1>1, FS_Subset DEF Sessions
<1>3. Cardinality(S) \in Nat
  BY <1>2, FS_CardinalityType
<1>4. Cardinality(S) # 0
  BY <1>2, FS_EmptySet
<1> QED BY <1>1, <1>2, <1>3, <1>4, RemoteAssumption

\* The list of a clean that has something to do.
LEMMA CleanList ==
  ASSUME TypeOK, NEW c \in Clients, NEW sel \in Selections, StartClean(c, sel), sel # {}
  PROVE  /\ todo' = [todo EXCEPT ![c] = todo'[c]]
         /\ todo'[c] \in Seq(Sessions)
         /\ Len(todo'[c]) \in 1..MaxSessions
         /\ \A k \in 1..Len(todo'[c]) : todo'[c][k] \in Readable
<1>1. sel \subseteq Readable /\ Readable \subseteq Sessions
  BY DEF Selections, Latest, Readable
<1>2. Cardinality(sel) \in 1..MaxSessions
  BY <1>1, SelectionIsSmall
<1>3. PICK q \in [1..Cardinality(sel) -> sel] : todo' = [todo EXCEPT ![c] = q]
  BY DEF StartClean
<1>4. todo'[c] = q
  BY <1>3 DEF TypeOK
<1>5. q \in Seq(Sessions) /\ Len(q) = Cardinality(sel)
  BY <1>1, <1>2
<1> QED BY <1>1, <1>2, <1>3, <1>4, <1>5

\* The steps of a client.
Act(c) ==
    \/ \E o \in {"sync", "enter"} : StartSync(c, o)
    \/ \E sel \in Selections : StartClean(c, sel)
    \/ SyncStep(c) \/ CleanStep(c)
    \/ Kill(c)

LEMMA ThisType ==
  ASSUME IInv, NEW c \in Clients, pc[c] # "idle"
  PROVE  /\ This(c) \in Sessions
         /\ at[c] \in 1..Len(todo[c]) /\ Len(todo[c]) \in Nat /\ Len(todo[c]) <= MaxSessions
         /\ pc[c] = "remove" => file[c] \in Files
<1>1. todo[c] \in Seq(Sessions) /\ at[c] \in 1..MaxSessions /\ file[c] \in 1..(NumFiles + 1)
  BY DEF IInv, TypeOK
<1>2. Len(todo[c]) \in Nat /\ at[c] <= Len(todo[c]) /\ Len(todo[c]) <= MaxSessions
      /\ (pc[c] = "remove" => file[c] <= NumFiles)
  BY <1>1 DEF IInv, ClientInv, Placed
<1>3. at[c] \in 1..Len(todo[c])
  BY <1>1, <1>2, RemoteAssumption
<1>4. todo[c][at[c]] \in Sessions
  BY <1>1, <1>3, ElementOfSeq
<1> QED BY <1>1, <1>2, <1>3, <1>4, RemoteAssumption DEF This, Files

\* What NextManifest does to the variables it changes.
LEMMA NextManifestType ==
  ASSUME IInv, NEW c \in Clients, pc[c] # "idle", NEW err \in BOOLEAN, NextManifest(c, err)
  PROVE  /\ pc' \in [Clients -> {"idle", "upload", "manifest", "openCache", "writeCache", "shell",
                                "remove", "rmdir", "openCleaned", "writeCleaned"}]
         /\ outcome' \in [Clients -> {"none", "synced", "failed", "cleaned", "partial"}]
         /\ failed' \in [Clients -> BOOLEAN] /\ lastErr' \in [Clients -> BOOLEAN]
         /\ at' \in [Clients -> 1..MaxSessions] /\ file' \in [Clients -> 1..(NumFiles + 1)]
<1>1. TypeOK
  BY DEF IInv
<1>2. failed' \in [Clients -> BOOLEAN]
  BY <1>1 DEF TypeOK, NextManifest
<1>3. CASE at[c] < Len(todo[c])
  <2>1. /\ at' = [at EXCEPT ![c] = @ + 1] /\ pc' = [pc EXCEPT ![c] = "remove"]
        /\ file' = [file EXCEPT ![c] = 1] /\ lastErr' = [lastErr EXCEPT ![c] = FALSE]
        /\ UNCHANGED outcome
    BY <1>3 DEF NextManifest, Advance, BeginClean, Goto
  <2>2. at[c] + 1 \in 1..MaxSessions
    BY <1>3, ThisType, RemoteAssumption
  <2>3. at' \in [Clients -> 1..MaxSessions]
    BY <1>1, <2>1, <2>2 DEF TypeOK
  <2>4. 1 \in 1..(NumFiles + 1)
    BY RemoteAssumption
  <2>5. file' \in [Clients -> 1..(NumFiles + 1)]
    BY <1>1, <2>1, <2>4 DEF TypeOK
  <2> QED BY <1>1, <1>2, <2>1, <2>3, <2>5 DEF TypeOK
<1>4. CASE ~(at[c] < Len(todo[c]))
  <2>1. /\ pc' = [pc EXCEPT ![c] = "idle"] /\ UNCHANGED <<at, file, lastErr>>
        /\ outcome' = [outcome EXCEPT ![c] = IF failed'[c] THEN "partial" ELSE "cleaned"]
    BY <1>4 DEF NextManifest, Advance, End, Goto
  <2> QED BY <1>1, <1>2, <2>1 DEF TypeOK
<1> QED BY <1>3, <1>4

LEMMA TypeStep ==
  ASSUME IInv, NEW c \in Clients, Act(c)
  PROVE  TypeOK'
<1>1. TypeOK
  BY DEF IInv
<1>2. pc[c] # "idle" => /\ This(c) \in Sessions /\ at[c] \in 1..Len(todo[c])
                        /\ Len(todo[c]) \in Nat /\ Len(todo[c]) <= MaxSessions
                        /\ pc[c] = "remove" => file[c] \in Files
  BY ThisType
<1>a. /\ at \in [Clients -> 1..MaxSessions] /\ file \in [Clients -> 1..(NumFiles + 1)]
      /\ 1 \in 1..MaxSessions /\ 1 \in 1..(NumFiles + 1)
  BY <1>1, RemoteAssumption DEF TypeOK
<1>b. pc[c] # "idle" /\ at[c] < Len(todo[c]) => at[c] + 1 \in 1..MaxSessions
  BY <1>2, RemoteAssumption
<1>c. pc[c] = "remove" => file[c] + 1 \in 1..(NumFiles + 1)
  BY <1>2, RemoteAssumption DEF Files
<1>d. Fault => faults' \in 0..MaxFaults
  BY <1>1, RemoteAssumption DEF TypeOK, Fault
<1>e. crashes < MaxCrashes => crashes + 1 \in 0..MaxCrashes
  BY <1>1, RemoteAssumption DEF TypeOK
<1>f. pc[c] # "idle" => \A fs \in SUBSET (Files \cup {Manifest}) :
                         \A p \in {"root", "$HOME", "~"} :
         At(p, This(c), fs) \subseteq [place: {"root", "$HOME", "~"}, session: Sessions, file: Files \cup {Manifest}]
  BY <1>2 DEF At
<1>g. pc[c] = "remove" => file[c] \in Files
  BY <1>2
<1>3. ASSUME NEW o \in {"sync", "enter"}, StartSync(c, o) PROVE TypeOK'
  <2>1. nextID' \in Sessions
    BY <1>1, <1>3, RemoteAssumption DEF TypeOK, StartSync, Sessions
  <2>2. <<nextID'>> \in Seq(Sessions)
    BY <2>1
  <2> QED BY <1>1, <1>3, <1>a, <2>1, <2>2 DEF TypeOK, Sessions, StartSync, Goto
<1>4. ASSUME NEW sel \in Selections, StartClean(c, sel) PROVE TypeOK'
  <2>1. CASE sel = {}
    BY <1>4, <1>1, <2>1 DEF TypeOK, StartClean, Goto, End
  <2>2. CASE sel # {}
    <3>1. /\ todo' = [todo EXCEPT ![c] = todo'[c]]
          /\ todo'[c] \in Seq(Sessions)
      BY <1>4, <1>1, <2>2, CleanList
    <3>2. todo' \in [Clients -> Seq(Sessions)]
      BY <1>1, <3>1 DEF TypeOK
    <3>3. at' \in [Clients -> 1..MaxSessions] /\ file' \in [Clients -> 1..(NumFiles + 1)]
      BY <1>4, <2>2, <1>a DEF StartClean, Goto, BeginClean
    <3> QED BY <1>4, <1>1, <2>2, <3>2, <3>3 DEF TypeOK, StartClean, Goto, BeginClean
  <2> QED BY <2>1, <2>2
<1>5. ASSUME Upload(c) PROVE TypeOK'
  <2>1. faults' \in 0..MaxFaults /\ crashes' \in 0..MaxCrashes
    BY <1>1, <1>5, <1>d, <1>e DEF TypeOK, Upload, Goto, End, At, ShellPathQuoted
  <2>2. at' \in [Clients -> 1..MaxSessions] /\ file' \in [Clients -> 1..(NumFiles + 1)]
    BY <1>5, <1>a, <1>b, <1>c DEF Upload, Goto, End, At, ShellPathQuoted
  <2>3. remote' \subseteq [place: {"root", "$HOME", "~"}, session: Sessions, file: Files \cup {Manifest}]
    BY <1>1, <1>5, <1>f DEF TypeOK, Upload, Goto, End, ShellPathQuoted
  <2> QED BY <1>1, <1>2, <1>5, <2>1, <2>2, <2>3 DEF TypeOK, Upload, Goto, End, ShellPathQuoted
<1>6. ASSUME WriteManifest(c) PROVE TypeOK'
  <2>1. faults' \in 0..MaxFaults /\ crashes' \in 0..MaxCrashes
    BY <1>1, <1>6, <1>d, <1>e DEF TypeOK, WriteManifest, Goto, At, ShellPathQuoted
  <2>2. at' \in [Clients -> 1..MaxSessions] /\ file' \in [Clients -> 1..(NumFiles + 1)]
    BY <1>6, <1>a, <1>b, <1>c DEF WriteManifest, Goto, At, ShellPathQuoted
  <2>3. remote' \subseteq [place: {"root", "$HOME", "~"}, session: Sessions, file: Files \cup {Manifest}]
    BY <1>1, <1>6, <1>f DEF TypeOK, WriteManifest, Goto, ShellPathQuoted
  <2> QED BY <1>1, <1>2, <1>6, <2>1, <2>2, <2>3 DEF TypeOK, WriteManifest, Goto, ShellPathQuoted
<1>7. ASSUME OpenCache(c) PROVE TypeOK'
  <2>1. faults' \in 0..MaxFaults /\ crashes' \in 0..MaxCrashes
    BY <1>1, <1>7, <1>d, <1>e DEF TypeOK, OpenCache, Goto, AfterCached, End
  <2>2. at' \in [Clients -> 1..MaxSessions] /\ file' \in [Clients -> 1..(NumFiles + 1)]
    BY <1>7, <1>a, <1>b, <1>c DEF OpenCache, Goto, AfterCached, End
  <2>3. remote' \subseteq [place: {"root", "$HOME", "~"}, session: Sessions, file: Files \cup {Manifest}]
    BY <1>1, <1>7, <1>f DEF TypeOK, OpenCache, Goto, AfterCached, End
  <2> QED BY <1>1, <1>2, <1>7, <2>1, <2>2, <2>3 DEF TypeOK, OpenCache, Goto, AfterCached, End
<1>8. ASSUME WriteCache(c) PROVE TypeOK'
  <2>1. faults' \in 0..MaxFaults /\ crashes' \in 0..MaxCrashes
    BY <1>1, <1>8, <1>d, <1>e DEF TypeOK, WriteCache, Goto, AfterCached, End
  <2>2. at' \in [Clients -> 1..MaxSessions] /\ file' \in [Clients -> 1..(NumFiles + 1)]
    BY <1>8, <1>a, <1>b, <1>c DEF WriteCache, Goto, AfterCached, End
  <2>3. remote' \subseteq [place: {"root", "$HOME", "~"}, session: Sessions, file: Files \cup {Manifest}]
    BY <1>1, <1>8, <1>f DEF TypeOK, WriteCache, Goto, AfterCached, End
  <2> QED BY <1>1, <1>2, <1>8, <2>1, <2>2, <2>3 DEF TypeOK, WriteCache, Goto, AfterCached, End
<1>9. ASSUME ShellExits(c) PROVE TypeOK'
  <2>1. faults' \in 0..MaxFaults /\ crashes' \in 0..MaxCrashes
    BY <1>1, <1>9, <1>d, <1>e DEF TypeOK, ShellExits, Goto, BeginClean, End
  <2>2. at' \in [Clients -> 1..MaxSessions] /\ file' \in [Clients -> 1..(NumFiles + 1)]
    BY <1>9, <1>a, <1>b, <1>c DEF ShellExits, Goto, BeginClean, End
  <2>3. remote' \subseteq [place: {"root", "$HOME", "~"}, session: Sessions, file: Files \cup {Manifest}]
    BY <1>1, <1>9, <1>f DEF TypeOK, ShellExits, Goto, BeginClean, End
  <2> QED BY <1>1, <1>2, <1>9, <2>1, <2>2, <2>3 DEF TypeOK, ShellExits, Goto, BeginClean, End
<1>10. ASSUME RemoveFile(c) PROVE TypeOK'
  <2>1. faults' \in 0..MaxFaults /\ crashes' \in 0..MaxCrashes
    BY <1>1, <1>10, <1>d, <1>e DEF TypeOK, RemoveFile, Goto, PathQuoted, At
  <2>2. at' \in [Clients -> 1..MaxSessions] /\ file' \in [Clients -> 1..(NumFiles + 1)]
    BY <1>10, <1>a, <1>b, <1>c DEF RemoveFile, Goto, PathQuoted, At
  <2>3. remote' \subseteq [place: {"root", "$HOME", "~"}, session: Sessions, file: Files \cup {Manifest}]
    BY <1>1, <1>10, <1>f DEF TypeOK, RemoveFile, Goto, PathQuoted
  <2> QED BY <1>1, <1>2, <1>10, <2>1, <2>2, <2>3 DEF TypeOK, RemoveFile, Goto, PathQuoted
<1>11. ASSUME RemoveDirs(c) PROVE TypeOK'
  <2>1. PICK err \in BOOLEAN :
           /\ IF err THEN Fault ELSE UNCHANGED faults
           /\ IF err \/ lastErr[c]
              THEN NextManifest(c, TRUE)
              ELSE Goto(c, "openCleaned") /\ UNCHANGED <<failed, at, outcome, file, lastErr>>
    BY <1>11 DEF RemoveDirs
  <2>2. pc[c] # "idle" /\ UNCHANGED <<remote, cache, nextID, op, todo, crashes>>
    BY <1>11 DEF RemoveDirs
  <2>3. faults' \in 0..MaxFaults
    BY <1>1, <1>d, <2>1 DEF TypeOK
  <2>4. CASE err \/ lastErr[c]
    <3>1. NextManifest(c, TRUE)
      BY <2>1, <2>4
    <3> QED BY <1>1, <2>2, <2>3, <3>1, NextManifestType DEF TypeOK
  <2>5. CASE ~(err \/ lastErr[c])
    BY <1>1, <2>1, <2>2, <2>3, <2>5 DEF TypeOK, Goto
  <2> QED BY <2>4, <2>5
<1>12. ASSUME OpenCleaned(c) PROVE TypeOK'
  <2>1. pc[c] # "idle" /\ UNCHANGED <<remote, nextID, op, todo, crashes>>
    BY <1>12 DEF OpenCleaned
  <2>2. CASE cache' = [cache EXCEPT ![This(c)] = "torn"] /\ Goto(c, "writeCleaned")
             /\ UNCHANGED <<failed, at, outcome, file, lastErr, faults>>
    BY <1>1, <2>1, <2>2 DEF TypeOK, Goto
  <2>3. CASE UNCHANGED cache /\ NextManifest(c, FALSE) /\ Fault
    BY <1>1, <1>d, <2>1, <2>3, NextManifestType DEF TypeOK
  <2> QED BY <1>12, <2>2, <2>3 DEF OpenCleaned
<1>13. ASSUME WriteCleaned(c) PROVE TypeOK'
  <2>1. pc[c] # "idle" /\ NextManifest(c, FALSE) /\ UNCHANGED <<remote, nextID, op, todo, crashes>>
    BY <1>13 DEF WriteCleaned
  <2>2. cache' \in [Sessions -> {"none", "torn", "active", "cleaned"}] /\ faults' \in 0..MaxFaults
    BY <1>1, <1>d, <1>13 DEF TypeOK, WriteCleaned
  <2> QED BY <1>1, <2>1, <2>2, NextManifestType DEF TypeOK
<1>14. ASSUME Kill(c) PROVE TypeOK'
  <2>1. faults' \in 0..MaxFaults /\ crashes' \in 0..MaxCrashes
    BY <1>1, <1>14, <1>d, <1>e DEF TypeOK, Kill, Goto, End
  <2>2. at' \in [Clients -> 1..MaxSessions] /\ file' \in [Clients -> 1..(NumFiles + 1)]
    BY <1>14, <1>a, <1>b, <1>c DEF Kill, Goto, End
  <2>3. remote' \subseteq [place: {"root", "$HOME", "~"}, session: Sessions, file: Files \cup {Manifest}]
    BY <1>1, <1>14, <1>f DEF TypeOK, Kill, Goto, End
  <2> QED BY <1>1, <1>2, <1>14, <2>1, <2>2, <2>3 DEF TypeOK, Kill, Goto, End
<1> QED BY <1>3, <1>4, <1>5, <1>6, <1>7, <1>8,
           <1>9, <1>10, <1>11, <1>12, <1>13, <1>14 DEF Act, SyncStep, CleanStep

LEMMA StepFacts ==
  ASSUME Kind = "container", IInv, NEW c \in Clients, Act(c)
  PROVE  Step(c)
<1>1. TypeOK
  BY DEF IInv
<1>2. pc[c] # "idle" => This(c) \in Sessions
  BY ThisType
<1> USE RemoteAssumption, <1>1, <1>2 DEF TypeOK, Fault, Step, Same, Listed, Syncing
<1>3. ASSUME NEW o \in {"sync", "enter"}, StartSync(c, o) PROVE Step(c)
  BY <1>3 DEF StartSync, Goto, Sessions
<1>4. ASSUME NEW sel \in Selections, StartClean(c, sel) PROVE Step(c)
  <2>1. CASE sel = {}
    BY <1>4, <2>1 DEF StartClean, Goto, End
  <2>2. CASE sel # {}
    <3>1. /\ todo' = [todo EXCEPT ![c] = todo'[c]]
          /\ \A k \in 1..Len(todo'[c]) : todo'[c][k] \in Readable
      BY <1>4, <2>2, CleanList
    <3> QED BY <1>4, <2>2, <3>1 DEF StartClean, Goto, BeginClean, Readable
  <2> QED BY <2>1, <2>2
<1>5. ASSUME Upload(c) PROVE Step(c)
  BY <1>5 DEF Upload, Goto, End, At, ShellPathQuoted
<1>6. ASSUME WriteManifest(c) PROVE Step(c)
  BY <1>6 DEF WriteManifest, Goto, At, ShellPathQuoted
<1>7. ASSUME OpenCache(c) PROVE Step(c)
  BY <1>7 DEF OpenCache, Goto, AfterCached, End
<1>8. ASSUME WriteCache(c) PROVE Step(c)
  BY <1>8 DEF WriteCache, Goto, AfterCached, End
<1>9. ASSUME ShellExits(c) PROVE Step(c)
  BY <1>9 DEF ShellExits, Goto, BeginClean, End
<1>10. ASSUME RemoveFile(c) PROVE Step(c)
  BY <1>10 DEF RemoveFile, Goto, PathQuoted, At
<1>11. ASSUME RemoveDirs(c) PROVE Step(c)
  BY <1>11 DEF RemoveDirs, Goto, NextManifest, Advance, BeginClean, End
<1>12. ASSUME OpenCleaned(c) PROVE Step(c)
  BY <1>12 DEF OpenCleaned, Goto, NextManifest, Advance, BeginClean, End
<1>13. ASSUME WriteCleaned(c) PROVE Step(c)
  BY <1>13 DEF WriteCleaned, Goto, NextManifest, Advance, BeginClean, End
<1>14. ASSUME Kill(c) PROVE Step(c)
  BY <1>14 DEF Kill, Goto, End
<1> QED BY <1>3, <1>4, <1>5, <1>6, <1>7, <1>8,
           <1>9, <1>10, <1>11, <1>12, <1>13, <1>14 DEF Act, SyncStep, CleanStep

\* What is gone stays gone while no client uploads it.
LEMMA GoneStays ==
  ASSUME NEW c \in Clients, Step(c), NEW s, NEW fs, Gone(remote, s, fs),
         ~(pc[c] \in Syncing /\ s = This(c))
  PROVE  Gone(remote', s, fs)
BY DEF Step, Gone

\* A session in the list of another client is not one that c synchronizes.
LEMMA NotSynced ==
  ASSUME IInv, NEW c \in Clients, NEW d \in Clients \ {c}, pc[d] # "idle",
         NEW k \in 1..Len(todo[d])
  PROVE  ~(pc[c] \in Syncing /\ todo[d][k] = This(c))
BY DEF IInv, ClientInv, Alone

LEMMA SharedStep ==
  ASSUME IInv, TypeOK', NEW c \in Clients, Step(c)
  PROVE  Rooted' /\ Numbered' /\ CleanedIsGone'
<1>1. TypeOK
  BY DEF IInv
<1>2. pc[c] # "idle" => This(c) \in Sessions /\ This(c) <= nextID
  BY ThisType DEF IInv, ClientInv, Placed, This
<1>3. Rooted'
  BY DEF IInv, Rooted, Step
<1>4. Numbered'
  <2> SUFFICES ASSUME NEW s \in Sessions, s > nextID' PROVE cache'[s] = "none"
    BY DEF Numbered
  <2>1. s > nextID
    BY <1>1, RemoteAssumption DEF TypeOK, Step, Sessions
  <2>2. cache[s] = "none"
    BY <2>1 DEF IInv, Numbered
  <2>3. ~(pc[c] # "idle" /\ s = This(c))
    BY <1>1, <1>2, <2>1, RemoteAssumption DEF TypeOK, Sessions
  <2> QED BY <2>2, <2>3 DEF Step
<1>5. CleanedIsGone'
  <2> SUFFICES ASSUME NEW s \in Sessions, cache'[s] = "cleaned" PROVE Gone(remote', s, Files)
    BY DEF CleanedIsGone
  <2>1. CASE cache[s] = "cleaned"
    <3>1. Gone(remote, s, Files)
      BY <2>1 DEF IInv, CleanedIsGone
    <3>2. ~(pc[c] \in Syncing /\ s = This(c))
      BY <2>1 DEF IInv, ClientInv, Alone
    <3> QED BY <3>1, <3>2, GoneStays
  <2>2. CASE cache[s] # "cleaned"
    <3>1. pc[c] = "writeCleaned" /\ UNCHANGED remote /\ s = This(c)
      BY <2>2 DEF Step
    <3>2. Gone(remote, This(c), Files)
      BY <3>1 DEF IInv, ClientInv, Removed, Emptied
    <3> QED BY <3>1, <3>2 DEF Gone
  <2> QED BY <2>1, <2>2
<1> QED BY <1>3, <1>4, <1>5

LEMMA OtherStep ==
  ASSUME IInv, TypeOK', NEW c \in Clients, Step(c), NEW d \in Clients \ {c}
  PROVE  ClientInv(d)'
<1>1. TypeOK /\ ClientInv(d) /\ Same(d)
  BY DEF IInv, Step
<1>2. Placed(d)'
  <2>1. \A k \in 1..Len(todo[d]) : todo[d][k] \in Nat
    <3>1. todo[d] \in Seq(Sessions)
      BY <1>1 DEF TypeOK
    <3>2. \A k \in 1..Len(todo[d]) : todo[d][k] \in Sessions
      BY <3>1, ElementOfSeq
    <3> QED BY <3>2, RemoteAssumption DEF Sessions
  <2>2. nextID \in Nat /\ nextID' \in Nat /\ nextID <= nextID'
    BY <1>1, RemoteAssumption DEF TypeOK, Step
  <2> QED BY <1>1, <2>1, <2>2 DEF ClientInv, Placed, Same
<1>3. Alone(d)'
  <2> SUFFICES ASSUME pc[d] \in Syncing
               PROVE  /\ cache'[This(d)] \in {"none", "torn"}
                      /\ \A e \in Clients \ {d} : pc'[e] # "idle" =>
                            \A k \in 1..Len(todo'[e]) : todo'[e][k] # This(d)
    BY <1>1 DEF Alone, This, Same
  <2>1. /\ cache[This(d)] \in {"none", "torn"} /\ This(d) \in Sessions
        /\ \A e \in Clients \ {d} : pc[e] # "idle" =>
              \A k \in 1..Len(todo[e]) : todo[e][k] # This(d)
    BY <1>1, ThisType DEF ClientInv, Alone, Syncing
  <2>2. ~(pc[c] # "idle" /\ This(d) = This(c))
    BY <2>1, ThisType DEF This
  <2>3. cache'[This(d)] \in {"none", "torn"}
    BY <2>1, <2>2 DEF Step
  <2>4. This(d) <= nextID
    BY <1>1, ThisType DEF ClientInv, Placed, This, Syncing
  <2>5. \A e \in Clients \ {c} : pc'[e] = pc[e] /\ todo'[e] = todo[e]
    BY DEF Step, Same
  <2>6. ASSUME pc'[c] # "idle", NEW k \in 1..Len(todo'[c]) PROVE todo'[c][k] # This(d)
    <3>1. CASE pc[c] # "idle" /\ todo'[c] = todo[c]
      BY <2>1, <2>6, <3>1
    <3>2. CASE todo'[c][k] > nextID
      <4>1. nextID \in Nat /\ This(d) \in Nat
        BY <1>1, <2>1, RemoteAssumption DEF TypeOK, Sessions
      <4> QED BY <2>4, <3>2, <4>1
    <3>3. CASE cache[todo'[c][k]] \in {"active", "cleaned"}
      BY <2>1, <3>3
    <3> QED BY <2>6, <3>1, <3>2, <3>3 DEF Step, Listed
  <2> QED BY <2>1, <2>3, <2>5, <2>6
<1>4. Removed(d)'
  <2>1. ASSUME NEW k \in 1..Len(todo[d]), pc[d] # "idle", NEW fs, Gone(remote, todo[d][k], fs)
        PROVE  Gone(remote', todo[d][k], fs)
    BY <2>1, NotSynced, GoneStays
  <2>2. pc[d] # "idle" => at[d] \in 1..Len(todo[d])
    BY ThisType
  <2>3. ASSUME pc[d] # "idle", NEW fs, Gone(remote, This(d), fs) PROVE Gone(remote', This(d), fs)
    BY <1>1, <2>1, <2>2, <2>3 DEF This, Same, Gone
  <2>4. /\ pc'[d] = pc[d] /\ todo'[d] = todo[d] /\ at'[d] = at[d] /\ file'[d] = file[d]
        /\ lastErr'[d] = lastErr[d] /\ failed'[d] = failed[d]
    BY <1>1 DEF Same
  <2>5. Removed(d)
    BY <1>1 DEF ClientInv
  <2>6. pc[d] \in Cleaning /\ ~failed[d] =>
           \A k \in 1..Len(todo[d]) : k < at[d] => Gone(remote', todo[d][k], Files)
    BY <2>1, <2>5 DEF Removed, Cleaning, Emptied
  <2>7. pc[d] = "remove" /\ ~lastErr[d] => Gone(remote', This(d), 1..(file[d] - 1))
    BY <2>3, <2>5 DEF Removed
  <2>8. pc[d] \in Emptied /\ ~lastErr[d] => Gone(remote', This(d), Files)
    BY <2>3, <2>5 DEF Removed, Emptied
  <2> QED BY <2>4, <2>5, <2>6, <2>7, <2>8 DEF Removed, This
<1> QED BY <1>2, <1>3, <1>4 DEF ClientInv

(* A client's own steps.                                                   *)

LEMMA OwnPlaced ==
  ASSUME IInv, NEW c \in Clients, Act(c)
  PROVE  Placed(c)'
<1>1. TypeOK /\ Placed(c)
  BY DEF IInv, ClientInv
<1>2. pc[c] # "idle" => /\ This(c) \in Sessions
                        /\ at[c] \in 1..Len(todo[c]) /\ Len(todo[c]) \in Nat
                        /\ pc[c] = "remove" => file[c] \in Files
  BY ThisType
<1>3. Len(<<nextID + 1>>) = 1 /\ 1 <= MaxSessions /\ 1 <= NumFiles
  BY RemoteAssumption
<1> USE <1>1, <1>2, <1>3 DEF TypeOK, Placed, Syncing
<1>4. ASSUME NEW o \in {"sync", "enter"}, StartSync(c, o) PROVE Placed(c)'
  <2>1. /\ todo'[c] = <<nextID + 1>> /\ at'[c] = 1 /\ op'[c] \in {"sync", "enter"}
        /\ nextID' = nextID + 1 /\ pc'[c] = "upload" /\ ~failed'[c]
    BY <1>4 DEF StartSync, Goto
  <2> QED BY <2>1
<1>5. ASSUME NEW sel \in Selections, StartClean(c, sel) PROVE Placed(c)'
  <2>1. CASE sel = {}
    BY <1>5, <2>1 DEF StartClean, Goto, End
  <2>2. CASE sel # {}
    <3>1. /\ Len(todo'[c]) \in 1..MaxSessions
          /\ \A k \in 1..Len(todo'[c]) : todo'[c][k] \in Readable
      BY <1>5, <2>2, CleanList
    <3>2. \A s \in Readable : s <= nextID
      BY RemoteAssumption DEF IInv, Numbered, Readable, Sessions
    <3>3. pc'[c] = "remove" /\ at'[c] = 1 /\ file'[c] = 1 /\ nextID' = nextID
      BY <1>5, <2>2 DEF StartClean, Goto, BeginClean
    <3> QED BY <3>1, <3>2, <3>3
  <2> QED BY <2>1, <2>2
<1>6. ASSUME Upload(c) PROVE Placed(c)'
  BY <1>6 DEF Upload, Goto, End
<1>7. ASSUME WriteManifest(c) PROVE Placed(c)'
  BY <1>7 DEF WriteManifest, Goto
<1>8. ASSUME OpenCache(c) PROVE Placed(c)'
  BY <1>8 DEF OpenCache, AfterCached, Goto, End
<1>9. ASSUME WriteCache(c) PROVE Placed(c)'
  BY <1>9 DEF WriteCache, AfterCached, Goto, End
<1>10. ASSUME ShellExits(c) PROVE Placed(c)'
  BY <1>10 DEF ShellExits, BeginClean, Goto, End
<1>11. ASSUME RemoveFile(c) PROVE Placed(c)'
  BY <1>11, RemoteAssumption DEF RemoveFile, Goto, Files
<1>12. ASSUME RemoveDirs(c) PROVE Placed(c)'
  BY <1>12 DEF RemoveDirs, NextManifest, Advance, BeginClean, Goto, End
<1>13. ASSUME OpenCleaned(c) PROVE Placed(c)'
  BY <1>13 DEF OpenCleaned, NextManifest, Advance, BeginClean, Goto, End
<1>14. ASSUME WriteCleaned(c) PROVE Placed(c)'
  BY <1>14 DEF WriteCleaned, NextManifest, Advance, BeginClean, Goto, End
<1>15. ASSUME Kill(c) PROVE Placed(c)'
  BY <1>15 DEF Kill, Goto, End
<1> QED BY <1>4, <1>5, <1>6, <1>7, <1>8, <1>9, <1>10, <1>11, <1>12, <1>13, <1>14, <1>15
        DEF Act, SyncStep, CleanStep

LEMMA OwnAlone ==
  ASSUME IInv, NEW c \in Clients, Act(c), Step(c)
  PROVE  Alone(c)'
<1>1. TypeOK /\ Alone(c)
  BY DEF IInv, ClientInv
<1>2. pc[c] # "idle" => This(c) \in Sessions
  BY ThisType
<1>3. \A d \in Clients \ {c} : pc'[d] = pc[d] /\ todo'[d] = todo[d]
  BY DEF Step, Same
<1>4. ASSUME NEW o \in {"sync", "enter"}, StartSync(c, o) PROVE Alone(c)'
  <2>1. todo'[c] = <<nextID + 1>> /\ at'[c] = 1 /\ UNCHANGED cache
    BY <1>1, <1>4 DEF TypeOK, StartSync, Goto
  <2>2. This(c)' = nextID + 1
    BY <2>1 DEF This
  <2>3. cache[nextID + 1] = "none"
    BY <1>1, <1>4, RemoteAssumption DEF TypeOK, IInv, Numbered, Sessions, StartSync
  <2>4. \A d \in Clients \ {c} : pc[d] # "idle" =>
          \A k \in 1..Len(todo[d]) : todo[d][k] # nextID + 1
    BY <1>1 DEF IInv, ClientInv, Placed, TypeOK
  <2> QED BY <1>3, <2>1, <2>2, <2>3, <2>4 DEF Alone
<1>5. ASSUME \/ Upload(c) \/ WriteManifest(c) \/ OpenCache(c)
      PROVE  Alone(c)'
  <2>1. /\ todo' = todo /\ at' = at /\ pc[c] \in Syncing
        /\ cache'[This(c)] \in {"torn", cache[This(c)]}
    BY <1>1, <1>2, <1>5 DEF TypeOK, Upload, WriteManifest, OpenCache, Syncing
  <2> QED BY <1>1, <1>3, <2>1 DEF Alone, This
<1>6. ASSUME \/ WriteCache(c) \/ ShellExits(c) \/ RemoveFile(c) \/ RemoveDirs(c)
             \/ OpenCleaned(c) \/ WriteCleaned(c) \/ Kill(c)
      PROVE  Alone(c)'
  <2>1. pc'[c] \notin Syncing
    BY <1>1, <1>6 DEF TypeOK, Syncing, Goto, End, BeginClean, AfterCached, NextManifest, Advance,
         WriteCache, ShellExits, RemoveFile, RemoveDirs, OpenCleaned, WriteCleaned, Kill
  <2> QED BY <2>1 DEF Alone
<1>7. ASSUME NEW sel \in Selections, StartClean(c, sel) PROVE Alone(c)'
  <2>1. pc'[c] \notin Syncing
    BY <1>1, <1>7 DEF TypeOK, Syncing, StartClean, Goto, End, BeginClean
  <2> QED BY <2>1 DEF Alone
<1> QED BY <1>4, <1>5, <1>6, <1>7 DEF Act, SyncStep, CleanStep

\* What the next manifest of a list needs.
LEMMA NextRemoved ==
  ASSUME TypeOK, NEW c \in Clients, NEW err \in BOOLEAN, NextManifest(c, err), Removed(c),
         pc[c] \in Emptied, UNCHANGED <<remote, todo>>,
         at[c] \in 1..Len(todo[c]), Len(todo[c]) \in Nat,
         err \/ Gone(remote, This(c), Files)
  PROVE  /\ Removed(c)'
         /\ pc'[c] = "idle" /\ outcome'[c] = "cleaned" =>
               \A k \in 1..Len(todo[c]) : Gone(remote, todo[c][k], Files)
<1>1. failed'[c] = (failed[c] \/ err)
  BY DEF NextManifest, TypeOK
<1>2. ~failed'[c] => \A k \in 1..Len(todo[c]) : k <= at[c] => Gone(remote, todo[c][k], Files)
  <2> SUFFICES ASSUME ~failed'[c], NEW k \in 1..Len(todo[c]), k <= at[c]
               PROVE  Gone(remote, todo[c][k], Files)
    OBVIOUS
  <2>1. ~failed[c] /\ ~err
    BY <1>1
  <2>2. k < at[c] \/ k = at[c]
    OBVIOUS
  <2> QED BY <2>1, <2>2 DEF Removed, Cleaning, This
<1>3. CASE at[c] < Len(todo[c])
  <2>1. at'[c] = at[c] + 1 /\ pc'[c] = "remove" /\ file'[c] = 1
    BY <1>3 DEF NextManifest, Advance, BeginClean, Goto, TypeOK
  <2>2. \A k \in 1..Len(todo[c]) : k < at[c] + 1 => k <= at[c]
    OBVIOUS
  <2>3. Gone(remote, This(c)', 1..(1 - 1))
    BY DEF Gone
  <2> QED BY <1>2, <2>1, <2>2, <2>3 DEF Removed, Emptied
<1>4. CASE ~(at[c] < Len(todo[c]))
  <2>1. /\ pc'[c] = "idle" /\ outcome'[c] = (IF failed'[c] THEN "partial" ELSE "cleaned")
    BY <1>4 DEF NextManifest, Advance, End, Goto, TypeOK
  <2>2. \A k \in 1..Len(todo[c]) : k <= at[c]
    BY <1>4
  <2> QED BY <1>2, <2>1, <2>2 DEF Removed, Emptied, Cleaning
<1> QED BY <1>3, <1>4

LEMMA OwnRemoved ==
  ASSUME Kind = "container", IInv, NEW c \in Clients, Act(c), Step(c)
  PROVE  Removed(c)'
<1>1. TypeOK /\ Placed(c) /\ Removed(c)
  BY DEF IInv, ClientInv
<1>2. pc[c] # "idle" => /\ This(c) \in Sessions /\ at[c] \in 1..Len(todo[c])
                        /\ Len(todo[c]) \in Nat
                        /\ pc[c] = "remove" => file[c] \in Files
  BY ThisType
<1>3. \A s : Gone(remote', s, 1..(1 - 1))
  BY DEF Gone
<1>4. ASSUME pc'[c] \notin Cleaning PROVE Removed(c)'
  BY <1>4 DEF Removed, Cleaning, Emptied
<1>5. ASSUME pc'[c] = "remove", at'[c] = 1, file'[c] = 1, Len(todo'[c]) \in Nat
      PROVE  Removed(c)'
  <2>1. \A k \in 1..Len(todo'[c]) : ~(k < 1)
    BY <1>5
  <2> QED BY <1>3, <1>5, <2>1 DEF Removed, Emptied
<1>6. ASSUME NEW o \in {"sync", "enter"}, StartSync(c, o) PROVE Removed(c)'
  BY <1>1, <1>4, <1>6 DEF TypeOK, StartSync, Goto, Cleaning, Emptied
<1>7. ASSUME NEW sel \in Selections, StartClean(c, sel) PROVE Removed(c)'
  <2>1. CASE sel = {}
    BY <1>1, <1>4, <1>7, <2>1 DEF TypeOK, StartClean, Goto, End, Cleaning, Emptied
  <2>2. CASE sel # {}
    <3>1. Len(todo'[c]) \in Nat
      BY <1>1, <1>7, <2>2, CleanList, RemoteAssumption
    <3> QED BY <1>1, <1>5, <1>7, <2>2, <3>1 DEF TypeOK, StartClean, BeginClean, Goto
  <2> QED BY <2>1, <2>2
<1>8. ASSUME Upload(c) \/ WriteManifest(c) \/ OpenCache(c) \/ WriteCache(c) \/ Kill(c)
      PROVE  Removed(c)'
  <2>1. pc'[c] \notin Cleaning
    BY <1>1, <1>8 DEF TypeOK, Upload, WriteManifest, OpenCache, WriteCache, Kill,
         AfterCached, End, Goto, Cleaning, Emptied
  <2> QED BY <1>4, <2>1
<1>9. ASSUME ShellExits(c) PROVE Removed(c)'
  <2>1. at[c] = 1 /\ todo' = todo /\ at' = at
    BY <1>1, <1>2, <1>9 DEF Placed, ShellExits
  <2>2. pc'[c] \notin Cleaning \/ (pc'[c] = "remove" /\ file'[c] = 1)
    BY <1>1, <1>9 DEF TypeOK, ShellExits, BeginClean, Goto, End, Cleaning, Emptied
  <2> QED BY <1>2, <1>4, <1>5, <1>9, <2>1, <2>2 DEF ShellExits
<1>10. ASSUME RemoveFile(c) PROVE Removed(c)'
  <2>1. /\ pc[c] = "remove" /\ pc'[c] = (IF file[c] = NumFiles THEN "rmdir" ELSE "remove")
        /\ file'[c] = file[c] + 1 /\ todo' = todo /\ at' = at /\ failed' = failed
        /\ ~lastErr'[c] => ~lastErr[c] /\ remote' = remote \ At("root", This(c), {file[c]})
        /\ remote' \subseteq remote
    BY <1>1, <1>10, PathQuoted = "root" DEF TypeOK, RemoveFile, Goto, PathQuoted
  <2>2. file[c] \in Nat
    BY <1>2, <2>1, RemoteAssumption DEF Files
  <2>3. ~lastErr'[c] => Gone(remote', This(c), 1..file[c])
    <3> SUFFICES ASSUME ~lastErr'[c], NEW r \in remote', r.session = This(c)
                 PROVE  r.file \notin 1..file[c]
      BY DEF Gone
    <3>1. r \in remote /\ r \notin At("root", This(c), {file[c]})
      BY <2>1
    <3>2. r.place = "root" /\ r \in [place: {"root", "$HOME", "~"}, session: Sessions,
                                     file: Files \cup {Manifest}]
      BY <1>1, <3>1 DEF IInv, Rooted, TypeOK
    <3>3. r.file # file[c]
      BY <3>1, <3>2 DEF At
    <3>4. r.file \notin 1..(file[c] - 1)
      BY <1>1, <2>1, <3>1 DEF Removed, Gone
    <3>5. r.file \in Nat
      BY <3>2, RemoteAssumption DEF Files, Manifest
    <3> QED BY <2>2, <3>3, <3>4, <3>5
  <2>4. ~failed'[c] => \A k \in 1..Len(todo[c]) : k < at[c] => Gone(remote', todo[c][k], Files)
    BY <1>1, <2>1 DEF Removed, Cleaning, Gone
  <2>5. /\ This(c)' = This(c) /\ file'[c] - 1 = file[c]
        /\ pc'[c] = "rmdir" => 1..file[c] = Files
    BY <2>1, <2>2 DEF This, Files
  <2>6. pc'[c] \in {"rmdir", "remove"}
    BY <2>1
  <2>7. pc'[c] = "remove" /\ ~lastErr'[c] => Gone(remote', This(c), 1..(file'[c] - 1))
    BY <2>3, <2>5
  <2>8. pc'[c] = "rmdir" /\ ~lastErr'[c] => Gone(remote', This(c), Files)
    BY <2>3, <2>5
  <2> QED BY <2>1, <2>4, <2>5, <2>6, <2>7, <2>8 DEF Removed, Emptied
<1>11. ASSUME RemoveDirs(c) PROVE Removed(c)'
  <2>1. UNCHANGED <<remote, todo>> /\ pc[c] = "rmdir"
    BY <1>11 DEF RemoveDirs
  <2>2. CASE NextManifest(c, TRUE)
    BY <1>1, <1>2, <2>1, <2>2, NextRemoved DEF Emptied
  <2>3. CASE /\ ~lastErr[c] /\ pc' = [pc EXCEPT ![c] = "openCleaned"]
             /\ UNCHANGED <<failed, at, file, lastErr>>
    BY <1>1, <2>1, <2>3 DEF TypeOK, Removed, Cleaning, Emptied, This
  <2> QED BY <1>11, <2>2, <2>3 DEF RemoveDirs, Goto
<1>12. ASSUME OpenCleaned(c) \/ WriteCleaned(c) PROVE Removed(c)'
  <2>1. UNCHANGED <<remote, todo>> /\ pc[c] \in {"openCleaned", "writeCleaned"}
    BY <1>12 DEF OpenCleaned, WriteCleaned
  <2>2. Gone(remote, This(c), Files)
    BY <1>1, <2>1 DEF Removed, Emptied
  <2>3. CASE NextManifest(c, FALSE)
    BY <1>1, <1>2, <2>1, <2>2, <2>3, NextRemoved DEF Emptied
  <2>4. CASE /\ pc' = [pc EXCEPT ![c] = "writeCleaned"]
             /\ UNCHANGED <<failed, at, file, lastErr>>
    BY <1>1, <2>1, <2>4 DEF TypeOK, Removed, Cleaning, Emptied, This
  <2> QED BY <1>12, <2>3, <2>4 DEF OpenCleaned, WriteCleaned, Goto
<1> QED BY <1>6, <1>7, <1>8, <1>9, <1>10, <1>11, <1>12 DEF Act, SyncStep, CleanStep
-----------------------------------------------------------------------------------
(* The theorems.                                                           *)

\* The inductive invariant: while a client works on a session that is not cached
\* yet no other client has it on its list, so that what a clean removed is gone
\* for good; a client that removed without an error leaves nothing behind.
THEOREM IInvHolds ==
  ASSUME Kind = "container"
  PROVE  Spec => []IInv
<1>1. ASSUME IInv, [Next]_vars PROVE IInv'
  <2>1. CASE UNCHANGED vars
    BY <1>1, <2>1 DEF vars, clientVars, IInv, TypeOK, Rooted, Numbered, CleanedIsGone, ClientInv,
         Placed, Alone, Removed, This
  <2>2. ASSUME NEW c \in Clients, Act(c) PROVE IInv'
    <3>1. TypeOK' /\ Step(c)
      BY <1>1, <2>2, TypeStep, StepFacts
    <3>2. Rooted' /\ Numbered' /\ CleanedIsGone'
      BY <1>1, <3>1, SharedStep
    <3>3. ClientInv(c)'
      BY <1>1, <2>2, <3>1, OwnPlaced, OwnAlone, OwnRemoved DEF ClientInv
    <3>4. \A d \in Clients \ {c} : ClientInv(d)'
      BY <1>1, <3>1, OtherStep
    <3> QED BY <3>1, <3>2, <3>3, <3>4 DEF IInv
  <2> QED BY <1>1, <2>1, <2>2 DEF Next, Act
<1> QED BY InitIInv, <1>1, PTL DEF Spec

\* Type correctness.
THEOREM TypeCorrect ==
  ASSUME Kind = "container"
  PROVE  Spec => []TypeOK
BY IInvHolds, PTL DEF IInv

\* A session whose cached manifest says "cleaned" has no file left on the
\* target (cleanManifest in cli/remote.go): with any number of clients that
\* sync, enter and clean, with any failures, torn caches and kills.
THEOREM CleanedStaysClean ==
  ASSUME Kind = "container"
  PROVE  Spec => []CleanedIsClean
<1>1. IInv => CleanedIsClean
  BY DEF IInv, CleanedIsGone, CleanedIsClean, Gone, FilesOf, TypeOK, Sessions
<1> QED BY <1>1, IInvHolds, PTL

\* A clean that reports "cleaned" has left no file of any session on its list:
\* failCount in runRemoteClean forgets no failure.
THEOREM ReportsStayHonest ==
  ASSUME Kind = "container"
  PROVE  Spec => ReportIsHonest
<1>1. ASSUME IInv, [Next]_vars
      PROVE  [\A c \in Clients :
                pc[c] # "idle" /\ op[c] = "clean" /\ outcome'[c] = "cleaned" /\ pc'[c] = "idle"
                  => \A r \in remote' : r.file # Manifest =>
                                 \A k \in DOMAIN todo[c] : r.session # todo[c][k]]_vars
  <2> SUFFICES ASSUME NEW d \in Clients, Act(d), NEW c \in Clients, pc[c] # "idle", op[c] = "clean",
                      outcome'[c] = "cleaned", pc'[c] = "idle"
               PROVE  \A r \in remote' : r.file # Manifest =>
                                 \A k \in DOMAIN todo[c] : r.session # todo[c][k]
    BY <1>1 DEF Next, Act
  <2>1. TypeOK /\ TypeOK' /\ Placed(c) /\ Removed(c)
    BY <1>1, TypeStep DEF IInv, ClientInv
  <2>2. at[c] \in 1..Len(todo[c]) /\ Len(todo[c]) \in Nat
    BY <1>1, ThisType
  <2>3. c = d
    BY <1>1, StepFacts DEF Step, Same
  <2>4. /\ remote' = remote
        /\ \A k \in 1..Len(todo[c]) : Gone(remote, todo[c][k], Files)
    <3>1. CASE StartSync(c, "sync") \/ StartSync(c, "enter") \/ \E sel \in Selections : StartClean(c, sel)
      BY <3>1 DEF StartSync, StartClean
    <3>2. CASE SyncStep(c)
      <4>1. pc[c] \in Syncing \cup {"shell"}
        BY <3>2 DEF SyncStep, Upload, WriteManifest, OpenCache, WriteCache, ShellExits, Syncing
      <4> QED BY <2>1, <4>1 DEF Placed
    <3>3. CASE RemoveFile(c)
      BY <2>1, <3>3 DEF TypeOK, RemoveFile, Goto
    <3>4. CASE RemoveDirs(c)
      <4>1. NextManifest(c, TRUE) /\ UNCHANGED <<remote, todo>> /\ pc[c] \in Emptied
        BY <2>1, <3>4 DEF TypeOK, RemoveDirs, Goto, Emptied
      <4> QED BY <2>1, <2>2, <4>1, NextRemoved
    <3>5. CASE OpenCleaned(c) \/ WriteCleaned(c)
      <4>1. NextManifest(c, FALSE) /\ UNCHANGED <<remote, todo>> /\ pc[c] \in {"openCleaned", "writeCleaned"}
        <5>1. UNCHANGED <<remote, todo>> /\ pc[c] \in {"openCleaned", "writeCleaned"}
          BY <3>5 DEF OpenCleaned, WriteCleaned
        <5>2. CASE pc' = [pc EXCEPT ![c] = "writeCleaned"]
          BY <2>1, <5>2 DEF TypeOK
        <5>3. CASE NextManifest(c, FALSE)
          BY <5>1, <5>3
        <5> QED BY <3>5, <5>2, <5>3 DEF OpenCleaned, WriteCleaned, Goto
      <4>2. Gone(remote, This(c), Files)
        BY <2>1, <4>1 DEF Removed, Emptied
      <4> QED BY <2>1, <2>2, <4>1, <4>2, NextRemoved DEF Emptied
    <3>6. CASE Kill(c)
      BY <2>1, <3>6 DEF TypeOK, Kill, End
    <3> QED BY <2>3, <3>1, <3>2, <3>3, <3>4, <3>5, <3>6 DEF Act, CleanStep
  <2>5. todo[c] \in Seq(Sessions) /\ \A r \in remote : r.file \in Files \cup {Manifest}
    BY <2>1 DEF TypeOK
  <2>6. DOMAIN todo[c] = 1..Len(todo[c])
    BY <2>5
  <2> QED BY <2>4, <2>5, <2>6 DEF Gone
<1> QED BY <1>1, IInvHolds, PTL DEF Spec, ReportIsHonest
===================================================================================
