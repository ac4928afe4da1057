----------------------------- MODULE BaselineStore -----------------------------
(***************************************************************************)
(* The baseline file of one project: commands that create, change, prune   *)
(* and import it, and scans that apply it, run by several processes that   *)
(* know nothing of each other.  Each command loads the file, changes its   *)
(* copy and saves it through a temporary file and a rename.  Any step of a *)
(* save may fail, and a process may be killed anywhere.                    *)
(***************************************************************************)
EXTENDS Integers, FiniteSets

CONSTANTS Users,         \* processes
          Ids, UpperOf,  \* finding IDs and what strings.ToUpper makes of them
          Found,         \* the findings of this project: records [id, symptom, sev]
          Commands,      \* command lines
          InitialFiles,  \* what the file may be at first, a hand-written one included
          MaxCommands, MaxTime,   \* bounds on commands run and on the clock
          NoFile, Torn,  \* no such file; a file written in part
          NoFp,          \* an entry for all findings of its ID
          NoReport       \* no saved report

ASSUME StoreAssumption ==
    /\ UpperOf \in [Ids -> Ids] /\ \A i \in Ids : UpperOf[UpperOf[i]] = UpperOf[i]
    /\ \A f \in Found : UpperOf[f.id] = f.id /\ f.sev \in 0..4
    /\ \A c \in Commands : c.op = "import" =>   \* so that their order does not matter
          \A d, e \in c.source : UpperOf[d.id] = UpperOf[e.id] /\ d.fp = e.fp => d = e
    /\ MaxCommands \in Nat /\ MaxTime \in Nat

Fp(f) == <<UpperOf[f.id], f.symptom>>
Fps   == {NoFp} \cup {Fp(f) : f \in Found}

\* ExpiresAt: 0 is none; the longest duration a command asks for is one unit.
Entry == [id: Ids, fp: Fps, exp: 0..MaxTime + 1]

Key(e) == <<e.id, e.fp>>

VARIABLES file, report,   \* .devdiag/baseline.yaml; the findings of the latest saved report
          clock,
          pc, cmd,        \* per process: where it is, and its command line
          chosen,         \* findings create selected
          mem, tmp,       \* the copy in memory; the temporary file
          outcome,        \* how its last command ended
          fresh,          \* nobody else saved since it looked at the file
          ran             \* commands begun

vars == <<file, report, clock, pc, cmd, chosen, mem, tmp, outcome, fresh, ran>>

IsFile(x)  == x \in {NoFile, Torn} \/ x \in SUBSET Entry
Entries    == IF file \in {NoFile, Torn} THEN {} ELSE file

TypeOK ==
    /\ IsFile(file) /\ report \in {NoReport} \cup SUBSET Found /\ clock \in 0..MaxTime
    /\ pc \in [Users -> {"idle", "report", "stat", "build", "load", "edit", "temp", "write", "rename"}]
    /\ cmd \in [Users -> Commands]
    /\ chosen \in [Users -> SUBSET Found]
    /\ mem \in [Users -> SUBSET Entry] /\ DOMAIN tmp = Users /\ \A u \in Users : IsFile(tmp[u])
    /\ outcome \in [Users -> {"none", "ok", "error"}]
    /\ fresh \in [Users -> BOOLEAN]
    /\ ran \in 0..MaxCommands

Init ==
    /\ file \in InitialFiles /\ report = NoReport /\ clock = 0
    /\ pc = [u \in Users |-> "idle"] /\ cmd \in [Users -> {CHOOSE c \in Commands : TRUE}]
    /\ chosen = [u \in Users |-> {}] /\ mem = [u \in Users |-> {}]
    /\ tmp = [u \in Users |-> NoFile] /\ outcome = [u \in Users |-> "none"]
    /\ fresh = [u \in Users |-> TRUE]
    /\ ran = 0
---------------------------------------------------------------------------------
(* Operations on a baseline.                                               *)

Expired(e) == e.exp # 0 /\ e.exp < clock

\* Mutant: an entry is pruned in the moment it expires.
PrunedEarly(es) == {e \in es : ~(e.exp # 0 /\ e.exp <= clock)}

Pruned(es) == {e \in es : ~Expired(e)}

\* Baseline.Add: replaces the entry with the same ID and fingerprint.
AddEntry(es, e) ==
    LET new  == [e EXCEPT !.id = UpperOf[@]]
        same == {x \in es : Key(x) = Key(new)}
    IN  IF same = {} THEN es \cup {new} ELSE (es \ {CHOOSE x \in same : TRUE}) \cup {new}

\* CreateFromFindings: one entry per ID, or per ID and fingerprint.
CreateFromFindings(fs, c) ==
    {[id |-> f.id, fp |-> IF c.fingerprint THEN Fp(f) ELSE NoFp,
      exp |-> IF c.expires THEN clock + 1 ELSE 0] : f \in {g \in fs : g.sev >= c.minSev}}

\* ApplyBaseline and IsHidden: fingerprints first, then IDs.
Suppresses(es, f) ==
    \E e \in Pruned(es) : IF e.fp # NoFp THEN e.fp = Fp(f) ELSE e.id = f.id
---------------------------------------------------------------------------------
(* Commands.                                                               *)

\* What a command line asks to suppress, to remove, or to replace.
Named(c) ==
    CASE c.op \in {"add", "remove"} -> {<<UpperOf[c.id], c.fp>>}
      [] c.op = "import" -> {<<UpperOf[e.id], e.fp>> : e \in c.source}
      [] c.op = "create" -> {<<f.id, IF c.fingerprint THEN Fp(f) ELSE NoFp>> :
                                f \in {g \in Found : (c.ids = {} \/ g.id \in c.ids) /\ g.sev >= c.minSev}}
      [] OTHER -> {}

Goto(u, l) == pc' = [pc EXCEPT ![u] = l]

\* A command returns; a temporary file is removed.
End(u, result) ==
    /\ Goto(u, "idle") /\ outcome' = [outcome EXCEPT ![u] = result]
    /\ tmp' = [tmp EXCEPT ![u] = NoFile]

Fail(u) == End(u, "error") /\ UNCHANGED <<report, chosen, mem>>

Begin(u) ==
    /\ pc[u] = "idle" /\ ran < MaxCommands
    /\ ran' = ran + 1
    /\ \E c \in Commands :
          /\ cmd' = [cmd EXCEPT ![u] = c]
          /\ Goto(u, IF c.op = "create" THEN "report" ELSE "load")
    /\ outcome' = [outcome EXCEPT ![u] = "none"]
    /\ UNCHANGED <<file, report, clock, chosen, mem, tmp, fresh>>

\* selectFindingsByID; no IDs stand for --all.
Selected(c) == {f \in report : c.ids = {} \/ f.id \in c.ids}

\* create reads the saved report; every requested ID must be in it.
ReadReport(u) ==
    /\ pc[u] = "report"
    /\ IF report = NoReport \/ \E i \in cmd[u].ids : \A f \in report : f.id # i
       THEN Fail(u)
       ELSE /\ chosen' = [chosen EXCEPT ![u] = Selected(cmd[u])]
            /\ Goto(u, "stat") /\ UNCHANGED <<report, mem, tmp, outcome>>
    /\ UNCHANGED <<file, clock, cmd, fresh, ran>>

\* create refuses to replace a file, unless it is forced to.
StatTarget(u) ==
    /\ pc[u] = "stat"
    /\ fresh' = [fresh EXCEPT ![u] = TRUE]
    /\ IF file # NoFile /\ ~cmd[u].force
       THEN Fail(u)
       ELSE Goto(u, "build") /\ UNCHANGED <<report, chosen, mem, tmp, outcome>>
    /\ UNCHANGED <<file, clock, cmd, ran>>

Build(u) ==
    /\ pc[u] = "build"
    /\ mem' = [mem EXCEPT ![u] = CreateFromFindings(chosen[u], cmd[u])]
    /\ Goto(u, "temp")
    /\ UNCHANGED <<file, report, clock, cmd, chosen, tmp, outcome, fresh, ran>>

\* Load and loadExistingBaseline: a missing file is empty for add, import and
\* scan, an error for remove and prune; a torn one is an error.
LoadFile(u) ==
    /\ pc[u] = "load"
    /\ fresh' = [fresh EXCEPT ![u] = TRUE]
    /\ IF file = Torn \/ (file = NoFile /\ cmd[u].op \in {"remove", "prune"})
       THEN Fail(u)
       ELSE /\ mem' = [mem EXCEPT ![u] = IF file = NoFile THEN {} ELSE file]
            /\ Goto(u, "edit") /\ UNCHANGED <<report, chosen, tmp, outcome>>
    /\ UNCHANGED <<file, clock, cmd, ran>>

ToSave(u, es) ==
    /\ mem' = [mem EXCEPT ![u] = es] /\ Goto(u, "temp")
    /\ UNCHANGED <<report, chosen, tmp, outcome>>

EditAdd(u) ==
    /\ cmd[u].op = "add"
    /\ ToSave(u, AddEntry(mem[u], [id |-> cmd[u].id, fp |-> cmd[u].fp,
                                   exp |-> IF cmd[u].expires THEN clock + 1 ELSE 0]))

\* Baseline.Remove: the entry with this very ID and fingerprint, or an error.
EditRemove(u) ==
    /\ cmd[u].op = "remove"
    /\ LET hit == {e \in mem[u] : Key(e) = <<UpperOf[cmd[u].id], cmd[u].fp>>}
       IN  IF hit = {} THEN Fail(u) ELSE ToSave(u, mem[u] \ {CHOOSE e \in hit : TRUE})

EditPrune(u) == cmd[u].op = "prune" /\ ToSave(u, Pruned(mem[u]))

\* Entries of the source, one after the other; one without a reason ends it all.
EditImport(u) ==
    /\ cmd[u].op = "import"
    /\ IF cmd[u].reasons
       THEN ToSave(u, LET merged[S \in SUBSET cmd[u].source] ==
                            IF S = {} THEN mem[u]
                            ELSE LET e == CHOOSE x \in S : TRUE IN AddEntry(merged[S \ {e}], e)
                      IN  merged[cmd[u].source])
       ELSE Fail(u)

\* A scan applies what it loaded before its collectors ran; --save-report
\* stores the findings that are left.
FinishScan(u) ==
    /\ cmd[u].op = "scan"
    /\ \/ /\ cmd[u].save
          /\ report' = {f \in Found : cmd[u].hidden \/ ~Suppresses(mem[u], f)}
          /\ End(u, "ok") /\ UNCHANGED <<chosen, mem>>
       \/ ~cmd[u].save /\ End(u, "ok") /\ UNCHANGED <<report, chosen, mem>>
       \/ Fail(u)

Edit(u) ==
    /\ pc[u] = "edit"
    /\ EditAdd(u) \/ EditRemove(u) \/ EditPrune(u) \/ EditImport(u) \/ FinishScan(u)
    /\ UNCHANGED <<file, clock, cmd, fresh, ran>>
---------------------------------------------------------------------------------
(* Save.                                                                   *)

CreateTemp(u) ==
    /\ pc[u] = "temp"
    /\ tmp' = [tmp EXCEPT ![u] = Torn] /\ Goto(u, "write")
    /\ UNCHANGED <<file, report, clock, cmd, chosen, mem, outcome, fresh, ran>>

\* The temporary file is written, synced and closed.
WriteTemp(u) ==
    /\ pc[u] = "write"
    /\ tmp' = [tmp EXCEPT ![u] = mem[u]] /\ Goto(u, "rename")
    /\ UNCHANGED <<file, report, clock, cmd, chosen, mem, outcome, fresh, ran>>

\* The rename, after which Save cannot fail any more.
Rename(u) ==
    /\ pc[u] = "rename"
    /\ file' = tmp[u]
    /\ fresh' = [v \in Users |-> fresh[v] /\ (v = u \/ pc[v] \in {"idle", "report", "stat", "load"})]
    /\ End(u, "ok")
    /\ UNCHANGED <<report, clock, cmd, chosen, mem, ran>>

SaveFails(u) ==
    /\ pc[u] \in {"temp", "write", "rename"} /\ Fail(u)
    /\ UNCHANGED <<file, clock, cmd, fresh, ran>>

\* The process dies; its temporary file has a name nobody uses again.
Kill(u) ==
    /\ pc[u] # "idle" /\ End(u, "none")
    /\ UNCHANGED <<file, report, clock, cmd, chosen, mem, fresh, ran>>

Tick ==
    /\ clock < MaxTime /\ clock' = clock + 1
    /\ UNCHANGED <<file, report, pc, cmd, chosen, mem, tmp, outcome, fresh, ran>>

Save(u) == CreateTemp(u) \/ WriteTemp(u) \/ Rename(u) \/ SaveFails(u)

Next == \/ Tick
        \/ \E u \in Users : \/ Begin(u) \/ ReadReport(u) \/ StatTarget(u) \/ Build(u)
                            \/ LoadFile(u) \/ Edit(u) \/ Save(u) \/ Kill(u)

Spec == Init /\ [][Next]_vars
---------------------------------------------------------------------------------
(* Properties.                                                             *)

Saves(u) == pc[u] = "rename" /\ outcome'[u] = "ok"

\* A command changes the entries it names and leaves all others as they are: a
\* prune takes the expired ones, and only a forced create takes the rest - unless
\* another process saved the file after the command had looked at it.
EntriesChangeAsAsked ==
    [][\A e \in Entry :
         (e \in Entries) # (e \in Entries') =>
           \E u \in Users :
              /\ Saves(u)
              /\ \/ Key(e) \in Named(cmd[u]) \/ ~fresh[u]
                 \/ e \in Entries /\ cmd[u].op = "prune" /\ Expired(e)
                 \/ e \in Entries /\ cmd[u].op = "create" /\ cmd[u].force]_vars

\* "baseline already exists at %s; use --force to overwrite"
NeverOverwritesUnforced ==
    [][\A u \in Users :
         Saves(u) /\ cmd[u].op = "create" /\ ~cmd[u].force => file = NoFile]_vars

\* "--all to deliberately baseline every finding in the report", which the
\* README uses to give a new reason: what was suppressed stays suppressed.
SweepKeepsSuppressing ==
    [][\A u \in Users :
         Saves(u) /\ cmd[u].op = "create" /\ cmd[u].ids = {} /\ cmd[u].minSev = 0 =>
            \A f \in Found : file # NoFile /\ Suppresses(file, f) => Suppresses(file', f)]_vars
=================================================================================
