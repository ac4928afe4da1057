---------------------------- MODULE TracedRunsProofs ----------------------------
(***************************************************************************)
(* The runs of a project, for every number of processes that save, read    *)
(* and pack them, whatever a trace captured before it was saved (IInv);    *)
(* and the capture itself, for every command, number of threads and of     *)
(* calls, and every size of the ring and the channel (CaptureInv).  Of the *)
(* steps of TracedRuns only those of the store, and the trace's own        *)
(* beginning of a run, change what IInv is about, and no step of the store *)
(* what CaptureInv is about.                                               *)
(***************************************************************************)
EXTENDS TracedRuns, FiniteSetTheorems, SequenceTheorems, WellFoundedInduction, TLAPS

Saving  == {"scan", "repro", "trace"}
Writing == {"mkdir", "create", "fill"}
Reading == {"read", "open", "build", "created"}

Times  == Nat \cup {Never}
States == {"none", "torn", "whole"}
Member == [file : Files \cup {"manifest"}, is : {"torn", "whole"}]
Archive == [members : Seq(Member), mixed : BOOLEAN, settled : BOOLEAN]
Job == [at : Writing \cup Reading \cup {"idle"}, kind : Saving \cup {"report", "capsule", "none"},
        id : 0..MaxRuns, n : Nat, clean : BOOLEAN, have : Seq(Member), settled : BOOLEAN]

StoreTypeOK ==
    /\ clock \in Nat /\ commands \in Nat
    /\ kindOf \in [RunIds -> Saving \cup {"none"}]
    /\ dirTime \in [RunIds -> Times] /\ content \in [RunIds -> [Files -> States]]
    /\ began \in [RunIds -> Times] /\ whole \in [RunIds -> Times] /\ over \in [RunIds -> Times]
    /\ archive \in [RunIds -> Archive]
    /\ job \in [Users -> Job]

\* IDs are taken in order.
Numbered == \E m \in 0..MaxRuns : Used = 1..m

\* A run's directory changes while its command is there and never after; what is
\* said to be whole is.
RunInv(i) ==
    /\ kindOf[i] = "none" => /\ dirTime[i] = Never /\ over[i] = Never /\ whole[i] = Never
                             /\ archive[i] = NoArchive
    /\ kindOf[i] # "none" => began[i] \in Nat /\ began[i] <= clock
    /\ dirTime[i] # Never => began[i] <= dirTime[i] /\ dirTime[i] <= clock
    /\ over[i] # Never /\ dirTime[i] # Never => dirTime[i] <= over[i]
    /\ whole[i] # Never => /\ dirTime[i] # Never /\ over[i] # Never
                           /\ \A k \in DOMAIN Parts(kindOf[i]) : content[i][Parts(kindOf[i])[k]] = "whole"

Writes(u) == job[u].at \in Writing

\* A run that is being written is not over; a command that met no error has the
\* directory and all earlier files.
WriterInv(u) ==
    Writes(u) =>
        /\ job[u].id \in RunIds /\ job[u].kind \in Saving /\ kindOf[job[u].id] = job[u].kind
        /\ over[job[u].id] = Never /\ whole[job[u].id] = Never
        /\ job[u].n \in DOMAIN Parts(job[u].kind)
        /\ job[u].at = "mkdir" => job[u].n = 1
        /\ job[u].clean => /\ job[u].at # "mkdir" => dirTime[job[u].id] # Never
                           /\ \A k \in 1..(job[u].n - 1) :
                                 content[job[u].id][Parts(job[u].kind)[k]] = "whole"

\* No two processes write one run.
Apart == \A u, v \in Users : Writes(u) /\ Writes(v) /\ job[u].id = job[v].id => u = v

Packed == <<"report", "repro", "stdout", "stderr", "trace">>

Whole(f) == [file |-> f, is |-> "whole"]

\* A reader that began when the run was whole has all of the run's files it passed.
ReaderInv(u) ==
    job[u].at \in Reading =>
        /\ job[u].id \in RunIds /\ kindOf[job[u].id] # "none" /\ job[u].kind \in {"report", "capsule"}
        /\ job[u].at = "read" => job[u].n \in DOMAIN Reads(job[u].kind)
        /\ job[u].at = "open" => job[u].n = 3
        /\ job[u].at # "read" => job[u].kind = "capsule"
        /\ job[u].at = "build" => job[u].n = 6
        /\ \A m \in DOMAIN job[u].have : job[u].have[m].file # "manifest"
        /\ job[u].settled =>
              /\ whole[job[u].id] # Never
              /\ \A k \in 1..(job[u].n - 1), p \in DOMAIN Parts(kindOf[job[u].id]) :
                    Packed[k] = Parts(kindOf[job[u].id])[p] =>
                        \E m \in DOMAIN job[u].have : job[u].have[m] = Whole(Packed[k])

\* CapsuleIsWhole of one archive.
ArchiveInv(i) ==
    Valid(archive[i]) /\ archive[i].settled =>
        \A p \in DOMAIN Parts(kindOf[i]) :
            \E m \in DOMAIN archive[i].members : archive[i].members[m] = Whole(Parts(kindOf[i])[p])

IInv ==
    /\ StoreTypeOK /\ Numbered /\ Apart
    /\ \A i \in RunIds : RunInv(i) /\ ArchiveInv(i)
    /\ \A u \in Users : WriterInv(u) /\ ReaderInv(u)
---------------------------------------------------------------------------------
(* The files of a run, and one step of its writer.                         *)

LEMMA PartsFacts ==
  /\ \A kind \in Saving : /\ Parts(kind) \in Seq(Files) /\ Len(Parts(kind)) \in Nat \ {0}
                          /\ DOMAIN Parts(kind) = 1..Len(Parts(kind))
  /\ Parts("none") = <<>>
<1>1. Parts("scan") \in Seq(Files) /\ Len(Parts("scan")) \in Nat \ {0}
  BY DEF Parts, Files
<1>2. Parts("repro") \in Seq(Files) /\ Len(Parts("repro")) \in Nat \ {0}
  BY DEF Parts, Files
<1>3. Parts("trace") \in Seq(Files) /\ Len(Parts("trace")) \in Nat \ {0}
  BY DEF Parts, Files
<1>4. \A kind \in Saving : Parts(kind) \in Seq(Files) /\ Len(Parts(kind)) \in Nat \ {0}
  <2> SUFFICES ASSUME NEW kind \in Saving
               PROVE  Parts(kind) \in Seq(Files) /\ Len(Parts(kind)) \in Nat \ {0}
    OBVIOUS
  <2>1. kind = "scan" \/ kind = "repro" \/ kind = "trace"
    BY DEF Saving
  <2> QED BY ONLY <1>1, <1>2, <1>3, <2>1
<1>5. \A s \in Seq(Files) : DOMAIN s = 1..Len(s)
  BY LenProperties
<1>6. Parts("none") = <<>>
  BY DEF Parts
<1> QED BY <1>4, <1>5, <1>6

\* No file is in a run twice.
LEMMA PartsDiffer ==
  ASSUME NEW kind \in Saving, NEW a \in DOMAIN Parts(kind), NEW b \in DOMAIN Parts(kind),
         Parts(kind)[a] = Parts(kind)[b]
  PROVE  a = b
<1>1. CASE kind = "scan"
  BY <1>1 DEF Parts
<1>2. CASE kind = "repro"
  BY <1>2 DEF Parts
<1>3. CASE kind = "trace"
  BY <1>3 DEF Parts
<1> QED BY <1>1, <1>2, <1>3 DEF Saving

\* A run is written further, or its writer is gone, having written all of it only
\* when nothing failed.
LEMMA NextPartFacts ==
  ASSUME StoreTypeOK, NEW u \in Users, WriterInv(u), Writes(u), NEW clean \in BOOLEAN, NextPart(u, clean)
  PROVE  \/ /\ job' = [job EXCEPT ![u] = [job[u] EXCEPT !.at = "create", !.n = job[u].n + 1,
                                                        !.clean = job[u].clean /\ clean]]
            /\ job[u].n + 1 \in DOMAIN Parts(job[u].kind)
            /\ UNCHANGED <<over, whole>>
         \/ /\ job' = [job EXCEPT ![u] = Idle]
            /\ over' = [over EXCEPT ![job[u].id] = clock]
            /\ \/ whole' = whole
               \/ /\ clean /\ job[u].clean /\ job[u].n = Len(Parts(job[u].kind))
                  /\ whole' = [whole EXCEPT ![job[u].id] = clock]
<1>1. /\ job[u].n \in 1..Len(Parts(job[u].kind)) /\ Len(Parts(job[u].kind)) \in Nat
      /\ DOMAIN Parts(job[u].kind) = 1..Len(Parts(job[u].kind))
  BY PartsFacts DEF WriterInv
<1>2. CASE (clean \/ job[u].kind = "trace") /\ job[u].n < Len(Parts(job[u].kind))
  <2>1. job[u].n + 1 \in DOMAIN Parts(job[u].kind)
    BY <1>1, <1>2
  <2>2. /\ job' = [job EXCEPT ![u] = [job[u] EXCEPT !.at = "create", !.n = job[u].n + 1,
                                                        !.clean = job[u].clean /\ clean]]
        /\ UNCHANGED <<over, whole>>
    BY <1>2 DEF NextPart, Put, Stay
  <2> QED BY <2>1, <2>2
<1>3. CASE ~((clean \/ job[u].kind = "trace") /\ job[u].n < Len(Parts(job[u].kind)))
  <2>1. Gone(u, clean /\ job[u].clean)
    BY <1>3 DEF NextPart
  <2>2. job' = [job EXCEPT ![u] = Idle] /\ over' = [over EXCEPT ![job[u].id] = clock]
    BY <2>1 DEF Gone, Put
  <2>3. CASE clean /\ job[u].clean
    <3>1. job[u].n = Len(Parts(job[u].kind))
      BY <1>1, <1>3, <2>3
    <3>2. whole' = [whole EXCEPT ![job[u].id] = clock]
      BY <2>1, <2>3 DEF Gone
    <3> QED BY <2>2, <2>3, <3>1, <3>2
  <2>4. CASE ~(clean /\ job[u].clean)
    BY <2>1, <2>2, <2>4 DEF Gone
  <2> QED BY <2>3, <2>4
<1> QED BY <1>2, <1>3

\* A step of a process that saves a run.
Saves(u) == Writes(u) /\ (MakeDir(u) \/ CreatePart(u) \/ FillPart(u) \/ Kill(u))

\* What it does: it stays with its run, or leaves it, and touches no other.
SaveEffect(u) ==
    LET i == job[u].id IN
    /\ UNCHANGED <<clock, commands, kindOf, began, archive>>
    /\ dirTime' = dirTime \/ dirTime' = [dirTime EXCEPT ![i] = clock]
    /\ content' = content \/ \E f \in Files, x \in States : content' = [content EXCEPT ![i][f] = x]
    /\ \/ /\ UNCHANGED <<over, whole>>
          /\ \E j \in Job : job' = [job EXCEPT ![u] = j] /\ j.at \in Writing /\ j.id = i /\ j.kind = job[u].kind
       \/ /\ job' = [job EXCEPT ![u] = Idle]
          /\ over' = [over EXCEPT ![i] = clock]
          /\ \/ whole' = whole
             \/ /\ whole' = [whole EXCEPT ![i] = clock]
                /\ dirTime'[i] # Never
                /\ \A k \in DOMAIN Parts(kindOf[i]) : content'[i][Parts(kindOf[i])[k]] = "whole"

LEMMA IdleType == Idle \in Job /\ Idle.at \notin Writing /\ Idle.at \notin Reading /\ Never \notin Nat
<1>1. MaxRuns \in Nat /\ Never \notin Nat
  BY SavedAssumption
<1>2. <<>> \in Seq(Member)
  OBVIOUS
<1> QED BY <1>1, <1>2 DEF Idle, Job, Writing, Reading

\* The next file's step, for a writer whose own file i is now as content' says.
LEMMA NextPartEffect ==
  ASSUME StoreTypeOK, NEW u \in Users, WriterInv(u), Writes(u), NEW clean \in BOOLEAN, NextPart(u, clean),
         UNCHANGED <<clock, commands, kindOf, began, archive, dirTime>>,
         content' = content \/ \E f \in Files, x \in States : content' = [content EXCEPT ![job[u].id][f] = x],
         clean => /\ job[u].at = "fill"
                  /\ content' = [content EXCEPT ![job[u].id][Part(u)] = "whole"]
  PROVE  SaveEffect(u) /\ WriterInv(u)'
<1> DEFINE i == job[u].id
           ps == Parts(job[u].kind)
           j  == [job[u] EXCEPT !.at = "create", !.n = job[u].n + 1, !.clean = job[u].clean /\ clean]
<1>1. /\ i \in RunIds /\ job[u].kind \in Saving /\ kindOf[i] = job[u].kind
      /\ over[i] = Never /\ whole[i] = Never /\ job[u].n \in DOMAIN ps
  BY DEF WriterInv
<1>2. ps \in Seq(Files) /\ DOMAIN ps = 1..Len(ps) /\ Len(ps) \in Nat
  BY <1>1, PartsFacts
<1>3. job[u] \in Job
  BY DEF StoreTypeOK
<1>4. ASSUME clean, job[u].clean
      PROVE  dirTime'[i] # Never /\ \A k \in 1..job[u].n : content'[i][ps[k]] = "whole"
  <2>1. dirTime[i] # Never /\ \A k \in 1..(job[u].n - 1) : content[i][ps[k]] = "whole"
    BY <1>4 DEF WriterInv
  <2>2. content[i] \in [Files -> States] /\ Part(u) = ps[job[u].n] /\ Part(u) \in Files
    BY <1>1, <1>2 DEF StoreTypeOK, Part
  <2>3. content'[i] = [content[i] EXCEPT ![Part(u)] = "whole"]
    BY <1>1, <1>4 DEF StoreTypeOK
  <2>4. ASSUME NEW k \in 1..job[u].n PROVE content'[i][ps[k]] = "whole"
    <3>1. ps[k] \in Files /\ (k = job[u].n \/ k \in 1..(job[u].n - 1))
      BY <1>1, <1>2
    <3> QED BY <2>1, <2>2, <2>3, <3>1
  <2> QED BY <2>1, <2>4
<1>5. CASE job' = [job EXCEPT ![u] = j] /\ job[u].n + 1 \in DOMAIN ps /\ UNCHANGED <<over, whole>>
  <2>1. job[u].n \in Nat /\ job[u].n + 1 \in Nat /\ job[u].clean \in BOOLEAN
    BY <1>3 DEF Job
  <2>2. /\ j \in Job /\ j.at = "create" /\ j.id = i /\ j.kind = job[u].kind /\ j.n = job[u].n + 1
        /\ j.clean = (job[u].clean /\ clean)
    BY <1>3, <2>1 DEF Job, Writing
  <2>3. SaveEffect(u)
    BY <1>5, <2>2 DEF SaveEffect, Writing
  <2>4. job'[u] = j
    BY <1>5 DEF StoreTypeOK
  <2>5. j.clean => /\ dirTime'[i] # Never
                   /\ \A k \in 1..(j.n - 1) : content'[i][ps[k]] = "whole"
    BY <1>4, <2>1, <2>2
  <2>6. /\ job'[u].id = i /\ job'[u].kind = job[u].kind /\ job'[u].n = job[u].n + 1
        /\ job'[u].at = "create" /\ job'[u].clean = j.clean
    BY <2>2, <2>4
  <2>7. kindOf'[i] = job[u].kind /\ over'[i] = Never /\ whole'[i] = Never
    BY <1>1, <1>5
  <2>8. WriterInv(u)'
    <3> HIDE DEF j
    <3>1. job'[u].clean => \A k \in 1..(job'[u].n - 1) : content'[job'[u].id][Parts(job'[u].kind)[k]] = "whole"
      BY <2>2, <2>5, <2>6
    <3>2. job'[u].n \in DOMAIN Parts(job'[u].kind)
      BY <1>5, <2>6
    <3> HIDE DEF i, ps
    <3> QED BY <1>1, <2>5, <2>6, <2>7, <3>1, <3>2 DEF WriterInv
  <2> QED BY <2>3, <2>8
<1>6. CASE /\ job' = [job EXCEPT ![u] = Idle]
           /\ over' = [over EXCEPT ![i] = clock]
           /\ \/ whole' = whole
              \/ /\ clean /\ job[u].clean /\ job[u].n = Len(ps)
                 /\ whole' = [whole EXCEPT ![i] = clock]
  <2>1. WriterInv(u)'
    BY <1>6, IdleType DEF StoreTypeOK, WriterInv, Writes
  <2>2. SaveEffect(u)
    <3>1. CASE whole' = whole
      BY <1>6, <3>1 DEF SaveEffect
    <3>2. CASE clean /\ job[u].clean /\ job[u].n = Len(ps) /\ whole' = [whole EXCEPT ![i] = clock]
      <4>1. dirTime'[i] # Never /\ \A k \in DOMAIN Parts(kindOf[i]) : content'[i][Parts(kindOf[i])[k]] = "whole"
        BY <1>1, <1>2, <1>4, <3>2
      <4> QED BY <1>6, <3>2, <4>1 DEF SaveEffect
    <3> QED BY <1>6, <3>1, <3>2
  <2> QED BY <2>1, <2>2
<1> QED BY <1>5, <1>6, NextPartFacts

LEMMA MakeDirSaves ==
  ASSUME StoreTypeOK, NEW u \in Users, WriterInv(u), MakeDir(u)
  PROVE  SaveEffect(u) /\ WriterInv(u)'
<1> DEFINE i == job[u].id
           j == [job[u] EXCEPT !.at = "create"]
<1>1. /\ job[u].at = "mkdir" /\ Writes(u) /\ job[u] \in Job
      /\ UNCHANGED <<clock, commands, kindOf, content, began, archive>>
  BY DEF MakeDir, Writes, Writing, StoreTypeOK
<1>2. /\ i \in RunIds /\ job[u].kind \in Saving /\ kindOf[i] = job[u].kind
      /\ over[i] = Never /\ whole[i] = Never /\ job[u].n \in DOMAIN Parts(job[u].kind) /\ job[u].n = 1
  BY <1>1 DEF WriterInv
<1>3. CASE dirTime' = [dirTime EXCEPT ![i] = clock] /\ job' = [job EXCEPT ![u] = j] /\ UNCHANGED <<over, whole>>
  <2>1. /\ j \in Job /\ j.at = "create" /\ j.id = i /\ j.kind = job[u].kind /\ j.n = 1
    BY <1>1, <1>2 DEF Job, Writing
  <2>2. SaveEffect(u)
    BY <1>1, <1>3, <2>1 DEF SaveEffect, Writing
  <2>3. job'[u] = j /\ dirTime'[i] = clock /\ clock # Never
    BY <1>2, <1>3, IdleType DEF StoreTypeOK
  <2>4. /\ job'[u].at = "create" /\ job'[u].id = i /\ job'[u].kind = job[u].kind /\ job'[u].n = 1
        /\ over'[i] = Never /\ whole'[i] = Never /\ kindOf'[i] = kindOf[i]
    BY <1>1, <1>2, <1>3, <2>1, <2>3
  <2>5. \A k \in 1..(job'[u].n - 1) : FALSE
    BY <2>4
  <2> HIDE DEF i, j
  <2>6. WriterInv(u)'
    BY <1>2, <2>3, <2>4, <2>5 DEF WriterInv
  <2> QED BY <2>2, <2>6
<1>4. CASE NextPart(u, FALSE) /\ UNCHANGED dirTime
  BY <1>1, <1>4, NextPartEffect
<1> QED BY <1>3, <1>4 DEF MakeDir, Put, Stay

LEMMA PartType ==
  ASSUME StoreTypeOK, NEW u \in Users, WriterInv(u), Writes(u)
  PROVE  Part(u) \in Files /\ Part(u) = Parts(job[u].kind)[job[u].n]
BY PartsFacts DEF WriterInv, Part

LEMMA CreatePartSaves ==
  ASSUME StoreTypeOK, NEW u \in Users, WriterInv(u), CreatePart(u)
  PROVE  SaveEffect(u) /\ WriterInv(u)'
<1> DEFINE i == job[u].id
           j == [job[u] EXCEPT !.at = "fill"]
           ps == Parts(job[u].kind)
<1>1. /\ job[u].at = "create" /\ Writes(u) /\ job[u] \in Job
      /\ UNCHANGED <<clock, commands, kindOf, began, archive>>
  BY DEF CreatePart, Writes, Writing, StoreTypeOK
<1>2. /\ i \in RunIds /\ job[u].kind \in Saving /\ kindOf[i] = job[u].kind
      /\ over[i] = Never /\ whole[i] = Never /\ job[u].n \in DOMAIN ps
      /\ job[u].clean => /\ dirTime[i] # Never
                         /\ \A k \in 1..(job[u].n - 1) : content[i][ps[k]] = "whole"
  BY <1>1 DEF WriterInv
<1>3. CASE /\ content' = [content EXCEPT ![i][Part(u)] = "torn"]
           /\ dirTime' = dirTime \/ dirTime' = [dirTime EXCEPT ![i] = clock]
           /\ job' = [job EXCEPT ![u] = j] /\ UNCHANGED <<over, whole>>
  <2>1. /\ j \in Job /\ j.at = "fill" /\ j.id = i /\ j.kind = job[u].kind /\ j.n = job[u].n
        /\ j.clean = job[u].clean
    BY <1>1, <1>2 DEF Job, Writing
  <2>2. SaveEffect(u)
    <3>1. \E f \in Files, x \in States : content' = [content EXCEPT ![i][f] = x]
      BY <1>1, <1>3, PartType DEF States
    <3>2. \E k \in Job : job' = [job EXCEPT ![u] = k] /\ k.at \in Writing /\ k.id = i /\ k.kind = job[u].kind
      BY <1>3, <2>1 DEF Writing
    <3> HIDE DEF j
    <3> QED BY <1>1, <1>3, <3>1, <3>2 DEF SaveEffect
  <2>3. job'[u] = j /\ (dirTime[i] # Never => dirTime'[i] # Never)
    BY <1>2, <1>3, IdleType DEF StoreTypeOK
  <2>4. /\ job'[u].at = "fill" /\ job'[u].id = i /\ job'[u].kind = job[u].kind /\ job'[u].n = job[u].n
        /\ over'[i] = Never /\ whole'[i] = Never /\ kindOf'[i] = kindOf[i] /\ job'[u].clean = job[u].clean
    BY <1>1, <1>2, <1>3, <2>1, <2>3
  <2>5. ASSUME job[u].clean, NEW k \in 1..(job[u].n - 1) PROVE content'[i][ps[k]] = "whole"
    <3>1. k \in DOMAIN ps /\ k # job[u].n /\ job[u].n \in Nat
      BY <1>2, PartsFacts
    <3>2. ps[k] # Part(u)
      BY <1>1, <1>2, <3>1, PartType, PartsDiffer
    <3>3. content'[i][ps[k]] = content[i][ps[k]]
      BY <1>2, <1>3, <3>2 DEF StoreTypeOK
    <3> QED BY <1>2, <2>5, <3>3
  <2>6. job'[u].clean => \A k \in 1..(job'[u].n - 1) : content'[i][ps[k]] = "whole"
    BY <2>4, <2>5
  <2> HIDE DEF j
  <2>7. WriterInv(u)'
    BY <1>2, <2>3, <2>4, <2>6 DEF WriterInv
  <2> QED BY <2>2, <2>7
<1>4. CASE NextPart(u, FALSE) /\ UNCHANGED <<content, dirTime>>
  BY <1>1, <1>4, NextPartEffect
<1>5. \/ /\ content' = [content EXCEPT ![i][Part(u)] = "torn"]
         /\ dirTime' = dirTime \/ dirTime' = [dirTime EXCEPT ![i] = clock]
         /\ job' = [job EXCEPT ![u] = j] /\ UNCHANGED <<over, whole>>
      \/ NextPart(u, FALSE) /\ UNCHANGED <<content, dirTime>>
  BY DEF CreatePart, Put, Stay
<1> QED BY <1>3, <1>4, <1>5

LEMMA FillPartSaves ==
  ASSUME StoreTypeOK, NEW u \in Users, WriterInv(u), FillPart(u)
  PROVE  SaveEffect(u) /\ WriterInv(u)'
<1> DEFINE filled == [content EXCEPT ![job[u].id][Part(u)] = "whole"]
<1>1. /\ job[u].at = "fill" /\ Writes(u)
      /\ UNCHANGED <<clock, commands, kindOf, dirTime, began, archive>>
  BY DEF FillPart, Writes, Writing
<1>2. content' = filled => \E f \in Files, x \in States : content' = [content EXCEPT ![job[u].id][f] = x]
  BY <1>1, PartType DEF States
<1>3. \/ content' = filled /\ NextPart(u, TRUE)
      \/ content' \in {content, filled} /\ NextPart(u, FALSE)
  BY DEF FillPart
<1>4. content' = content \/ \E f \in Files, x \in States : content' = [content EXCEPT ![job[u].id][f] = x]
  BY <1>2, <1>3
<1>5. CASE content' = filled /\ NextPart(u, TRUE)
  BY <1>1, <1>4, <1>5, NextPartEffect
<1>6. CASE NextPart(u, FALSE)
  BY <1>1, <1>4, <1>6, NextPartEffect
<1> QED BY <1>3, <1>5, <1>6

LEMMA KillSaves ==
  ASSUME StoreTypeOK, NEW u \in Users, Writes(u), Kill(u)
  PROVE  SaveEffect(u) /\ WriterInv(u)'
<1>1. Gone(u, FALSE) /\ UNCHANGED <<clock, commands, kindOf, dirTime, content, began, archive>>
  BY DEF Kill, Writes, Writing
<1>2. job' = [job EXCEPT ![u] = Idle] /\ over' = [over EXCEPT ![job[u].id] = clock] /\ whole' = whole
  BY <1>1 DEF Gone, Put
<1>3. SaveEffect(u)
  BY <1>1, <1>2 DEF SaveEffect
<1>4. WriterInv(u)'
  BY <1>2, IdleType DEF StoreTypeOK, WriterInv, Writes
<1> QED BY <1>3, <1>4

LEMMA SaveFacts ==
  ASSUME StoreTypeOK, NEW u \in Users, WriterInv(u), Saves(u)
  PROVE  SaveEffect(u) /\ WriterInv(u)'
BY MakeDirSaves, CreatePartSaves, FillPartSaves, KillSaves DEF Saves
---------------------------------------------------------------------------------
(* Steps that save a run keep the invariant.                               *)

\* The rest of a writer's step: the run that is written.
LEMMA SavedRun ==
  ASSUME StoreTypeOK, StoreTypeOK', NEW u \in Users, WriterInv(u), Writes(u), SaveEffect(u),
         NEW i \in RunIds, i = job[u].id, RunInv(i)
  PROVE  RunInv(i)'
<1>1. i \in RunIds /\ kindOf[i] # "none" /\ over[i] = Never /\ whole[i] = Never
  BY DEF WriterInv, Saving
<1>2. /\ began[i] \in Nat /\ began[i] <= clock /\ clock \in Nat /\ Never \notin Nat
      /\ dirTime[i] # Never => dirTime[i] \in Nat /\ began[i] <= dirTime[i] /\ dirTime[i] <= clock
  BY <1>1, IdleType DEF RunInv, StoreTypeOK, Times
<1>3. kindOf'[i] = kindOf[i] /\ began'[i] = began[i] /\ clock' = clock
  BY DEF SaveEffect
<1>4. dirTime'[i] = dirTime[i] \/ dirTime'[i] = clock
  BY <1>1 DEF SaveEffect, StoreTypeOK
<1>5. dirTime'[i] # Never => began'[i] <= dirTime'[i] /\ dirTime'[i] <= clock'
  BY <1>2, <1>3, <1>4
<1>6. CASE UNCHANGED <<over, whole>>
  <2>1. over'[i] = Never /\ whole'[i] = Never
    BY <1>1, <1>6
  <2> QED BY <1>1, <1>2, <1>3, <1>5, <2>1 DEF RunInv
<1>7. CASE /\ over' = [over EXCEPT ![i] = clock]
           /\ \/ whole' = whole
              \/ /\ whole' = [whole EXCEPT ![i] = clock]
                 /\ dirTime'[i] # Never
                 /\ \A k \in DOMAIN Parts(kindOf[i]) : content'[i][Parts(kindOf[i])[k]] = "whole"
  <2>1. over'[i] = clock
    BY <1>1, <1>7 DEF StoreTypeOK
  <2>2. whole'[i] # Never => /\ dirTime'[i] # Never
                             /\ \A k \in DOMAIN Parts(kindOf[i]) : content'[i][Parts(kindOf[i])[k]] = "whole"
    BY <1>1, <1>7
  <2>3. dirTime'[i] # Never => dirTime'[i] <= over'[i]
    BY <1>3, <1>5, <2>1
  <2>4. over'[i] # Never
    BY <1>2, <2>1
  <2> QED BY <1>1, <1>2, <1>3, <1>5, <2>2, <2>3, <2>4 DEF RunInv
<1> QED BY <1>6, <1>7 DEF SaveEffect

LEMMA SaveType ==
  ASSUME StoreTypeOK, NEW u \in Users, WriterInv(u), Writes(u), SaveEffect(u)
  PROVE  StoreTypeOK'
<1> DEFINE i == job[u].id
<1>1. i \in RunIds /\ clock \in Times
  BY DEF WriterInv, StoreTypeOK, Times
<1>2. UNCHANGED <<clock, commands, kindOf, began, archive>>
  BY DEF SaveEffect
<1>3. dirTime' \in [RunIds -> Times]
  BY <1>1 DEF SaveEffect, StoreTypeOK
<1>4. content' \in [RunIds -> [Files -> States]]
  <2>1. ASSUME NEW f \in Files, NEW x \in States, content' = [content EXCEPT ![i][f] = x]
        PROVE  content' \in [RunIds -> [Files -> States]]
    <3>1. [content[i] EXCEPT ![f] = x] \in [Files -> States]
      BY <1>1 DEF StoreTypeOK
    <3> QED BY <1>1, <2>1, <3>1 DEF StoreTypeOK
  <2> QED BY <2>1 DEF SaveEffect, StoreTypeOK
<1>5. over' \in [RunIds -> Times] /\ whole' \in [RunIds -> Times]
  <2>1. over' = over \/ over' = [over EXCEPT ![i] = clock]
    BY DEF SaveEffect
  <2>2. whole' = whole \/ whole' = [whole EXCEPT ![i] = clock]
    BY DEF SaveEffect
  <2>3. over' \in [RunIds -> Times]
    BY <1>1, <2>1 DEF StoreTypeOK
  <2>4. whole' \in [RunIds -> Times]
    BY <1>1, <2>2 DEF StoreTypeOK
  <2> QED BY <2>3, <2>4
<1>6. job' \in [Users -> Job]
  <2>1. \E j \in Job : job' = [job EXCEPT ![u] = j]
    BY IdleType DEF SaveEffect
  <2> QED BY <2>1 DEF StoreTypeOK
<1> QED BY <1>2, <1>3, <1>4, <1>5, <1>6 DEF StoreTypeOK

LEMMA SaveKeeps ==
  ASSUME IInv, NEW u \in Users, Saves(u)
  PROVE  IInv'
<1> DEFINE i == job[u].id
<1>1. StoreTypeOK /\ Writes(u) /\ WriterInv(u) /\ SaveEffect(u) /\ WriterInv(u)'
  BY SaveFacts DEF IInv, Saves
<1>2. /\ i \in RunIds /\ whole[i] = Never /\ job[u].at \notin Reading
  BY <1>1 DEF WriterInv, Writes, Writing, Reading
<1>3. StoreTypeOK'
  BY <1>1, SaveType
<1>4. /\ \A r \in RunIds \ {i} : /\ dirTime'[r] = dirTime[r] /\ content'[r] = content[r]
                                 /\ over'[r] = over[r] /\ whole'[r] = whole[r]
      /\ UNCHANGED <<clock, commands, kindOf, began, archive>>
  BY <1>1 DEF SaveEffect, StoreTypeOK
<1>5. \A v \in Users \ {u} : job'[v] = job[v]
  BY <1>1 DEF SaveEffect, StoreTypeOK
<1>6. /\ job'[u].at \notin Reading
      /\ Writes(u)' => job'[u].id = i
  BY <1>1, IdleType DEF SaveEffect, StoreTypeOK, Writes, Writing, Reading
<1>7. Numbered'
  BY <1>4 DEF IInv, Numbered, Used
<1>8. Apart'
  <2> SUFFICES ASSUME NEW v \in Users, NEW w \in Users, Writes(v)', Writes(w)', job'[v].id = job'[w].id
               PROVE  v = w
    BY DEF Apart
  <2>1. Writes(v) /\ job[v].id = job'[v].id
    BY <1>1, <1>5, <1>6 DEF Writes
  <2>2. Writes(w) /\ job[w].id = job'[w].id
    BY <1>1, <1>5, <1>6 DEF Writes
  <2> QED BY <2>1, <2>2 DEF IInv, Apart
<1>9. ASSUME NEW r \in RunIds PROVE RunInv(r)' /\ ArchiveInv(r)'
  <2>1. ArchiveInv(r)'
    BY <1>4 DEF IInv, ArchiveInv, Valid
  <2>2. RunInv(r)'
    <3>1. CASE r = i
      BY <1>1, <1>3, <3>1, SavedRun DEF IInv
    <3>2. CASE r # i
      <4>1. RunInv(r)
        BY DEF IInv
      <4> QED BY <1>4, <3>2, <4>1 DEF RunInv
    <3> QED BY <3>1, <3>2
  <2> QED BY <2>1, <2>2
<1>10. ASSUME NEW v \in Users \ {u} PROVE WriterInv(v)' /\ ReaderInv(v)'
  <2>1. WriterInv(v) /\ ReaderInv(v) /\ job'[v] = job[v]
    BY <1>5 DEF IInv
  <2>2. WriterInv(v)'
    <3>1. CASE ~Writes(v)
      BY <2>1, <3>1 DEF WriterInv, Writes
    <3>2. CASE Writes(v)
      <4>1. job[v].id \in RunIds \ {i}
        BY <1>1, <2>1, <3>2 DEF IInv, Apart, WriterInv
      <4> QED BY <1>4, <2>1, <3>2, <4>1 DEF WriterInv, Writes
    <3> QED BY <3>1, <3>2
  <2>3. ReaderInv(v)'
    <3>1. ASSUME job[v].at \in Reading, job[v].settled PROVE whole'[job[v].id] = whole[job[v].id]
      BY <1>2, <1>4, <2>1, <3>1 DEF ReaderInv
    <3> QED BY <1>4, <2>1, <3>1 DEF ReaderInv
  <2> QED BY <2>2, <2>3
<1>11. ReaderInv(u)'
  BY <1>6 DEF ReaderInv
<1> QED BY <1>1, <1>3, <1>7, <1>8, <1>9, <1>10, <1>11 DEF IInv
---------------------------------------------------------------------------------
(* Steps that read and pack a run.                                         *)

Packs(u) == ~Writes(u) /\ (ReadPart(u) \/ OpenArchive(u) \/ BuildArchive(u) \/ SayCreated(u) \/ Kill(u))

\* A reader changes no run, only the archive of its own.
PackEffect(u) ==
    /\ UNCHANGED <<clock, commands, kindOf, dirTime, content, began, whole, over>>
    /\ \E j \in Job : job' = [job EXCEPT ![u] = j] /\ j.at \notin Writing
    /\ \/ archive' = archive
       \/ /\ job[u].id \in RunIds /\ kindOf[job[u].id] # "none"
          /\ \E a \in Archive :
                /\ archive' = [archive EXCEPT ![job[u].id] = a]
                /\ Valid(a) /\ a.settled =>
                      \A p \in DOMAIN Parts(kindOf[job[u].id]) :
                          \E m \in DOMAIN a.members : a.members[m] = Whole(Parts(kindOf[job[u].id])[p])

LEMMA LeaveEffect ==
  ASSUME StoreTypeOK, NEW u \in Users, job' = [job EXCEPT ![u] = Idle]
  PROVE  /\ \E j \in Job : job' = [job EXCEPT ![u] = j] /\ j.at \notin Writing
         /\ ReaderInv(u)'
<1>1. \E j \in Job : job' = [job EXCEPT ![u] = j] /\ j.at \notin Writing
  BY IdleType
<1>2. job'[u] = Idle
  BY DEF StoreTypeOK
<1> QED BY <1>1, <1>2, IdleType DEF ReaderInv

\* What one more element makes of a sequence.
LEMMA OneMore ==
  ASSUME NEW S, NEW s \in Seq(S), NEW e \in S
  PROVE  /\ s \o <<e>> \in Seq(S) /\ Len(s) \in Nat
         /\ DOMAIN s = 1..Len(s) /\ DOMAIN (s \o <<e>>) = 1..(Len(s) + 1)
         /\ Len(s \o <<e>>) = Len(s) + 1
         /\ \A m \in 1..Len(s) : (s \o <<e>>)[m] = s[m]
         /\ (s \o <<e>>)[Len(s) + 1] = e
OBVIOUS

LEMMA PackedFacts ==
  /\ DOMAIN Packed = 1..5 /\ \A k \in 1..5 : Packed[k] \in Files
  /\ \A f \in Files : \E k \in 1..5 : Packed[k] = f
  /\ Reads("capsule") = Packed /\ Reads("report") = <<"report">>
  /\ \A k \in 1..5 : (Packed[k] = "report" <=> k = 1) /\ (Packed[k] = "repro" <=> k = 2) /\ (Packed[k] = "trace" <=> k = 5)
<1>1. Reads("capsule") = Packed /\ Reads("report") = <<"report">>
  BY DEF Reads, Packed
<1>2. DOMAIN Packed = 1..5 /\ \A k \in 1..5 : Packed[k] \in Files
  BY DEF Packed, Files
<1>3. /\ Packed[1] = "report" /\ Packed[2] = "repro" /\ Packed[3] = "stdout" /\ Packed[4] = "stderr"
      /\ Packed[5] = "trace"
  BY DEF Packed
<1>4. \A f \in Files : \E k \in 1..5 : Packed[k] = f
  BY <1>3 DEF Files
<1>5. \A k \in 1..5 : k = 1 \/ k = 2 \/ k = 3 \/ k = 4 \/ k = 5
  OBVIOUS
<1>6. \A k \in 1..5 : (Packed[k] = "report" <=> k = 1) /\ (Packed[k] = "repro" <=> k = 2) /\ (Packed[k] = "trace" <=> k = 5)
  BY <1>3, <1>5
<1> QED BY <1>1, <1>2, <1>4, <1>6

\* One more file of a capsule has been looked at.
LEMMA ReadOn ==
  ASSUME StoreTypeOK, NEW u \in Users, job[u].at = "read", job[u].kind = "capsule", ReaderInv(u),
         NEW i \in RunIds, i = job[u].id, RunInv(i),
         UNCHANGED <<clock, commands, kindOf, dirTime, content, began, whole, over, archive>>,
         NEW f \in Files, f = Packed[job[u].n],
         NEW j, j = [job[u] EXCEPT !.have = job[u].have \o Taken(f, content[i][f]),
                                   !.n = job[u].n + 1,
                                   !.at = CASE f = "repro" -> "open" [] f = "trace" -> "build" [] OTHER -> "read"],
         job' = [job EXCEPT ![u] = j]
  PROVE  PackEffect(u) /\ ReaderInv(u)'
<1> DEFINE x == content[i][f]
           have == job[u].have
           n == job[u].n
<1>1. job[u] \in Job /\ have \in Seq(Member) /\ n \in 1..5 /\ x \in States /\ kindOf[i] # "none"
  BY PackedFacts DEF StoreTypeOK, Job, ReaderInv, Reading
<1>2. \/ Taken(f, x) = <<>> /\ x # "whole"
      \/ \E e \in Member : e = [file |-> f, is |-> x] /\ Taken(f, x) = <<e>>
  <2>1. CASE x = "none" \/ (x = "torn" /\ f \notin {"stdout", "stderr"})
    BY <2>1 DEF Taken
  <2>2. CASE ~(x = "none" \/ (x = "torn" /\ f \notin {"stdout", "stderr"}))
    <3>1. [file |-> f, is |-> x] \in Member
      BY <1>1, <2>2 DEF Member, States
    <3>2. Taken(f, x) = <<[file |-> f, is |-> x]>>
      BY <2>2 DEF Taken
    <3> QED BY <3>1, <3>2
  <2> QED BY <2>1, <2>2
<1>3. f # "manifest"
  BY DEF Files
<1> DEFINE new == have \o Taken(f, x)
<1>4. /\ new \in Seq(Member)
      /\ \A m \in DOMAIN new : new[m].file # "manifest"
      /\ \A m \in DOMAIN have : m \in DOMAIN new /\ new[m] = have[m]
      /\ x = "whole" => \E m \in DOMAIN new : new[m] = Whole(f)
  <2>1. \A m \in DOMAIN have : have[m].file # "manifest"
    BY DEF ReaderInv, Reading
  <2>2. CASE Taken(f, x) = <<>> /\ x # "whole"
    <3>1. new = have
      BY <1>1, <2>2, ConcatEmptySeq
    <3> QED BY <1>1, <2>1, <2>2, <3>1
  <2>3. ASSUME NEW e \in Member, e = [file |-> f, is |-> x], Taken(f, x) = <<e>>
        PROVE  <1>4!1 /\ <1>4!2 /\ <1>4!3 /\ <1>4!4
    <3>1. new = have \o <<e>>
      BY <2>3
    <3> HIDE DEF new, have
    <3>2. /\ new \in Seq(Member) /\ Len(have) \in Nat
          /\ DOMAIN have = 1..Len(have) /\ DOMAIN new = 1..(Len(have) + 1)
          /\ \A m \in 1..Len(have) : new[m] = have[m]
          /\ new[Len(have) + 1] = e
      <4>1. have \in Seq(Member) /\ e \in Member
        BY <1>1
      <4> QED BY ONLY <3>1, <4>1, OneMore
    <3>3. ASSUME NEW m \in DOMAIN new PROVE new[m].file # "manifest"
      <4>1. m \in DOMAIN have \/ m = Len(have) + 1
        BY <3>2
      <4>2. CASE m \in DOMAIN have
        BY <2>1, <3>2, <4>2
      <4>3. CASE m = Len(have) + 1
        <5>1. new[m] = e
          BY ONLY <3>2, <4>3
        <5>2. e.file = f
          BY ONLY <2>3
        <5> QED BY ONLY <1>3, <5>1, <5>2
      <4> QED BY <4>1, <4>2, <4>3
    <3>4. x = "whole" => new[Len(have) + 1] = Whole(f)
      BY <2>3, <3>2 DEF Whole
    <3>5. Len(have) + 1 \in DOMAIN new
      BY ONLY <3>2
    <3>6. \A m \in DOMAIN have : m \in DOMAIN new /\ new[m] = have[m]
      BY ONLY <3>2
    <3> QED BY <3>2, <3>3, <3>4, <3>5, <3>6
  <2> QED BY <1>2, <2>2, <2>3
<1> DEFINE at == CASE f = "repro" -> "open" [] f = "trace" -> "build" [] OTHER -> "read"
<1>5. \/ at = "open" /\ n + 1 = 3
      \/ at = "build" /\ n + 1 = 6
      \/ at = "read" /\ n + 1 \in 1..5
  <2>1. (f = "repro" <=> n = 2) /\ (f = "trace" <=> n = 5)
    BY <1>1, PackedFacts
  <2>2. CASE n = 2
    BY <2>1, <2>2
  <2>3. CASE n = 5
    BY <2>1, <2>3
  <2>4. CASE n # 2 /\ n # 5
    BY <1>1, <2>1, <2>4
  <2> QED BY <2>2, <2>3, <2>4
<1>6. /\ j \in Job /\ j.at = at /\ j.n = n + 1 /\ j.have = new /\ j.id = i
      /\ j.kind = "capsule" /\ j.settled = job[u].settled
  <2>1. at \in {"open", "build", "read"} /\ n + 1 \in Nat
    BY <1>1, <1>5
  <2> HIDE DEF at, new, have, n
  <2>2. j = [job[u] EXCEPT !.have = new, !.n = n + 1, !.at = at]
    BY DEF at, new, have, n
  <2> QED BY <1>1, <1>4, <2>1, <2>2 DEF Job, Reading
<1>7. job'[u] = j
  BY DEF StoreTypeOK
<1>8. PackEffect(u)
  <2>1. at \notin Writing
    BY <1>5 DEF Writing
  <2> QED BY <1>6, <2>1 DEF PackEffect
<1>9. job[u].settled => whole[i] # Never
  BY DEF ReaderInv, Reading
<1>10. ASSUME job[u].settled, NEW k \in 1..n, NEW p \in DOMAIN Parts(kindOf[i]), Packed[k] = Parts(kindOf[i])[p]
       PROVE  \E m \in DOMAIN new : new[m] = Whole(Packed[k])
  <2>1. CASE k = n
    <3>1. x = "whole"
      BY <1>9, <1>10, <2>1 DEF RunInv
    <3> QED BY <1>4, <2>1, <3>1
  <2>2. CASE k # n
    <3>1. k \in 1..(n - 1)
      BY <1>1, <2>2
    <3>2. \E m \in DOMAIN have : have[m] = Whole(Packed[k])
      BY <1>10, <3>1 DEF ReaderInv, Reading
    <3> HIDE DEF new, have
    <3> QED BY <1>4, <3>2
  <2> QED BY <2>1, <2>2
<1>11. ReaderInv(u)'
  <2> HIDE DEF new, at, have, n
  <2>1. /\ job'[u].at = at /\ job'[u].n = n + 1 /\ job'[u].have = new /\ job'[u].id = i
        /\ job'[u].kind = "capsule" /\ job'[u].settled = job[u].settled
    BY <1>6, <1>7
  <2>2. ASSUME job'[u].settled
        PROVE  /\ whole'[job'[u].id] # Never
               /\ \A k \in 1..(job'[u].n - 1), p \in DOMAIN Parts(kindOf'[job'[u].id]) :
                     Packed[k] = Parts(kindOf'[job'[u].id])[p] =>
                        \E m \in DOMAIN job'[u].have : job'[u].have[m] = Whole(Packed[k])
    <3>1. job'[u].n - 1 = n /\ job[u].settled /\ kindOf'[job'[u].id] = kindOf[i]
      <4>1. n \in 1..5 /\ job'[u].n = n + 1
        BY ONLY <1>1, <2>1
      <4>2. job'[u].n - 1 = n
        BY ONLY <4>1
      <4>3. kindOf' = kindOf
        OBVIOUS
      <4>4. kindOf'[job'[u].id] = kindOf[i]
        BY ONLY <2>1, <4>3
      <4> QED BY ONLY <2>1, <2>2, <4>2, <4>4
    <3>2. whole'[job'[u].id] # Never
      BY <1>9, <2>1, <3>1
    <3>3. ASSUME NEW k \in 1..n, NEW p \in DOMAIN Parts(kindOf[i]), Packed[k] = Parts(kindOf[i])[p]
          PROVE  \E m \in DOMAIN job'[u].have : job'[u].have[m] = Whole(Packed[k])
      <4>1. \E m \in DOMAIN new : new[m] = Whole(Packed[k])
        BY ONLY <1>10, <3>1, <3>3
      <4> QED BY <2>1, <4>1
    <3> QED BY ONLY <3>1, <3>2, <3>3
  <2>3. job'[u].id \in RunIds /\ kindOf'[job'[u].id] # "none" /\ job'[u].kind \in {"report", "capsule"}
    BY <1>1, <2>1
  <2>4. /\ job'[u].at = "read" => job'[u].n \in DOMAIN Reads(job'[u].kind)
        /\ job'[u].at = "open" => job'[u].n = 3
        /\ job'[u].at # "read" => job'[u].kind = "capsule"
        /\ job'[u].at = "build" => job'[u].n = 6
    <3>1. DOMAIN Reads("capsule") = 1..5
      BY PackedFacts
    <3> QED BY <1>5, <2>1, <3>1
  <2>5. \A m \in DOMAIN job'[u].have : job'[u].have[m].file # "manifest"
    BY <1>4, <2>1
  <2> QED BY ONLY <2>2, <2>3, <2>4, <2>5 DEF ReaderInv
<1> QED BY <1>8, <1>11

LEMMA ReadPartPacks ==
  ASSUME IInv, NEW u \in Users, ReadPart(u)
  PROVE  PackEffect(u) /\ ReaderInv(u)'
<1> DEFINE i == job[u].id
           f == Reads(job[u].kind)[job[u].n]
           x == content[i][f]
<1>1. /\ StoreTypeOK /\ job[u].at = "read" /\ ReaderInv(u)
      /\ UNCHANGED <<clock, commands, kindOf, dirTime, content, began, whole, over, archive>>
  BY DEF IInv, ReadPart
<1>2. /\ i \in RunIds /\ job[u].kind \in {"report", "capsule"} /\ job[u].n \in DOMAIN Reads(job[u].kind)
      /\ RunInv(i)
  BY <1>1 DEF ReaderInv, Reading, IInv
<1>3. CASE job' = [job EXCEPT ![u] = Idle]
  BY <1>1, <1>3, LeaveEffect DEF PackEffect
<1>4. CASE /\ job[u].kind = "capsule"
           /\ job' = [job EXCEPT ![u] =
                        [job[u] EXCEPT !.have = job[u].have \o Taken(f, x),
                                       !.n = job[u].n + 1,
                                       !.at = CASE f = "repro" -> "open" [] f = "trace" -> "build" [] OTHER -> "read"]]
  <2>1. f = Packed[job[u].n] /\ f \in Files
    BY <1>2, <1>4, PackedFacts
  <2> QED BY <1>1, <1>2, <1>4, <2>1, ReadOn
<1>5. job[u].kind = "report" => f = "report"
  <2>1. DOMAIN <<"report">> = {1}
    OBVIOUS
  <2> QED BY <1>2, <2>1, PackedFacts
<1> QED BY <1>2, <1>3, <1>4, <1>5 DEF ReadPart, Put

LEMMA NoArchiveType ==
  NoArchive \in Archive /\ ~Valid(NoArchive) /\ NoArchive.members = <<>>
<1>1. <<>> \in Seq(Member) /\ DOMAIN <<>> = {}
  OBVIOUS
<1> QED BY <1>1 DEF NoArchive, Archive, Valid

LEMMA OpenArchivePacks ==
  ASSUME IInv, NEW u \in Users, OpenArchive(u)
  PROVE  PackEffect(u) /\ ReaderInv(u)'
<1> DEFINE i == job[u].id
           j == [job[u] EXCEPT !.at = "read"]
<1>1. /\ StoreTypeOK /\ job[u] \in Job /\ job[u].at = "open" /\ ReaderInv(u)
      /\ UNCHANGED <<clock, commands, kindOf, dirTime, content, began, whole, over>>
  BY DEF IInv, OpenArchive, StoreTypeOK
<1>2. i \in RunIds /\ kindOf[i] # "none" /\ job[u].kind = "capsule" /\ job[u].n = 3
  BY <1>1 DEF ReaderInv, Reading
<1>3. /\ archive' = archive \/ archive' = [archive EXCEPT ![i] = NoArchive]
      /\ job' = [job EXCEPT ![u] = j] \/ job' = [job EXCEPT ![u] = Idle]
  BY DEF OpenArchive, Put
<1>4. j \in Job /\ j.at = "read"
  BY <1>1 DEF Job, Reading
<1>5. /\ j.id = i /\ j.kind = "capsule" /\ j.n = 3 /\ j.have = job[u].have /\ j.settled = job[u].settled
  BY <1>1, <1>2 DEF Job
<1>6. \/ archive' = archive
      \/ /\ job[u].id \in RunIds /\ kindOf[job[u].id] # "none"
         /\ \E a \in Archive :
               /\ archive' = [archive EXCEPT ![job[u].id] = a]
               /\ Valid(a) /\ a.settled =>
                     \A p \in DOMAIN Parts(kindOf[job[u].id]) :
                         \E m \in DOMAIN a.members : a.members[m] = Whole(Parts(kindOf[job[u].id])[p])
  BY <1>2, <1>3, NoArchiveType
<1>7. CASE job' = [job EXCEPT ![u] = Idle]
  <2>1. \E k \in Job : job' = [job EXCEPT ![u] = k] /\ k.at \notin Writing
    BY <1>1, <1>7, LeaveEffect
  <2>2. ReaderInv(u)'
    BY <1>1, <1>7, LeaveEffect
  <2> QED BY <1>1, <1>6, <2>1, <2>2 DEF PackEffect
<1>8. CASE job' = [job EXCEPT ![u] = j]
  <2>1. \E k \in Job : job' = [job EXCEPT ![u] = k] /\ k.at \notin Writing
    BY <1>4, <1>8 DEF Writing
  <2>2. job'[u] = j
    BY <1>1, <1>8 DEF StoreTypeOK
  <2>3. /\ job'[u].at = "read" /\ job'[u].id = i /\ job'[u].kind = job[u].kind /\ job'[u].n = job[u].n
        /\ job'[u].have = job[u].have /\ job'[u].settled = job[u].settled
        /\ UNCHANGED <<kindOf, whole>>
    BY <1>1, <1>2, <1>4, <1>5, <2>2
  <2>4. 3 \in DOMAIN Reads("capsule")
    BY PackedFacts
  <2> HIDE DEF j
  <2>5. ReaderInv(u)'
    BY <1>1, <1>2, <2>3, <2>4 DEF ReaderInv, Reading
  <2> QED BY <1>1, <1>6, <2>1, <2>5 DEF PackEffect
<1> QED BY <1>3, <1>7, <1>8

\* A manifest in what reached the file stands behind all of the other members.
LEMMA ManifestIsLast ==
  ASSUME StoreTypeOK, NEW u \in Users, job[u].at = "build", ReaderInv(u),
         NEW k \in 0..Len(Members(u))
  PROVE  /\ SubSeq(Members(u), 1, k) \in Seq(Member)
         /\ \A m \in DOMAIN SubSeq(Members(u), 1, k) : SubSeq(Members(u), 1, k)[m].file = "manifest" =>
               \A d \in DOMAIN job[u].have :
                   d \in DOMAIN SubSeq(Members(u), 1, k) /\ SubSeq(Members(u), 1, k)[d] = job[u].have[d]
<1> DEFINE have == job[u].have
           all == have \o <<Manifest>>
           sub == SubSeq(all, 1, k)
<1>1. have \in Seq(Member) /\ Manifest \in Member
  BY DEF StoreTypeOK, Job, Manifest, Member
<1>2. \A m \in DOMAIN have : have[m].file # "manifest"
  BY DEF ReaderInv, Reading
<1>3. Members(u) = all
  BY DEF Members
<1> HIDE DEF have
<1>4. /\ all \in Seq(Member) /\ Len(have) \in Nat
      /\ DOMAIN have = 1..Len(have) /\ DOMAIN all = 1..(Len(have) + 1)
      /\ Len(all) = Len(have) + 1
      /\ \A m \in 1..Len(have) : all[m] = have[m]
  BY ONLY <1>1, OneMore
<1>5. k \in 0..(Len(have) + 1)
  BY <1>3, <1>4
<1> HIDE DEF all
<1>6. \A m \in 1..k : all[m] \in Member
  BY <1>4, <1>5
<1>7. /\ sub \in Seq(Member)
      /\ Len(sub) = IF 1 <= k THEN k - 1 + 1 ELSE 0
      /\ \A m \in 1..(k - 1 + 1) : sub[m] = all[1 + m - 1]
  <2>1. 1 \in Int /\ k \in Int
    BY <1>5
  <2> QED BY ONLY <1>6, <2>1, SubSeqProperties
<1>8. Len(sub) = k /\ \A m \in 1..k : sub[m] = all[m]
  <2>1. ASSUME NEW m \in 1..k PROVE sub[m] = all[m]
    <3>1. m \in 1..(k - 1 + 1) /\ 1 + m - 1 = m
      BY <1>5
    <3> QED BY <1>7, <3>1
  <2>2. Len(sub) = k
    BY <1>5, <1>7
  <2> QED BY <2>1, <2>2
<1> HIDE DEF sub
<1>9. DOMAIN sub = 1..k
  BY <1>7, <1>8
<1>10. ASSUME NEW m \in DOMAIN sub, sub[m].file = "manifest"
       PROVE  \A d \in DOMAIN have : d \in DOMAIN sub /\ sub[d] = have[d]
  <2>1. m \in 1..k /\ all[m].file = "manifest"
    BY <1>8, <1>9, <1>10
  <2>2. m = Len(have) + 1
    BY <1>2, <1>4, <1>5, <2>1
  <2>3. \A d \in DOMAIN have : d \in 1..k
    BY <1>4, <1>5, <2>1, <2>2
  <2> QED BY <1>4, <1>8, <1>9, <2>3
<1> QED BY <1>3, <1>7, <1>10 DEF sub, have

LEMMA BuildArchivePacks ==
  ASSUME IInv, NEW u \in Users, BuildArchive(u)
  PROVE  PackEffect(u) /\ ReaderInv(u)'
<1> DEFINE i == job[u].id
           j == [job[u] EXCEPT !.at = "created"]
           have == job[u].have
<1>1. /\ StoreTypeOK /\ job[u] \in Job /\ job[u].at = "build" /\ ReaderInv(u)
      /\ UNCHANGED <<clock, commands, kindOf, dirTime, content, began, whole, over>>
  BY DEF IInv, BuildArchive, StoreTypeOK
<1>2. /\ i \in RunIds /\ kindOf[i] # "none" /\ job[u].kind = "capsule" /\ job[u].n = 6
  BY <1>1 DEF ReaderInv, Reading
<1>3. PICK k \in 0..Len(Members(u)) :
         /\ Written(u, k)
         /\ job' = [job EXCEPT ![u] = j] \/ job' = [job EXCEPT ![u] = Idle]
  BY DEF BuildArchive, Put
<1> DEFINE sub == SubSeq(Members(u), 1, k)
           mixed == archive[i].mixed \/ archive[i].members # <<>>
           a == [members |-> sub, mixed |-> mixed, settled |-> job[u].settled]
<1>4. archive' = [archive EXCEPT ![i] = a]
  BY <1>3 DEF Written
<1>5. /\ sub \in Seq(Member)
      /\ \A m \in DOMAIN sub : sub[m].file = "manifest" =>
            \A d \in DOMAIN have : d \in DOMAIN sub /\ sub[d] = have[d]
  BY <1>1, <1>3, ManifestIsLast
<1>6. a \in Archive
  <2>1. mixed \in BOOLEAN /\ job[u].settled \in BOOLEAN
    BY <1>1 DEF Job
  <2> HIDE DEF sub, mixed
  <2> QED BY <1>5, <2>1 DEF Archive
<1>7. ASSUME Valid(a), a.settled, NEW p \in DOMAIN Parts(kindOf[i])
      PROVE  \E m \in DOMAIN a.members : a.members[m] = Whole(Parts(kindOf[i])[p])
  <2>1. a.members = sub /\ job[u].settled
    BY <1>7
  <2>2. \A d \in DOMAIN have : d \in DOMAIN sub /\ sub[d] = have[d]
    BY <1>5, <1>7, <2>1 DEF Valid
  <2>3. kindOf[i] \in Saving
    BY <1>1, <1>2 DEF StoreTypeOK
  <2>4. Parts(kindOf[i])[p] \in Files
    BY <2>3, PartsFacts
  <2>5. PICK q \in 1..5 : Packed[q] = Parts(kindOf[i])[p]
    BY <2>4, PackedFacts
  <2>6. \E m \in DOMAIN have : have[m] = Whole(Packed[q])
    <3>1. q \in 1..(job[u].n - 1)
      BY <1>2, <2>5
    <3> QED BY <1>1, <2>1, <2>5, <3>1 DEF ReaderInv, Reading
  <2> HIDE DEF sub, have, a
  <2> QED BY <2>1, <2>2, <2>5, <2>6
<1>8. \E b \in Archive :
         /\ archive' = [archive EXCEPT ![job[u].id] = b]
         /\ Valid(b) /\ b.settled =>
               \A p \in DOMAIN Parts(kindOf[job[u].id]) :
                   \E m \in DOMAIN b.members : b.members[m] = Whole(Parts(kindOf[job[u].id])[p])
  <2> HIDE DEF a
  <2> QED BY <1>4, <1>6, <1>7
<1>9. CASE job' = [job EXCEPT ![u] = Idle]
  <2>1. \E d \in Job : job' = [job EXCEPT ![u] = d] /\ d.at \notin Writing
    BY <1>1, <1>9, LeaveEffect
  <2>2. ReaderInv(u)'
    BY <1>1, <1>9, LeaveEffect
  <2> QED BY <1>1, <1>2, <1>8, <2>1, <2>2 DEF PackEffect
<1>10. CASE job' = [job EXCEPT ![u] = j]
  <2>1. j \in Job /\ j.at = "created"
    BY <1>1 DEF Job, Reading
  <2>2. j.id = i /\ j.kind = "capsule" /\ j.n = 6 /\ j.have = job[u].have /\ j.settled = job[u].settled
    BY <1>1, <1>2 DEF Job
  <2>3. job'[u] = j
    BY <1>1, <1>10 DEF StoreTypeOK
  <2>4. \E d \in Job : job' = [job EXCEPT ![u] = d] /\ d.at \notin Writing
    BY <1>10, <2>1 DEF Writing
  <2>5. /\ job'[u].at = "created" /\ job'[u].id = i /\ job'[u].kind = job[u].kind /\ job'[u].n = job[u].n
        /\ job'[u].have = job[u].have /\ job'[u].settled = job[u].settled
        /\ UNCHANGED <<kindOf, whole>>
    BY <1>1, <1>2, <2>1, <2>2, <2>3
  <2> HIDE DEF j
  <2>6. ReaderInv(u)'
    BY <1>1, <1>2, <2>5 DEF ReaderInv, Reading
  <2> QED BY <1>1, <1>2, <1>8, <2>4, <2>6 DEF PackEffect
<1> QED BY <1>3, <1>9, <1>10

LEMMA PackFacts ==
  ASSUME IInv, NEW u \in Users, Packs(u)
  PROVE  PackEffect(u) /\ ReaderInv(u)'
<1>1. CASE SayCreated(u) \/ Kill(u)
  <2>1. /\ job' = [job EXCEPT ![u] = Idle]
        /\ UNCHANGED <<clock, commands, kindOf, dirTime, content, began, whole, over, archive>>
    BY <1>1 DEF Packs, Writes, Writing, SayCreated, Kill, Put, Stay
  <2> QED BY <2>1, LeaveEffect DEF PackEffect, IInv
<1> QED BY <1>1, ReadPartPacks, OpenArchivePacks, BuildArchivePacks DEF Packs

LEMMA PackKeeps ==
  ASSUME IInv, NEW u \in Users, Packs(u)
  PROVE  IInv'
<1>1. PackEffect(u) /\ ReaderInv(u)'
  BY PackFacts
<1>2. UNCHANGED <<clock, commands, kindOf, dirTime, content, began, whole, over>>
  BY <1>1 DEF PackEffect
<1>3. \A v \in Users \ {u} : job'[v] = job[v]
  BY <1>1 DEF PackEffect, IInv, StoreTypeOK
<1>4. job'[u] \in Job /\ job'[u].at \notin Writing
  BY <1>1 DEF PackEffect, IInv, StoreTypeOK
<1>5. archive' \in [RunIds -> Archive] /\ job' \in [Users -> Job]
  <2>1. archive' = archive \/ \E a \in Archive : archive' = [archive EXCEPT ![job[u].id] = a]
    BY <1>1 DEF PackEffect
  <2>2. archive' \in [RunIds -> Archive]
    BY <2>1 DEF IInv, StoreTypeOK
  <2>3. \E j \in Job : job' = [job EXCEPT ![u] = j]
    BY <1>1 DEF PackEffect
  <2>4. job' \in [Users -> Job]
    BY <2>3 DEF IInv, StoreTypeOK
  <2> QED BY <2>2, <2>4
<1>6. StoreTypeOK'
  BY <1>2, <1>5 DEF IInv, StoreTypeOK
<1>7. Numbered'
  BY <1>2 DEF IInv, Numbered, Used
<1>8. Apart'
  <2> SUFFICES ASSUME NEW v \in Users, NEW w \in Users, Writes(v)', Writes(w)', job'[v].id = job'[w].id
               PROVE  v = w
    BY DEF Apart
  <2>1. job'[v] = job[v] /\ job'[w] = job[w]
    BY <1>3, <1>4 DEF Writes
  <2> QED BY <2>1 DEF IInv, Apart, Writes
<1>9. ASSUME NEW r \in RunIds PROVE RunInv(r)' /\ ArchiveInv(r)'
  <2>1. RunInv(r) /\ ArchiveInv(r)
    BY DEF IInv
  <2>2. CASE archive'[r] = archive[r]
    BY <1>2, <2>1, <2>2 DEF RunInv, ArchiveInv, Valid
  <2>3. CASE archive'[r] # archive[r]
    <3>1. PICK a \in Archive :
             /\ archive' = [archive EXCEPT ![job[u].id] = a]
             /\ job[u].id \in RunIds /\ kindOf[job[u].id] # "none"
             /\ Valid(a) /\ a.settled =>
                   \A p \in DOMAIN Parts(kindOf[job[u].id]) :
                       \E m \in DOMAIN a.members : a.members[m] = Whole(Parts(kindOf[job[u].id])[p])
      BY <1>1, <2>3 DEF PackEffect
    <3>2. r = job[u].id /\ archive'[r] = a
      BY <2>3, <3>1 DEF IInv, StoreTypeOK
    <3>3. kindOf[r] # "none" /\ kindOf'[r] = kindOf[r]
      BY <1>2, <3>1, <3>2
    <3>4. RunInv(r)'
      BY <1>2, <2>1, <3>3 DEF RunInv
    <3>5. ArchiveInv(r)'
      BY <3>1, <3>2, <3>3 DEF ArchiveInv
    <3> QED BY <3>4, <3>5
  <2> QED BY <2>2, <2>3
<1>10. ASSUME NEW v \in Users PROVE WriterInv(v)' /\ ReaderInv(v)'
  <2>1. CASE v = u
    BY <1>1, <1>4, <2>1 DEF WriterInv, Writes
  <2>2. CASE v # u
    <3>1. WriterInv(v) /\ ReaderInv(v) /\ job'[v] = job[v]
      BY <1>3, <2>2 DEF IInv
    <3>2. WriterInv(v)'
      BY <1>2, <3>1 DEF WriterInv, Writes
    <3>3. ReaderInv(v)'
      BY <1>2, <3>1 DEF ReaderInv
    <3> QED BY <3>2, <3>3
  <2> QED BY <2>1, <2>2
<1> QED BY <1>6, <1>7, <1>8, <1>9, <1>10 DEF IInv
---------------------------------------------------------------------------------
(* Commands that begin, and the clock.                                     *)

LEMMA BeginRunKeeps ==
  ASSUME IInv, NEW u \in Users, NEW kind \in Saving, BeginRun(u, kind)
  PROVE  IInv'
<1> DEFINE i == Cardinality(Used) + 1
           j == [Idle EXCEPT !.at = "mkdir", !.kind = kind, !.id = i, !.n = 1]
<1>1. StoreTypeOK /\ job[u] = Idle /\ Used # RunIds
  BY DEF IInv, BeginRun
<1>2. PICK m \in 0..MaxRuns : Used = 1..m
  BY DEF IInv, Numbered
<1>3. MaxRuns \in Nat /\ m \in Nat /\ m # MaxRuns /\ i = m + 1
  <2>1. MaxRuns \in Nat
    BY SavedAssumption
  <2>2. Cardinality(1..m) = m
    BY <1>2, <2>1, FS_Interval
  <2>3. m # MaxRuns
    BY <1>1, <1>2 DEF RunIds
  <2> QED BY <1>2, <2>1, <2>2, <2>3
<1>4. i \in RunIds /\ i \notin Used /\ i \in 0..MaxRuns
  BY <1>2, <1>3 DEF RunIds
<1>5. /\ kindOf' = [kindOf EXCEPT ![i] = kind] /\ began' = [began EXCEPT ![i] = clock]
      /\ job' = [job EXCEPT ![u] = j] /\ commands' = commands + 1
      /\ UNCHANGED <<clock, dirTime, content, whole, over, archive>>
  BY DEF BeginRun, Put
<1> HIDE DEF i
<1>6. /\ j \in Job /\ j.at = "mkdir" /\ j.kind = kind /\ j.id = i /\ j.n = 1
  BY <1>4, IdleType DEF Idle, Job, Writing
<1> HIDE DEF j
<1>7. /\ kindOf[i] = "none" /\ dirTime[i] = Never /\ over[i] = Never /\ whole[i] = Never
      /\ archive[i] = NoArchive
  BY <1>4 DEF Used, IInv, RunInv
<1>8. /\ kindOf'[i] = kind /\ kind # "none" /\ began'[i] = clock /\ clock \in Nat
      /\ \A r \in RunIds \ {i} : kindOf'[r] = kindOf[r] /\ began'[r] = began[r]
  BY <1>1, <1>4, <1>5 DEF StoreTypeOK, Saving
<1>9. job'[u] = j /\ \A v \in Users \ {u} : job'[v] = job[v]
  BY <1>1, <1>5 DEF StoreTypeOK
<1>10. StoreTypeOK'
  BY <1>1, <1>4, <1>5, <1>6 DEF StoreTypeOK, Times
<1>11. Numbered'
  <2>1. Used' = Used \cup {i}
    BY <1>4, <1>8 DEF Used
  <2>2. Used' = 1..(m + 1) /\ m + 1 \in 0..MaxRuns
    BY <1>2, <1>3, <2>1
  <2> QED BY <2>2 DEF Numbered
<1>12. ASSUME NEW v \in Users \ {u}, Writes(v) \/ job[v].at \in Reading PROVE job[v].id # i
  BY <1>7, <1>12 DEF IInv, WriterInv, ReaderInv, Saving
<1>13. Apart'
  <2> SUFFICES ASSUME NEW v \in Users, NEW w \in Users, Writes(v)', Writes(w)', job'[v].id = job'[w].id
               PROVE  v = w
    BY DEF Apart
  <2>1. v # u => Writes(v) /\ job'[v] = job[v] /\ job[v].id # i
    BY <1>9, <1>12 DEF Writes
  <2>2. w # u => Writes(w) /\ job'[w] = job[w] /\ job[w].id # i
    BY <1>9, <1>12 DEF Writes
  <2> QED BY <1>6, <1>9, <2>1, <2>2 DEF IInv, Apart
<1>14. ASSUME NEW r \in RunIds PROVE RunInv(r)' /\ ArchiveInv(r)'
  <2>1. CASE r = i
    <3>1. RunInv(r)'
      BY <1>5, <1>7, <1>8, <2>1 DEF RunInv
    <3>2. ArchiveInv(r)'
      BY <1>5, <1>7, <2>1, NoArchiveType DEF ArchiveInv
    <3> QED BY <3>1, <3>2
  <2>2. CASE r # i
    <3>1. RunInv(r) /\ ArchiveInv(r) /\ kindOf'[r] = kindOf[r] /\ began'[r] = began[r]
      BY <1>8, <2>2 DEF IInv
    <3>2. RunInv(r)'
      BY <1>5, <3>1 DEF RunInv
    <3>3. ArchiveInv(r)'
      BY <1>5, <3>1 DEF ArchiveInv, Valid
    <3> QED BY <3>2, <3>3
  <2> QED BY <2>1, <2>2
<1>15. ASSUME NEW v \in Users \ {u} PROVE WriterInv(v)' /\ ReaderInv(v)'
  <2>1. WriterInv(v) /\ ReaderInv(v) /\ job'[v] = job[v]
    BY <1>9 DEF IInv
  <2>2. WriterInv(v)'
    <3>1. CASE ~Writes(v)
      BY <2>1, <3>1 DEF WriterInv, Writes
    <3>2. CASE Writes(v)
      <4>1. kindOf'[job[v].id] = kindOf[job[v].id]
        BY <1>8, <1>12, <2>1, <3>2 DEF WriterInv
      <4> QED BY <1>5, <2>1, <3>2, <4>1 DEF WriterInv, Writes
    <3> QED BY <3>1, <3>2
  <2>3. ReaderInv(v)'
    <3>1. CASE job[v].at \notin Reading
      BY <2>1, <3>1 DEF ReaderInv
    <3>2. CASE job[v].at \in Reading
      <4>1. kindOf'[job[v].id] = kindOf[job[v].id]
        BY <1>8, <1>12, <2>1, <3>2 DEF ReaderInv
      <4> QED BY <1>5, <2>1, <3>2, <4>1 DEF ReaderInv
    <3> QED BY <3>1, <3>2
  <2> QED BY <2>2, <2>3
<1>16. WriterInv(u)' /\ ReaderInv(u)'
  <2>1. 1 \in DOMAIN Parts(kind)
    BY PartsFacts
  <2>2. /\ job'[u].at = "mkdir" /\ job'[u].kind = kind /\ job'[u].id = i /\ job'[u].n = 1
        /\ over'[i] = Never /\ whole'[i] = Never /\ kindOf'[i] = kind
    BY <1>5, <1>6, <1>7, <1>8, <1>9
  <2>3. \A k \in 1..(job'[u].n - 1) : FALSE
    BY <2>2
  <2>4. WriterInv(u)'
    BY <1>4, <2>1, <2>2, <2>3 DEF WriterInv
  <2>5. ReaderInv(u)'
    BY <2>2 DEF ReaderInv, Reading
  <2> QED BY <2>4, <2>5
<1> QED BY <1>10, <1>11, <1>13, <1>14, <1>15, <1>16 DEF IInv

LEMMA BeginReadKeeps ==
  ASSUME IInv, NEW u \in Users, NEW kind \in {"report", "capsule"}, BeginRead(u, kind)
  PROVE  IInv'
<1>1. PICK i \in Dirs : job' = [job EXCEPT ![u] = [Idle EXCEPT !.at = "read", !.kind = kind, !.id = i, !.n = 1,
                                                              !.settled = (whole[i] # Never)]]
  BY DEF BeginRead, Put
<1> DEFINE j == [Idle EXCEPT !.at = "read", !.kind = kind, !.id = i, !.n = 1, !.settled = (whole[i] # Never)]
<1>2. /\ StoreTypeOK /\ commands' = commands + 1 /\ job' = [job EXCEPT ![u] = j]
      /\ UNCHANGED <<clock, kindOf, dirTime, content, began, whole, over, archive>>
  BY <1>1 DEF IInv, BeginRead
<1>3. i \in RunIds /\ i \in 0..MaxRuns /\ kindOf[i] # "none"
  BY SavedAssumption DEF IInv, RunInv, Dirs, RunIds
<1>4. /\ j.at = "read" /\ j.kind = kind /\ j.id = i /\ j.n = 1 /\ j.have = <<>>
      /\ j.settled = (whole[i] # Never)
  BY DEF Idle
<1>5. j \in Job
  <2>1. (whole[i] # Never) \in BOOLEAN
    OBVIOUS
  <2> QED BY <1>3, <2>1, IdleType DEF Idle, Job, Reading
<1> HIDE DEF j
<1>6. job'[u] = j /\ \A v \in Users \ {u} : job'[v] = job[v]
  BY <1>2 DEF StoreTypeOK
<1>7. StoreTypeOK'
  BY <1>2, <1>5 DEF StoreTypeOK
<1>8. Numbered'
  BY <1>2 DEF IInv, Numbered, Used
<1>9. ~Writes(u)'
  BY <1>4, <1>6 DEF Writes, Writing
<1>10. Apart'
  <2> SUFFICES ASSUME NEW v \in Users, NEW w \in Users, Writes(v)', Writes(w)', job'[v].id = job'[w].id
               PROVE  v = w
    BY DEF Apart
  <2>1. job'[v] = job[v] /\ job'[w] = job[w]
    BY <1>6, <1>9
  <2> QED BY <2>1 DEF IInv, Apart, Writes
<1>11. ASSUME NEW r \in RunIds PROVE RunInv(r)' /\ ArchiveInv(r)'
  BY <1>2 DEF IInv, RunInv, ArchiveInv, Valid
<1>12. ASSUME NEW v \in Users \ {u} PROVE WriterInv(v)' /\ ReaderInv(v)'
  <2>1. WriterInv(v) /\ ReaderInv(v) /\ job'[v] = job[v]
    BY <1>6 DEF IInv
  <2>2. WriterInv(v)'
    BY <1>2, <2>1 DEF WriterInv, Writes
  <2>3. ReaderInv(v)'
    BY <1>2, <2>1 DEF ReaderInv
  <2> QED BY <2>2, <2>3
<1>13. ReaderInv(u)'
  <2>1. 1 \in DOMAIN Reads(kind)
    <3>1. 1 \in DOMAIN <<"report">>
      OBVIOUS
    <3> QED BY <3>1, PackedFacts
  <2>2. /\ job'[u].at = "read" /\ job'[u].kind = kind /\ job'[u].id = i /\ job'[u].n = 1
        /\ kindOf'[i] # "none" /\ whole'[i] = whole[i] /\ job'[u].settled = (whole[i] # Never)
    BY <1>2, <1>3, <1>4, <1>6
  <2>3. (\A k \in 1..(job'[u].n - 1) : FALSE) /\ (\A m \in DOMAIN job'[u].have : FALSE)
    <3>1. DOMAIN <<>> = {}
      OBVIOUS
    <3> QED BY <1>4, <1>6, <2>2, <3>1
  <2> QED BY <1>3, <2>1, <2>2, <2>3 DEF ReaderInv
<1>14. WriterInv(u)'
  BY <1>9 DEF WriterInv
<1> QED BY <1>7, <1>8, <1>10, <1>11, <1>12, <1>13, <1>14 DEF IInv

LEMMA TickKeeps ==
  ASSUME IInv, Tick
  PROVE  IInv'
<1>1. /\ StoreTypeOK /\ clock' = clock + 1
      /\ UNCHANGED <<commands, kindOf, dirTime, content, began, whole, over, archive, job>>
  BY DEF IInv, Tick
<1>2. StoreTypeOK'
  BY <1>1 DEF StoreTypeOK
<1>3. Numbered' /\ Apart'
  BY <1>1 DEF IInv, Numbered, Used, Apart, Writes
<1>4. ASSUME NEW r \in RunIds PROVE RunInv(r)' /\ ArchiveInv(r)'
  <2>1. RunInv(r) /\ ArchiveInv(r)
    BY DEF IInv
  <2>2. clock \in Nat /\ began[r] \in Times /\ dirTime[r] \in Times
    BY <1>1 DEF StoreTypeOK
  <2>3. RunInv(r)'
    <3>1. kindOf[r] # "none" => began[r] <= clock'
      BY <1>1, <2>1, <2>2 DEF RunInv
    <3>2. dirTime[r] # Never => dirTime[r] <= clock'
      BY <1>1, <2>1, <2>2 DEF RunInv, Times
    <3> QED BY <1>1, <2>1, <3>1, <3>2 DEF RunInv
  <2>4. ArchiveInv(r)'
    BY <1>1, <2>1 DEF ArchiveInv, Valid
  <2> QED BY <2>3, <2>4
<1>5. ASSUME NEW v \in Users PROVE WriterInv(v)' /\ ReaderInv(v)'
  BY <1>1 DEF IInv, WriterInv, ReaderInv, Writes
<1> QED BY <1>2, <1>3, <1>4, <1>5 DEF IInv

LEMMA InitIInv == Init => IInv
<1> SUFFICES ASSUME StoreInit PROVE IInv
  BY DEF Init
<1>1. \A u \in Users : job[u] = Idle
  BY DEF StoreInit
<1>2. /\ \A i \in RunIds : /\ kindOf[i] = "none" /\ dirTime[i] = Never /\ over[i] = Never /\ whole[i] = Never
                           /\ archive[i] = NoArchive
      /\ Used = {}
  BY DEF StoreInit, Used
<1>3. StoreTypeOK
  <2>1. job \in [Users -> Job]
    BY IdleType DEF StoreInit
  <2>2. archive \in [RunIds -> Archive]
    BY NoArchiveType DEF StoreInit
  <2> QED BY <2>1, <2>2 DEF StoreInit, StoreTypeOK, Saving, States, Times
<1>4. Numbered
  <2>1. 0 \in 0..MaxRuns /\ 1..0 = {}
    BY SavedAssumption
  <2> QED BY <1>2, <2>1 DEF Numbered
<1>5. Apart /\ \A u \in Users : WriterInv(u) /\ ReaderInv(u)
  BY <1>1, IdleType DEF Apart, WriterInv, ReaderInv, Writes
<1>6. \A i \in RunIds : RunInv(i) /\ ArchiveInv(i)
  BY <1>2, NoArchiveType DEF RunInv, ArchiveInv
<1> QED BY <1>3, <1>4, <1>5, <1>6 DEF IInv
---------------------------------------------------------------------------------
(* The theorems.                                                           *)

\* The inductive invariant: a run has one writer, which is gone when the run is
\* over or whole, and a reader of a run that was whole has what it passed.
THEOREM IInvHolds == Spec => []IInv
<1>1. ASSUME IInv, [Next]_vars PROVE IInv'
  <2>1. CASE UNCHANGED storeVars
    BY <1>1, <2>1 DEF storeVars, IInv, StoreTypeOK, Numbered, Used, Apart, RunInv, ArchiveInv, Valid,
         WriterInv, ReaderInv, Writes
  <2>2. ASSUME NEW u \in Users, StoreStep(u) PROVE IInv'
    <3>1. Saves(u) \/ Packs(u)
      BY <2>2 DEF StoreStep, Saves, Packs, Writes, Writing, MakeDir, CreatePart, FillPart,
           ReadPart, OpenArchive, BuildArchive, SayCreated
    <3> QED BY <1>1, <3>1, SaveKeeps, PackKeeps
  <2>3. ASSUME NEW u \in Users, StoreBegin(u) PROVE IInv'
    BY <1>1, <2>3, BeginRunKeeps, BeginReadKeeps DEF StoreBegin, Saving
  <2>4. CASE Persist
    BY <1>1, <2>4, BeginRunKeeps, TracerAssumption DEF Persist, Saving
  <2> QED BY <1>1, <2>1, <2>2, <2>3, <2>4, TickKeeps DEF Next, Capture, Store, StoreNext, vars
<1> QED BY InitIInv, <1>1, PTL DEF Spec

\* --latest (FindLatestRunID in artifact.go) never goes back behind a run that was
\* begun later and saved whole: for any number of processes, of runs and of files
\* that could not be written, whichever of them are killed.
THEOREM LatestStaysLast == Spec => []LatestIsLast
<1>1. ASSUME IInv, NEW l \in Latest, NEW b \in RunIds, over[l] # Never, whole[b] # Never
      PROVE  over[l] >= began[b]
  <2>1. /\ l \in RunIds /\ dirTime[l] # Never
        /\ \A d \in Dirs : dirTime[l] >= dirTime[d]
    BY DEF Latest, Dirs
  <2>2. RunInv(l) /\ RunInv(b) /\ StoreTypeOK
    BY <1>1, <2>1 DEF IInv
  <2>3. dirTime[b] # Never /\ b \in Dirs /\ kindOf[b] # "none"
    BY <1>1, <2>2 DEF RunInv, Dirs
  <2>4. /\ began[b] \in Nat /\ began[b] <= dirTime[b]
        /\ dirTime[l] <= over[l]
    BY <1>1, <2>1, <2>2, <2>3 DEF RunInv
  <2>5. dirTime[b] \in Nat /\ dirTime[l] \in Nat /\ over[l] \in Nat
    BY <1>1, <2>1, <2>2, <2>3 DEF StoreTypeOK, Times
  <2>6. dirTime[l] >= dirTime[b]
    BY <2>1, <2>3
  <2> QED BY <2>4, <2>5, <2>6
<1>2. IInv => LatestIsLast
  BY <1>1 DEF LatestIsLast
<1> QED BY <1>2, IInvHolds, PTL

\* A capsule that capsule inspect calls valid, of a run that was whole when capsule
\* create began, has all files of the run, each of them whole (Build in
\* capsule/builder.go writes the manifest last).
THEOREM CapsulesStayWhole == Spec => []CapsuleIsWhole
<1>1. ASSUME IInv, NEW i \in RunIds, Valid(archive[i]), archive[i].settled,
             NEW f \in ToSet(Parts(kindOf[i]))
      PROVE  [file |-> f, is |-> "whole"] \in ToSet(archive[i].members)
  <2>1. PICK p \in DOMAIN Parts(kindOf[i]) : f = Parts(kindOf[i])[p]
    BY DEF ToSet
  <2>2. PICK m \in DOMAIN archive[i].members : archive[i].members[m] = Whole(f)
    BY <1>1, <2>1 DEF IInv, ArchiveInv
  <2> QED BY <2>2 DEF ToSet, Whole
<1>2. IInv => CapsuleIsWhole
  BY <1>1 DEF CapsuleIsWhole
<1> QED BY <1>2, IInvHolds, PTL
---------------------------------------------------------------------------------
(* What a trace captured: sequences that are filtered, and lines that are read   *)
(* one after the other.                                                          *)

\* A set of numbers that has 0 and every successor has them all.
LEMMA NumbersByInduction ==
  ASSUME NEW S, 0 \in S, \A n \in Nat : n \in S => n + 1 \in S
  PROVE  \A n \in Nat : n \in S
<1> SUFFICES ASSUME Nat \ S # {} PROVE FALSE
  OBVIOUS
<1> DEFINE Less == {pair \in Nat \X Nat : pair[1] < pair[2]}
<1>1. IsWellFoundedOn(Less, Nat)
  BY NatLessThanWellFounded DEF OpToRel
<1>2. \E m \in Nat \ S : \A n \in Nat \ S : ~ (<<n, m>> \in Less)
  <2> HIDE DEF Less
  <2> QED BY <1>1, WFMin, Nat \ S \subseteq Nat
<1>3. PICK m \in Nat \ S : \A n \in Nat \ S : ~ (<<n, m>> \in Less)
  BY <1>2
<1>4. m - 1 \in Nat /\ m = (m - 1) + 1
  BY <1>3
<1>5. <<m - 1, m>> \in Less
  BY <1>3, <1>4
<1> QED BY <1>3, <1>4, <1>5

\* The recursive function of Select, and one unfolding of a candidate g for it.
Piece(s, S, g, i) ==
    IF i = 0 THEN <<>> ELSE IF s[i] \in S THEN Append(g[i - 1], s[i]) ELSE g[i - 1]

Unfolded(s, S, g, n) == [i \in 0..n |-> Piece(s, S, g, i)]

Kept(s, S) == CHOOSE g : g = Unfolded(s, S, g, Len(s))

LEMMA UnfoldedAt ==
  ASSUME NEW s, NEW S, NEW n \in Nat, NEW g, g = Unfolded(s, S, g, n), NEW i \in 0..n
  PROVE  g[i] = Piece(s, S, g, i)
<1>1. Unfolded(s, S, g, n)[i] = Piece(s, S, g, i)
  BY DEF Unfolded
<1> QED BY <1>1

LEMMA KeptExists ==
  ASSUME NEW s, NEW S
  PROVE  \A n \in Nat : \E g : g = Unfolded(s, S, g, n)
<1> DEFINE N == {n \in Nat : \E g : g = Unfolded(s, S, g, n)}
<1>1. 0 \in N
  <2>1. [i \in 0..0 |-> <<>>] = Unfolded(s, S, [i \in 0..0 |-> <<>>], 0)
    BY DEF Unfolded, Piece
  <2> QED BY <2>1
<1>2. ASSUME NEW n \in Nat, n \in N PROVE n + 1 \in N
  <2>1. PICK g : g = Unfolded(s, S, g, n)
    BY <1>2
  <2> DEFINE h == Unfolded(s, S, g, n + 1)
  <2>2. ASSUME NEW i \in 0..n PROVE h[i] = g[i]
    <3>1. h[i] = Piece(s, S, g, i)
      BY DEF Unfolded
    <3>2. g[i] = Piece(s, S, g, i)
      <4> HIDE DEF N, h
      <4> QED BY <2>1, UnfoldedAt
    <3> QED BY <3>1, <3>2
  <2>3. \A i \in 0..(n + 1) : i # 0 => h[i - 1] = g[i - 1]
    BY <2>2
  <2>4. ASSUME NEW f, \A i \in 0..(n + 1) : i # 0 => f[i - 1] = g[i - 1]
        PROVE  Unfolded(s, S, f, n + 1) = Unfolded(s, S, g, n + 1)
    BY <2>4 DEF Unfolded, Piece
  <2>5. h = Unfolded(s, S, h, n + 1)
    <3> HIDE DEF h
    <3>1. Unfolded(s, S, h, n + 1) = Unfolded(s, S, g, n + 1)
      BY <2>3, <2>4
    <3> QED BY <3>1 DEF h
  <2> QED BY <2>5
<1> HIDE DEF N
<1>3. \A n \in Nat : n \in N
  BY <1>1, <1>2, NumbersByInduction
<1> QED BY <1>3 DEF N

LEMMA KeptEquation ==
  ASSUME NEW s, NEW S, Len(s) \in Nat
  PROVE  /\ Select(s, S) = Kept(s, S)[Len(s)]
         /\ \A i \in 0..Len(s) : Kept(s, S)[i] = Piece(s, S, Kept(s, S), i)
<1>1. Select(s, S) = Kept(s, S)[Len(s)]
  BY DEF Select, Kept, Unfolded, Piece
<1>2. \E g : g = Unfolded(s, S, g, Len(s))
  BY KeptExists
<1>3. Kept(s, S) = Unfolded(s, S, Kept(s, S), Len(s))
  BY <1>2 DEF Kept
<1> QED BY <1>1, <1>3, UnfoldedAt

\* Select keeps members of the sequence and of the set only.
LEMMA SelectType ==
  ASSUME NEW H, NEW s \in Seq(H), NEW S
  PROVE  Select(s, S) \in Seq(H \cap S)
<1> DEFINE k == Kept(s, S)
           N == {n \in Nat : n <= Len(s) => k[n] \in Seq(H \cap S)}
<1>1. Select(s, S) = k[Len(s)] /\ \A i \in 0..Len(s) : k[i] = Piece(s, S, k, i)
  BY KeptEquation
<1> HIDE DEF k
<1>2. 0 \in N
  <2>1. k[0] = <<>>
    BY <1>1, 0 \in 0..Len(s) DEF Piece
  <2>2. <<>> \in Seq(H \cap S)
    OBVIOUS
  <2> QED BY <2>1, <2>2
<1>3. ASSUME NEW n \in Nat, n \in N PROVE n + 1 \in N
  <2> SUFFICES ASSUME n + 1 <= Len(s) PROVE k[n + 1] \in Seq(H \cap S)
    OBVIOUS
  <2>1. n + 1 \in 1..Len(s) /\ (n + 1) - 1 = n
    OBVIOUS
  <2>2. k[n] \in Seq(H \cap S)
    BY <1>3
  <2>3. k[n + 1] = IF s[n + 1] \in S THEN Append(k[n], s[n + 1]) ELSE k[n]
    BY <1>1, <2>1 DEF Piece
  <2> QED BY <2>1, <2>2, <2>3
<1> HIDE DEF N
<1>4. \A n \in Nat : n \in N
  BY <1>2, <1>3, NumbersByInduction
<1> QED BY <1>1, <1>4 DEF N

\* Select leaves out no member of the set.
LEMMA SelectHas ==
  ASSUME NEW H, NEW s \in Seq(H), NEW S
  PROVE  ToSet(s) \cap S \subseteq ToSet(Select(s, S))
<1> DEFINE k == Kept(s, S)
           Has(n) == /\ k[n] \in Seq(H)
                     /\ \A j \in 1..n : s[j] \in S => \E i \in 1..Len(k[n]) : k[n][i] = s[j]
           N == {n \in Nat : n <= Len(s) => Has(n)}
<1>1. Select(s, S) = k[Len(s)] /\ \A i \in 0..Len(s) : k[i] = Piece(s, S, k, i)
  BY KeptEquation
<1> HIDE DEF k
<1>2. 0 \in N
  <2>1. k[0] = <<>>
    BY <1>1, 0 \in 0..Len(s) DEF Piece
  <2>2. <<>> \in Seq(H) /\ 1..0 = {}
    OBVIOUS
  <2>3. Has(0)
    BY <2>1, <2>2
  <2> QED BY <2>3
<1>3. ASSUME NEW n \in Nat, n \in N PROVE n + 1 \in N
  <2> SUFFICES ASSUME n + 1 <= Len(s) PROVE Has(n + 1)
    OBVIOUS
  <2>1. n + 1 \in 1..Len(s) /\ (n + 1) - 1 = n /\ s[n + 1] \in H
    OBVIOUS
  <2>2. Has(n)
    BY <1>3
  <2>3. k[n + 1] = IF s[n + 1] \in S THEN Append(k[n], s[n + 1]) ELSE k[n]
    BY <1>1, <2>1 DEF Piece
  <2>4. CASE s[n + 1] \notin S
    <3>1. k[n + 1] = k[n]
      BY <2>3, <2>4
    <3> QED BY <2>2, <2>4, <3>1
  <2>5. CASE s[n + 1] \in S
    <3>1. /\ k[n + 1] \in Seq(H) /\ Len(k[n + 1]) = Len(k[n]) + 1 /\ Len(k[n]) \in Nat
          /\ k[n + 1][Len(k[n]) + 1] = s[n + 1]
          /\ \A i \in 1..Len(k[n]) : k[n + 1][i] = k[n][i]
      BY <2>1, <2>2, <2>3, <2>5, AppendProperties
    <3>2. ASSUME NEW j \in 1..(n + 1), s[j] \in S
          PROVE  \E i \in 1..Len(k[n + 1]) : k[n + 1][i] = s[j]
      <4>1. CASE j = n + 1
        BY <3>1, <4>1
      <4>2. CASE j # n + 1
        <5>1. PICK i \in 1..Len(k[n]) : k[n][i] = s[j]
          BY <2>2, <3>2, <4>2
        <5>2. i \in 1..Len(k[n + 1]) /\ k[n + 1][i] = s[j]
          BY <3>1, <5>1
        <5> QED BY <5>2
      <4> QED BY <4>1, <4>2
    <3> QED BY <3>1, <3>2
  <2> QED BY <2>4, <2>5
<1> HIDE DEF N
<1>4. \A n \in Nat : n \in N
  BY <1>2, <1>3, NumbersByInduction
<1>5. Has(Len(s))
  BY <1>4 DEF N
<1>6. ASSUME NEW x \in ToSet(s), x \in S PROVE x \in ToSet(Select(s, S))
  <2>1. PICK j \in 1..Len(s) : x = s[j]
    BY DEF ToSet
  <2>2. PICK i \in 1..Len(k[Len(s)]) : k[Len(s)][i] = x
    BY <1>5, <1>6, <2>1
  <2> QED BY <1>1, <1>5, <2>2 DEF ToSet
<1> QED BY <1>6

LEMMA SelectOfNothing == \A S : Select(<<>>, S) = <<>>
<1> TAKE S
<1>1. Len(<<>>) = 0 /\ Len(<<>>) \in Nat
  OBVIOUS
<1>2. Select(<<>>, S) = Kept(<<>>, S)[0] /\ Kept(<<>>, S)[0] = Piece(<<>>, S, Kept(<<>>, S), 0)
  BY <1>1, KeptEquation
<1> QED BY <1>2 DEF Piece

\* Two functions that agree at 0, and go on to agree, agree.
AgreeOn(g, h, n) == \A i \in 1..n : g[i - 1] = h[i - 1] => g[i] = h[i]
Agree(g, h, n)   == \A i \in 0..n : g[i] = h[i]

LEMMA AgreeUpTo ==
  ASSUME NEW n \in Nat, NEW g, NEW h, g[0] = h[0], AgreeOn(g, h, n)
  PROVE  Agree(g, h, n)
<1> USE DEF AgreeOn, Agree
<1> DEFINE N == {i \in Nat : i <= n => g[i] = h[i]}
<1>1. 0 \in N
  OBVIOUS
<1>2. ASSUME NEW i \in Nat, i \in N PROVE i + 1 \in N
  <2> SUFFICES ASSUME i + 1 <= n PROVE g[i + 1] = h[i + 1]
    OBVIOUS
  <2>1. i + 1 \in 1..n /\ (i + 1) - 1 = i /\ g[i] = h[i]
    BY <1>2
  <2> QED BY <2>1
<1> HIDE DEF N
<1>3. \A i \in Nat : i \in N
  BY <1>1, <1>2, NumbersByInduction
<1> QED BY <1>3 DEF N

\* One more member is one more decision.
LEMMA SelectOfAppend ==
  ASSUME NEW H, NEW s \in Seq(H), NEW x \in H, NEW S
  PROVE  Select(Append(s, x), S) = IF x \in S THEN Append(Select(s, S), x) ELSE Select(s, S)
<1> DEFINE t == Append(s, x)
           n == Len(s)
           g == Kept(t, S)
           h == Kept(s, S)
<1>1. /\ n \in Nat /\ Len(t) = n + 1 /\ t[n + 1] = x /\ \A i \in 1..n : t[i] = s[i]
  OBVIOUS
<1>2. Select(t, S) = g[Len(t)] /\ \A i \in 0..Len(t) : g[i] = Piece(t, S, g, i)
  <2> HIDE DEF t
  <2> QED BY <1>1, KeptEquation
<1>3. Select(s, S) = h[n] /\ \A i \in 0..n : h[i] = Piece(s, S, h, i)
  BY KeptEquation
<1> HIDE DEF t, n, g, h
<1>4. g[0] = h[0]
  <2>1. g[0] = <<>>
    BY <1>1, <1>2, 0 \in 0..Len(t) DEF Piece
  <2>2. h[0] = <<>>
    BY <1>1, <1>3, 0 \in 0..n DEF Piece
  <2> QED BY <2>1, <2>2
<1>5. ASSUME NEW i \in 1..n, g[i - 1] = h[i - 1] PROVE g[i] = h[i]
  <2>1. g[i] = Piece(t, S, g, i)
    BY <1>1, <1>2
  <2>2. h[i] = Piece(s, S, h, i)
    BY <1>1, <1>3
  <2>3. Piece(t, S, g, i) = Piece(s, S, h, i)
    BY <1>1, <1>5 DEF Piece
  <2> QED BY <2>1, <2>2, <2>3
<1>6. g[n] = h[n]
  <2>1. AgreeOn(g, h, n)
    BY <1>5 DEF AgreeOn
  <2>2. n \in Nat
    BY <1>1
  <2>3. Agree(g, h, n)
    BY <1>4, <2>1, <2>2, AgreeUpTo
  <2> QED BY <2>2, <2>3 DEF Agree
<1>7. g[n + 1] = Piece(t, S, g, n + 1) /\ (n + 1) - 1 = n
  BY <1>1, <1>2
<1>8. Piece(t, S, g, n + 1) = IF x \in S THEN Append(h[n], x) ELSE h[n]
  BY <1>1, <1>6, <1>7 DEF Piece
<1>9. Select(t, S) = IF x \in S THEN Append(Select(s, S), x) ELSE Select(s, S)
  BY <1>1, <1>2, <1>3, <1>7, <1>8
<1> QED BY <1>9 DEF t

\* All of a sequence is kept when all of it is wanted.
LEMMA SelectOfAll ==
  ASSUME NEW S, NEW s \in Seq(S)
  PROVE  Select(s, S) = s
<1> DEFINE n == Len(s)
           h == Kept(s, S)
           N == {i \in Nat : i <= n => h[i] = SubSeq(s, 1, i)}
<1>1. Select(s, S) = h[n] /\ \A i \in 0..n : h[i] = Piece(s, S, h, i)
  BY KeptEquation
<1> HIDE DEF h
<1>2. 0 \in N
  <2>1. h[0] = <<>>
    BY <1>1, 0 \in 0..n DEF Piece
  <2>2. SubSeq(s, 1, 0) = <<>>
    OBVIOUS
  <2> QED BY <2>1, <2>2
<1>3. ASSUME NEW i \in Nat, i \in N PROVE i + 1 \in N
  <2> SUFFICES ASSUME i + 1 <= n PROVE h[i + 1] = SubSeq(s, 1, i + 1)
    OBVIOUS
  <2>1. i + 1 \in 1..n /\ (i + 1) - 1 = i /\ h[i] = SubSeq(s, 1, i)
    BY <1>3
  <2>2. s[i + 1] \in S
    BY <2>1
  <2>3. h[i + 1] = Append(SubSeq(s, 1, i), s[i + 1])
    <3>1. h[i + 1] = Piece(s, S, h, i + 1)
      BY <1>1, <2>1
    <3> QED BY <2>1, <2>2, <3>1 DEF Piece
  <2>4. Append(SubSeq(s, 1, i), s[i + 1]) = SubSeq(s, 1, i + 1)
    BY <2>1
  <2> QED BY <2>3, <2>4
<1> HIDE DEF N
<1>4. n \in N
  BY <1>2, <1>3, NumbersByInduction
<1>5. h[n] = SubSeq(s, 1, n)
  BY <1>4 DEF N
<1>6. SubSeq(s, 1, n) = s
  OBVIOUS
<1> QED BY <1>1, <1>5, <1>6

\* The recursive function of ReadLines, likewise.
LineStep(f, g, i) == IF i = 0 THEN NothingRead ELSE ReadLine(g[i - 1], f[i])

LineUnfolded(f, g, n) == [i \in 0..n |-> LineStep(f, g, i)]

AfterLine(f) == CHOOSE g : g = LineUnfolded(f, g, Len(f))

LEMMA AfterLineExists ==
  ASSUME NEW f
  PROVE  \A n \in Nat : \E g : g = LineUnfolded(f, g, n)
<1> DEFINE N == {n \in Nat : \E g : g = LineUnfolded(f, g, n)}
<1>1. 0 \in N
  <2>1. [i \in 0..0 |-> NothingRead] = LineUnfolded(f, [i \in 0..0 |-> NothingRead], 0)
    BY DEF LineUnfolded, LineStep
  <2> QED BY <2>1
<1>2. ASSUME NEW n \in Nat, n \in N PROVE n + 1 \in N
  <2>1. PICK g : g = LineUnfolded(f, g, n)
    BY <1>2
  <2> DEFINE h == LineUnfolded(f, g, n + 1)
  <2>2. ASSUME NEW i \in 0..n PROVE h[i] = g[i]
    <3>1. h[i] = LineStep(f, g, i)
      BY DEF LineUnfolded
    <3>2. LineUnfolded(f, g, n)[i] = LineStep(f, g, i)
      BY DEF LineUnfolded
    <3> QED BY <2>1, <3>1, <3>2
  <2>3. \A i \in 0..(n + 1) : i # 0 => h[i - 1] = g[i - 1]
    BY <2>2
  <2>4. ASSUME NEW e, \A i \in 0..(n + 1) : i # 0 => e[i - 1] = g[i - 1]
        PROVE  LineUnfolded(f, e, n + 1) = LineUnfolded(f, g, n + 1)
    BY <2>4 DEF LineUnfolded, LineStep
  <2>5. h = LineUnfolded(f, h, n + 1)
    <3> HIDE DEF h
    <3>1. LineUnfolded(f, h, n + 1) = LineUnfolded(f, g, n + 1)
      BY <2>3, <2>4
    <3> QED BY <3>1 DEF h
  <2> QED BY <2>5
<1> HIDE DEF N
<1>3. \A n \in Nat : n \in N
  BY <1>1, <1>2, NumbersByInduction
<1> QED BY <1>3 DEF N

LEMMA AfterLineEquation ==
  \A f : Len(f) \in Nat =>
      /\ ReadLines(f) = AfterLine(f)[Len(f)]
      /\ AfterLine(f)[0] = NothingRead
      /\ \A i \in 1..Len(f) : AfterLine(f)[i] = ReadLine(AfterLine(f)[i - 1], f[i])
<1> SUFFICES ASSUME NEW f, Len(f) \in Nat
             PROVE  /\ ReadLines(f) = AfterLine(f)[Len(f)]
                    /\ AfterLine(f)[0] = NothingRead
                    /\ \A i \in 1..Len(f) : AfterLine(f)[i] = ReadLine(AfterLine(f)[i - 1], f[i])
  OBVIOUS
<1>1. ReadLines(f) = AfterLine(f)[Len(f)]
  BY DEF ReadLines, AfterLine, LineUnfolded, LineStep
<1>2. \E g : g = LineUnfolded(f, g, Len(f))
  BY AfterLineExists
<1>3. AfterLine(f) = LineUnfolded(f, AfterLine(f), Len(f))
  BY <1>2 DEF AfterLine
<1>4. \A i \in 0..Len(f) : LineUnfolded(f, AfterLine(f), Len(f))[i] = LineStep(f, AfterLine(f), i)
  BY DEF LineUnfolded
<1>5. \A i \in 0..Len(f) : AfterLine(f)[i] = LineStep(f, AfterLine(f), i)
  BY <1>3, <1>4
<1>6. AfterLine(f)[0] = NothingRead
  BY <1>5, 0 \in 0..Len(f) DEF LineStep
<1>7. \A i \in 1..Len(f) : AfterLine(f)[i] = ReadLine(AfterLine(f)[i - 1], f[i])
  BY <1>5 DEF LineStep
<1> QED BY <1>1, <1>6, <1>7

LEMMA NoLines == ReadLines(<<>>) = NothingRead
<1>1. Len(<<>>) = 0 /\ Len(<<>>) \in Nat
  OBVIOUS
<1> QED BY <1>1, AfterLineEquation

\* One more line is one more step of the reader.
LEMMA ReadOneMore ==
  ASSUME NEW H, NEW f \in Seq(H), NEW l \in H
  PROVE  ReadLines(Append(f, l)) = ReadLine(ReadLines(f), l)
<1> DEFINE t == Append(f, l)
           n == Len(f)
           g == AfterLine(t)
           h == AfterLine(f)
<1>1. /\ n \in Nat /\ Len(t) = n + 1 /\ t[n + 1] = l /\ \A i \in 1..n : t[i] = f[i]
  OBVIOUS
<1>2. /\ ReadLines(t) = g[Len(t)] /\ g[0] = NothingRead
      /\ \A i \in 1..Len(t) : g[i] = ReadLine(g[i - 1], t[i])
  <2> HIDE DEF t
  <2>1. Len(t) \in Nat
    BY <1>1
  <2> QED BY <2>1, AfterLineEquation
<1>3. /\ ReadLines(f) = h[n] /\ h[0] = NothingRead
      /\ \A i \in 1..n : h[i] = ReadLine(h[i - 1], f[i])
  BY AfterLineEquation
<1> HIDE DEF t, n, g, h
<1>4. ASSUME NEW i \in 1..n, g[i - 1] = h[i - 1] PROVE g[i] = h[i]
  <2>1. g[i] = ReadLine(g[i - 1], f[i])
    BY <1>1, <1>2
  <2> QED BY <1>3, <1>4, <2>1
<1>5. g[n] = h[n]
  <2>1. n \in Nat /\ g[0] = h[0]
    BY <1>1, <1>2, <1>3
  <2>2. AgreeOn(g, h, n)
    BY <1>4 DEF AgreeOn
  <2>3. Agree(g, h, n)
    BY <2>1, <2>2, AgreeUpTo
  <2> QED BY <1>1, <2>3 DEF Agree
<1>6. g[n + 1] = ReadLine(g[n], l)
  <2>1. n + 1 \in 1..Len(t) /\ (n + 1) - 1 = n
    BY <1>1
  <2> QED BY <1>1, <1>2, <2>1
<1>7. ReadLines(t) = ReadLine(ReadLines(f), l)
  BY <1>1, <1>2, <1>3, <1>5, <1>6
<1> QED BY <1>7 DEF t
---------------------------------------------------------------------------------
(* What does not change while the command and its tracer are the same.           *)

LEMMA SameCommand ==
  ASSUME prog' = prog, backend' = backend
  PROVE  /\ Calls' = Calls /\ Targets' = Targets
         /\ \A c : Call(c)' = Call(c) /\ (Traced(c)' <=> Traced(c)) /\ PairKey(c)' = PairKey(c)
         /\ \A e : Returned(e)' = Returned(e)
         /\ \A E : Analyze(E)' = Analyze(E)
<1>1. Calls' = Calls
  BY DEF Calls
<1>2. \A c : Call(c)' = Call(c)
  BY DEF Call
<1>3. \A c : Traced(c)' <=> Traced(c)
  BY <1>2 DEF Traced
<1>4. Targets' = Targets
  BY <1>1, <1>2, <1>3 DEF Targets
<1>5. \A c : PairKey(c)' = PairKey(c)
  BY <1>2 DEF PairKey
<1>6. \A e : Returned(e)' = Returned(e)
  BY <1>1 DEF Returned
<1>7. \A E : Analyze(E)' = Analyze(E)
  BY <1>2 DEF Analyze
<1> QED BY <1>1, <1>2, <1>3, <1>4, <1>5, <1>6, <1>7

\* What ReadLine does, m being the calls that match the line's.
LineEffect(acc, l, m) ==
    IF acc.stopped THEN acc
    ELSE IF Len(acc.events) >= MaxEvents THEN [acc EXCEPT !.stopped = TRUE, !.partial = TRUE]
    ELSE CASE l.kind = "unfinished" -> [acc EXCEPT !.pending = (@ \ m) \cup {l.call}]
           [] l.kind = "resumed" /\ m = {} -> [acc EXCEPT !.partial = TRUE]
           [] l.kind = "resumed" /\ m # {} ->
                 [acc EXCEPT !.pending = @ \ m,
                             !.events = Append(@, [of |-> TheOne(m), ret |-> l.call])]
           [] l.kind = "whole" -> [acc EXCEPT !.events = Append(@, [of |-> l.call, ret |-> l.call])]
           [] l.kind = "open" -> [acc EXCEPT !.events = Append(@, [of |-> l.call, ret |-> NoCall])]
           [] l.kind = "dump" -> [acc EXCEPT !.events = Append(@, [of |-> NoCall, ret |-> NoCall])]
           [] l.kind = "exit" -> acc

LEMMA SameReader ==
  ASSUME prog' = prog, backend' = backend
  PROVE  \A f : Len(f) \in Nat => ReadLines(f)' = ReadLines(f)
<1>1. ASSUME NEW acc, NEW c PROVE Matching(acc, c)' = Matching(acc, c)
  BY SameCommand DEF Matching
<1>2. ASSUME NEW acc, NEW l PROVE ReadLine(acc, l)' = ReadLine(acc, l)
  <2>1. ReadLine(acc, l) = LineEffect(acc, l, Matching(acc, l.call))
    BY DEF ReadLine, LineEffect
  <2>2. (ReadLine(acc, l) = LineEffect(acc, l, Matching(acc, l.call)))'
    BY DEF ReadLine, LineEffect
  <2> QED BY <1>1, <2>1, <2>2
<1>3. (\A f : Len(f) \in Nat =>
          /\ ReadLines(f) = AfterLine(f)[Len(f)]
          /\ AfterLine(f)[0] = NothingRead
          /\ \A i \in 1..Len(f) : AfterLine(f)[i] = ReadLine(AfterLine(f)[i - 1], f[i]))'
  BY AfterLineEquation, PTL
<1> SUFFICES ASSUME NEW f, Len(f) \in Nat PROVE ReadLines(f)' = ReadLines(f)
  OBVIOUS
<1>4. (/\ ReadLines(f) = AfterLine(f)[Len(f)]
       /\ AfterLine(f)[0] = NothingRead
       /\ \A i \in 1..Len(f) : AfterLine(f)[i] = ReadLine(AfterLine(f)[i - 1], f[i]))'
  BY <1>3
<1>5. /\ ReadLines(f) = AfterLine(f)[Len(f)]
      /\ AfterLine(f)[0] = NothingRead
      /\ \A i \in 1..Len(f) : AfterLine(f)[i] = ReadLine(AfterLine(f)[i - 1], f[i])
  BY AfterLineEquation
<1>6. ASSUME NEW g, g = AfterLine(f)', NEW i \in 1..Len(f), g[i - 1] = AfterLine(f)[i - 1]
      PROVE  g[i] = AfterLine(f)[i]
  <2>1. g[i] = (ReadLine(g[i - 1], f[i]))'
    BY <1>4, <1>6
  <2>2. (ReadLine(g[i - 1], f[i]))' = ReadLine(g[i - 1], f[i])
    BY <1>2
  <2> QED BY <1>5, <1>6, <2>1, <2>2
<1>7. ASSUME NEW g, g = AfterLine(f)' PROVE g[Len(f)] = AfterLine(f)[Len(f)]
  <2>1. g[0] = AfterLine(f)[0] /\ NothingRead' = NothingRead
    BY <1>4, <1>5, <1>7 DEF NothingRead
  <2>2. AgreeOn(g, AfterLine(f), Len(f))
    BY <1>6, <1>7 DEF AgreeOn
  <2>3. Len(f) \in 0..Len(f)
    OBVIOUS
  <2>4. Agree(g, AfterLine(f), Len(f))
    BY <2>1, <2>2, AgreeUpTo
  <2> QED BY <2>3, <2>4 DEF Agree
<1> QED BY <1>4, <1>5, <1>7
---------------------------------------------------------------------------------
(* A reader that has read some lines, and the calls that completed by then.      *)

Event  == [of : Calls \cup {NoCall}, ret : Calls \cup {NoCall}]
Answer == [of : Calls \cup {NoCall}, ret : Calls]

Acc == [events : Seq(Event), pending : SUBSET Calls, partial : BOOLEAN, stopped : BOOLEAN]

Begins(s, t) == Len(s) <= Len(t) /\ \A i \in 1..Len(s) : s[i] = t[i]

\* The events of a have the results w, each of its own call, or a stopped early.
SoFar(a, w) ==
    /\ a \in Acc /\ a.partial = a.stopped
    /\ \A i \in DOMAIN Returned(a.events) : Returned(a.events)[i].of = Returned(a.events)[i].ret
    /\ Begins(RetsOf(Returned(a.events)), w)
    /\ ~a.stopped => RetsOf(Returned(a.events)) = w

LEMMA RetsOfType ==
  ASSUME NEW R, \A e \in R : e.ret \in Calls, NEW s \in Seq(R)
  PROVE  /\ RetsOf(s) \in Seq(Calls) /\ Len(RetsOf(s)) = Len(s)
         /\ \A i \in 1..Len(s) : RetsOf(s)[i] = s[i].ret
<1>1. Len(s) \in Nat /\ DOMAIN s = 1..Len(s) /\ \A i \in 1..Len(s) : s[i].ret \in Calls
  <2>1. \A i \in 1..Len(s) : s[i] \in R
    OBVIOUS
  <2> QED BY <2>1
<1>2. RetsOf(s) = [i \in 1..Len(s) |-> s[i].ret]
  BY <1>1 DEF RetsOf
<1>3. RetsOf(s) \in [1..Len(s) -> Calls]
  BY <1>1, <1>2
<1> HIDE DEF RetsOf
<1>4. RetsOf(s) \in Seq(Calls)
  BY <1>1, <1>3, SeqDef
<1>5. Len(RetsOf(s)) \in Nat /\ DOMAIN RetsOf(s) = 1..Len(RetsOf(s)) /\ DOMAIN RetsOf(s) = 1..Len(s)
  BY <1>3, <1>4
<1>6. Len(RetsOf(s)) = Len(s)
  <2> DEFINE m == Len(RetsOf(s))
             n == Len(s)
  <2> HIDE DEF m, n
  <2>1. m \in Nat /\ n \in Nat /\ 1..m = 1..n
    BY <1>1, <1>5 DEF m, n
  <2>2. ~(m < n) /\ ~(n < m)
    <3>1. ASSUME m < n PROVE FALSE
      <4>1. n \in 1..n
        BY <2>1, <3>1
      <4> QED BY <2>1, <3>1, <4>1
    <3>2. ASSUME n < m PROVE FALSE
      <4>1. m \in 1..m
        BY <2>1, <3>2
      <4> QED BY <2>1, <3>2, <4>1
    <3> QED BY <3>1, <3>2
  <2>3. m = n
    BY <2>1, <2>2
  <2> QED BY <2>3 DEF m, n
<1> QED BY <1>1, <1>2, <1>4, <1>6

LEMMA ReturnedType ==
  ASSUME NEW s \in Seq(Event)
  PROVE  /\ Returned(s) \in Seq(Answer) /\ RetsOf(Returned(s)) \in Seq(Calls)
         /\ Len(RetsOf(Returned(s))) = Len(Returned(s))
<1>1. Returned(s) \in Seq(Event \cap Answer)
  BY SelectType DEF Returned, Answer
<1>2. Returned(s) \in Seq(Answer)
  BY <1>1
<1>3. \A e \in Answer : e.ret \in Calls
  BY DEF Answer
<1> QED BY <1>2, <1>3, RetsOfType

LEMMA RetsOfAppend ==
  ASSUME NEW H, NEW s \in Seq(H), NEW e \in H
  PROVE  RetsOf(Append(s, e)) = Append(RetsOf(s), e.ret)
BY DEF RetsOf

LEMMA BeginsFacts ==
  ASSUME NEW s \in Seq(Calls), NEW t \in Seq(Calls), NEW c \in Calls
  PROVE  Begins(s, s) /\ (Begins(s, t) => Begins(s, Append(t, c)))
BY DEF Begins

\* NoCall is not a call.
LEMMA NoCallIsNone == prog \in Programs => NoCall \notin Calls
<1> SUFFICES ASSUME prog \in Programs, NoCall \in Calls PROVE FALSE
  OBVIOUS
<1>1. PICK t \in Tasks : NoCall \in {t} \X (1..Len(prog.script[t]))
  BY DEF Calls
<1> QED BY <1>1, TraceAssumption

LEMMA CallIs ==
  ASSUME prog \in Programs, NEW c \in Calls
  PROVE  c[1] \in Tasks /\ c[2] \in 1..Len(prog.script[c[1]]) /\ c = <<c[1], c[2]>>
<1>1. PICK t \in Tasks : c \in {t} \X (1..Len(prog.script[t]))
  BY DEF Calls
<1> QED BY <1>1

\* An event with a result is heard, one without is not.
LEMMA AnswerHeard ==
  ASSUME NEW s \in Seq(Event), NEW w \in Seq(Calls), NEW c \in Calls,
         \A i \in DOMAIN Returned(s) : Returned(s)[i].of = Returned(s)[i].ret,
         RetsOf(Returned(s)) = w, NEW e, e = [of |-> c, ret |-> c]
  PROVE  /\ Append(s, e) \in Seq(Event)
         /\ \A i \in DOMAIN Returned(Append(s, e)) : Returned(Append(s, e))[i].of = Returned(Append(s, e))[i].ret
         /\ RetsOf(Returned(Append(s, e))) = Append(w, c)
<1>1. e \in Event /\ e \in Answer
  BY DEF Event, Answer
<1>2. Returned(Append(s, e)) = Append(Returned(s), e)
  <2>1. Select(Append(s, e), Answer) = Append(Select(s, Answer), e)
    BY <1>1, SelectOfAppend
  <2> QED BY <2>1 DEF Returned, Answer
<1>3. Returned(s) \in Seq(Answer)
  BY ReturnedType
<1>4. RetsOf(Append(Returned(s), e)) = Append(w, c)
  BY <1>1, <1>3, RetsOfAppend
<1>5. ASSUME NEW t \in Seq(Answer), \A i \in DOMAIN t : t[i].of = t[i].ret, NEW i \in DOMAIN Append(t, e)
      PROVE  Append(t, e)[i].of = Append(t, e)[i].ret
  BY <1>5
<1>6. Append(s, e) \in Seq(Event)
  BY <1>1
<1>7. \A i \in DOMAIN Append(Returned(s), e) : Append(Returned(s), e)[i].of = Append(Returned(s), e)[i].ret
  BY <1>3, <1>5
<1> QED BY ONLY <1>2, <1>4, <1>6, <1>7

LEMMA OtherNotHeard ==
  ASSUME prog \in Programs, NEW s \in Seq(Event), NEW o \in Calls \cup {NoCall},
         NEW e, e = [of |-> o, ret |-> NoCall]
  PROVE  Append(s, e) \in Seq(Event) /\ Returned(Append(s, e)) = Returned(s)
<1>1. e \in Event /\ e \notin Answer
  BY NoCallIsNone DEF Event, Answer
<1>2. Returned(Append(s, e)) = Returned(s)
  <2>1. Select(Append(s, e), Answer) = Select(s, Answer)
    BY <1>1, SelectOfAppend
  <2> QED BY <2>1 DEF Returned, Answer
<1> QED BY <1>1, <1>2
---------------------------------------------------------------------------------
(* One line more.                                                                *)

Going(a) == ~a.stopped /\ Len(a.events) < MaxEvents

LEMMA StopsReading ==
  ASSUME NEW w \in Seq(Calls), NEW a, SoFar(a, w), ~Going(a), NEW l
  PROVE  /\ ReadLine(a, l).stopped
         /\ SoFar(ReadLine(a, l), w) /\ \A c \in Calls : SoFar(ReadLine(a, l), Append(w, c))
<1>1. a \in Acc /\ Len(a.events) \in Nat /\ MaxEvents \in Nat
  BY TraceAssumption DEF SoFar, Acc
<1>2. /\ ReadLine(a, l) \in Acc /\ ReadLine(a, l).stopped = TRUE /\ ReadLine(a, l).partial = TRUE
      /\ ReadLine(a, l).events = a.events
  <2>1. CASE a.stopped
    BY <1>1, <2>1 DEF ReadLine, SoFar
  <2>2. CASE ~a.stopped
    <3>1. Len(a.events) >= MaxEvents
      BY <1>1, <2>2 DEF Going
    <3>2. ReadLine(a, l) = [a EXCEPT !.stopped = TRUE, !.partial = TRUE]
      BY <2>2, <3>1 DEF ReadLine
    <3> QED BY <1>1, <3>2 DEF Acc
  <2> QED BY <2>1, <2>2
<1> DEFINE b == ReadLine(a, l)
           r == RetsOf(Returned(a.events))
<1>3. r \in Seq(Calls)
  BY <1>1, ReturnedType DEF Acc
<1>4. Begins(r, w) /\ \A i \in DOMAIN Returned(a.events) : Returned(a.events)[i].of = Returned(a.events)[i].ret
  BY DEF SoFar
<1>5. \A c \in Calls : Begins(r, Append(w, c))
  BY <1>3, <1>4, BeginsFacts
<1> HIDE DEF b, r
<1>6. RetsOf(Returned(b.events)) = r /\ b.events = a.events
  BY <1>2 DEF b, r
<1>7. b \in Acc /\ b.stopped = TRUE /\ b.partial = TRUE
  BY <1>2 DEF b
<1>8. b.stopped /\ SoFar(b, w) /\ \A c \in Calls : SoFar(b, Append(w, c))
  BY <1>4, <1>5, <1>6, <1>7 DEF SoFar
<1> QED BY <1>8 DEF b

LEMMA ReadsHalf ==
  ASSUME NEW w \in Seq(Calls), NEW a, SoFar(a, w), Going(a), NEW d \in Calls
  PROVE  /\ ReadLine(a, Line(d, "unfinished")) = [a EXCEPT !.pending = (a.pending \ Matching(a, d)) \cup {d}]
         /\ SoFar(ReadLine(a, Line(d, "unfinished")), w) /\ ~ReadLine(a, Line(d, "unfinished")).stopped
<1>1. a \in Acc /\ Len(a.events) \in Nat /\ MaxEvents \in Nat
  BY TraceAssumption DEF SoFar, Acc
<1>2. ReadLine(a, Line(d, "unfinished")) = [a EXCEPT !.pending = (a.pending \ Matching(a, d)) \cup {d}]
  BY <1>1 DEF ReadLine, Line, Going
<1>3. (a.pending \ Matching(a, d)) \cup {d} \in SUBSET Calls
  BY <1>1 DEF Acc
<1> DEFINE b == ReadLine(a, Line(d, "unfinished"))
<1>4. b \in Acc /\ b.events = a.events /\ b.stopped = a.stopped /\ b.partial = a.partial
  BY <1>1, <1>2, <1>3 DEF Acc
<1> HIDE DEF b
<1>5. SoFar(b, w) /\ ~b.stopped
  BY <1>4 DEF SoFar, Going
<1> QED BY <1>2, <1>5 DEF b

LEMMA ReadsEnd ==
  ASSUME prog \in Programs, NEW w \in Seq(Calls), NEW a, SoFar(a, w), Going(a),
         NEW l \in {Line(NoCall, "exit"), Line(NoCall, "dump")} \cup {Line(d, "open") : d \in Calls}
  PROVE  /\ SoFar(ReadLine(a, l), w) /\ ~ReadLine(a, l).stopped
         /\ ReadLine(a, l).pending = a.pending
<1>1. a \in Acc /\ Len(a.events) \in Nat /\ MaxEvents \in Nat
  BY TraceAssumption DEF SoFar, Acc
<1> DEFINE b == ReadLine(a, l)
<1>2. b = a \/ \E o \in Calls \cup {NoCall} :
                  b = [a EXCEPT !.events = Append(a.events, [of |-> o, ret |-> NoCall])]
  <2>1. ~a.stopped /\ ~(Len(a.events) >= MaxEvents)
    BY <1>1 DEF Going
  <2>2. CASE l.kind = "exit"
    BY <2>1, <2>2 DEF ReadLine
  <2>3. CASE l.kind = "dump"
    <3>1. b = [a EXCEPT !.events = Append(a.events, [of |-> NoCall, ret |-> NoCall])]
      BY <2>1, <2>3 DEF ReadLine
    <3> QED BY <3>1
  <2>4. CASE l.kind = "open"
    <3>1. b = [a EXCEPT !.events = Append(a.events, [of |-> l.call, ret |-> NoCall])]
      BY <2>1, <2>4 DEF ReadLine
    <3>2. l.call \in Calls \cup {NoCall}
      BY DEF Line
    <3> QED BY <3>1, <3>2
  <2>5. l.kind \in {"exit", "dump", "open"}
    BY DEF Line
  <2> QED BY <2>2, <2>3, <2>4, <2>5
<1> HIDE DEF b
<1>3. ASSUME NEW o \in Calls \cup {NoCall},
             b = [a EXCEPT !.events = Append(a.events, [of |-> o, ret |-> NoCall])]
      PROVE  SoFar(b, w) /\ ~b.stopped /\ b.pending = a.pending
  <2> DEFINE s == Append(a.events, [of |-> o, ret |-> NoCall])
  <2>1. s \in Seq(Event) /\ Returned(s) = Returned(a.events)
    BY <1>1, OtherNotHeard DEF Acc
  <2> HIDE DEF s
  <2>2. b = [a EXCEPT !.events = s]
    BY <1>3 DEF s
  <2>3. /\ b \in Acc /\ b.events = s /\ b.pending = a.pending
        /\ b.stopped = a.stopped /\ b.partial = a.partial
    BY <1>1, <2>1, <2>2 DEF Acc
  <2> QED BY <2>1, <2>3 DEF SoFar, Going
<1>4. SoFar(b, w) /\ ~b.stopped /\ b.pending = a.pending
  BY <1>2, <1>3 DEF Going
<1> QED BY <1>4 DEF b

\* The result of a call that is finished on its line, or resumed when nothing else
\* of its thread and name is unfinished.
LEMMA ReadsResult ==
  ASSUME prog \in Programs, NEW w \in Seq(Calls), NEW a, SoFar(a, w), Going(a), NEW c \in Calls,
         NEW kind \in {"whole", "resumed"}, kind = "resumed" => Matching(a, c) = {c}
  PROVE  /\ SoFar(ReadLine(a, Line(c, kind)), Append(w, c)) /\ ~ReadLine(a, Line(c, kind)).stopped
         /\ ReadLine(a, Line(c, kind)).pending = IF kind = "whole" THEN a.pending ELSE a.pending \ {c}
<1>1. a \in Acc /\ Len(a.events) \in Nat /\ MaxEvents \in Nat
  BY TraceAssumption DEF SoFar, Acc
<1> DEFINE l == Line(c, kind)
           b == ReadLine(a, l)
           e == [of |-> c, ret |-> c]
           s == Append(a.events, e)
           r == IF kind = "whole" THEN a.pending ELSE a.pending \ {c}
<1>2. /\ s \in Seq(Event)
      /\ \A i \in DOMAIN Returned(s) : Returned(s)[i].of = Returned(s)[i].ret
      /\ RetsOf(Returned(s)) = Append(w, c)
  BY <1>1, AnswerHeard DEF SoFar, Going, Acc
<1>3. b = [a EXCEPT !.pending = r, !.events = s]
  <2>1. CASE kind = "whole"
    <3>1. b = [a EXCEPT !.events = s]
      BY <1>1, <2>1 DEF ReadLine, Line, Going
    <3> HIDE DEF b, s
    <3> QED BY <1>1, <2>1, <3>1 DEF Acc
  <2>2. CASE kind = "resumed"
    <3>1. TheOne({c}) = c
      BY DEF TheOne
    <3>2. Matching(a, c) = {c} /\ {c} # {}
      BY <2>2
    <3>3. l.kind = "resumed" /\ l.call = c
      BY <2>2 DEF Line
    <3>4. ~a.stopped /\ ~(Len(a.events) >= MaxEvents)
      BY <1>1 DEF Going
    <3>5. l.kind = "resumed" /\ Matching(a, l.call) # {}
      BY <3>2, <3>3
    <3>6. b = [a EXCEPT !.pending = a.pending \ Matching(a, l.call),
                        !.events = Append(a.events, [of |-> TheOne(Matching(a, l.call)), ret |-> l.call])]
      <4> HIDE DEF l
      <4> QED BY ONLY <3>4, <3>5 DEF ReadLine, b
    <3> HIDE DEF b
    <3>7. b = [a EXCEPT !.pending = a.pending \ {c}, !.events = Append(a.events, e)]
      BY <3>1, <3>2, <3>3, <3>6
    <3> QED BY <2>2, <3>7
  <2> QED BY <2>1, <2>2
<1>4. r \in SUBSET Calls
  BY <1>1 DEF Acc
<1> HIDE DEF b, s, r
<1>5. /\ b \in Acc /\ b.events = s /\ b.pending = r
      /\ b.stopped = a.stopped /\ b.partial = a.partial
  BY <1>1, <1>2, <1>3, <1>4 DEF Acc
<1>6. Append(w, c) \in Seq(Calls)
  OBVIOUS
<1>7. Begins(Append(w, c), Append(w, c))
  BY <1>6, BeginsFacts
<1>8. SoFar(b, Append(w, c)) /\ ~b.stopped
  BY <1>2, <1>5, <1>7 DEF SoFar, Going
<1> QED BY <1>5, <1>8 DEF b, r
---------------------------------------------------------------------------------
(* What holds of a capture at every moment.                                      *)

Flowing  == [of : Calls, ret : Calls]
FileLine == [call : Calls \cup {NoCall},
             kind : {"open", "unfinished", "whole", "resumed", "exit", "dump"}]

CaptureTyped ==
    /\ prog \in Programs /\ backend \in {"strace", "ebpf"} /\ host \in Hosts
    /\ phase \in {"start", "run", "term", "wait", "stopped", "drain", "done", "told"}
    /\ ctx \in {"live", "deadline", "canceled"}
    /\ status \in {"none", "ok", "fail", "crash", "signaled"}
    /\ alive \in [Tasks -> BOOLEAN] /\ inCall \in [Tasks -> BOOLEAN] /\ count \in [Tasks -> Nat]
    /\ \A t \in Tasks : /\ count[t] <= Len(prog.script[t])
                        /\ inCall[t] => alive[t] /\ count[t] > 0
    /\ made \in Seq(Calls) /\ file \in Seq(FileLine) /\ pending \subseteq Calls
    /\ ring \in Seq(Flowing) /\ hand \in Seq(Flowing) /\ chan \in Seq(Flowing) /\ got \in Seq(Flowing)
    /\ readerOpen \in BOOLEAN /\ chanClosed \in BOOLEAN

\* Nothing has happened before anything is traced.
StartInv ==
    phase = "start" =>
        /\ made = <<>> /\ file = <<>> /\ lost = {} /\ status = "none"
        /\ ring = <<>> /\ hand = <<>> /\ chan = <<>> /\ got = <<>>
        /\ readerOpen = FALSE /\ chanClosed = FALSE /\ \A t \in Tasks : ~inCall[t]

\* How the command ended is known when its tracer stops; strace ends a command by a
\* signal only when its context has ended.
EndInv ==
    /\ alive[prog.root] \/ status # "none"
    /\ phase = "drain" => backend = "ebpf"
    /\ phase = "term" => backend = "strace" /\ ctx # "live"
    /\ backend = "strace" /\ status = "signaled" => ctx # "live"
    /\ phase = "wait" => /\ backend = "strace" /\ ctx # "live" /\ host.strace = "fine"
                         /\ status # "none" /\ \A t \in Tasks : ~inCall[t]
    /\ backend = "strace" /\ phase \in {"run", "term"} => host.strace = "fine"
    /\ backend = "strace" /\ phase = "stopped" =>
          host.strace \in {"fine", "denied", "broken"} /\ (host.strace = "fine" => status # "none")

\* The lines of the file that are not open, and what has been read when they have.
Body      == IF IsOpen(file) THEN Front(file) ELSE file
OpenCalls == IF IsOpen(file) THEN {Last(file).call} ELSE {}
HasRead   == ReadLines(Body)

\* A thread's last call, which has no result yet or never will.
Unended(d) == d \in Targets /\ d = Current(d[1]) /\ (inCall[d[1]] \/ ~alive[d[1]])

\* A reader of strace's file would have every call that completed, and would hold
\* those that did not: at most one of each thread.
FollowsFile ==
    /\ SoFar(HasRead, Wanted)
    /\ \A d \in OpenCalls : Unended(d)
    /\ ~HasRead.stopped =>
          /\ \A d \in HasRead.pending : Unended(d) /\ d \notin OpenCalls
          /\ \A t \in Tasks : inCall[t] /\ Traced(Current(t)) =>
                Current(t) \in HasRead.pending \cup OpenCalls

FileInv ==
    /\ backend = "strace" /\ phase \in {"run", "term"} => FollowsFile
    /\ backend = "strace" /\ phase \in {"wait", "stopped"} => SoFar(ReadLines(file), Wanted)

\* What eBPF recorded, from the oldest event to the newest.
Flow == got \o (chan \o (hand \o ring))

\* The events f are of the calls w, in their order; some are mixed up or missing
\* only if l says so.
Recorded(f, w, l) ==
    /\ IsSubSequence(RetsOf(f), w)
    /\ \A i \in 1..Len(f) : f[i].of = f[i].ret \/ "mixed" \in l
    /\ l = {} => RetsOf(f) = w

FlowInv ==
    backend = "ebpf" /\ phase \in {"run", "stopped", "drain"} =>
        /\ Recorded(Flow, Wanted, lost)
        /\ phase = "drain" => readerOpen = FALSE /\ ring = <<>>
        /\ chanClosed => phase = "drain" /\ hand = <<>>

LiveInv == CaptureTyped /\ StartInv /\ EndInv /\ FileInv /\ FlowInv

DoneInv == EventsAreReal /\ MissingIsSaid /\ TraceExitIsHonest

CaptureInv ==
    /\ phase \notin {"done", "told"} => LiveInv
    /\ phase = "done" => DoneInv
---------------------------------------------------------------------------------
(* strace's file, step by step.                                                  *)

LEMMA WantedType ==
  ASSUME made \in Seq(Calls)
  PROVE  Wanted \in Seq(Calls) /\ Targets \subseteq Calls
<1>1. Targets \subseteq Calls
  BY DEF Targets
<1>2. Wanted \in Seq(Calls \cap Targets)
  BY SelectType DEF Wanted
<1> QED BY <1>1, <1>2

LEMMA WantedNext ==
  ASSUME made \in Seq(Calls), prog' = prog, backend' = backend
  PROVE  /\ made' = made => Wanted' = Wanted
         /\ \A c \in Calls : made' = Append(made, c) =>
               Wanted' = IF c \in Targets THEN Append(Wanted, c) ELSE Wanted
<1>1. Targets' = Targets
  BY SameCommand
<1>2. Wanted' = Select(made', Targets)
  BY <1>1 DEF Wanted
<1>3. ASSUME NEW c \in Calls, made' = Append(made, c)
      PROVE  Wanted' = IF c \in Targets THEN Append(Wanted, c) ELSE Wanted
  <2>1. Select(Append(made, c), Targets) =
            IF c \in Targets THEN Append(Select(made, Targets), c) ELSE Select(made, Targets)
    BY SelectOfAppend
  <2> QED BY <1>2, <1>3, <2>1 DEF Wanted
<1> QED BY <1>2, <1>3 DEF Wanted

LEMMA SameSoFar ==
  ASSUME prog' = prog, backend' = backend
  PROVE  \A a, w : SoFar(a, w)' <=> SoFar(a, w)
<1>1. Calls' = Calls /\ \A e : Returned(e)' = Returned(e)
  BY SameCommand
<1>2. Event' = Event
  BY <1>1 DEF Event
<1>3. Acc' = Acc
  BY <1>1, <1>2 DEF Acc
<1> QED BY <1>1, <1>3 DEF SoFar

StillUnended(d) == /\ d \in Targets /\ d = <<d[1], count'[d[1]]>>
                   /\ inCall'[d[1]] \/ ~alive'[d[1]]

\* FollowsFile after a step: a was read and the calls of o are open.
LEMMA FollowsNext ==
  ASSUME prog' = prog, backend' = backend, NEW a, NEW o, NEW w,
         HasRead' = a, OpenCalls' = o, Wanted' = w, SoFar(a, w),
         \A d \in o : StillUnended(d),
         ~a.stopped => /\ \A d \in a.pending : StillUnended(d) /\ d \notin o
                       /\ \A t \in Tasks : inCall'[t] /\ Traced(<<t, count'[t]>>) =>
                             <<t, count'[t]>> \in a.pending \cup o
  PROVE  FollowsFile'
<1>1. SoFar(HasRead, Wanted)'
  BY SameSoFar
<1>2. Targets' = Targets /\ \A c : Traced(c)' <=> Traced(c)
  BY SameCommand
<1>3. \A d : Unended(d)' <=> StillUnended(d)
  BY <1>2 DEF Unended, StillUnended, Current
<1>4. \A t : Traced(Current(t))' <=> Traced(<<t, count'[t]>>)
  <2> SUFFICES ASSUME NEW t PROVE Traced(Current(t))' <=> Traced(<<t, count'[t]>>)
    OBVIOUS
  <2>1. Current(t)' = <<t, count'[t]>>
    BY DEF Current
  <2> QED BY <1>2, <2>1
<1>5. \A t : Current(t)' = <<t, count'[t]>>
  BY DEF Current
<1>6. (\A d \in OpenCalls : Unended(d))'
  BY <1>3
<1>7. (~HasRead.stopped => \A d \in HasRead.pending : Unended(d) /\ d \notin OpenCalls)'
  BY <1>3
<1>8. (~HasRead.stopped => \A t \in Tasks : inCall[t] /\ Traced(Current(t)) =>
           Current(t) \in HasRead.pending \cup OpenCalls)'
  BY <1>4, <1>5
<1> QED BY <1>1, <1>6, <1>7, <1>8 DEF FollowsFile

LEMMA FollowsClosed ==
  ASSUME prog' = prog, backend' = backend, NEW a, NEW w,
         HasRead' = a, OpenCalls' = {}, Wanted' = w, SoFar(a, w),
         ~a.stopped => /\ \A d \in a.pending : StillUnended(d)
                       /\ \A t \in Tasks : inCall'[t] /\ Traced(<<t, count'[t]>>) =>
                             <<t, count'[t]>> \in a.pending
  PROVE  FollowsFile'
<1> DEFINE o == {}
<1>1. OpenCalls' = o /\ \A d \in o : StillUnended(d)
  OBVIOUS
<1>2. ~a.stopped => /\ \A d \in a.pending : StillUnended(d) /\ d \notin o
                    /\ \A t \in Tasks : inCall'[t] /\ Traced(<<t, count'[t]>>) =>
                          <<t, count'[t]>> \in a.pending \cup o
  OBVIOUS
<1> HIDE DEF o
<1> QED BY <1>1, <1>2, FollowsNext

LEMMA SplitFile ==
  ASSUME file \in Seq(FileLine)
  PROVE  /\ Body \in Seq(FileLine)
         /\ ~IsOpen(file) => Body = file
         /\ IsOpen(file) => /\ Last(file) \in FileLine /\ file = Append(Body, Last(file))
                            /\ Last(file) = Line(Last(file).call, "open")
<1>1. CASE ~IsOpen(file)
  BY <1>1 DEF Body
<1>2. CASE IsOpen(file)
  <2>1. file # <<>> /\ Last(file).kind = "open"
    BY <1>2 DEF IsOpen
  <2>2. Len(file) \in Nat \ {0}
    BY <2>1, EmptySeq
  <2>3. Last(file) \in FileLine
    BY <2>2 DEF Last
  <2>4. Last(file) = Line(Last(file).call, "open")
    BY <2>1, <2>3 DEF FileLine, Line
  <2>5. Body = Front(file)
    BY <1>2 DEF Body
  <2>6. Front(file) \in Seq(FileLine) /\ file = Append(Front(file), Last(file))
    BY <2>2 DEF Front, Last
  <2> QED BY <1>2, <2>3, <2>4, <2>5, <2>6
<1> QED BY <1>1, <1>2

\* The last line, open until now, becomes another.
LEMMA LastReplaced ==
  ASSUME file \in Seq(FileLine), IsOpen(file), NEW kind, NEW l \in FileLine,
         l = [Last(file) EXCEPT !.kind = kind]
  PROVE  [file EXCEPT ![Len(file)].kind = kind] = Append(Body, l)
<1> DEFINE n == Len(file)
           f == [file EXCEPT ![n] = l]
           g == Append(Body, l)
<1>1. /\ n \in Nat \ {0} /\ Body \in Seq(FileLine)
      /\ file = Append(Body, Last(file)) /\ Last(file) \in FileLine
  <2>1. file # <<>>
    BY DEF IsOpen
  <2> QED BY <2>1, SplitFile, EmptySeq
<1>2. n \in 1..n /\ n = Len(Body) + 1
  BY <1>1
<1>3. /\ f \in Seq(FileLine) /\ Len(f) = n
      /\ \A i \in 1..n : f[i] = IF i = n THEN l ELSE file[i]
  BY <1>1, <1>2, ExceptSeq
<1>4. /\ g \in Seq(FileLine) /\ Len(g) = n
      /\ \A i \in 1..n : g[i] = IF i = n THEN l ELSE Body[i]
  BY <1>1, <1>2
<1>5. \A i \in 1..n : i # n => file[i] = Body[i]
  BY <1>1, <1>2
<1>6. [file EXCEPT ![n].kind = kind] = f
  BY DEF Last
<1> HIDE DEF f, g
<1>7. \A i \in 1..n : f[i] = g[i]
  BY <1>3, <1>4, <1>5
<1> HIDE DEF n
<1>8. f = g
  BY <1>3, <1>4, <1>7, SeqEqual
<1> QED BY <1>6, <1>8 DEF f, g, n

\* What a reader has after an open line was broken off.
LEMMA BrokenRead ==
  ASSUME CaptureTyped, FollowsFile
  PROVE  /\ Broken(file) \in Seq(FileLine)
         /\ SoFar(ReadLines(Broken(file)), Wanted)
         /\ ~ReadLines(Broken(file)).stopped =>
               /\ ~HasRead.stopped
               /\ ReadLines(Broken(file)).pending = HasRead.pending \cup OpenCalls
<1>1. /\ file \in Seq(FileLine) /\ made \in Seq(Calls) /\ prog \in Programs
      /\ Wanted \in Seq(Calls) /\ Targets \subseteq Calls
  BY WantedType DEF CaptureTyped
<1>2. Body \in Seq(FileLine)
  BY <1>1, SplitFile
<1>3. CASE ~IsOpen(file)
  <2>1. Broken(file) = Body /\ OpenCalls = {}
    BY <1>3 DEF Broken, Body, OpenCalls
  <2> QED BY <1>2, <2>1 DEF FollowsFile, HasRead
<1>4. CASE IsOpen(file)
  <2> DEFINE d == Last(file).call
             l == Line(d, "unfinished")
             b == ReadLine(HasRead, l)
  <2>1. OpenCalls = {d} /\ d \in Calls /\ Unended(d)
    BY <1>1, <1>4 DEF OpenCalls, FollowsFile, Unended
  <2>2. Broken(file) = Append(Body, l)
    <3>1. Len(file) \in Nat \ {0} /\ file = Append(Body, Last(file)) /\ Last(file) \in FileLine
      <4>1. file # <<>>
        BY <1>4 DEF IsOpen
      <4> QED BY <1>1, <1>4, <4>1, SplitFile, EmptySeq
    <3>3. Broken(file) = [file EXCEPT ![Len(file)].kind = "unfinished"]
      BY <1>4 DEF Broken
    <3>4. [file[Len(file)] EXCEPT !.kind = "unfinished"] = l
      BY <3>1 DEF Last, Line, FileLine
    <3> HIDE DEF l
    <3>6. l \in FileLine
      BY <2>1 DEF l, Line, FileLine
    <3>7. [file EXCEPT ![Len(file)].kind = "unfinished"] = Append(Body, l)
      BY <1>1, <1>4, <3>4, <3>6, LastReplaced DEF IsOpen, Last
    <3> QED BY <3>3, <3>7
  <2>3. l \in FileLine
    BY <2>1 DEF Line, FileLine
  <2>4. Broken(file) \in Seq(FileLine) /\ ReadLines(Broken(file)) = b
    <3> HIDE DEF l
    <3> QED BY <1>2, <2>2, <2>3, ReadOneMore, AppendProperties DEF HasRead
  <2>5. SoFar(HasRead, Wanted)
    BY DEF FollowsFile
  <2>6. CASE ~Going(HasRead)
    BY <1>1, <2>4, <2>5, <2>6, StopsReading
  <2>7. CASE Going(HasRead)
    <3>1. /\ b = [HasRead EXCEPT !.pending = (HasRead.pending \ Matching(HasRead, d)) \cup {d}]
          /\ SoFar(b, Wanted) /\ ~b.stopped
      BY <1>1, <2>1, <2>5, <2>7, ReadsHalf
    <3>2. ~HasRead.stopped /\ \A e \in HasRead.pending : Unended(e)
      BY <2>7 DEF Going, FollowsFile
    <3>3. \A e \in Matching(HasRead, d) : e = d
      BY <2>1, <3>2 DEF Matching, PairKey, Unended
    <3>4. (HasRead.pending \ Matching(HasRead, d)) \cup {d} = HasRead.pending \cup {d}
      BY <3>3
    <3>5. HasRead \in Acc
      BY <2>5 DEF SoFar
    <3>6. b.pending = HasRead.pending \cup {d}
      BY <3>1, <3>4, <3>5 DEF Acc
    <3> QED BY <2>1, <2>4, <3>1, <3>2, <3>6
  <2> QED BY <2>6, <2>7
<1> QED BY <1>3, <1>4

\* A line is added to the file: it is open, or it is read.
LEMMA LineAdded ==
  ASSUME prog' = prog, backend' = backend, NEW f \in Seq(FileLine), NEW l \in FileLine,
         file' = Append(f, l)
  PROVE  /\ file' \in Seq(FileLine)
         /\ l.kind = "open" => HasRead' = ReadLines(f) /\ OpenCalls' = {l.call}
         /\ l.kind # "open" => /\ HasRead' = ReadLine(ReadLines(f), l) /\ OpenCalls' = {}
<1>1. /\ file' \in Seq(FileLine) /\ file' # <<>> /\ Last(file') = l /\ Front(file') = f
  BY DEF Last, Front
<1>2. IsOpen(file)' <=> l.kind = "open"
  BY <1>1 DEF IsOpen
<1>3. OpenCalls' = IF l.kind = "open" THEN {l.call} ELSE {}
  BY <1>1, <1>2 DEF OpenCalls
<1>4. Body' = IF l.kind = "open" THEN f ELSE Append(f, l)
  BY <1>1, <1>2 DEF Body
<1>5. ASSUME NEW g \in Seq(FileLine), Body' = g PROVE HasRead' = ReadLines(g)
  <2>1. Len(g) \in Nat
    OBVIOUS
  <2> QED BY <1>5, <2>1, SameReader DEF HasRead
<1>6. ReadLines(Append(f, l)) = ReadLine(ReadLines(f), l)
  BY ReadOneMore
<1>7. Append(f, l) \in Seq(FileLine)
  OBVIOUS
<1> QED BY <1>1, <1>3, <1>4, <1>5, <1>6, <1>7

\* Calls that are held are last calls of threads that are in them, or dead.
LEMMA HeldFacts ==
  ASSUME CaptureTyped, FollowsFile, ~HasRead.stopped, NEW d \in HasRead.pending \cup OpenCalls
  PROVE  Unended(d) /\ d \in Targets /\ d \in Calls /\ d[1] \in Tasks /\ d = <<d[1], count[d[1]]>>
         /\ (inCall[d[1]] \/ ~alive[d[1]])
<1>1. Unended(d)
  BY DEF FollowsFile
<1>2. d \in Targets /\ d \in Calls /\ d = <<d[1], count[d[1]]>>
  BY <1>1 DEF Unended, Targets, Current
<1>3. d[1] \in Tasks
  BY <1>2, CallIs DEF CaptureTyped
<1> QED BY <1>1, <1>2, <1>3 DEF Unended

LEMMA CurrentIsCall ==
  ASSUME CaptureTyped, NEW t \in Tasks
  PROVE  /\ inCall[t] => Current(t) \in Calls
         /\ count[t] < Len(prog.script[t]) => <<t, count[t] + 1>> \in Calls
<1>1. count[t] \in Nat /\ count[t] <= Len(prog.script[t]) /\ (inCall[t] => count[t] > 0)
      /\ Len(prog.script[t]) \in Nat
  BY TraceAssumption DEF CaptureTyped
<1>2. \A n \in 1..Len(prog.script[t]) : <<t, n>> \in Calls
  BY DEF Calls
<1>3. inCall[t] => count[t] \in 1..Len(prog.script[t])
  BY <1>1
<1>4. count[t] < Len(prog.script[t]) => count[t] + 1 \in 1..Len(prog.script[t])
  BY <1>1
<1> QED BY <1>2, <1>3, <1>4 DEF Current

LEMMA EnterFollows ==
  ASSUME CaptureTyped, FollowsFile, backend = "strace", NEW t \in Tasks, Enter(t)
  PROVE  FollowsFile'
<1> DEFINE c == <<t, count[t] + 1>>
           a == ReadLines(Broken(file))
<1>1. /\ alive[t] /\ ~inCall[t] /\ count[t] < Len(prog.script[t])
      /\ inCall' = [inCall EXCEPT ![t] = TRUE] /\ count' = [count EXCEPT ![t] = count[t] + 1]
      /\ file' = (IF Traced(c) THEN Append(Broken(file), Line(c, "open")) ELSE file)
      /\ alive' = alive /\ made' = made /\ prog' = prog /\ backend' = backend
  BY DEF Enter, fixedVars
<1>2. /\ c \in Calls /\ Wanted' = Wanted
      /\ \A u \in Tasks : /\ inCall'[u] = (IF u = t THEN TRUE ELSE inCall[u])
                          /\ count'[u] = (IF u = t THEN count[t] + 1 ELSE count[u])
  <2>1. c \in Calls
    BY <1>1, CurrentIsCall
  <2>2. Wanted' = Wanted
    BY <1>1, WantedNext DEF CaptureTyped
  <2> QED BY <1>1, <2>1, <2>2 DEF CaptureTyped
<1>3. ASSUME ~HasRead.stopped, NEW d \in HasRead.pending \cup OpenCalls
      PROVE  StillUnended(d) /\ d # c
  <2>1. d \in Targets /\ d[1] \in Tasks /\ d = <<d[1], count[d[1]]>> /\ (inCall[d[1]] \/ ~alive[d[1]])
    BY <1>3, HeldFacts
  <2>2. d[1] # t
    BY <1>1, <2>1
  <2>3. count'[d[1]] = count[d[1]] /\ (inCall'[d[1]] <=> inCall[d[1]]) /\ alive'[d[1]] = alive[d[1]]
    BY <1>1, <1>2, <2>1, <2>2
  <2>4. c[1] = t
    OBVIOUS
  <2> QED BY <2>1, <2>2, <2>3, <2>4 DEF StillUnended
<1>4. ASSUME ~HasRead.stopped, NEW u \in Tasks, inCall'[u], u # t, Traced(<<u, count'[u]>>)
      PROVE  <<u, count'[u]>> \in HasRead.pending \cup OpenCalls
  BY <1>2, <1>4 DEF FollowsFile, Current
<1>5. \A d \in OpenCalls : StillUnended(d)
  <2> SUFFICES ASSUME NEW d \in OpenCalls PROVE StillUnended(d)
    OBVIOUS
  <2>1. d \in Targets /\ d = <<d[1], count[d[1]]>> /\ (inCall[d[1]] \/ ~alive[d[1]]) /\ d[1] \in Tasks
    BY CallIs DEF FollowsFile, Unended, Targets, Current, CaptureTyped
  <2>2. d[1] # t
    BY <1>1, <2>1
  <2> QED BY <1>1, <1>2, <2>1, <2>2 DEF StillUnended
<1>6. CASE Traced(c)
  <2>1. /\ Broken(file) \in Seq(FileLine) /\ SoFar(a, Wanted)
        /\ ~a.stopped => ~HasRead.stopped /\ a.pending = HasRead.pending \cup OpenCalls
    BY BrokenRead
  <2>2. Line(c, "open") \in FileLine /\ Line(c, "open").kind = "open" /\ Line(c, "open").call = c
    BY <1>2 DEF Line, FileLine
  <2>3. file' = Append(Broken(file), Line(c, "open"))
    BY <1>1, <1>6
  <2>4. HasRead' = a /\ OpenCalls' = {c}
    BY <1>1, <2>1, <2>2, <2>3, LineAdded
  <2>5. StillUnended(c)
    <3>1. c \in Targets
      BY <1>2, <1>6 DEF Targets
    <3>2. c[1] = t /\ count'[t] = count[t] + 1 /\ inCall'[t]
      BY <1>2
    <3> QED BY <3>1, <3>2 DEF StillUnended
  <2>6. ~a.stopped => /\ \A d \in a.pending : StillUnended(d) /\ d \notin {c}
                      /\ \A u \in Tasks : inCall'[u] /\ Traced(<<u, count'[u]>>) =>
                            <<u, count'[u]>> \in a.pending \cup {c}
    <3> SUFFICES ASSUME ~a.stopped
                 PROVE  /\ \A d \in a.pending : StillUnended(d) /\ d \notin {c}
                        /\ \A u \in Tasks : inCall'[u] /\ Traced(<<u, count'[u]>>) =>
                              <<u, count'[u]>> \in a.pending \cup {c}
      OBVIOUS
    <3>1. ~HasRead.stopped /\ a.pending = HasRead.pending \cup OpenCalls
      BY <2>1
    <3>2. \A d \in a.pending : StillUnended(d) /\ d \notin {c}
      BY <1>3, <3>1
    <3>3. <<t, count'[t]>> = c
      BY <1>2
    <3> QED BY <1>4, <3>1, <3>2, <3>3
  <2> HIDE DEF a, c
  <2> DEFINE o == {c}
  <2>7. prog' = prog /\ backend' = backend /\ Wanted' = Wanted /\ OpenCalls' = o
    BY <1>1, <1>2, <2>4
  <2>8. \A d \in o : StillUnended(d)
    BY <2>5
  <2>9. SoFar(a, Wanted) /\ HasRead' = a
    BY <2>1, <2>4
  <2> HIDE DEF o
  <2>10. ~a.stopped => /\ \A d \in a.pending : StillUnended(d) /\ d \notin o
                       /\ \A u \in Tasks : inCall'[u] /\ Traced(<<u, count'[u]>>) =>
                             <<u, count'[u]>> \in a.pending \cup o
    BY <2>6 DEF o
  <2> QED BY ONLY <2>7, <2>8, <2>9, <2>10, FollowsNext
<1>7. CASE ~Traced(c)
  <2>1. file' = file
    BY <1>1, <1>7
  <2>2. /\ Body' = Body /\ OpenCalls' = OpenCalls /\ HasRead' = HasRead
    <3>1. Body' = Body /\ OpenCalls' = OpenCalls
      BY <2>1 DEF Body, OpenCalls
    <3>2. Len(Body) \in Nat
      BY SplitFile DEF CaptureTyped
    <3> QED BY <1>1, <3>1, <3>2, SameReader DEF HasRead
  <2>3. SoFar(HasRead, Wanted)
    BY DEF FollowsFile
  <2>4. ~HasRead.stopped => /\ \A d \in HasRead.pending : StillUnended(d) /\ d \notin OpenCalls
                            /\ \A u \in Tasks : inCall'[u] /\ Traced(<<u, count'[u]>>) =>
                                  <<u, count'[u]>> \in HasRead.pending \cup OpenCalls
    <3>1. <<t, count'[t]>> = c
      BY <1>2
    <3> QED BY <1>3, <1>4, <1>7, <3>1 DEF FollowsFile
  <2> QED BY <1>1, <1>2, <1>5, <2>2, <2>3, <2>4, FollowsNext
<1> QED BY <1>6, <1>7

LEMMA ExitFollows ==
  ASSUME CaptureTyped, FollowsFile, backend = "strace", NEW t \in Tasks, Exit(t)
  PROVE  FollowsFile'
<1> DEFINE c == Current(t)
           a == ReadLines(Broken(file))
           w == Append(Wanted, c)
<1>1. /\ alive[t] /\ inCall[t] /\ inCall' = [inCall EXCEPT ![t] = FALSE]
      /\ made' = Append(made, c)
      /\ file' = (IF Traced(c) THEN Completed(file, c) ELSE file)
      /\ alive' = alive /\ count' = count /\ prog' = prog /\ backend' = backend
  BY DEF Exit, fixedVars
<1>2. /\ c \in Calls /\ c = <<t, count[t]>> /\ c[1] = t /\ (c \in Targets <=> Traced(c))
      /\ Wanted' = IF Traced(c) THEN w ELSE Wanted
      /\ \A u \in Tasks : inCall'[u] = (IF u = t THEN FALSE ELSE inCall[u])
  <2>1. c \in Calls
    BY <1>1, CurrentIsCall
  <2>2. c \in Targets <=> Traced(c)
    BY <2>1 DEF Targets
  <2>3. Wanted' = IF c \in Targets THEN Append(Wanted, c) ELSE Wanted
    <3> HIDE DEF c
    <3> QED BY <1>1, <2>1, WantedNext DEF CaptureTyped
  <2> QED BY <1>1, <2>1, <2>2, <2>3 DEF CaptureTyped, Current
<1> HIDE DEF c
<1>w. Wanted \in Seq(Calls) /\ prog \in Programs /\ file \in Seq(FileLine)
  BY WantedType DEF CaptureTyped
<1>3. ASSUME NEW d, Unended(d), d # c
      PROVE  StillUnended(d)
  <2>1. d \in Targets /\ d = <<d[1], count[d[1]]>> /\ (inCall[d[1]] \/ ~alive[d[1]]) /\ d[1] \in Tasks
    BY <1>3, CallIs DEF Unended, Targets, Current, CaptureTyped
  <2>2. d[1] # t
    BY <1>2, <1>3, <2>1
  <2> QED BY <1>1, <1>2, <2>1, <2>2 DEF StillUnended
<1>4. ASSUME ~HasRead.stopped, NEW u \in Tasks, inCall'[u], Traced(<<u, count'[u]>>)
      PROVE  <<u, count'[u]>> \in (HasRead.pending \cup OpenCalls) \ {c}
  <2>1. u # t /\ inCall[u] /\ count'[u] = count[u]
    BY <1>1, <1>2, <1>4
  <2>2. <<u, count[u]>> # c
    BY <1>2, <2>1
  <2> QED BY <1>4, <2>1, <2>2 DEF FollowsFile, Current
<1>5. CASE ~Traced(c)
  <2>1. file' = file
    BY <1>1, <1>5
  <2>2. OpenCalls' = OpenCalls /\ HasRead' = HasRead
    <3>1. Body' = Body /\ OpenCalls' = OpenCalls
      BY <2>1 DEF Body, OpenCalls
    <3>2. Len(Body) \in Nat
      BY SplitFile DEF CaptureTyped
    <3> QED BY <1>1, <3>1, <3>2, SameReader DEF HasRead
  <2>3. \A d : Unended(d) => d # c
    BY <1>2, <1>5 DEF Unended
  <2>4. /\ SoFar(HasRead, Wanted) /\ \A d \in OpenCalls : StillUnended(d)
        /\ ~HasRead.stopped => /\ \A d \in HasRead.pending : StillUnended(d) /\ d \notin OpenCalls
                               /\ \A u \in Tasks : inCall'[u] /\ Traced(<<u, count'[u]>>) =>
                                     <<u, count'[u]>> \in HasRead.pending \cup OpenCalls
    BY <1>3, <1>4, <2>3 DEF FollowsFile
  <2>5. Wanted' = Wanted
    BY <1>2, <1>5
  <2> QED BY <1>1, <2>2, <2>4, <2>5, FollowsNext
<1>6. CASE Traced(c) /\ IsOpen(file) /\ Last(file).call = c
  <2> DEFINE l == Line(c, "whole")
             b == ReadLine(HasRead, l)
  <2>1. OpenCalls = {c}
    BY <1>6 DEF OpenCalls
  <2>2. l \in FileLine /\ l.kind # "open"
    BY <1>2 DEF Line, FileLine
  <2>3. file' = Append(Body, l)
    <3>1. file' = [file EXCEPT ![Len(file)].kind = "whole"]
      BY <1>1, <1>6 DEF Completed
    <3>2. Broken(file) = [file EXCEPT ![Len(file)].kind = "unfinished"]
      BY <1>6 DEF Broken
    <3>3. Body \in Seq(FileLine) /\ file = Append(Body, Last(file)) /\ Last(file) \in FileLine
      BY <1>6, <1>w, SplitFile
    <3>4. [Last(file) EXCEPT !.kind = "whole"] = l
      BY <1>6, <3>3 DEF Line, FileLine
    <3> HIDE DEF l
    <3> QED BY <1>6, <1>w, <2>2, <3>1, <3>4, LastReplaced DEF IsOpen
  <2>4. HasRead' = b /\ OpenCalls' = {}
    <3>1. Body \in Seq(FileLine)
      BY <1>w, SplitFile
    <3> HIDE DEF l
    <3> QED BY <1>1, <2>2, <2>3, <3>1, LineAdded DEF HasRead
  <2>5. SoFar(HasRead, Wanted) /\ Wanted' = w
    BY <1>2, <1>6 DEF FollowsFile
  <2>6. CASE ~Going(HasRead)
    <3>1. b.stopped /\ SoFar(b, w)
      BY <1>2, <1>w, <2>5, <2>6, StopsReading
    <3> HIDE DEF b, w
    <3> QED BY <1>1, <2>4, <2>5, <3>1, FollowsClosed
  <2>7. CASE Going(HasRead)
    <3>1. SoFar(b, w) /\ ~b.stopped /\ b.pending = HasRead.pending
      BY <1>2, <1>w, <2>5, <2>7, ReadsResult
    <3>2. ~HasRead.stopped
      BY <2>7 DEF Going
    <3>3. \A d \in HasRead.pending : StillUnended(d)
      BY <1>3, <2>1, <3>2 DEF FollowsFile
    <3>4. \A u \in Tasks : inCall'[u] /\ Traced(<<u, count'[u]>>) => <<u, count'[u]>> \in HasRead.pending
      BY <1>4, <2>1, <3>2
    <3> HIDE DEF b, w
    <3> QED BY <1>1, <2>4, <2>5, <3>1, <3>3, <3>4, FollowsClosed
  <2> QED BY <2>6, <2>7
<1>7. CASE Traced(c) /\ ~(IsOpen(file) /\ Last(file).call = c)
  <2> DEFINE l == Line(c, "resumed")
             b == ReadLine(a, l)
  <2>1. /\ Broken(file) \in Seq(FileLine) /\ SoFar(a, Wanted)
        /\ ~a.stopped => ~HasRead.stopped /\ a.pending = HasRead.pending \cup OpenCalls
    BY BrokenRead
  <2>2. l \in FileLine /\ l.kind # "open"
    BY <1>2 DEF Line, FileLine
  <2>3. file' = Append(Broken(file), l)
    BY <1>1, <1>7 DEF Completed
  <2>4. HasRead' = b /\ OpenCalls' = {}
    <3> HIDE DEF l
    <3> QED BY <1>1, <2>1, <2>2, <2>3, LineAdded
  <2>5. Wanted' = w
    BY <1>2, <1>7
  <2>6. CASE ~Going(a)
    <3>1. b.stopped /\ SoFar(b, w)
      BY <1>2, <1>w, <2>1, <2>6, StopsReading
    <3> HIDE DEF b, w, a
    <3> QED BY <1>1, <2>4, <2>5, <3>1, FollowsClosed
  <2>7. CASE Going(a)
    <3>1. ~a.stopped /\ ~HasRead.stopped /\ a.pending = HasRead.pending \cup OpenCalls
      BY <2>1, <2>7 DEF Going
    <3> HIDE DEF a, w
    <3>2. \A d \in a.pending : Unended(d)
      BY <3>1 DEF FollowsFile
    <3>3. c \in a.pending
      BY <1>1, <1>7, <3>1 DEF FollowsFile, c
    <3>4. \A d \in a.pending : d[1] = t => d = c
      BY <1>2, <3>2 DEF Unended, Current
    <3>5. Matching(a, c) = {c}
      BY <1>2, <3>3, <3>4 DEF Matching, PairKey
    <3>6. SoFar(b, w) /\ ~b.stopped /\ b.pending = a.pending \ {c}
      <4>1. c \in Calls /\ prog \in Programs /\ Wanted \in Seq(Calls) /\ SoFar(a, Wanted) /\ Going(a)
        BY <1>2, <1>w, <2>1, <2>7
      <4>2. "resumed" \in {"whole", "resumed"} /\ "resumed" # "whole"
        OBVIOUS
      <4>3. /\ SoFar(b, Append(Wanted, c)) /\ ~b.stopped
            /\ b.pending = IF "resumed" = "whole" THEN a.pending ELSE a.pending \ {c}
        BY ONLY <3>5, <4>1, <4>2, ReadsResult DEF b, l
      <4> QED BY <4>2, <4>3 DEF w
    <3>7. \A d \in b.pending : StillUnended(d)
      BY <1>3, <3>2, <3>6
    <3>8. \A u \in Tasks : inCall'[u] /\ Traced(<<u, count'[u]>>) => <<u, count'[u]>> \in b.pending
      BY <1>4, <3>1, <3>6
    <3> HIDE DEF b
    <3> QED BY <1>1, <2>4, <2>5, <3>6, <3>7, <3>8, FollowsClosed
  <2> QED BY <2>6, <2>7
<1> QED BY <1>5, <1>6, <1>7

LEMMA EndsFollows ==
  ASSUME CaptureTyped, FollowsFile, backend = "strace", NEW ts, NEW how, Ends(ts, how),
         prog' = prog, backend' = backend, count' = count, made' = made
  PROVE  FollowsFile'
<1> DEFINE a == ReadLines(Broken(file))
           l == Line(NoCall, IF how = "crash" THEN "dump" ELSE "exit")
           b == ReadLine(a, l)
<1>1. /\ alive' = [t \in Tasks |-> alive[t] /\ t \notin ts]
      /\ inCall' = [t \in Tasks |-> inCall[t] /\ t \notin ts]
      /\ file' = Append(Broken(file), l)
  BY DEF Ends
<1>2. /\ Wanted' = Wanted /\ Wanted \in Seq(Calls) /\ prog \in Programs
      /\ l \in FileLine /\ l.kind # "open"
      /\ l \in {Line(NoCall, "exit"), Line(NoCall, "dump")} \cup {Line(d, "open") : d \in Calls}
  <2>1. Wanted' = Wanted
    BY WantedNext DEF CaptureTyped
  <2> QED BY <2>1, WantedType DEF CaptureTyped, Line, FileLine
<1> HIDE DEF l
<1>3. /\ Broken(file) \in Seq(FileLine) /\ SoFar(a, Wanted)
      /\ ~a.stopped => ~HasRead.stopped /\ a.pending = HasRead.pending \cup OpenCalls
  BY BrokenRead
<1>4. HasRead' = b /\ OpenCalls' = {}
  BY <1>1, <1>2, <1>3, LineAdded
<1>5. CASE ~Going(a)
  <2>1. b.stopped /\ SoFar(b, Wanted)
    BY <1>2, <1>3, <1>5, StopsReading
  <2> HIDE DEF b, a
  <2> QED BY <1>2, <1>4, <2>1, FollowsClosed
<1>6. CASE Going(a)
  <2>1. ~a.stopped /\ ~HasRead.stopped /\ a.pending = HasRead.pending \cup OpenCalls
    BY <1>3, <1>6 DEF Going
  <2>2. SoFar(b, Wanted) /\ ~b.stopped /\ b.pending = a.pending
    BY <1>2, <1>3, <1>6, ReadsEnd
  <2> HIDE DEF b, a
  <2>3. ASSUME NEW d \in b.pending PROVE StillUnended(d)
    <3>1. d \in HasRead.pending \cup OpenCalls
      BY <2>1, <2>2
    <3>2. d \in Targets /\ d[1] \in Tasks /\ d = <<d[1], count[d[1]]>> /\ (inCall[d[1]] \/ ~alive[d[1]])
      BY <2>1, <3>1, HeldFacts
    <3>3. inCall'[d[1]] \/ ~alive'[d[1]]
      BY <1>1, <3>2
    <3> QED BY <3>2, <3>3 DEF StillUnended
  <2>4. ASSUME NEW t \in Tasks, inCall'[t], Traced(<<t, count'[t]>>)
        PROVE  <<t, count'[t]>> \in b.pending
    <3>1. inCall[t]
      BY <1>1, <2>4
    <3> QED BY <2>1, <2>2, <2>4, <3>1 DEF FollowsFile, Current
  <2> QED BY <1>2, <1>4, <2>2, <2>3, <2>4, FollowsClosed
<1> QED BY <1>5, <1>6

\* What is left when strace is gone, its last line cut off or not.
LEMMA StopFollows ==
  ASSUME CaptureTyped, FollowsFile, prog' = prog, backend' = backend, made' = made,
         file' = file \/ file' = (IF IsOpen(file) THEN Front(file) ELSE file)
  PROVE  file' \in Seq(FileLine) /\ SoFar(ReadLines(file), Wanted)'
<1>1. /\ Wanted' = Wanted /\ Wanted \in Seq(Calls) /\ prog \in Programs /\ file \in Seq(FileLine)
      /\ SoFar(HasRead, Wanted)
  <2>1. Wanted' = Wanted
    BY WantedNext DEF CaptureTyped
  <2> QED BY <2>1, WantedType DEF CaptureTyped, FollowsFile
<1>2. Body \in Seq(FileLine)
  BY <1>1, SplitFile
<1>3. file' \in Seq(FileLine) /\ SoFar(ReadLines(file'), Wanted)
  <2>1. CASE file' = Body
    BY <1>1, <1>2, <2>1 DEF HasRead
  <2>2. CASE file' = file /\ IsOpen(file)
    <3> DEFINE d == Last(file).call
               b == ReadLine(HasRead, Line(d, "open"))
    <3>1. d \in Calls /\ file = Append(Body, Line(d, "open")) /\ Line(d, "open") \in FileLine
      BY <1>1, <2>2, SplitFile DEF FollowsFile, OpenCalls, Unended, Targets
    <3>2. ReadLines(file) = b
      <4> HIDE DEF d
      <4> QED BY <1>2, <3>1, ReadOneMore DEF HasRead
    <3>3. SoFar(b, Wanted)
      <4> HIDE DEF d
      <4>1. Line(d, "open") \in {Line(NoCall, "exit"), Line(NoCall, "dump")} \cup {Line(e, "open") : e \in Calls}
        BY <3>1
      <4>2. CASE Going(HasRead)
        BY <1>1, <4>1, <4>2, ReadsEnd
      <4>3. CASE ~Going(HasRead)
        BY <1>1, <4>3, StopsReading
      <4> QED BY <4>2, <4>3
    <3> QED BY <1>1, <2>2, <3>2, <3>3
  <2>3. file' = Body \/ (file' = file /\ IsOpen(file))
    BY DEF Body
  <2> QED BY <2>1, <2>2, <2>3
<1>4. \A f : Len(f) \in Nat => ReadLines(f)' = ReadLines(f)
  BY SameReader
<1>5. \A a, w : SoFar(a, w)' <=> SoFar(a, w)
  BY SameSoFar
<1>6. Len(file') \in Nat
  BY <1>3
<1>7. ReadLines(file)' = ReadLines(file')
  BY <1>4, <1>6
<1> QED BY <1>1, <1>3, <1>5, <1>7

\* Nothing is read of an empty file.
LEMMA NothingFollows ==
  ASSUME prog \in Programs, made = <<>>, file = <<>>
  PROVE  /\ SoFar(ReadLines(file), Wanted)
         /\ (\A t \in Tasks : ~inCall[t]) => FollowsFile
<1>1. Wanted = <<>>
  BY SelectOfNothing DEF Wanted
<1>2. ReadLines(file) = NothingRead
  BY NoLines
<1>3. SoFar(NothingRead, <<>>)
  <2>1. NothingRead \in Acc /\ NothingRead.partial = NothingRead.stopped /\ NothingRead.events = <<>>
    BY DEF NothingRead, Acc
  <2>2. Returned(<<>>) = <<>> /\ RetsOf(<<>>) = <<>>
    BY SelectOfNothing DEF Returned, RetsOf
  <2>3. Begins(<<>>, <<>>)
    BY DEF Begins
  <2> QED BY <2>1, <2>2, <2>3 DEF SoFar
<1>4. HasRead = NothingRead /\ OpenCalls = {}
  BY <1>2 DEF HasRead, Body, OpenCalls, IsOpen
<1> QED BY <1>1, <1>2, <1>3, <1>4 DEF FollowsFile, NothingRead
---------------------------------------------------------------------------------
(* The flow of eBPF's events, step by step.                                      *)

InOrder(s, n, t, m) ==
    \A i, j \in 1..n : i < j => \E k, l \in 1..m : k < l /\ t[k] = s[i] /\ t[l] = s[j]

LEMMA SubSequenceIs ==
  ASSUME NEW H, NEW s \in Seq(H), NEW t \in Seq(H), NEW n, n = Len(s), NEW m, m = Len(t)
  PROVE  IsSubSequence(s, t) <=>
             /\ ToSet(s) \subseteq ToSet(t)
             /\ InOrder(s, n, t, m)
<1>1. DOMAIN s = 1..n /\ DOMAIN t = 1..m
  OBVIOUS
<1> QED BY ONLY <1>1 DEF IsSubSequence, InOrder

LEMMA SubSequenceFacts ==
  ASSUME NEW H, NEW s \in Seq(H), NEW t \in Seq(H), NEW c \in H
  PROVE  /\ Begins(s, t) => IsSubSequence(s, t)
         /\ IsSubSequence(s, t) => IsSubSequence(s, Append(t, c)) /\ IsSubSequence(Append(s, c), Append(t, c))
<1> DEFINE u == Append(t, c)
           v == Append(s, c)
           n == Len(s)
           m == Len(t)
<1>1. /\ n \in Nat /\ m \in Nat /\ DOMAIN s = 1..n /\ DOMAIN t = 1..m
      /\ DOMAIN u = 1..(m + 1) /\ DOMAIN v = 1..(n + 1) /\ u[m + 1] = c /\ v[n + 1] = c
      /\ \A i \in 1..m : u[i] = t[i]
      /\ \A i \in 1..n : v[i] = s[i]
  OBVIOUS
<1>a. u \in Seq(H) /\ v \in Seq(H) /\ m + 1 = Len(u) /\ n + 1 = Len(v)
  OBVIOUS
<1>b. n = Len(s) /\ m = Len(t)
  OBVIOUS
<1> HIDE DEF u, v, n, m
<1>2. ASSUME Begins(s, t) PROVE IsSubSequence(s, t)
  <2>1. n <= m /\ \A i \in 1..n : s[i] = t[i] /\ i \in 1..m
    BY <1>1, <1>2 DEF Begins, n, m
  <2>2. ToSet(s) \subseteq ToSet(t)
    BY <1>1, <2>1 DEF ToSet
  <2>3. \A i, j \in DOMAIN s : i < j => \E k, l \in DOMAIN t : k < l /\ t[k] = s[i] /\ t[l] = s[j]
    BY <1>1, <2>1
  <2> QED BY <2>2, <2>3 DEF IsSubSequence
<1>3. ASSUME IsSubSequence(s, t) PROVE IsSubSequence(s, u) /\ IsSubSequence(v, u)
  <2>1. \A i \in 1..n : \E k \in 1..m : t[k] = s[i]
    <3> SUFFICES ASSUME NEW i \in 1..n PROVE \E k \in 1..m : t[k] = s[i]
      OBVIOUS
    <3>1. s[i] \in ToSet(s)
      BY <1>1 DEF ToSet
    <3>2. s[i] \in ToSet(t)
      BY <1>3, <3>1 DEF IsSubSequence
    <3> QED BY <1>1, <3>2 DEF ToSet
  <2>2. \A i, j \in 1..n : i < j => \E k, l \in 1..m : k < l /\ t[k] = s[i] /\ t[l] = s[j]
    <3>1. InOrder(s, n, t, m)
      BY <1>3, <1>b, SubSequenceIs
    <3> QED BY <3>1 DEF InOrder
  <2>3. \A k \in 1..m : k \in 1..(m + 1) /\ k < m + 1
    BY <1>1
  <2>4. m + 1 \in 1..(m + 1)
    BY <1>1
  <2>5. \A i \in 1..(n + 1) : i \in 1..n \/ i = n + 1
    BY <1>1
  <2>6. \A i \in 1..n : \E k \in 1..(m + 1) : u[k] = s[i] /\ k < m + 1
    <3> SUFFICES ASSUME NEW i \in 1..n PROVE \E k \in 1..(m + 1) : u[k] = s[i] /\ k < m + 1
      OBVIOUS
    <3>1. PICK k \in 1..m : t[k] = s[i]
      BY <2>1
    <3> QED BY <1>1, <2>3, <3>1
  <2>7. \A i, j \in 1..n : i < j => \E k, l \in 1..(m + 1) : k < l /\ u[k] = s[i] /\ u[l] = s[j]
    <3> SUFFICES ASSUME NEW i \in 1..n, NEW j \in 1..n, i < j
                 PROVE  \E k, l \in 1..(m + 1) : k < l /\ u[k] = s[i] /\ u[l] = s[j]
      OBVIOUS
    <3>1. PICK k \in 1..m, l \in 1..m : k < l /\ t[k] = s[i] /\ t[l] = s[j]
      BY <2>2
    <3> QED BY <1>1, <2>3, <3>1
  <2>8. ToSet(s) \subseteq ToSet(u)
    BY <1>1, <2>6 DEF ToSet
  <2>9. ToSet(v) \subseteq ToSet(u)
    <3> SUFFICES ASSUME NEW i \in 1..(n + 1) PROVE v[i] \in ToSet(u)
      BY <1>1 DEF ToSet
    <3>1. CASE i \in 1..n
      BY <1>1, <2>6, <3>1 DEF ToSet
    <3>2. CASE i = n + 1
      BY <1>1, <2>4, <3>2 DEF ToSet
    <3> QED BY <2>5, <3>1, <3>2
  <2>10. ASSUME NEW i \in 1..(n + 1), NEW j \in 1..(n + 1), i < j
         PROVE  \E k, l \in 1..(m + 1) : k < l /\ u[k] = v[i] /\ u[l] = v[j]
    <3>1. i \in 1..n
      BY <1>1, <2>10
    <3>2. CASE j \in 1..n
      <4>1. PICK k \in 1..(m + 1), l \in 1..(m + 1) : k < l /\ u[k] = s[i] /\ u[l] = s[j]
        BY <2>7, <2>10, <3>1, <3>2
      <4> QED BY <1>1, <3>1, <3>2, <4>1
    <3>3. CASE j = n + 1
      <4>1. PICK k \in 1..(m + 1) : u[k] = s[i] /\ k < m + 1
        BY <2>6, <3>1
      <4> QED BY <1>1, <2>4, <3>1, <3>3, <4>1
    <3> QED BY <2>5, <3>2, <3>3
  <2>11. IsSubSequence(s, u)
    <3>1. InOrder(s, n, u, m + 1)
      BY <2>7 DEF InOrder
    <3> QED BY <1>a, <1>b, <2>8, <3>1, SubSequenceIs
  <2>12. IsSubSequence(v, u)
    <3>1. InOrder(v, n + 1, u, m + 1)
      BY <2>10 DEF InOrder
    <3> QED BY <1>a, <2>9, <3>1, SubSequenceIs
  <2> QED BY <2>11, <2>12
<1> QED BY <1>2, <1>3 DEF u, v

\* Fewer events, from the newest on.
LEMMA SubSequenceCut ==
  ASSUME NEW H, NEW g \in Seq(H), NEW s \in Seq(H), NEW t \in Seq(H), Begins(g, s), IsSubSequence(s, t)
  PROVE  IsSubSequence(g, t)
<1>1. /\ DOMAIN g = 1..Len(g) /\ DOMAIN s = 1..Len(s)
      /\ \A i \in 1..Len(g) : g[i] = s[i] /\ i \in 1..Len(s)
  BY DEF Begins
<1>2. ToSet(g) \subseteq ToSet(t)
  <2>1. ToSet(g) \subseteq ToSet(s)
    BY <1>1 DEF ToSet
  <2> QED BY <2>1 DEF IsSubSequence
<1>3. \A i, j \in DOMAIN g : i < j => \E k, l \in DOMAIN t : k < l /\ t[k] = g[i] /\ t[l] = g[j]
  BY <1>1 DEF IsSubSequence
<1> QED BY <1>2, <1>3 DEF IsSubSequence

LEMMA FlowRets ==
  ASSUME NEW f \in Seq(Flowing)
  PROVE  /\ RetsOf(f) \in Seq(Calls) /\ Len(RetsOf(f)) = Len(f) /\ Len(f) \in Nat
         /\ \A i \in 1..Len(f) : RetsOf(f)[i] = f[i].ret
<1>1. \A e \in Flowing : e.ret \in Calls
  BY DEF Flowing
<1>2. Len(f) \in Nat
  OBVIOUS
<1> QED BY <1>1, <1>2, RetsOfType

\* A call completes without an event, and that is known.
LEMMA EventLost ==
  ASSUME NEW f \in Seq(Flowing), NEW w \in Seq(Calls), NEW c \in Calls, NEW l, NEW k, Recorded(f, w, l),
         l \subseteq k, k # {}
  PROVE  Recorded(f, Append(w, c), k)
<1>1. RetsOf(f) \in Seq(Calls) /\ IsSubSequence(RetsOf(f), w)
  BY FlowRets DEF Recorded
<1>2. IsSubSequence(RetsOf(f), Append(w, c))
  BY <1>1, SubSequenceFacts
<1> QED BY <1>2 DEF Recorded

LEMMA EventAdded ==
  ASSUME NEW f \in Seq(Flowing), NEW w \in Seq(Calls), NEW e \in Flowing, NEW l, NEW k, Recorded(f, w, l),
         l \subseteq k, e.of = e.ret \/ "mixed" \in k
  PROVE  Recorded(Append(f, e), Append(w, e.ret), k)
<1>1. RetsOf(f) \in Seq(Calls) /\ IsSubSequence(RetsOf(f), w) /\ e.ret \in Calls
  BY FlowRets DEF Recorded, Flowing
<1>2. RetsOf(Append(f, e)) = Append(RetsOf(f), e.ret)
  BY RetsOfAppend
<1>3. IsSubSequence(RetsOf(Append(f, e)), Append(w, e.ret))
  BY <1>1, <1>2, SubSequenceFacts
<1>4. \A i \in 1..Len(Append(f, e)) : Append(f, e)[i].of = Append(f, e)[i].ret \/ "mixed" \in k
  <2> SUFFICES ASSUME NEW i \in 1..Len(Append(f, e))
               PROVE  Append(f, e)[i].of = Append(f, e)[i].ret \/ "mixed" \in k
    OBVIOUS
  <2>1. Append(f, e)[i] = (IF i \in 1..Len(f) THEN f[i] ELSE e)
    OBVIOUS
  <2> QED BY <2>1 DEF Recorded
<1>5. k = {} => RetsOf(Append(f, e)) = Append(w, e.ret)
  BY <1>2 DEF Recorded
<1> QED BY <1>3, <1>4, <1>5 DEF Recorded

LEMMA EventsCut ==
  ASSUME NEW f \in Seq(Flowing), NEW g \in Seq(Flowing), NEW w \in Seq(Calls), NEW l, NEW k, Recorded(f, w, l),
         l \subseteq k, Begins(g, f), k = {} => g = f
  PROVE  Recorded(g, w, k)
<1>1. RetsOf(f) \in Seq(Calls) /\ RetsOf(g) \in Seq(Calls) /\ IsSubSequence(RetsOf(f), w)
  BY FlowRets DEF Recorded
<1>2. \A i \in 1..Len(g) : g[i] = f[i] /\ i \in 1..Len(f)
  BY DEF Begins
<1>3. Begins(RetsOf(g), RetsOf(f))
  BY <1>2, FlowRets DEF Begins
<1>4. IsSubSequence(RetsOf(g), w)
  BY <1>1, <1>3, SubSequenceCut
<1>5. k = {} => l = {}
  OBVIOUS
<1> QED BY <1>2, <1>4, <1>5 DEF Recorded

LEMMA FlowType ==
  ASSUME CaptureTyped
  PROVE  Flow \in Seq(Flowing) /\ hand \o ring \in Seq(Flowing) /\ chan \o (hand \o ring) \in Seq(Flowing)
<1>1. got \in Seq(Flowing) /\ chan \in Seq(Flowing) /\ hand \in Seq(Flowing) /\ ring \in Seq(Flowing)
  BY DEF CaptureTyped
<1>2. hand \o ring \in Seq(Flowing)
  BY ONLY <1>1, ConcatProperties
<1>3. chan \o (hand \o ring) \in Seq(Flowing)
  BY ONLY <1>1, <1>2, ConcatProperties
<1>4. got \o (chan \o (hand \o ring)) \in Seq(Flowing)
  BY ONLY <1>1, <1>3, ConcatProperties
<1> QED BY <1>2, <1>3, <1>4 DEF Flow

\* Something is added to the last of two sequences, or moves from the second's head
\* to the end of the first.
LEMMA ConcatMoves ==
  ASSUME NEW H, NEW s \in Seq(H), NEW t \in Seq(H), NEW u \in Seq(H), NEW e \in H
  PROVE  /\ s \o Append(t, e) = Append(s \o t, e)
         /\ t # <<>> => Append(s, Head(t)) \o (Tail(t) \o u) = s \o (t \o u)
         /\ Begins(s, s \o t)
<1>1. s \o Append(t, e) = Append(s \o t, e)
  <2>1. Append(t, e) = t \o <<e>> /\ <<e>> \in Seq(H) /\ s \o t \in Seq(H)
    BY AppendIsConcat, ConcatProperties
  <2>2. Append(s \o t, e) = (s \o t) \o <<e>>
    BY <2>1, AppendIsConcat
  <2>3. (s \o t) \o <<e>> = s \o (t \o <<e>>)
    BY <2>1, ConcatAssociative
  <2> QED BY <2>1, <2>2, <2>3
<1>2. ASSUME t # <<>> PROVE Append(s, Head(t)) \o (Tail(t) \o u) = s \o (t \o u)
  <2> DEFINE h == Head(t)
             r == Tail(t)
  <2>1. h \in H /\ r \in Seq(H) /\ t = <<h>> \o r /\ <<h>> \in Seq(H)
    BY <1>2
  <2> HIDE DEF h, r
  <2>2. Append(s, h) = s \o <<h>>
    BY <2>1, AppendIsConcat
  <2>3. r \o u \in Seq(H)
    BY <2>1, ConcatProperties
  <2> DEFINE o == <<h>>
  <2>7. s \in Seq(H) /\ u \in Seq(H) /\ o \in Seq(H) /\ r \in Seq(H)
    BY <2>1
  <2> HIDE DEF o
  <2>8. (s \o o) \o (r \o u) = s \o (o \o (r \o u))
    <3> DEFINE q == r \o u
    <3>1. q \in Seq(H)
      BY <2>3
    <3> HIDE DEF q
    <3>2. (s \o o) \o q = s \o (o \o q)
      BY ONLY <2>7, <3>1, ConcatAssociative, SMTT(30)
    <3> QED BY <3>2 DEF q
  <2>9. o \o (r \o u) = (o \o r) \o u
    BY ONLY <2>7, ConcatAssociative, SMTT(30)
  <2>4. (s \o <<h>>) \o (r \o u) = s \o (<<h>> \o (r \o u))
    BY ONLY <2>8 DEF o
  <2>5. <<h>> \o (r \o u) = (<<h>> \o r) \o u
    BY ONLY <2>9 DEF o
  <2>6. Append(s, h) \o (r \o u) = s \o (t \o u)
    BY <2>1, <2>2, <2>4, <2>5
  <2> QED BY <2>6 DEF h, r
<1>3. Begins(s, s \o t)
  <2>1. /\ Len(s) \in Nat /\ Len(t) \in Nat /\ Len(s \o t) = Len(s) + Len(t)
        /\ \A i \in 1..Len(s) : (s \o t)[i] = s[i]
    OBVIOUS
  <2> QED BY <2>1 DEF Begins
<1> QED BY <1>1, <1>2, <1>3

LEMMA FlowNext ==
  ASSUME CaptureTyped
  PROVE  /\ \A e \in Flowing : UNCHANGED <<got, chan, hand>> /\ ring' = Append(ring, e) => Flow' = Append(Flow, e)
         /\ UNCHANGED <<got, chan, hand, ring>> => Flow' = Flow
         /\ ReadRing \/ PutEvent \/ Drain => Flow' = Flow
         /\ UNCHANGED <<got, chan, hand>> /\ ring' = <<>> =>
               /\ Flow' \in Seq(Flowing) /\ Begins(Flow', Flow) /\ (ring = <<>> => Flow' = Flow)
         /\ chan = <<>> /\ hand = <<>> /\ ring = <<>> => Flow = got
<1>1. got \in Seq(Flowing) /\ chan \in Seq(Flowing) /\ hand \in Seq(Flowing) /\ ring \in Seq(Flowing)
  BY DEF CaptureTyped
<1>2. /\ Flow = got \o (chan \o (hand \o ring)) /\ Flow' = got' \o (chan' \o (hand' \o ring'))
      /\ hand \o ring \in Seq(Flowing) /\ chan \o (hand \o ring) \in Seq(Flowing)
  BY FlowType DEF Flow
<1>3. ASSUME NEW e \in Flowing, UNCHANGED <<got, chan, hand>>, ring' = Append(ring, e)
      PROVE  Flow' = Append(Flow, e)
  <2>1. hand \o Append(ring, e) = Append(hand \o ring, e)
    BY <1>1, ConcatMoves
  <2>2. chan \o Append(hand \o ring, e) = Append(chan \o (hand \o ring), e)
    BY <1>1, <1>2, ConcatMoves
  <2>3. got \o Append(chan \o (hand \o ring), e) = Append(got \o (chan \o (hand \o ring)), e)
    <3> DEFINE x == chan \o (hand \o ring)
    <3>1. x \in Seq(Flowing)
      BY <1>2
    <3> HIDE DEF x
    <3>2. got \o Append(x, e) = Append(got \o x, e)
      BY <1>1, <3>1, ConcatMoves
    <3> QED BY <3>2 DEF x
  <2> QED BY <1>2, <1>3, <2>1, <2>2, <2>3
<1>4. UNCHANGED <<got, chan, hand, ring>> => Flow' = Flow
  BY DEF Flow
<1>5. ASSUME ReadRing PROVE Flow' = Flow
  <2>1. /\ ring # <<>> /\ hand = <<>> /\ hand' = <<Head(ring)>> /\ ring' = Tail(ring)
        /\ got' = got /\ chan' = chan
    BY <1>5 DEF ReadRing
  <2>2. <<Head(ring)>> \o Tail(ring) = ring
    BY <1>1, <2>1
  <2>3. <<>> \o ring = ring
    BY <1>1, ConcatEmptySeq
  <2> QED BY <1>2, <2>1, <2>2, <2>3
<1>6. ASSUME PutEvent PROVE Flow' = Flow
  <2>1. chan' = chan \o hand /\ hand' = <<>> /\ got' = got /\ ring' = ring
    BY <1>6 DEF PutEvent, kernelVars
  <2>2. (chan \o hand) \o ring = chan \o (hand \o ring)
    BY ONLY <1>1, ConcatAssociative, SMTT(30)
  <2>3. <<>> \o ring = ring
    BY <1>1, ConcatEmptySeq
  <2> QED BY <1>2, <2>1, <2>2, <2>3
<1>7. ASSUME Drain PROVE Flow' = Flow
  <2>1. /\ chan # <<>> /\ got' = Append(got, Head(chan)) /\ chan' = Tail(chan)
        /\ hand' = hand /\ ring' = ring
    BY <1>7 DEF Drain, kernelVars
  <2>2. Append(got, Head(chan)) \o (Tail(chan) \o (hand \o ring)) = got \o (chan \o (hand \o ring))
    <3>1. Head(chan) \in Flowing
      BY <1>1, <2>1, HeadTailProperties
    <3> DEFINE y == hand \o ring
    <3>2. y \in Seq(Flowing)
      BY <1>2
    <3> HIDE DEF y
    <3>3. Append(got, Head(chan)) \o (Tail(chan) \o y) = got \o (chan \o y)
      <4>1. got \in Seq(Flowing) /\ chan \in Seq(Flowing) /\ chan # <<>>
        BY <1>1, <2>1
      <4> QED BY ONLY <3>1, <3>2, <4>1, ConcatMoves, SMTT(30)
    <3> QED BY <3>3 DEF y
  <2>3. Flow' = Append(got, Head(chan)) \o (Tail(chan) \o (hand \o ring))
    BY <1>2, <2>1
  <2> QED BY ONLY <1>2, <2>2, <2>3
<1>8. ASSUME UNCHANGED <<got, chan, hand>>, ring' = <<>>
      PROVE  Flow' \in Seq(Flowing) /\ Begins(Flow', Flow) /\ (ring = <<>> => Flow' = Flow)
  <2> DEFINE c == chan \o hand
  <2>1. hand \o <<>> = hand
    BY <1>1, ConcatEmptySeq
  <2>2. c \in Seq(Flowing) /\ got \o c \in Seq(Flowing)
    BY <1>1, ConcatProperties
  <2>3. Flow' = got \o c
    <3>1. Flow' = got \o (chan \o (hand \o <<>>))
      BY <1>2, <1>8
    <3> QED BY <2>1, <3>1
  <2>4. Flow = (got \o c) \o ring
    <3>1. chan \o (hand \o ring) = (chan \o hand) \o ring
      BY ONLY <1>1, ConcatAssociative, SMTT(30)
    <3>2. chan \o (hand \o ring) = c \o ring
      BY ONLY <3>1
    <3> HIDE DEF c
    <3>3. got \o (c \o ring) = (got \o c) \o ring
      BY ONLY <1>1, <2>2, ConcatAssociative, SMTT(30)
    <3> QED BY <1>2, <3>2, <3>3
  <2> HIDE DEF c
  <2>5. Begins(got \o c, (got \o c) \o ring)
    <3>1. \A e \in Flowing : Begins(got \o c, (got \o c) \o ring)
      BY <1>1, <2>2, ConcatMoves
    <3>2. CASE ring = <<>>
      <4>1. (got \o c) \o <<>> = got \o c
        BY <2>2, ConcatEmptySeq
      <4> QED BY <3>2, <4>1 DEF Begins
    <3>3. CASE ring # <<>>
      <4>1. Head(ring) \in Flowing
        BY <1>1, <3>3, HeadTailProperties
      <4> QED BY <3>1, <4>1
    <3> QED BY <3>2, <3>3
  <2>6. ring = <<>> => Flow' = Flow
    BY <1>4, <1>8
  <2> QED BY <2>2, <2>3, <2>4, <2>5, <2>6
<1>9. ASSUME chan = <<>>, hand = <<>>, ring = <<>> PROVE Flow = got
  <2>1. <<>> \o <<>> = <<>>
    OBVIOUS
  <2>2. got \o <<>> = got
    BY <1>1, ConcatEmptySeq
  <2> QED BY <1>2, <1>9, <2>1, <2>2
<1> QED BY <1>3, <1>4, <1>5, <1>6, <1>7, <1>8, <1>9

\* The events that eBPF has so far are what they were.
LEMMA FlowSame ==
  ASSUME CaptureTyped, FlowInv, backend = "ebpf", phase \in {"run", "stopped", "drain"},
         prog' = prog, backend' = backend, made' = made, lost' = lost, Flow' = Flow
  PROVE  Recorded(Flow', Wanted', lost')
<1>1. Wanted' = Wanted
  BY WantedNext DEF CaptureTyped
<1> QED BY <1>1 DEF FlowInv

\* emit_pending: an event, or a reason why there is none.
LEMMA ExitFlows ==
  ASSUME CaptureTyped, FlowInv, backend = "ebpf", phase \in {"run", "stopped", "drain"}, NEW t \in Tasks, Exit(t)
  PROVE  /\ Recorded(Flow', Wanted', lost') /\ pending' \subseteq pending
         /\ ring' = ring \/ (readerOpen /\ \E e \in Flowing : ring' = Append(ring, e))
<1> DEFINE c == Current(t)
           own == SameKey(c)
           e == [of |-> TheOne(own), ret |-> c]
<1>1. /\ inCall[t] /\ RecordExit(t, c) /\ made' = Append(made, c) /\ prog' = prog /\ backend' = backend
      /\ UNCHANGED <<got, chan, hand>>
  BY DEF Exit, fixedVars, readerVars
<1>2. c \in Calls
  BY <1>1, CurrentIsCall
<1> HIDE DEF c
<1>3. Wanted' = IF c \in Targets THEN Append(Wanted, c) ELSE Wanted
  BY <1>1, <1>2, WantedNext DEF CaptureTyped
<1>4. c \in Targets <=> Traced(c) /\ Call(c).err # "none"
  BY <1>2 DEF Targets
<1>5. Recorded(Flow, Wanted, lost) /\ Flow \in Seq(Flowing) /\ Wanted \in Seq(Calls)
  BY FlowType, WantedType DEF FlowInv, CaptureTyped
<1>6. own \subseteq Calls /\ pending' \subseteq pending
  BY <1>1 DEF SameKey, CaptureTyped, RecordExit
<1> HIDE DEF own, e
<1>7. CASE c \notin Targets
  <2>1. ring' = ring /\ lost' = lost
    BY <1>1, <1>4, <1>7 DEF RecordExit
  <2>2. Flow' = Flow
    BY <1>1, <2>1, FlowNext
  <2> QED BY <1>3, <1>5, <1>6, <1>7, <2>1, <2>2
<1>8. CASE c \in Targets /\ ring' = ring /\ lost \subseteq lost' /\ lost' # {}
  <2>1. Flow' = Flow
    BY <1>1, <1>8, FlowNext
  <2>2. Recorded(Flow, Append(Wanted, c), lost')
    BY <1>2, <1>5, <1>8, EventLost
  <2> QED BY <1>3, <1>6, <1>8, <2>1, <2>2
<1>9. CASE /\ c \in Targets /\ readerOpen /\ own # {} /\ ring' = Append(ring, e)
           /\ lost' = lost \cup (IF own = {c} THEN {} ELSE {"mixed"})
  <2>1. TheOne(own) \in own /\ (own = {c} => TheOne(own) = c)
    BY <1>9 DEF TheOne
  <2>2. e \in Flowing /\ e.ret = c /\ (e.of = e.ret \/ "mixed" \in lost')
    BY <1>2, <1>6, <1>9, <2>1 DEF Flowing, e
  <2>3. Flow' = Append(Flow, e)
    BY <1>1, <1>9, <2>2, FlowNext
  <2>4. Recorded(Append(Flow, e), Append(Wanted, c), lost')
    BY <1>5, <1>9, <2>2, EventAdded
  <2> QED BY <1>3, <1>6, <1>9, <2>2, <2>3, <2>4
<1>10. \/ c \notin Targets
       \/ c \in Targets /\ ring' = ring /\ lost \subseteq lost' /\ lost' # {}
       \/ /\ c \in Targets /\ readerOpen /\ own # {} /\ ring' = Append(ring, e)
          /\ lost' = lost \cup (IF own = {c} THEN {} ELSE {"mixed"})
  <2> SUFFICES ASSUME c \in Targets
               PROVE  \/ ring' = ring /\ lost \subseteq lost' /\ lost' # {}
                      \/ /\ readerOpen /\ own # {} /\ ring' = Append(ring, e)
                         /\ lost' = lost \cup (IF own = {c} THEN {} ELSE {"mixed"})
    OBVIOUS
  <2>1. ~(Call(c).err = "none" \/ ~Traced(c))
    BY <1>4
  <2>2. \/ ring' = ring /\ \E why \in {"late", "untracked", "mixed", "full"} : lost' = lost \cup {why}
        \/ /\ readerOpen /\ own # {} /\ ring' = Append(ring, e)
           /\ lost' = lost \cup (IF own = {c} THEN {} ELSE {"mixed"})
    BY <1>1, <2>1 DEF RecordExit, own, e
  <2> QED BY <2>2
<1> QED BY <1>7, <1>8, <1>9, <1>10
---------------------------------------------------------------------------------
(* Steps that leave the command alone.                                           *)

LEMMA SameFollows ==
  ASSUME CaptureTyped, prog' = prog, backend' = backend, file' = file, UNCHANGED osVars
  PROVE  /\ FollowsFile => FollowsFile'
         /\ SoFar(ReadLines(file), Wanted) => SoFar(ReadLines(file), Wanted)'
<1>1. /\ alive' = alive /\ inCall' = inCall /\ count' = count /\ made' = made
      /\ file \in Seq(FileLine) /\ made \in Seq(Calls)
  BY DEF osVars, CaptureTyped
<1>2. Wanted' = Wanted /\ Body' = Body /\ OpenCalls' = OpenCalls
  <2>1. Body' = Body /\ OpenCalls' = OpenCalls
    BY DEF Body, OpenCalls
  <2> QED BY <1>1, <2>1, WantedNext
<1>3. HasRead' = HasRead /\ ReadLines(file)' = ReadLines(file)
  <2>1. Len(Body) \in Nat /\ Len(file) \in Nat
    BY <1>1, SplitFile
  <2> QED BY <1>2, <2>1, SameReader DEF HasRead
<1>4. ASSUME FollowsFile PROVE FollowsFile'
  <2>1. \A d : Unended(d) => StillUnended(d)
    BY <1>1 DEF Unended, StillUnended, Current
  <2>2. \A t \in Tasks : (inCall'[t] <=> inCall[t]) /\ <<t, count'[t]>> = Current(t)
    BY <1>1 DEF Current
  <2>3. SoFar(HasRead, Wanted) /\ \A d \in OpenCalls : StillUnended(d)
    BY <1>4, <2>1 DEF FollowsFile
  <2>4. ~HasRead.stopped => /\ \A d \in HasRead.pending : StillUnended(d) /\ d \notin OpenCalls
                            /\ \A t \in Tasks : inCall'[t] /\ Traced(<<t, count'[t]>>) =>
                                  <<t, count'[t]>> \in HasRead.pending \cup OpenCalls
    BY <1>4, <2>1, <2>2 DEF FollowsFile
  <2> QED BY <1>2, <1>3, <2>3, <2>4, FollowsNext
<1>5. ASSUME SoFar(ReadLines(file), Wanted) PROVE SoFar(ReadLines(file), Wanted)'
  BY <1>2, <1>3, <1>5, SameSoFar
<1> QED BY <1>4, <1>5

LEMMA SameFile ==
  ASSUME CaptureTyped, FileInv, prog' = prog, backend' = backend, file' = file, UNCHANGED osVars
  PROVE  /\ backend = "strace" /\ phase \in {"run", "term"} => FollowsFile'
         /\ backend = "strace" /\ phase \in {"run", "term", "wait", "stopped"} => SoFar(ReadLines(file), Wanted)'
<1>1. ASSUME backend = "strace", phase \in {"run", "term"}
      PROVE  FollowsFile' /\ SoFar(ReadLines(file), Wanted)'
  <2>1. FollowsFile /\ made' = made
    BY <1>1 DEF FileInv, osVars
  <2> QED BY <2>1, SameFollows, StopFollows
<1>2. ASSUME backend = "strace", phase \in {"wait", "stopped"} PROVE SoFar(ReadLines(file), Wanted)'
  BY <1>2, SameFollows DEF FileInv
<1> QED BY <1>1, <1>2

\* What CaptureTyped says after a step of one command.
LEMMA TypedNext ==
  ASSUME CaptureTyped, prog' = prog, UNCHANGED osVars, file' = file,
         backend' \in {"strace", "ebpf"}, host' \in Hosts, phase' \in {"start", "run", "term", "wait", "stopped", "drain", "done", "told"},
         ctx' \in {"live", "deadline", "canceled"}, pending' \subseteq pending,
         ring' \in Seq(Flowing), hand' \in Seq(Flowing), chan' \in Seq(Flowing), got' \in Seq(Flowing),
         readerOpen' \in BOOLEAN, chanClosed' \in BOOLEAN
  PROVE  CaptureTyped'
<1>1. Calls' = Calls
  BY DEF Calls
<1>2. Flowing' = Flowing /\ FileLine' = FileLine
  BY <1>1 DEF Flowing, FileLine
<1>3. /\ alive' = alive /\ inCall' = inCall /\ count' = count /\ made' = made /\ status' = status
  BY DEF osVars
<1> QED BY <1>1, <1>2, <1>3 DEF CaptureTyped

LEMMA CtxEndsKeeps == LiveInv /\ CtxEnds => LiveInv'
<1> SUFFICES ASSUME LiveInv, CtxEnds PROVE LiveInv'
  OBVIOUS
<1>1. /\ CaptureTyped /\ StartInv /\ EndInv /\ FileInv /\ FlowInv /\ phase \in {"run", "stopped"}
      /\ ctx' \in {"deadline", "canceled"} /\ phase' = phase /\ file' = file /\ res' = res
      /\ UNCHANGED osVars /\ UNCHANGED kernelVars /\ UNCHANGED readerVars /\ UNCHANGED fixedVars
  BY DEF LiveInv, CtxEnds
<1>2. /\ prog' = prog /\ backend' = backend /\ host' = host /\ alive' = alive /\ status' = status /\ made' = made
      /\ pending' = pending /\ ring' = ring /\ lost' = lost /\ hand' = hand /\ chan' = chan /\ got' = got
      /\ readerOpen' = readerOpen /\ chanClosed' = chanClosed
  BY <1>1 DEF osVars, kernelVars, readerVars, fixedVars
<1>3. CaptureTyped'
  BY <1>1, <1>2, TypedNext DEF CaptureTyped
<1>4. StartInv' /\ EndInv'
  BY <1>1, <1>2 DEF StartInv, EndInv
<1>5. FileInv'
  BY <1>1, <1>2, SameFile DEF FileInv
<1>6. FlowInv'
  BY <1>1, <1>2, FlowNext, FlowSame DEF FlowInv
<1> QED BY <1>3, <1>4, <1>5, <1>6 DEF LiveInv

\* The tracer stops, by itself or by a signal.
LEMMA TerminateKeeps == LiveInv /\ (Terminate \/ StraceExits \/ RootReaped) => LiveInv'
<1> SUFFICES ASSUME LiveInv, Terminate \/ StraceExits \/ RootReaped PROVE LiveInv'
  OBVIOUS
<1>1. /\ CaptureTyped /\ StartInv /\ EndInv /\ FileInv /\ FlowInv
      /\ ctx' = ctx /\ file' = file
      /\ UNCHANGED osVars /\ UNCHANGED kernelVars /\ UNCHANGED readerVars /\ UNCHANGED fixedVars
      /\ \/ backend = "strace" /\ phase = "run" /\ ctx # "live" /\ phase' = "term"
         \/ backend = "strace" /\ phase \in {"run", "term", "wait"} /\ (\A t \in Tasks : ~alive[t]) /\ phase' = "stopped"
         \/ backend = "ebpf" /\ phase = "run" /\ phase' = "stopped"
  BY DEF LiveInv, Terminate, StraceExits, RootReaped
<1>2. /\ prog' = prog /\ backend' = backend /\ host' = host /\ alive' = alive /\ status' = status /\ made' = made
      /\ pending' = pending /\ ring' = ring /\ lost' = lost /\ hand' = hand /\ chan' = chan /\ got' = got
      /\ readerOpen' = readerOpen /\ chanClosed' = chanClosed
  BY <1>1 DEF osVars, kernelVars, readerVars, fixedVars
<1>3. CaptureTyped'
  BY <1>1, <1>2, TypedNext DEF CaptureTyped
<1>4. StartInv' /\ EndInv'
  <2>1. prog.root \in Tasks
    BY <1>1, TraceAssumption DEF CaptureTyped
  <2> QED BY <1>1, <1>2, <2>1 DEF StartInv, EndInv
<1>5. FileInv'
  BY <1>1, <1>2, SameFile DEF FileInv
<1>6. FlowInv'
  BY <1>1, <1>2, FlowNext, FlowSame DEF FlowInv
<1> QED BY <1>3, <1>4, <1>5, <1>6 DEF LiveInv

\* The reader takes from the ring, and the channel is filled, closed and drained.
LEMMA ReaderKeeps == LiveInv /\ phase # "done" /\ phase # "told" /\ (ReadRing \/ PutEvent \/ ReaderEnds \/ Drain) => LiveInv'
<1> SUFFICES ASSUME LiveInv, phase # "done", phase # "told", ReadRing \/ PutEvent \/ ReaderEnds \/ Drain
             PROVE  LiveInv'
  OBVIOUS
<1>1. /\ CaptureTyped /\ StartInv /\ EndInv /\ FileInv /\ FlowInv
      /\ phase' = phase /\ ctx' = ctx /\ file' = file
      /\ UNCHANGED osVars /\ UNCHANGED fixedVars /\ lost' = lost /\ pending' = pending /\ readerOpen' = readerOpen
  BY DEF LiveInv, ReadRing, PutEvent, ReaderEnds, Drain, kernelVars
<1>2. /\ prog' = prog /\ backend' = backend /\ host' = host /\ alive' = alive /\ status' = status /\ made' = made
      /\ inCall' = inCall
  BY <1>1 DEF osVars, fixedVars
<1>3. /\ ring \in Seq(Flowing) /\ hand \in Seq(Flowing) /\ chan \in Seq(Flowing) /\ got \in Seq(Flowing)
      /\ readerOpen \in BOOLEAN /\ chanClosed \in BOOLEAN
  BY <1>1 DEF CaptureTyped
<1>4. /\ ring' \in Seq(Flowing) /\ hand' \in Seq(Flowing) /\ chan' \in Seq(Flowing) /\ got' \in Seq(Flowing)
      /\ chanClosed' \in BOOLEAN
  <2>1. CASE ReadRing
    <3>1. /\ ring # <<>> /\ hand' = <<Head(ring)>> /\ ring' = Tail(ring)
          /\ chan' = chan /\ got' = got /\ chanClosed' = chanClosed
      BY <2>1 DEF ReadRing
    <3>2. Head(ring) \in Flowing /\ Tail(ring) \in Seq(Flowing)
      BY <1>3, <3>1, HeadTailProperties
    <3> QED BY <1>3, <3>1, <3>2
  <2>2. CASE PutEvent
    <3>1. chan' = chan \o hand /\ hand' = <<>> /\ ring' = ring /\ got' = got /\ chanClosed' = chanClosed
      BY <2>2 DEF PutEvent, kernelVars
    <3> QED BY <1>3, <3>1, ConcatProperties, EmptySeq
  <2>3. CASE ReaderEnds
    BY <1>3, <2>3 DEF ReaderEnds, kernelVars
  <2>4. CASE Drain
    <3>1. /\ chan # <<>> /\ got' = Append(got, Head(chan)) /\ chan' = Tail(chan)
          /\ hand' = hand /\ ring' = ring /\ chanClosed' = chanClosed
      BY <2>4 DEF Drain, kernelVars
    <3>2. Head(chan) \in Flowing /\ Tail(chan) \in Seq(Flowing)
      BY <1>3, <3>1, HeadTailProperties
    <3> QED BY <1>3, <3>1, <3>2, AppendProperties
  <2> QED BY <2>1, <2>2, <2>3, <2>4
<1>5. CaptureTyped'
  BY <1>1, <1>2, <1>3, <1>4, TypedNext DEF CaptureTyped
<1>6. StartInv'
  <2>1. phase # "start"
    BY <1>1 DEF StartInv, ReadRing, PutEvent, ReaderEnds, Drain
  <2> QED BY <1>1, <2>1 DEF StartInv
<1>7. EndInv'
  BY <1>1, <1>2 DEF EndInv
<1>8. FileInv'
  BY <1>1, <1>2, SameFile DEF FileInv
<1>9. FlowInv'
  <2> SUFFICES ASSUME backend = "ebpf", phase \in {"run", "stopped", "drain"}
               PROVE  /\ Recorded(Flow', Wanted', lost')
                      /\ phase = "drain" => readerOpen = FALSE /\ ring' = <<>>
                      /\ chanClosed' => phase = "drain" /\ hand' = <<>>
    BY <1>1, <1>2 DEF FlowInv
  <2>1. /\ phase = "drain" => readerOpen = FALSE /\ ring = <<>>
        /\ chanClosed => phase = "drain" /\ hand = <<>>
    BY <1>1 DEF FlowInv
  <2>2. Flow' = Flow
    <3>1. CASE ReaderEnds
      <4>1. UNCHANGED <<got, chan, hand, ring>>
        BY <3>1 DEF ReaderEnds, kernelVars
      <4> QED BY <1>1, <4>1, FlowNext
    <3> QED BY <1>1, <3>1, FlowNext
  <2>3. Recorded(Flow', Wanted', lost')
    BY <1>1, <1>2, <2>2, FlowSame
  <2>4. CASE ReadRing
    BY <2>1, <2>3, <2>4 DEF ReadRing
  <2>5. CASE PutEvent
    BY <2>1, <2>3, <2>5 DEF PutEvent, kernelVars
  <2>6. CASE ReaderEnds
    BY <2>1, <2>3, <2>6 DEF ReaderEnds, kernelVars
  <2>7. CASE Drain
    BY <2>1, <2>3, <2>7 DEF Drain, kernelVars
  <2> QED BY <2>4, <2>5, <2>6, <2>7
<1> QED BY <1>5, <1>6, <1>7, <1>8, <1>9 DEF LiveInv

\* What was in the ring when the reader was closed is lost, and known to be.
LEMMA CloseReaderKeeps == LiveInv /\ CloseReader => LiveInv'
<1> SUFFICES ASSUME LiveInv, CloseReader PROVE LiveInv'
  OBVIOUS
<1>1. /\ CaptureTyped /\ StartInv /\ EndInv /\ FileInv /\ FlowInv
      /\ backend = "ebpf" /\ phase = "stopped" /\ phase' = "drain" /\ readerOpen' = FALSE
      /\ lost' = (IF ring # <<>> THEN lost \cup {"closed"} ELSE lost)
      /\ ring' = <<>> /\ pending' = {}
      /\ hand' = hand /\ chan' = chan /\ chanClosed' = chanClosed /\ got' = got
      /\ ctx' = ctx /\ file' = file /\ UNCHANGED osVars /\ UNCHANGED fixedVars
  BY DEF LiveInv, CloseReader
<1>2. /\ prog' = prog /\ backend' = backend /\ host' = host /\ alive' = alive /\ status' = status /\ made' = made
  BY <1>1 DEF osVars, fixedVars
<1>3. CaptureTyped'
  <2>1. ring' \in Seq(Flowing)
    BY <1>1
  <2> QED BY <1>1, <1>2, <2>1, TypedNext DEF CaptureTyped
<1>4. StartInv' /\ EndInv' /\ FileInv'
  BY <1>1, <1>2 DEF StartInv, EndInv, FileInv
<1>5. FlowInv'
  <2>1. Recorded(Flow, Wanted, lost) /\ ~chanClosed
    BY <1>1 DEF FlowInv
  <2>2. Wanted' = Wanted /\ Wanted \in Seq(Calls) /\ Flow \in Seq(Flowing)
    BY <1>1, <1>2, WantedNext, WantedType, FlowType DEF CaptureTyped
  <2>3. Flow' \in Seq(Flowing) /\ Begins(Flow', Flow) /\ (ring = <<>> => Flow' = Flow)
    BY <1>1, FlowNext
  <2>4. lost \subseteq lost' /\ (lost' = {} => Flow' = Flow)
    BY <1>1, <2>3
  <2>5. ASSUME NEW g \in Seq(Flowing), g = Flow', NEW k, k = lost' PROVE Recorded(g, Wanted, k)
    BY <2>1, <2>2, <2>3, <2>4, <2>5, EventsCut
  <2>6. Recorded(Flow', Wanted', lost')
    BY <2>2, <2>3, <2>5
  <2> QED BY <1>1, <2>1, <2>6 DEF FlowInv
<1> QED BY <1>3, <1>4, <1>5 DEF LiveInv
---------------------------------------------------------------------------------
(* Starting, and the steps of the traced command.                                *)

\* Nothing has flowed before anything was traced.
LEMMA NothingFlows ==
  ASSUME CaptureTyped, StartInv, phase = "start"
  PROVE  Flow = <<>> /\ Wanted = <<>> /\ Recorded(Flow, Wanted, lost)
<1>1. made = <<>> /\ ring = <<>> /\ hand = <<>> /\ chan = <<>> /\ got = <<>>
  BY DEF StartInv
<1>2. Wanted = <<>>
  BY <1>1, SelectOfNothing DEF Wanted
<1>3. Flow = <<>>
  BY <1>1, FlowNext
<1>4. Recorded(<<>>, <<>>, lost)
  BY DEF Recorded, RetsOf, IsSubSequence, ToSet
<1> QED BY <1>2, <1>3, <1>4

LEMMA StartsToRun ==
  ASSUME LiveInv, StartStrace \/ StartEbpf, phase' # "done"
  PROVE  LiveInv'
<1>1. /\ CaptureTyped /\ StartInv /\ EndInv /\ FileInv /\ FlowInv /\ phase = "start"
      /\ UNCHANGED osVars /\ prog' = prog /\ ctx' = ctx
  BY DEF LiveInv, StartStrace, StartEbpf, fixedVars
<1>2. /\ made = <<>> /\ file = <<>> /\ lost = {} /\ status = "none"
      /\ ring = <<>> /\ hand = <<>> /\ chan = <<>> /\ got = <<>>
      /\ readerOpen = FALSE /\ chanClosed = FALSE /\ \A t \in Tasks : ~inCall[t]
  BY <1>1 DEF StartInv
<1>3. alive' = alive /\ inCall' = inCall /\ status' = status /\ made' = made
  BY <1>1 DEF osVars
<1>4. CASE StartStrace
  <2>1. /\ backend = "strace" /\ backend' = backend /\ host' = host /\ file' = file
        /\ UNCHANGED kernelVars /\ UNCHANGED readerVars
        /\ \/ host.strace \in {"denied", "broken"} /\ phase' = "stopped"
           \/ phase' = "run" /\ host.strace \notin {"denied", "broken", "missing"}
    BY <1>4 DEF StartStrace, Finish, fixedVars
  <2>2. pending' = pending /\ ring' = ring /\ lost' = lost /\ hand' = hand /\ chan' = chan /\ got' = got
        /\ readerOpen' = readerOpen /\ chanClosed' = chanClosed
    BY <2>1 DEF kernelVars, readerVars
  <2>3. CaptureTyped'
    BY <1>1, <2>1, <2>2, TypedNext DEF CaptureTyped
  <2>4. StartInv' /\ FlowInv'
    BY <2>1 DEF StartInv, FlowInv
  <2>5. EndInv'
    <3>1. prog.root \in Tasks /\ host.strace \in {"fine", "denied", "broken", "missing"}
      BY <1>1, TraceAssumption DEF CaptureTyped, Hosts
    <3> QED BY <1>1, <1>2, <1>3, <2>1, <3>1 DEF EndInv
  <2>6. FileInv'
    <3>1. prog \in Programs
      BY <1>1 DEF CaptureTyped
    <3>2. FollowsFile /\ SoFar(ReadLines(file), Wanted)
      BY <1>2, <3>1, NothingFollows
    <3>3. FollowsFile' /\ SoFar(ReadLines(file), Wanted)'
      BY <1>1, <2>1, <3>2, SameFollows
    <3> QED BY <3>3 DEF FileInv
  <2> QED BY <2>3, <2>4, <2>5, <2>6 DEF LiveInv
<1>5. CASE StartEbpf /\ phase' = "run"
  <2>1. /\ backend = "ebpf" /\ backend' = backend /\ host' = host /\ file' = file
        /\ UNCHANGED kernelVars /\ hand' = hand /\ chan' = chan /\ chanClosed' = chanClosed /\ got' = got
        /\ readerOpen' = TRUE
    BY <1>1, <1>5 DEF StartEbpf, Finish
  <2>2. pending' = pending /\ ring' = ring /\ lost' = lost
    BY <2>1 DEF kernelVars
  <2>3. CaptureTyped'
    BY <1>1, <1>5, <2>1, <2>2, TypedNext DEF CaptureTyped
  <2>4. StartInv' /\ FileInv'
    BY <1>5, <2>1 DEF StartInv, FileInv
  <2>5. EndInv'
    BY <1>1, <1>2, <1>3, <1>5, <2>1 DEF EndInv
  <2>6. FlowInv'
    <3>1. Recorded(Flow, Wanted, lost) /\ Flow' = Flow /\ Wanted' = Wanted
      BY <1>1, <1>3, <2>1, <2>2, NothingFlows, FlowNext, WantedNext DEF CaptureTyped
    <3> QED BY <1>2, <1>5, <2>1, <2>2, <3>1 DEF FlowInv
  <2> QED BY <2>3, <2>4, <2>5, <2>6 DEF LiveInv
<1>6. CASE StartEbpf /\ phase' = "start"
  <2>1. /\ backend' \in {"strace", "ebpf"} /\ file' = file
        /\ UNCHANGED kernelVars /\ UNCHANGED readerVars
        /\ host' = host
    BY <1>1, <1>6 DEF StartEbpf, Finish
  <2>2. pending' = pending /\ ring' = ring /\ lost' = lost /\ hand' = hand /\ chan' = chan /\ got' = got
        /\ readerOpen' = readerOpen /\ chanClosed' = chanClosed
    BY <2>1 DEF kernelVars, readerVars
  <2>3. CaptureTyped'
    BY <1>1, <1>6, <2>1, <2>2, TypedNext DEF CaptureTyped
  <2>4. StartInv' /\ FileInv' /\ FlowInv'
    BY <1>2, <1>3, <1>6, <2>1, <2>2 DEF StartInv, FileInv, FlowInv
  <2>5. EndInv'
    BY <1>1, <1>2, <1>3, <1>6, <2>1 DEF EndInv
  <2> QED BY <2>3, <2>4, <2>5 DEF LiveInv
<1>7. StartEbpf => phase' \in {"run", "start"}
  BY <1>1 DEF StartEbpf, Finish
<1> QED BY <1>4, <1>5, <1>6, <1>7

\* What CaptureTyped says after a step of the command.
LEMMA TypedStep ==
  ASSUME CaptureTyped, prog' = prog, backend' = backend, host' = host, ctx' = ctx,
         phase' \in {"start", "run", "term", "wait", "stopped", "drain", "done", "told"},
         status' \in {"none", "ok", "fail", "crash", "signaled"},
         alive' \in [Tasks -> BOOLEAN], inCall' \in [Tasks -> BOOLEAN], count' \in [Tasks -> Nat],
         \A t \in Tasks : count'[t] <= Len(prog.script[t]) /\ (inCall'[t] => alive'[t] /\ count'[t] > 0),
         made' \in Seq(Calls), file' \in Seq(FileLine), pending' \subseteq Calls, ring' \in Seq(Flowing),
         UNCHANGED readerVars
  PROVE  CaptureTyped'
<1>1. Calls' = Calls
  BY DEF Calls
<1>2. Flowing' = Flowing /\ FileLine' = FileLine
  BY <1>1 DEF Flowing, FileLine
<1>3. hand' = hand /\ chan' = chan /\ got' = got /\ readerOpen' = readerOpen /\ chanClosed' = chanClosed
  BY DEF readerVars
<1> QED BY <1>1, <1>2, <1>3 DEF CaptureTyped

\* A line of c keeps the file a file.
LEMMA FileTyped ==
  ASSUME CaptureTyped, NEW c \in Calls \cup {NoCall}, NEW kind \in {"open", "resumed", "exit", "dump"}
  PROVE  /\ Append(Broken(file), Line(c, kind)) \in Seq(FileLine)
         /\ Completed(file, c) \in Seq(FileLine)
<1>1. /\ file \in Seq(FileLine) /\ Line(c, kind) \in FileLine /\ Line(c, "resumed") \in FileLine
  BY DEF CaptureTyped, Line, FileLine
<1>2. ASSUME IsOpen(file), NEW k \in {"unfinished", "whole"}
      PROVE  [file EXCEPT ![Len(file)].kind = k] \in Seq(FileLine)
  <2>1. Last(file) \in FileLine
    BY <1>1, <1>2, SplitFile
  <2>2. [Last(file) EXCEPT !.kind = k] \in FileLine
    BY <2>1 DEF FileLine
  <2>3. file # <<>>
    BY <1>2 DEF IsOpen
  <2>4. Len(file) \in 1..Len(file)
    BY <1>1, <2>3, EmptySeq
  <2>5. [file EXCEPT ![Len(file)].kind = k] = [file EXCEPT ![Len(file)] = [Last(file) EXCEPT !.kind = k]]
    BY DEF Last
  <2> QED BY <1>1, <2>2, <2>4, <2>5, ExceptSeq
<1>3. Broken(file) \in Seq(FileLine)
  BY <1>1, <1>2 DEF Broken
<1> QED BY <1>1, <1>2, <1>3, AppendProperties DEF Completed

LEMMA RunningPhases ==
  ASSUME EndInv, Running
  PROVE  /\ backend = "strace" => phase \in {"run", "term"}
         /\ backend = "ebpf" => phase \in {"run", "stopped", "drain"}
         /\ phase \in {"run", "term", "stopped", "drain"}
BY DEF EndInv, Running

LEMMA EnterKeeps ==
  ASSUME LiveInv, NEW t \in Tasks, Enter(t)
  PROVE  LiveInv'
<1> DEFINE c == <<t, count[t] + 1>>
<1>1. /\ CaptureTyped /\ StartInv /\ EndInv /\ FileInv /\ FlowInv /\ Running
      /\ alive[t] /\ ~inCall[t] /\ count[t] < Len(prog.script[t])
      /\ inCall' = [inCall EXCEPT ![t] = TRUE] /\ count' = [count EXCEPT ![t] = count[t] + 1]
      /\ alive' = alive /\ status' = status /\ made' = made /\ phase' = phase /\ ctx' = ctx
      /\ UNCHANGED readerVars /\ prog' = prog /\ backend' = backend /\ host' = host
      /\ backend = "strace" =>
            /\ file' = IF Traced(c) THEN Append(Broken(file), Line(c, "open")) ELSE file
            /\ UNCHANGED <<pending, ring, lost>>
      /\ backend # "strace" => RecordEntry(t, c) /\ file' = file
  BY DEF LiveInv, Enter, fixedVars
<1>2. c \in Calls
  BY <1>1, CurrentIsCall
<1>3. /\ pending' \subseteq Calls /\ ring' = ring /\ lost' = lost
  BY <1>1, <1>2 DEF RecordEntry, CaptureTyped
<1>4. file' \in Seq(FileLine)
  BY <1>1, <1>2, FileTyped DEF CaptureTyped
<1>5. /\ phase \in {"run", "term", "stopped", "drain"} /\ (backend = "strace" => phase \in {"run", "term"})
      /\ (backend = "ebpf" => phase \in {"run", "stopped", "drain"})
  BY <1>1, RunningPhases
<1> HIDE DEF c
<1>6. CaptureTyped'
  <2>1. /\ inCall' \in [Tasks -> BOOLEAN] /\ count' \in [Tasks -> Nat]
        /\ \A u \in Tasks : count'[u] <= Len(prog.script[u]) /\ (inCall'[u] => alive'[u] /\ count'[u] > 0)
    <3>1. \A u \in Tasks : Len(prog.script[u]) \in Nat
      BY <1>1, TraceAssumption DEF CaptureTyped
    <3> QED BY <1>1, <3>1 DEF CaptureTyped
  <2> QED BY <1>1, <1>3, <1>4, <1>5, <2>1, TypedStep DEF CaptureTyped
<1>7. StartInv' /\ EndInv'
  BY <1>1, <1>5 DEF StartInv, EndInv
<1>8. FileInv'
  <2>1. backend = "strace" => FollowsFile'
    BY <1>1, <1>5, EnterFollows DEF FileInv
  <2> QED BY <1>1, <1>5, <2>1 DEF FileInv
<1>9. FlowInv'
  <2>1. Flow' = Flow /\ hand' = hand /\ readerOpen' = readerOpen /\ chanClosed' = chanClosed
    BY <1>1, <1>3, FlowNext DEF readerVars
  <2> QED BY <1>1, <1>3, <1>5, <2>1, FlowSame DEF FlowInv
<1> QED BY <1>6, <1>7, <1>8, <1>9 DEF LiveInv

LEMMA ExitKeeps ==
  ASSUME LiveInv, NEW t \in Tasks, Exit(t)
  PROVE  LiveInv'
<1> DEFINE c == Current(t)
<1>1. /\ CaptureTyped /\ StartInv /\ EndInv /\ FileInv /\ FlowInv /\ Running
      /\ alive[t] /\ inCall[t] /\ inCall' = [inCall EXCEPT ![t] = FALSE] /\ made' = Append(made, c)
      /\ alive' = alive /\ count' = count /\ status' = status /\ phase' = phase /\ ctx' = ctx
      /\ UNCHANGED readerVars /\ prog' = prog /\ backend' = backend /\ host' = host
      /\ backend = "strace" => /\ file' = IF Traced(c) THEN Completed(file, c) ELSE file
                               /\ UNCHANGED <<pending, ring, lost>>
      /\ backend # "strace" => RecordExit(t, c) /\ file' = file
  BY DEF LiveInv, Exit, fixedVars
<1>2. c \in Calls
  BY <1>1, CurrentIsCall
<1>3. /\ phase \in {"run", "term", "stopped", "drain"} /\ (backend = "strace" => phase \in {"run", "term"})
      /\ (backend = "ebpf" => phase \in {"run", "stopped", "drain"})
  BY <1>1, RunningPhases
<1>4. backend = "ebpf" => /\ Recorded(Flow', Wanted', lost') /\ pending' \subseteq pending
                          /\ ring' = ring \/ (readerOpen /\ \E e \in Flowing : ring' = Append(ring, e))
  BY <1>1, <1>3, ExitFlows
<1> HIDE DEF c
<1>5. file' \in Seq(FileLine)
  BY <1>1, <1>2, FileTyped DEF CaptureTyped
<1>6. CaptureTyped'
  <2>1. /\ inCall' \in [Tasks -> BOOLEAN]
        /\ \A u \in Tasks : count'[u] <= Len(prog.script[u]) /\ (inCall'[u] => alive'[u] /\ count'[u] > 0)
    BY <1>1 DEF CaptureTyped
  <2>2. made' \in Seq(Calls)
    BY <1>1, <1>2, AppendProperties DEF CaptureTyped
  <2>3. pending' \subseteq Calls /\ ring' \in Seq(Flowing)
    <3>1. backend \in {"strace", "ebpf"} /\ pending \subseteq Calls /\ ring \in Seq(Flowing)
      BY <1>1 DEF CaptureTyped
    <3>2. CASE backend = "strace"
      BY <1>1, <3>1, <3>2
    <3>3. CASE backend = "ebpf"
      <4>1. ASSUME NEW e \in Flowing, ring' = Append(ring, e) PROVE ring' \in Seq(Flowing)
        BY <3>1, <4>1, AppendProperties
      <4> QED BY <1>4, <3>1, <3>3, <4>1
    <3> QED BY <3>1, <3>2, <3>3
  <2> QED BY <1>1, <1>3, <1>5, <2>1, <2>2, <2>3, TypedStep DEF CaptureTyped
<1>7. StartInv' /\ EndInv'
  BY <1>1, <1>3 DEF StartInv, EndInv
<1>8. FileInv'
  <2>1. backend = "strace" => FollowsFile'
    BY <1>1, <1>3, ExitFollows DEF FileInv
  <2> QED BY <1>1, <1>3, <2>1 DEF FileInv
<1>9. FlowInv'
  <2>1. hand' = hand /\ readerOpen' = readerOpen /\ chanClosed' = chanClosed
    BY <1>1 DEF readerVars
  <2> QED BY <1>1, <1>3, <1>4, <2>1 DEF FlowInv
<1> QED BY <1>6, <1>7, <1>8, <1>9 DEF LiveInv

\* Threads end; how the first one does is how the command did.
LEMMA EndsKeeps ==
  ASSUME LiveInv, phase \in {"run", "term", "stopped", "drain"},
         backend = "strace" => phase \in {"run", "term"},
         NEW ts, NEW how \in {"ok", "fail", "crash", "signaled"}, Ends(ts, how),
         backend = "strace" /\ how = "signaled" => ctx # "live",
         phase' = phase, ctx' = ctx, count' = count, made' = made,
         UNCHANGED kernelVars, UNCHANGED readerVars, UNCHANGED fixedVars
  PROVE  LiveInv'
<1>1. /\ CaptureTyped /\ StartInv /\ EndInv /\ FileInv /\ FlowInv
      /\ alive' = [t \in Tasks |-> alive[t] /\ t \notin ts]
      /\ inCall' = [t \in Tasks |-> inCall[t] /\ t \notin ts]
      /\ status' = (IF prog.root \in ts THEN how ELSE status)
      /\ prog' = prog /\ backend' = backend /\ host' = host
      /\ pending' = pending /\ ring' = ring /\ lost' = lost
      /\ hand' = hand /\ chan' = chan /\ got' = got /\ readerOpen' = readerOpen /\ chanClosed' = chanClosed
  BY DEF LiveInv, Ends, kernelVars, readerVars, fixedVars
<1>2. file' \in Seq(FileLine)
  BY <1>1, FileTyped DEF Ends, CaptureTyped
<1>3. CaptureTyped'
  <2>1. /\ alive' \in [Tasks -> BOOLEAN] /\ inCall' \in [Tasks -> BOOLEAN]
        /\ \A u \in Tasks : count'[u] <= Len(prog.script[u]) /\ (inCall'[u] => alive'[u] /\ count'[u] > 0)
    BY <1>1 DEF CaptureTyped
  <2>2. status' \in {"none", "ok", "fail", "crash", "signaled"}
    BY <1>1 DEF CaptureTyped
  <2> QED BY <1>1, <1>2, <2>1, <2>2, TypedStep DEF CaptureTyped
<1>4. StartInv' /\ EndInv'
  <2>1. prog.root \in Tasks
    BY <1>1, TraceAssumption DEF CaptureTyped
  <2>2. alive'[prog.root] <=> (alive[prog.root] /\ prog.root \notin ts)
    BY <1>1, <2>1
  <2> QED BY <1>1, <2>2 DEF StartInv, EndInv
<1>5. FileInv'
  <2>1. backend = "strace" => FollowsFile'
    BY <1>1, EndsFollows DEF FileInv
  <2> QED BY <1>1, <2>1 DEF FileInv
<1>6. FlowInv'
  <2>1. Flow' = Flow
    BY <1>1, FlowNext
  <2> QED BY <1>1, <2>1, FlowSame DEF FlowInv
<1> QED BY <1>3, <1>4, <1>5, <1>6 DEF LiveInv

LEMMA ThreadsEndKeeps ==
  ASSUME LiveInv, NEW t \in Tasks, Quit(t) \/ Dies(t) \/ KillRoot
  PROVE  LiveInv'
<1>1. EndInv
  BY DEF LiveInv
<1>2. CASE Quit(t)
  <2>1. /\ Running /\ phase' = phase /\ ctx' = ctx /\ count' = count /\ made' = made
        /\ UNCHANGED kernelVars /\ UNCHANGED readerVars /\ UNCHANGED fixedVars
        /\ \E ts, how : how \in {"ok", "fail", "crash"} /\ Ends(ts, how)
    BY <1>2 DEF Quit
  <2>2. PICK ts, how : how \in {"ok", "fail", "crash"} /\ Ends(ts, how)
    BY <2>1
  <2>3. /\ phase \in {"run", "term", "stopped", "drain"} /\ (backend = "strace" => phase \in {"run", "term"})
    BY <1>1, <2>1, RunningPhases
  <2> QED BY <2>1, <2>2, <2>3, EndsKeeps
<1>3. CASE Dies(t)
  <2>1. /\ phase = "term" /\ phase' = phase /\ ctx' = ctx /\ count' = count /\ made' = made
        /\ UNCHANGED kernelVars /\ UNCHANGED readerVars /\ UNCHANGED fixedVars
        /\ Ends(ProcessOf(t), "signaled")
    BY <1>3 DEF Dies
  <2>2. ctx # "live"
    BY <1>1, <2>1 DEF EndInv
  <2> QED BY <2>1, <2>2, EndsKeeps
<1>4. CASE KillRoot
  <2>1. /\ backend = "ebpf" /\ phase = "run" /\ phase' = phase /\ ctx' = ctx /\ count' = count /\ made' = made
        /\ UNCHANGED kernelVars /\ UNCHANGED readerVars /\ UNCHANGED fixedVars
        /\ Ends(ProcessOf(prog.root), "signaled")
    BY <1>4 DEF KillRoot
  <2> QED BY <2>1, EndsKeeps
<1> QED BY <1>2, <1>3, <1>4

LEMMA KillGroupKeeps == LiveInv /\ KillGroup => LiveInv'
<1> SUFFICES ASSUME LiveInv, KillGroup PROVE LiveInv'
  OBVIOUS
<1>1. /\ CaptureTyped /\ StartInv /\ EndInv /\ FileInv /\ FlowInv
      /\ phase = "term" /\ phase' = "wait" /\ status' = "signaled"
      /\ alive' = [t \in Tasks |-> alive[t] /\ Process(t) \in prog.left /\ ~host.exitKills]
      /\ inCall' = [t \in Tasks |-> FALSE]
      /\ file' = file \/ file' = (IF IsOpen(file) THEN Front(file) ELSE file)
      /\ count' = count /\ made' = made /\ ctx' = ctx
      /\ UNCHANGED kernelVars /\ UNCHANGED readerVars /\ UNCHANGED fixedVars
  BY DEF LiveInv, KillGroup
<1>2. /\ prog' = prog /\ backend' = backend /\ host' = host /\ pending' = pending /\ ring' = ring
      /\ backend = "strace" /\ ctx # "live" /\ host.strace = "fine"
  BY <1>1 DEF fixedVars, kernelVars, EndInv
<1>3. file' \in Seq(FileLine) /\ SoFar(ReadLines(file), Wanted)'
  <2>1. FollowsFile
    BY <1>1, <1>2 DEF FileInv
  <2> QED BY <1>1, <1>2, <2>1, StopFollows
<1>4. CaptureTyped'
  <2>1. /\ alive' \in [Tasks -> BOOLEAN] /\ inCall' \in [Tasks -> BOOLEAN]
        /\ \A u \in Tasks : count'[u] <= Len(prog.script[u]) /\ (inCall'[u] => alive'[u] /\ count'[u] > 0)
    <3>1. \A u \in Tasks : alive[u] \in BOOLEAN
      BY <1>1 DEF CaptureTyped
    <3> QED BY <1>1, <3>1 DEF CaptureTyped
  <2> QED BY <1>1, <1>2, <1>3, <2>1, TypedStep DEF CaptureTyped
<1>5. StartInv' /\ FileInv' /\ FlowInv'
  BY <1>1, <1>2, <1>3 DEF StartInv, FileInv, FlowInv
<1>6. EndInv'
  <2>1. host' = host /\ backend' = backend /\ \A t \in Tasks : ~inCall'[t]
    BY <1>1 DEF fixedVars
  <2> QED BY <1>1, <1>2, <2>1 DEF EndInv
<1> QED BY <1>4, <1>5, <1>6 DEF LiveInv

\* What left the group may end later, when nobody traces it.
LEMMA SurvivorKeeps ==
  ASSUME LiveInv, NEW t \in Tasks, SurvivorEnds(t)
  PROVE  LiveInv'
<1>1. /\ CaptureTyped /\ StartInv /\ EndInv /\ FileInv /\ FlowInv
      /\ phase = "wait" /\ phase' = phase /\ status' = status
      /\ alive' = [alive EXCEPT ![t] = FALSE] /\ inCall' = inCall
      /\ file' = file /\ count' = count /\ made' = made /\ ctx' = ctx
      /\ UNCHANGED kernelVars /\ UNCHANGED readerVars
      /\ prog' = prog /\ backend' = backend /\ host' = host
  BY DEF LiveInv, SurvivorEnds, fixedVars
<1>2. /\ pending' = pending /\ ring' = ring /\ backend = "strace" /\ status # "none"
      /\ \A u \in Tasks : ~inCall[u]
  BY <1>1 DEF kernelVars, EndInv
<1>3. CaptureTyped'
  <2>1. /\ alive' \in [Tasks -> BOOLEAN] /\ inCall' \in [Tasks -> BOOLEAN]
        /\ \A u \in Tasks : count'[u] <= Len(prog.script[u]) /\ (inCall'[u] => alive'[u] /\ count'[u] > 0)
    BY <1>1, <1>2 DEF CaptureTyped
  <2> QED BY <1>1, <1>2, <2>1, TypedStep DEF CaptureTyped
<1>4. StartInv' /\ EndInv' /\ FlowInv'
  BY <1>1, <1>2 DEF StartInv, EndInv, FlowInv
<1>5. FileInv'
  <2>1. SoFar(ReadLines(file), Wanted)
    BY <1>1, <1>2 DEF FileInv
  <2>2. Wanted' = Wanted /\ Len(file) \in Nat
    BY <1>1, WantedNext DEF CaptureTyped
  <2>3. ReadLines(file)' = ReadLines(file)
    BY <1>1, <2>2, SameReader
  <2>4. SoFar(ReadLines(file), Wanted)'
    BY <1>1, <2>1, <2>2, <2>3, SameSoFar
  <2> QED BY <1>1, <2>4 DEF FileInv
<1> QED BY <1>3, <1>4, <1>5 DEF LiveInv
---------------------------------------------------------------------------------
(* The end of a capture.                                                         *)

LEMMA HonestExit ==
  ASSUME prog \in Programs, NEW s \in Seq(Event), NEW w \in Seq(Calls), RetsOf(Returned(s)) = w,
         \A i \in DOMAIN Returned(s) : Returned(s)[i].of = Returned(s)[i].ret
  PROVE  Analyze([i \in DOMAIN w |-> [of |-> w[i], ret |-> w[i]]]) \subseteq Analyze(s)
<1> DEFINE t == Returned(s)
           all == [i \in DOMAIN w |-> [of |-> w[i], ret |-> w[i]]]
<1>1. t \in Seq(Event \cap Answer) /\ t \in Seq(Answer) /\ RetsOf(t) = w
  BY SelectType, ReturnedType DEF Returned, Answer
<1>2. ToSet(t) \subseteq ToSet(s)
  <2>1. s \in Seq(ToSet(s))
    BY DEF ToSet
  <2>2. t \in Seq(ToSet(s) \cap Answer)
    BY <2>1, SelectType DEF Returned, Answer
  <2> HIDE DEF t
  <2> QED BY <2>2 DEF ToSet
<1>3. ASSUME NEW i \in DOMAIN w PROVE all[i] \in ToSet(s)
  <2>1. /\ \A j \in 1..Len(t) : w[j] = t[j].ret
        /\ DOMAIN w = 1..Len(t) /\ DOMAIN t = 1..Len(t)
    <3>1. \A e \in Answer : e.ret \in Calls
      BY DEF Answer
    <3> HIDE DEF t
    <3>2. Len(RetsOf(t)) = Len(t) /\ \A j \in 1..Len(t) : RetsOf(t)[j] = t[j].ret
      BY <1>1, <3>1, RetsOfType
    <3> QED BY <1>1, <3>2
  <2>2. t[i] \in Answer /\ t[i].of = t[i].ret /\ t[i].ret = w[i] /\ t[i] \in ToSet(t)
    <3>1. \A j \in DOMAIN t : t[j].of = t[j].ret
      OBVIOUS
    <3> HIDE DEF t
    <3> QED BY <1>1, <2>1, <3>1 DEF ToSet
  <2>3. t[i] = [of |-> w[i], ret |-> w[i]]
    <3> HIDE DEF t
    <3> QED BY <2>2 DEF Answer
  <2> QED BY <1>2, <2>2, <2>3
<1>4. ToSet(all) \subseteq ToSet(s)
  <2>1. DOMAIN all = DOMAIN w
    OBVIOUS
  <2> HIDE DEF all
  <2> QED BY <1>3, <2>1 DEF ToSet
<1> HIDE DEF all
<1>5. Analyze(all) \subseteq Analyze(s)
  BY <1>4 DEF Analyze
<1> QED BY <1>5 DEF all

\* What is told was made: an analysis finds nothing that the whole trace has not.
LEMMA HonestFindings ==
  ASSUME prog \in Programs, NEW s \in Seq(Event), NEW w \in Seq(Calls), IsSubSequence(RetsOf(Returned(s)), w),
         \A i \in DOMAIN Returned(s) : Returned(s)[i].of = Returned(s)[i].ret
  PROVE  Analyze(s) \subseteq Analyze([i \in DOMAIN w |-> [of |-> w[i], ret |-> w[i]]])
<1> DEFINE t == Returned(s)
           all == [i \in DOMAIN w |-> [of |-> w[i], ret |-> w[i]]]
           told == {x \in ToSet(s) : x.of # NoCall /\ x.ret # NoCall}
<1>1. t \in Seq(Answer) /\ DOMAIN t = 1..Len(t) /\ \A e \in Answer : e.ret \in Calls
  <2>1. t \in Seq(Event \cap Answer) /\ t \in Seq(Answer)
    BY SelectType, ReturnedType DEF Returned, Answer
  <2> HIDE DEF t
  <2> QED BY <2>1 DEF Answer
<1>2. ASSUME NEW e \in told PROVE e \in ToSet(all) /\ e.of # NoCall /\ e.ret # NoCall
  <2>1. e \in ToSet(t)
    <3>1. e \in Event /\ e.ret # NoCall
      BY <1>2 DEF ToSet
    <3>2. e \in Answer
      BY <3>1 DEF Event, Answer
    <3> QED BY <1>2, <3>2, SelectHas DEF Returned, Answer
  <2>2. PICK i \in DOMAIN t : e = t[i]
    BY <2>1 DEF ToSet
  <2>3. t[i].of = t[i].ret
    OBVIOUS
  <2>4. t[i].ret \in ToSet(w) /\ t[i] \in Answer
    <3>1. IsSubSequence(RetsOf(t), w)
      OBVIOUS
    <3> HIDE DEF t
    <3>2. t[i] \in Answer /\ RetsOf(t)[i] = t[i].ret /\ i \in DOMAIN RetsOf(t)
      BY <1>1, <2>2 DEF RetsOf
    <3>3. ToSet(RetsOf(t)) \subseteq ToSet(w)
      BY <3>1 DEF IsSubSequence
    <3> QED BY <3>2, <3>3 DEF ToSet
  <2> HIDE DEF t
  <2>5. PICK j \in DOMAIN w : t[i].ret = w[j]
    BY <2>4 DEF ToSet
  <2>6. e = [of |-> w[j], ret |-> w[j]]
    BY <2>2, <2>3, <2>4, <2>5 DEF Answer
  <2>7. j \in DOMAIN all /\ all[j] = e
    BY <2>6
  <2> HIDE DEF all
  <2> QED BY <1>2, <2>7 DEF ToSet
<1> HIDE DEF all
<1>3. told \subseteq {x \in ToSet(all) : x.of # NoCall /\ x.ret # NoCall}
  BY <1>2
<1>4. Analyze(s) \subseteq Analyze(all)
  BY <1>3 DEF Analyze
<1> QED BY <1>4 DEF all

\* What the end of a capture has to show for its result to be honest.
EndFacts ==
    /\ prog \in Programs /\ made \in Seq(Calls) /\ res.events \in Seq(Event)
    /\ IsSubSequence(Results, Wanted)
    /\ \A i \in DOMAIN Told : Told[i].of = Told[i].ret \/ "mixed" \in lost
    /\ ~res.partial /\ ~res.unavailable /\ status # "none" => Results = Wanted \/ lost # {}
    /\ ~res.unavailable /\ ~res.failed /\ ~res.canceled /\ ~res.timedOut /\ res.exitCode \in {0, -1} =>
          host.strace = "broken" \/ (status = "ok" /\ ctx = "live")
    /\ res.unavailable => \/ host.strace \in {"missing", "denied"} \/ host.ebpf = "unsupported"
                          \/ prog.grumbles /\ status \in {"fail", "crash"}

LEMMA EndFactsDone == EndFacts => DoneInv
<1> SUFFICES ASSUME EndFacts PROVE DoneInv
  OBVIOUS
<1>1. EventsAreReal /\ MissingIsSaid
  BY DEF EndFacts, EventsAreReal, MissingIsSaid
<1>2. \A threshold : ExitCode(res, threshold) = 7 <=> res.unavailable
  BY DEF ExitCode
<1>3. ASSUME NEW threshold, ExitCode(res, threshold) = 0, host.strace # "broken", lost = {}
      PROVE  /\ status = "ok" /\ ctx = "live" /\ Results = Wanted
             /\ ~Failing(Analyze(WholeTrace), threshold)
  <2>1. /\ ~res.unavailable /\ ~res.failed /\ ~res.canceled /\ ~res.timedOut /\ res.exitCode \in {0, -1}
        /\ ~res.partial /\ ~Failing(Analyze(res.events), threshold)
    BY <1>3 DEF ExitCode
  <2>2. status = "ok" /\ ctx = "live" /\ Results = Wanted
    BY <1>3, <2>1 DEF EndFacts
  <2>3. \A i \in DOMAIN Told : Told[i].of = Told[i].ret
    BY <1>3 DEF EndFacts
  <2>4. Wanted \in Seq(Calls)
    BY WantedType DEF EndFacts
  <2>5. Analyze(WholeTrace) \subseteq Analyze(res.events)
    BY <2>2, <2>3, <2>4, HonestExit DEF EndFacts, Told, Results, WholeTrace
  <2> QED BY <2>1, <2>2, <2>5 DEF Failing
<1>4. ASSUME NEW threshold, ExitCode(res, threshold) = 1, "mixed" \notin lost
      PROVE  Failing(Analyze(WholeTrace), threshold)
  <2>1. Failing(Analyze(res.events), threshold)
    BY <1>4 DEF ExitCode
  <2>2. \A i \in DOMAIN Told : Told[i].of = Told[i].ret
    BY <1>4 DEF EndFacts
  <2>3. Wanted \in Seq(Calls)
    BY WantedType DEF EndFacts
  <2>4. Analyze(res.events) \subseteq Analyze(WholeTrace)
    BY <2>2, <2>3, HonestFindings DEF EndFacts, Told, Results, WholeTrace
  <2> QED BY <2>1, <2>4 DEF Failing
<1>5. TraceExitIsHonest
  BY <1>2, <1>3, <1>4 DEF EndFacts, TraceExitIsHonest
<1> QED BY <1>1, <1>5 DEF DoneInv

\* The command is the same when it is told of it.
LEMMA TellsOf ==
  ASSUME prog' = prog, backend' = backend, NEW s, res'.events = s
  PROVE  Told' = Returned(s) /\ Results' = RetsOf(Returned(s)) /\ Event' = Event
<1>1. Calls' = Calls
  BY SameCommand
<1>2. Told' = Returned(s)
  BY <1>1 DEF Told, Returned
<1>3. Results' = RetsOf(Told')
  BY DEF Results, RetsOf
<1> QED BY <1>1, <1>2, <1>3 DEF Event

\* A trace that cannot be started has nothing to tell.
LEMMA NeverStarts ==
  ASSUME LiveInv, StartStrace \/ StartEbpf, phase' = "done"
  PROVE  EndFacts'
<1>1. /\ CaptureTyped /\ phase = "start" /\ made = <<>> /\ status = "none" /\ lost = {}
      /\ prog' = prog /\ made' = made /\ status' = status /\ ctx' = ctx
  BY DEF LiveInv, StartInv, StartStrace, StartEbpf, osVars, fixedVars
<1>2. /\ backend' = backend /\ host' = host /\ lost' = lost
      /\ \/ host.strace = "missing" /\ res' = [Unavailable EXCEPT !.exitCode = -1]
         \/ host.strace = "missing" /\ res' = Unavailable
         \/ host.ebpf = "unsupported" /\ res' = Unavailable
         \/ res' = [NoResult EXCEPT !.failed = TRUE]
  <2>1. CASE StartStrace
    BY <1>1, <2>1 DEF StartStrace, Finish, fixedVars
  <2>2. CASE StartEbpf
    BY <1>1, <2>2 DEF StartEbpf, Finish
  <2> QED BY <2>1, <2>2
<1>3. res'.events = <<>> /\ (res'.unavailable \/ res'.failed)
      /\ (res'.unavailable => host.strace = "missing" \/ host.ebpf = "unsupported")
  BY <1>2 DEF Unavailable, NoResult
<1> DEFINE s == <<>>
<1>4. Told' = Returned(s) /\ Results' = RetsOf(Returned(s)) /\ Event' = Event
  BY <1>1, <1>2, <1>3, TellsOf
<1>5. Returned(s) = <<>> /\ RetsOf(<<>>) = <<>>
  BY SelectOfNothing DEF Returned, RetsOf
<1>6. Wanted' = Wanted /\ Wanted = <<>> /\ Calls' = Calls
  BY <1>1, <1>2, WantedNext, SelectOfNothing, SameCommand DEF Wanted, CaptureTyped
<1>7. IsSubSequence(Results, Wanted)'
  BY <1>4, <1>5, <1>6 DEF IsSubSequence, ToSet
<1>8. \A i \in DOMAIN Told' : Told'[i].of = Told'[i].ret
  BY <1>4, <1>5
<1>9. made' \in Seq(Calls') /\ prog' \in Programs /\ res'.events \in Seq(Event')
  BY <1>1, <1>3 DEF CaptureTyped
<1> QED BY <1>1, <1>2, <1>3, <1>7, <1>8, <1>9 DEF EndFacts

\* What strace wrote is told.
LEMMA ParsesHonestly ==
  ASSUME LiveInv, ParseFile
  PROVE  EndFacts'
<1>1. /\ CaptureTyped /\ EndInv /\ FileInv /\ backend = "strace" /\ phase = "stopped"
      /\ prog' = prog /\ backend' = backend /\ host' = host /\ made' = made /\ status' = status
      /\ ctx' = ctx /\ lost' = lost /\ res' = StraceResult
  BY DEF LiveInv, ParseFile, Finish, osVars, fixedVars
<1> DEFINE end == ReadLines(file)
           s == end.events
<1>2. SoFar(end, Wanted) /\ end \in Acc
  BY <1>1 DEF FileInv, SoFar
<1>3. /\ host.strace \in {"fine", "denied", "broken"} /\ (host.strace = "fine" => status # "none")
      /\ (status = "signaled" => ctx # "live")
  BY <1>1 DEF EndInv
<1> HIDE DEF end
<1>4. /\ res'.events = s
      /\ res'.partial = ((end.partial \/ end.pending # {}) \/ ctx # "live")
      /\ res'.timedOut = (ctx = "deadline") /\ res'.canceled = (ctx = "canceled")
      /\ res'.failed = (host.strace = "fine" /\ status \in {"signaled", "crash"})
      /\ res'.unavailable = (ctx = "live" /\ (host.strace # "fine" \/ status # "ok") /\ host.strace # "broken" /\ Denied)
      /\ res'.exitCode = CASE host.strace = "broken" -> -1
                           [] host.strace = "denied" -> 1
                           [] OTHER -> CASE status = "ok" -> 0 [] status = "fail" -> 1 [] OTHER -> -1
  BY <1>1 DEF StraceResult, ReadTraceFile, end
<1>5. Told' = Returned(s) /\ Results' = RetsOf(Returned(s)) /\ Event' = Event
  BY <1>1, <1>4, TellsOf
<1>6. Wanted' = Wanted /\ Wanted \in Seq(Calls) /\ Calls' = Calls
  BY <1>1, WantedNext, WantedType, SameCommand DEF CaptureTyped
<1>7. s \in Seq(Event) /\ RetsOf(Returned(s)) \in Seq(Calls)
  BY <1>2, ReturnedType DEF Acc
<1>8. IsSubSequence(Results', Wanted')
  <2>1. Begins(RetsOf(Returned(s)), Wanted)
    BY <1>2 DEF SoFar
  <2> HIDE DEF s
  <2>2. ASSUME NEW r \in Seq(Calls), NEW w \in Seq(Calls), Begins(r, w) PROVE IsSubSequence(r, w)
    <3>1. CASE Calls = {}
      <4>1. r = <<>>
        BY <2>2, <3>1
      <4>2. ToSet(r) = {} /\ DOMAIN r = {}
        BY <4>1 DEF ToSet
      <4> QED BY <4>2 DEF IsSubSequence
    <3>2. CASE Calls # {}
      <4>1. PICK c : c \in Calls
        BY <3>2
      <4> QED BY <2>2, <4>1, SubSequenceFacts
    <3> QED BY <3>1, <3>2
  <2> QED BY <1>5, <1>6, <1>7, <2>1, <2>2
<1>9. \A i \in DOMAIN Told' : Told'[i].of = Told'[i].ret
  BY <1>2, <1>5 DEF SoFar
<1>10. ~res'.partial => Results' = Wanted'
  <2>1. ~res'.partial => ~end.stopped
    BY <1>2, <1>4 DEF SoFar
  <2>2. ~end.stopped => RetsOf(Returned(s)) = Wanted
    BY <1>2 DEF SoFar
  <2> QED BY <1>5, <1>6, <2>1, <2>2
<1>11. ctx \in {"live", "deadline", "canceled"} /\ status \in {"none", "ok", "fail", "crash", "signaled"}
  BY <1>1 DEF CaptureTyped
<1>12. ~res'.unavailable /\ ~res'.failed /\ ~res'.canceled /\ ~res'.timedOut /\ res'.exitCode \in {0, -1} =>
          host.strace = "broken" \/ (status = "ok" /\ ctx = "live")
  <2> SUFFICES ASSUME ~res'.unavailable, ~res'.failed, ~res'.canceled, ~res'.timedOut, res'.exitCode \in {0, -1},
                      host.strace # "broken"
               PROVE  status = "ok" /\ ctx = "live"
    OBVIOUS
  <2>1. ctx = "live"
    BY <1>4, <1>11
  <2>2. host.strace = "fine"
    <3>1. host.strace = "denied" => res'.exitCode = 1
      BY <1>4
    <3> QED BY <1>3, <3>1
  <2>3. status \in {"ok", "fail"}
    BY <1>3, <1>4, <1>11, <2>2
  <2>4. status = "fail" => res'.exitCode = 1
    BY <1>4, <2>2
  <2> QED BY <2>1, <2>3, <2>4
<1>13. res'.unavailable => host.strace = "denied" \/ (prog.grumbles /\ status \in {"fail", "crash"})
  BY <1>3, <1>4, <1>11 DEF Denied
<1>14. prog' \in Programs /\ made' \in Seq(Calls') /\ res'.events \in Seq(Event')
  BY <1>1, <1>4, <1>5, <1>6, <1>7 DEF CaptureTyped
<1> HIDE DEF s
<1> QED BY <1>1, <1>8, <1>9, <1>10, <1>12, <1>13, <1>14 DEF EndFacts

\* What eBPF recorded is told.
LEMMA CollectsHonestly ==
  ASSUME LiveInv, Collect
  PROVE  EndFacts'
<1>1. /\ CaptureTyped /\ EndInv /\ FlowInv /\ phase = "drain" /\ chanClosed /\ chan = <<>>
      /\ prog' = prog /\ backend' = backend /\ host' = host /\ made' = made /\ status' = status
      /\ ctx' = ctx /\ lost' = lost
      /\ res' = [NoResult EXCEPT
                   !.events = got, !.partial = ctx # "live", !.canceled = ctx # "live",
                   !.failed = status # "ok",
                   !.exitCode = CASE status = "ok" -> 0 [] status = "fail" -> 1 [] OTHER -> -1]
  BY DEF LiveInv, Collect, Finish, osVars, fixedVars
<1>2. backend = "ebpf" /\ hand = <<>> /\ ring = <<>> /\ Recorded(Flow, Wanted, lost)
  BY <1>1 DEF EndInv, FlowInv
<1>3. got \in Seq(Flowing)
  BY <1>1 DEF CaptureTyped
<1>4. Recorded(got, Wanted, lost)
  <2>1. Flow = got
    BY <1>1, <1>2, <1>3, FlowNext
  <2> QED BY <1>2, <2>1
<1>5. /\ res'.events = got /\ res'.unavailable = FALSE
      /\ res'.canceled = (ctx # "live") /\ res'.failed = (status # "ok")
  BY <1>1 DEF NoResult
<1>6. Told' = Returned(got) /\ Results' = RetsOf(Returned(got)) /\ Event' = Event
  BY <1>1, <1>5, TellsOf
<1>7. Returned(got) = got /\ got \in Seq(Event)
  <2>1. got \in Seq(Answer) /\ got \in Seq(Event)
    <3>1. Flowing \subseteq Answer /\ Flowing \subseteq Event
      BY DEF Flowing, Answer, Event
    <3> QED BY <1>3, <3>1
  <2>2. Select(got, Answer) = got
    BY <2>1, SelectOfAll
  <2> QED BY <2>1, <2>2 DEF Returned, Answer
<1>8. Wanted' = Wanted /\ Calls' = Calls
  BY <1>1, WantedNext, SameCommand DEF CaptureTyped
<1>9. DOMAIN got = 1..Len(got)
  BY <1>3
<1>10. IsSubSequence(Results', Wanted') /\ (lost' = {} => Results' = Wanted')
  BY <1>1, <1>4, <1>6, <1>7, <1>8 DEF Recorded
<1>11. \A i \in DOMAIN Told' : Told'[i].of = Told'[i].ret \/ "mixed" \in lost'
  BY <1>1, <1>4, <1>6, <1>7, <1>9 DEF Recorded
<1>12. prog' \in Programs /\ made' \in Seq(Calls') /\ res'.events \in Seq(Event')
  BY <1>1, <1>5, <1>6, <1>7, <1>8 DEF CaptureTyped
<1> QED BY <1>1, <1>5, <1>10, <1>11, <1>12 DEF EndFacts
---------------------------------------------------------------------------------
(* Every step of the trace command.                                              *)

LEMMA CaptureBegins == Init => CaptureInv
<1> SUFFICES ASSUME CaptureInit PROVE CaptureInv
  BY DEF Init
<1>1. /\ prog \in Programs /\ backend \in {"strace", "ebpf"} /\ host \in Hosts
      /\ phase = "start" /\ ctx = "live" /\ status = "none" /\ made = <<>> /\ file = <<>>
      /\ pending = {} /\ ring = <<>> /\ lost = {} /\ hand = <<>> /\ chan = <<>> /\ got = <<>>
      /\ readerOpen = FALSE /\ chanClosed = FALSE
      /\ alive = [t \in Tasks |-> t = prog.root \/ prog.script[t] # <<>>]
      /\ inCall = [t \in Tasks |-> FALSE] /\ count = [t \in Tasks |-> 0]
  BY DEF CaptureInit, Hosts
<1>2. prog.root \in Tasks /\ \A t \in Tasks : Len(prog.script[t]) \in Nat
  BY <1>1, TraceAssumption
<1>3. CaptureTyped
  <2>1. <<>> \in Seq(Calls) /\ <<>> \in Seq(FileLine) /\ <<>> \in Seq(Flowing)
    OBVIOUS
  <2>2. alive \in [Tasks -> BOOLEAN] /\ inCall \in [Tasks -> BOOLEAN] /\ count \in [Tasks -> Nat]
    BY <1>1
  <2>3. \A t \in Tasks : count[t] <= Len(prog.script[t]) /\ ~inCall[t]
    BY <1>1, <1>2
  <2> QED BY <1>1, <2>1, <2>2, <2>3 DEF CaptureTyped
<1>4. StartInv
  BY <1>1 DEF StartInv
<1>5. EndInv
  BY <1>1, <1>2 DEF EndInv
<1>6. FileInv /\ FlowInv
  BY <1>1 DEF FileInv, FlowInv
<1> QED BY <1>1, <1>3, <1>4, <1>5, <1>6 DEF CaptureInv, LiveInv

\* A result that is told stays as it is until the run is saved.
LEMMA DoneStays ==
  ASSUME CaptureInv, phase \in {"done", "told"}, [Next]_vars
  PROVE  CaptureInv'
<1>1. CASE Persist
  BY <1>1 DEF Persist, CaptureInv
<1>2. CASE ~Persist
  <2>1. /\ phase' = phase /\ ctx' = ctx /\ status' = status /\ made' = made /\ lost' = lost /\ res' = res
        /\ prog' = prog /\ backend' = backend /\ host' = host
    <3>1. CASE ReadRing \/ PutEvent \/ ReaderEnds
      BY <3>1 DEF ReadRing, PutEvent, ReaderEnds, osVars, kernelVars, fixedVars
    <3>2. CASE UNCHANGED captureVars
      BY <3>2 DEF captureVars, osVars, kernelVars, fixedVars
    <3>3. CASE Store
      BY <3>3 DEF Store, captureVars, osVars, kernelVars, fixedVars
    <3>4. ~CommandNext /\ ~CtxEnds /\ ~TracerNext /\ ~MainNext
      <4>1. ~Running
        BY DEF Running
      <4>2. ~CommandNext
        BY <4>1 DEF CommandNext, Enter, Exit, Quit, SurvivorEnds
      <4>3. ~TracerNext
        BY DEF TracerNext, Terminate, KillGroup, StraceExits, KillRoot, RootReaped, Dies
      <4> QED BY <4>2, <4>3 DEF CtxEnds, MainNext, StartStrace, StartEbpf, ParseFile, CloseReader, Drain, Collect
    <3> QED BY <1>2, <3>1, <3>2, <3>3, <3>4 DEF Next, Capture, CaptureNext, ReaderNext, vars
  <2>2. /\ Calls' = Calls /\ Targets' = Targets
        /\ \A e : Returned(e)' = Returned(e)
        /\ \A E : Analyze(E)' = Analyze(E)
    BY <2>1, SameCommand
  <2>3. Told' = Told /\ Results' = Results /\ Wanted' = Wanted
    <3>1. Told' = Told
      BY <2>1, <2>2 DEF Told, Returned
    <3>2. Results' = Results
      BY <3>1 DEF Results, RetsOf
    <3> QED BY <2>1, <2>2, <3>1, <3>2 DEF Wanted
  <2>4. \A threshold : ExitCode(res, threshold)' = ExitCode(res, threshold)
    BY <2>1, <2>2 DEF ExitCode, Failing, Severity
  <2>5. \A threshold : Failing(Analyze(WholeTrace), threshold)' <=> Failing(Analyze(WholeTrace), threshold)
    <3>1. WholeTrace' = WholeTrace
      BY <2>3 DEF WholeTrace
    <3> QED BY <2>2, <3>1 DEF Failing, Severity
  <2>6. EventsAreReal /\ MissingIsSaid /\ TraceExitIsHonest => (EventsAreReal /\ MissingIsSaid /\ TraceExitIsHonest)'
    <3>1. EventsAreReal => EventsAreReal'
      BY <2>1, <2>3 DEF EventsAreReal
    <3>2. MissingIsSaid => MissingIsSaid'
      BY <2>1, <2>3 DEF MissingIsSaid
    <3>3. TraceExitIsHonest => TraceExitIsHonest'
      BY <2>1, <2>3, <2>4, <2>5 DEF TraceExitIsHonest
    <3> QED BY <3>1, <3>2, <3>3
  <2> QED BY <2>1, <2>6 DEF CaptureInv, DoneInv
<1> QED BY <1>1, <1>2

LEMMA SameCapture == LiveInv /\ UNCHANGED captureVars => LiveInv'
<1> SUFFICES ASSUME LiveInv, UNCHANGED captureVars PROVE LiveInv'
  OBVIOUS
<1>1. /\ CaptureTyped /\ StartInv /\ EndInv /\ FileInv /\ FlowInv /\ prog' = prog /\ backend' = backend
      /\ host' = host /\ phase' = phase /\ ctx' = ctx /\ file' = file
      /\ UNCHANGED osVars /\ UNCHANGED kernelVars /\ UNCHANGED readerVars
  BY DEF LiveInv, captureVars, fixedVars
<1>2. /\ pending' = pending /\ ring' = ring /\ lost' = lost /\ hand' = hand /\ chan' = chan /\ got' = got
      /\ readerOpen' = readerOpen /\ chanClosed' = chanClosed
      /\ alive' = alive /\ inCall' = inCall /\ count' = count /\ status' = status /\ made' = made
  BY <1>1 DEF kernelVars, readerVars, osVars
<1>3. CaptureTyped'
  <2>1. /\ ring \in Seq(Flowing) /\ hand \in Seq(Flowing) /\ chan \in Seq(Flowing) /\ got \in Seq(Flowing)
        /\ backend \in {"strace", "ebpf"} /\ host \in Hosts /\ ctx \in {"live", "deadline", "canceled"}
        /\ phase \in {"start", "run", "term", "wait", "stopped", "drain", "done", "told"}
        /\ readerOpen \in BOOLEAN /\ chanClosed \in BOOLEAN
    BY <1>1 DEF CaptureTyped
  <2> QED BY <1>1, <1>2, <2>1, TypedNext
<1>4. StartInv' /\ EndInv'
  BY <1>1, <1>2 DEF StartInv, EndInv
<1>5. FileInv'
  BY <1>1, SameFile DEF FileInv
<1>6. FlowInv'
  <2>1. Flow' = Flow
    BY <1>1, <1>2, FlowNext
  <2> QED BY <1>1, <1>2, <2>1, FlowSame DEF FlowInv
<1> QED BY <1>3, <1>4, <1>5, <1>6 DEF LiveInv

LEMMA CaptureStep ==
  ASSUME CaptureInv, [Next]_vars
  PROVE  CaptureInv'
<1>1. CASE phase \in {"done", "told"}
  BY <1>1, DoneStays
<1>2. CASE phase \notin {"done", "told"}
  <2>1. LiveInv
    BY <1>2 DEF CaptureInv
  <2>2. ~Persist /\ ~Store
    BY <1>2 DEF Persist, Store
  <2>3. ASSUME LiveInv', phase' # "done" PROVE CaptureInv'
    BY <2>3 DEF CaptureInv
  <2>4. ASSUME EndFacts', phase' = "done" PROVE CaptureInv'
    <3>1. DoneInv'
      BY <2>4, EndFactsDone, PTL
    <3> QED BY <2>4, <3>1 DEF CaptureInv
  <2>5. CASE UNCHANGED vars
    <3>1. UNCHANGED captureVars /\ phase' = phase
      BY <2>5 DEF vars, captureVars
    <3> QED BY <1>2, <2>1, <2>3, <3>1, SameCapture
  <2>6. ASSUME NEW t \in Tasks, Enter(t) \/ Exit(t) \/ Quit(t) \/ SurvivorEnds(t) \/ Dies(t) PROVE CaptureInv'
    <3>1. LiveInv'
      BY <2>1, <2>6, EnterKeeps, ExitKeeps, SurvivorKeeps, ThreadsEndKeeps
    <3>2. phase' = phase
      BY <2>6 DEF Enter, Exit, Quit, SurvivorEnds, Dies
    <3> QED BY <1>2, <2>3, <3>1, <3>2
  <2>7. CASE CtxEnds \/ Terminate \/ StraceExits \/ RootReaped \/ KillGroup \/ CloseReader
    <3>1. LiveInv'
      BY <2>1, <2>7, CtxEndsKeeps, TerminateKeeps, KillGroupKeeps, CloseReaderKeeps
    <3>2. phase' # "done"
      BY <1>2, <2>7 DEF CtxEnds, Terminate, StraceExits, RootReaped, KillGroup, CloseReader
    <3> QED BY <2>3, <3>1, <3>2
  <2>8. CASE KillRoot
    <3>1. LiveInv'
      <4>1. PICK t \in Tasks : TRUE
        BY <2>1, TraceAssumption DEF LiveInv, CaptureTyped
      <4> QED BY <2>1, <2>8, <4>1, ThreadsEndKeeps
    <3>2. phase' = phase
      BY <2>8 DEF KillRoot
    <3> QED BY <1>2, <2>3, <3>1, <3>2
  <2>9. CASE ReadRing \/ PutEvent \/ ReaderEnds \/ Drain
    <3>1. LiveInv'
      BY <1>2, <2>1, <2>9, ReaderKeeps
    <3>2. phase' = phase
      BY <2>9 DEF ReadRing, PutEvent, ReaderEnds, Drain
    <3> QED BY <1>2, <2>3, <3>1, <3>2
  <2>10. CASE StartStrace \/ StartEbpf
    BY <2>1, <2>3, <2>4, <2>10, StartsToRun, NeverStarts
  <2>11. CASE ParseFile \/ Collect
    <3>1. phase' = "done"
      BY <2>11 DEF ParseFile, Collect, Finish
    <3> QED BY <2>1, <2>4, <2>11, <3>1, ParsesHonestly, CollectsHonestly
  <2>12. CASE CaptureNext
    BY <2>6, <2>7, <2>8, <2>9, <2>10, <2>11, <2>12 DEF CaptureNext, CommandNext, TracerNext, ReaderNext, MainNext
  <2> QED BY <2>2, <2>5, <2>12 DEF Next, Capture
<1> QED BY <1>1, <1>2

\* The inductive invariant of a capture: while the command runs, a reader of strace's
\* file (readTraceFile in trace/runner.go) would have every call that completed and
\* hold those that did not, and eBPF's events are, from the channel's first to the
\* ring's last, calls that were made (RunEBPF in trace/ebpf_runner_linux.go) or something is lost.
THEOREM CaptureInvHolds == Spec => []CaptureInv
<1>1. CaptureInv /\ [Next]_vars => CaptureInv'
  BY CaptureStep
<1> QED BY CaptureBegins, <1>1, PTL DEF Spec

\* Whatever command is traced, with any number of threads and of calls, events are
\* calls that were made, in their order, each with its own result (the pairing of
\* halves in trace/runner.go, emit_pending of the eBPF programs).
THEOREM EventsStayReal == Spec => []EventsAreReal
<1>1. CaptureInv => EventsAreReal
  BY DEF CaptureInv, DoneInv, EventsAreReal
<1> QED BY <1>1, CaptureInvHolds, PTL

\* A trace that is not partial has all calls it set out to record, but for what eBPF
\* loses without a word: for any limit of events and any size of ring and channel.
THEOREM MissingStaysSaid == Spec => []MissingIsSaid
<1>1. CaptureInv => MissingIsSaid
  BY DEF CaptureInv, DoneInv, MissingIsSaid
<1> QED BY <1>1, CaptureInvHolds, PTL

\* The exit codes 0, 1 and 7 of devdiag trace (cli/trace.go) mean what
\* TraceExitIsHonest says for every --fail-severity, whenever the context ends and
\* however the command does.
THEOREM TraceExitStaysHonest == Spec => []TraceExitIsHonest
<1>1. CaptureInv => TraceExitIsHonest
  BY DEF CaptureInv, DoneInv, TraceExitIsHonest
<1> QED BY <1>1, CaptureInvHolds, PTL
=================================================================================
