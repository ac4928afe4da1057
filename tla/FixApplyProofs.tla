---------------------------- MODULE FixApplyProofs ----------------------------
(***************************************************************************)
(* The promises of "devdiag fix" for any number of processes, any hints,   *)
(* classes and command lines, and any number of failed writes and kills.   *)
(*                                                                         *)
(* What Select keeps of a sequence needs induction: NumbersByInduction     *)
(* states it for a set of numbers, and KeptEquation that the recursive     *)
(* function of Select exists.                                              *)
(***************************************************************************)
EXTENDS FixApply, WellFoundedInduction, FiniteSetTheorems, SequenceTheorems, TLAPS

Chosen(l) == FilterByHint(l, Resolve(l))

Busy == {"blocked", "preflight", "gate", "refusal", "run", "final"}

\* The proposals p still has to execute are those the user asked for.
Asked(p) ==
    /\ pc[p] = "exit" => queue[p] = <<>>
    /\ pc[p] \in Busy =>
        /\ queue[p] # <<>> /\ line[p].apply
        /\ line[p].hint # NoHint => \A k \in 1..Len(queue[p]) : queue[p][k] = line[p].hint
        /\ line[p].hint = NoHint => queue[p] = Resolve(line[p]) /\ Len(queue[p]) = 1

\* What the gates let through.
Allowed(p) ==
    /\ pc[p] \in Busy \ {"blocked"} => Class[This(p)] # "blocked"
    /\ pc[p] \in {"run", "final"} =>
        \/ Class[This(p)] = "safe"
        \/ Class[This(p)] = "guarded" /\ confirmed[p] /\ line[p].fresh

\* Past the preflight entry, the log is one entry ahead of the command.
Announced(p) ==
    /\ \A h \in Hints : LinesOf(p, "preflight", h) >= RunsOf(p, h)
    /\ pc[p] \in {"gate", "refusal", "run"} =>
          LinesOf(p, "preflight", This(p)) > RunsOf(p, This(p))

\* 1 while the command has run and its final entry is still to be written.
Due(p) == IF pc[p] = "final" THEN 1 ELSE 0
DueFor(p, h) == IF pc[p] = "final" /\ This(p) = h THEN 1 ELSE 0

\* What was chosen has run or is queued, and what ran succeeded and has its final
\* entry, but for the run at hand.
Tally(p) ==
    /\ Len(ran[p]) + Len(queue[p]) = Len(Chosen(line[p])) + Due(p)
    /\ \A k \in 1..Len(ran[p]) :
          ran[p][k].outcome = "ok" \/ (pc[p] = "final" /\ k = Len(ran[p]))
    /\ \A h \in Hints : LinesOf(p, "executed", h) + DueFor(p, h) = RunsOf(p, h)

\* The tally is right as long as nothing failed.
Counted(p) ==
    /\ pc[p] = "resolve" =>
        /\ ran[p] = <<>> /\ flags[p] = {}
        /\ \A h \in Hints : LinesOf(p, "executed", h) = 0
    /\ pc[p] = "final" => Len(ran[p]) > 0
    /\ pc[p] \in Busy \cup {"exit"} /\ flags[p] = {} /\ line[p].apply => Tally(p)

\* SuccessIsTrue for one process.
Ended(p) ==
    /\ exit[p] # "none" => pc[p] = "ended"
    /\ exit[p] = "Success" /\ line[p].apply /\ line[p].found =>
        /\ Len(ran[p]) = Len(Chosen(line[p]))
        /\ \A k \in DOMAIN ran[p] : ran[p][k].outcome = "ok"
        /\ \A h \in Hints : LinesOf(p, "executed", h) = RunsOf(p, h)

FixerInv(p) == Asked(p) /\ Allowed(p) /\ Announced(p) /\ Counted(p) /\ Ended(p)

IInv == TypeOK /\ \A p \in Fixers : FixerInv(p)
-------------------------------------------------------------------------------
(* What Select keeps.                                                      *)

\* A set of numbers that has 0 and every successor has them all.
LEMMA NumbersByInduction ==
  ASSUME NEW S, 0 \in S, \A n \in Nat : n \in S => n + 1 \in S
  PROVE  \A n \in Nat : n \in S
<1> SUFFICES ASSUME Nat \ S # {} PROVE FALSE
  OBVIOUS
<1> DEFINE Less == {pair \in Nat \X Nat : pair[1] < pair[2]}
<1>1. IsWellFoundedOn(Less, Nat)
  BY NatLessThanWellFounded DEF OpToRel
<1>2. \E m \in Nat \ S : \A n \in Nat \ S : ~ (<<n, m>> \in Less)
  <2> HIDE DEF Less
  <2> QED BY <1>1, WFMin, Nat \ S \subseteq Nat
<1>3. PICK m \in Nat \ S : \A n \in Nat \ S : ~ (<<n, m>> \in Less)
  BY <1>2
<1>4. m - 1 \in Nat /\ m = (m - 1) + 1
  BY <1>3
<1>5. <<m - 1, m>> \in Less
  BY <1>3, <1>4
<1> QED BY <1>3, <1>4, <1>5

\* The recursive function of Select, and one unfolding of a candidate g for it.
Piece(s, S, g, i) ==
    IF i = 0 THEN <<>> ELSE IF s[i] \in S THEN Append(g[i - 1], s[i]) ELSE g[i - 1]

Unfolded(s, S, g, n) == [i \in 0..n |-> Piece(s, S, g, i)]

Kept(s, S) == CHOOSE g : g = Unfolded(s, S, g, Len(s))

LEMMA UnfoldedAt ==
  ASSUME NEW s, NEW S, NEW n \in Nat, NEW g, g = Unfolded(s, S, g, n), NEW i \in 0..n
  PROVE  g[i] = Piece(s, S, g, i)
<1>1. Unfolded(s, S, g, n)[i] = Piece(s, S, g, i)
  BY DEF Unfolded
<1> QED BY <1>1

LEMMA KeptExists ==
  ASSUME NEW s, NEW S
  PROVE  \A n \in Nat : \E g : g = Unfolded(s, S, g, n)
<1> DEFINE N == {n \in Nat : \E g : g = Unfolded(s, S, g, n)}
<1>1. 0 \in N
  <2>1. [i \in 0..0 |-> <<>>] = Unfolded(s, S, [i \in 0..0 |-> <<>>], 0)
    BY DEF Unfolded, Piece
  <2> QED BY <2>1
<1>2. ASSUME NEW n \in Nat, n \in N PROVE n + 1 \in N
  <2>1. PICK g : g = Unfolded(s, S, g, n)
    BY <1>2
  <2> DEFINE h == Unfolded(s, S, g, n + 1)
  <2>2. ASSUME NEW i \in 0..n PROVE h[i] = g[i]
    <3>1. h[i] = Piece(s, S, g, i)
      BY DEF Unfolded
    <3>2. g[i] = Piece(s, S, g, i)
      <4> HIDE DEF N, h
      <4> QED BY <2>1, UnfoldedAt
    <3> QED BY <3>1, <3>2
  <2>3. \A i \in 0..(n + 1) : i # 0 => h[i - 1] = g[i - 1]
    BY <2>2
  <2>4. ASSUME NEW f, \A i \in 0..(n + 1) : i # 0 => f[i - 1] = g[i - 1]
        PROVE  Unfolded(s, S, f, n + 1) = Unfolded(s, S, g, n + 1)
    BY <2>4 DEF Unfolded, Piece
  <2>5. h = Unfolded(s, S, h, n + 1)
    <3> HIDE DEF h
    <3>1. Unfolded(s, S, h, n + 1) = Unfolded(s, S, g, n + 1)
      BY <2>3, <2>4
    <3> QED BY <3>1 DEF h
  <2> QED BY <2>5
<1> HIDE DEF N
<1>3. \A n \in Nat : n \in N
  BY <1>1, <1>2, NumbersByInduction
<1> QED BY <1>3 DEF N

LEMMA KeptEquation ==
  ASSUME NEW s, NEW S, Len(s) \in Nat
  PROVE  /\ Select(s, S) = Kept(s, S)[Len(s)]
         /\ \A i \in 0..Len(s) : Kept(s, S)[i] = Piece(s, S, Kept(s, S), i)
<1>1. Select(s, S) = Kept(s, S)[Len(s)]
  BY DEF Select, Kept, Unfolded, Piece
<1>2. \E g : g = Unfolded(s, S, g, Len(s))
  BY KeptExists
<1>3. Kept(s, S) = Unfolded(s, S, Kept(s, S), Len(s))
  BY <1>2 DEF Kept
<1> QED BY <1>1, <1>3, UnfoldedAt

\* Select keeps members of the sequence and of the set only.
LEMMA SelectType ==
  ASSUME NEW H, NEW s \in Seq(H), NEW S
  PROVE  Select(s, S) \in Seq(H \cap S)
<1> DEFINE k == Kept(s, S)
           N == {n \in Nat : n <= Len(s) => k[n] \in Seq(H \cap S)}
<1>1. Select(s, S) = k[Len(s)] /\ \A i \in 0..Len(s) : k[i] = Piece(s, S, k, i)
  BY KeptEquation
<1> HIDE DEF k
<1>2. 0 \in N
  <2>1. k[0] = <<>>
    BY <1>1, 0 \in 0..Len(s) DEF Piece
  <2>2. <<>> \in Seq(H \cap S)
    OBVIOUS
  <2> QED BY <2>1, <2>2
<1>3. ASSUME NEW n \in Nat, n \in N PROVE n + 1 \in N
  <2> SUFFICES ASSUME n + 1 <= Len(s) PROVE k[n + 1] \in Seq(H \cap S)
    OBVIOUS
  <2>1. n + 1 \in 1..Len(s) /\ (n + 1) - 1 = n
    OBVIOUS
  <2>2. k[n] \in Seq(H \cap S)
    BY <1>3
  <2>3. k[n + 1] = IF s[n + 1] \in S THEN Append(k[n], s[n + 1]) ELSE k[n]
    BY <1>1, <2>1 DEF Piece
  <2> QED BY <2>1, <2>2, <2>3
<1> HIDE DEF N
<1>4. \A n \in Nat : n \in N
  BY <1>2, <1>3, NumbersByInduction
<1> QED BY <1>1, <1>4 DEF N

LEMMA SelectOfNothing == \A S : Select(<<>>, S) = <<>>
<1> TAKE S
<1>1. Len(<<>>) = 0 /\ Len(<<>>) \in Nat
  OBVIOUS
<1>2. Select(<<>>, S) = Kept(<<>>, S)[0] /\ Kept(<<>>, S)[0] = Piece(<<>>, S, Kept(<<>>, S), 0)
  BY <1>1, KeptEquation
<1> QED BY <1>2 DEF Piece

\* What Resolve and --hint leave of a finding's hints.
LEMMA ChosenFacts ==
  ASSUME NEW l \in CommandLines
  PROVE  /\ Resolve(l) \in Seq(Registered) /\ Chosen(l) \in Seq(Registered)
         /\ l.hint = NoHint => Chosen(l) = Resolve(l)
         /\ l.hint # NoHint => \A k \in 1..Len(Chosen(l)) : Chosen(l)[k] = l.hint
         /\ Resolve(l) = <<>> => Chosen(l) = <<>>
<1>1. l.hints \in Seq(Hints)
  BY FixAssumption DEF CommandLineType
<1>2. Select(l.hints, Registered) \in Seq(Registered)
  <2>1. Hints \cap Registered = Registered
    BY FixAssumption
  <2> QED BY <1>1, <2>1, SelectType
<1>3. ASSUME NEW hs \in Seq(Registered), NEW c PROVE OfClass(hs, c) \in Seq(Registered)
  <2>1. OfClass(hs, c) \in Seq(Registered \cap {h \in Hints : Class[h] = c})
    BY SelectType DEF OfClass
  <2> QED BY <2>1, SeqMonotonic, Registered \cap {h \in Hints : Class[h] = c} \subseteq Registered
<1>4. Resolve(l) \in Seq(Registered)
  BY <1>2, <1>3, ConcatProperties DEF Resolve, RankProposals
<1>5. l.hint # NoHint => Chosen(l) = Select(Resolve(l), {l.hint})
  BY DEF Chosen, FilterByHint
<1>6. Select(Resolve(l), {l.hint}) \in Seq(Registered \cap {l.hint})
  BY <1>4, SelectType
<1>7. l.hint # NoHint => /\ Chosen(l) \in Seq(Registered)
                         /\ \A k \in 1..Len(Chosen(l)) : Chosen(l)[k] = l.hint
  <2>1. Select(Resolve(l), {l.hint}) \in Seq(Registered)
    BY <1>6, SeqMonotonic, Registered \cap {l.hint} \subseteq Registered
  <2>2. \A k \in 1..Len(Select(Resolve(l), {l.hint})) :
          Select(Resolve(l), {l.hint})[k] \in Registered \cap {l.hint}
    BY <1>6, ElementOfSeq
  <2> QED BY <1>5, <2>1, <2>2
<1>8. l.hint = NoHint => Chosen(l) = Resolve(l)
  BY DEF Chosen, FilterByHint
<1>9. Resolve(l) = <<>> => Chosen(l) = <<>>
  BY <1>5, <1>8, SelectOfNothing
<1> QED BY <1>4, <1>7, <1>8, <1>9
-------------------------------------------------------------------------------
(* The counts of the properties.                                           *)

\* The places of s that hold a member of S; LinesOf and RunsOf count them.
Places(s, S) == {i \in 1..Len(s) : s[i] \in S}

LEMMA PlacesOfAppend ==
  ASSUME NEW H, NEW s \in Seq(H), NEW e \in H, NEW S
  PROVE  /\ Cardinality(Places(s, S)) \in Nat
         /\ Cardinality(Places(Append(s, e), S)) =
              Cardinality(Places(s, S)) + (IF e \in S THEN 1 ELSE 0)
<1> DEFINE t == Append(s, e)
<1>1. /\ Len(t) = Len(s) + 1 /\ Len(s) \in Nat
      /\ \A i \in 1..Len(s) : t[i] = s[i]
      /\ t[Len(s) + 1] = e
  BY AppendProperties
<1>2. IsFiniteSet(Places(s, S))
  <2>1. IsFiniteSet(1..Len(s)) /\ Places(s, S) \subseteq 1..Len(s)
    BY <1>1, FS_Interval DEF Places
  <2> QED BY <2>1, FS_Subset
<1>3. Places(t, S) = IF e \in S THEN Places(s, S) \cup {Len(s) + 1} ELSE Places(s, S)
  <2> HIDE DEF t
  <2>1. 1..Len(t) = (1..Len(s)) \cup {Len(s) + 1} /\ Len(s) + 1 \notin 1..Len(s)
    BY <1>1
  <2>2. CASE e \in S
    BY <1>1, <2>1, <2>2 DEF Places
  <2>3. CASE e \notin S
    BY <1>1, <2>1, <2>3 DEF Places
  <2> QED BY <2>2, <2>3
<1>4. Len(s) + 1 \notin Places(s, S)
  BY <1>1 DEF Places
<1>5. Cardinality(Places(s, S)) \in Nat
  BY <1>2, FS_CardinalityType
<1>6. Cardinality(Places(s, S) \cup {Len(s) + 1}) = Cardinality(Places(s, S)) + 1
  BY <1>2, <1>4, FS_AddElement
<1> QED BY <1>3, <1>5, <1>6

Entry(p, part, k, h) == [by |-> p, part |-> part, kind |-> k, hint |-> h]
Entries == [by: Fixers, part: {"entry", "newline"}, kind: Kinds, hint: Hints]

LEMMA LinesArePlaces ==
  /\ \A p, k, h : LinesOf(p, k, h) = Cardinality(Places(log, {Entry(p, "newline", k, h)}))
  /\ \A p, k, h : LinesOf(p, k, h)' = Cardinality(Places(log', {Entry(p, "newline", k, h)}))
BY DEF LinesOf, Places, Entry

\* An entry of p's changes the counts of p alone, and those by at most one.
LEMMA LogFacts ==
  ASSUME log \in Seq(Entries), NEW e \in Entries, log' = Append(log, e)
  PROVE  \A p, k, h :
           /\ LinesOf(p, k, h) \in Nat
           /\ LinesOf(p, k, h)' = LinesOf(p, k, h)
                                  + (IF e = Entry(p, "newline", k, h) THEN 1 ELSE 0)
<1> TAKE p, k, h
<1> DEFINE S == {Entry(p, "newline", k, h)}
<1>1. /\ Cardinality(Places(log, S)) \in Nat
      /\ Cardinality(Places(log', S)) = Cardinality(Places(log, S)) + (IF e \in S THEN 1 ELSE 0)
  BY PlacesOfAppend
<1> QED BY <1>1, LinesArePlaces

LEMMA RunFacts ==
  ASSUME TypeOK, NEW p \in Fixers, NEW h, NEW o \in Outcomes, NEW g \in Hints,
         ran' = [ran EXCEPT ![p] = Append(@, [hint |-> g, outcome |-> o])]
  PROVE  /\ RunsOf(p, h) \in Nat
         /\ RunsOf(p, h)' = RunsOf(p, h) + (IF g = h THEN 1 ELSE 0)
<1> DEFINE Runs == [hint: Hints, outcome: Outcomes]
           S == {r \in Runs : r.hint = h}
           e == [hint |-> g, outcome |-> o]
<1>1. ran[p] \in Seq(Runs) /\ e \in Runs /\ ran'[p] = Append(ran[p], e)
  BY DEF TypeOK
<1>2. ASSUME NEW s \in Seq(Runs)
      PROVE  {i \in 1..Len(s) : s[i].hint = h} = Places(s, S)
  <2>1. \A i \in 1..Len(s) : s[i] \in Runs
    BY ElementOfSeq
  <2> QED BY <2>1 DEF Places
<1>3. ran'[p] \in Seq(Runs)
  <2> HIDE DEF Runs, e
  <2> QED BY <1>1, AppendProperties
<1>4. RunsOf(p, h) = Cardinality(Places(ran[p], S))
  BY <1>1, <1>2 DEF RunsOf
<1>5. RunsOf(p, h)' = Cardinality(Places(ran'[p], S))
  BY <1>2, <1>3 DEF RunsOf
<1>6. e \in S <=> g = h
  BY <1>1
<1> HIDE DEF S, e, Runs
<1> QED BY <1>1, <1>4, <1>5, <1>6, PlacesOfAppend

LEMMA CountsAreNumbers ==
  ASSUME TypeOK
  PROVE  /\ \A p \in Fixers : \A h : RunsOf(p, h) \in Nat
         /\ \A p, k, h : LinesOf(p, k, h) \in Nat
<1>1. ASSUME NEW n \in Nat, NEW S \in SUBSET (1..n) PROVE Cardinality(S) \in Nat
  <2>1. IsFiniteSet(1..n)
    BY FS_Interval
  <2>2. IsFiniteSet(S)
    BY <2>1, FS_Subset
  <2> QED BY <2>2, FS_CardinalityType
<1>2. Len(log) \in Nat /\ \A p \in Fixers : Len(ran[p]) \in Nat
  BY DEF TypeOK
<1> QED BY <1>1, <1>2 DEF RunsOf, LinesOf
-------------------------------------------------------------------------------
(* Steps that move p to another proposal.                                  *)

PCs == {"resolve", "blocked", "preflight", "gate", "refusal", "run", "final", "exit", "ended"}

\* p turns to the first of hs, or to its exit code.
Begun(p, hs) ==
    /\ queue' \in [Fixers -> Seq(Registered)] /\ queue'[p] = hs
    /\ pc' \in [Fixers -> PCs]
    /\ hs = <<>> => pc'[p] = "exit"
    /\ hs # <<>> => IF Class[Head(hs)] = "blocked" THEN pc'[p] = "blocked"
                    ELSE pc'[p] = "preflight"
    /\ \A q \in Fixers \ {p} : queue'[q] = queue[q] /\ pc'[q] = pc[q]

LEMMA BeginFacts ==
  ASSUME TypeOK, NEW p \in Fixers, NEW hs \in Seq(Registered), Begin(p, hs)
  PROVE  Begun(p, hs)
<1>1. (IF hs = <<>> THEN "exit" ELSE EntryOf(Head(hs))) \in PCs
  BY DEF EntryOf, PCs
<1> QED BY <1>1 DEF TypeOK, Begin, Begun, EntryOf, PCs

\* p drops its proposal and turns to the next one.
Advanced(p) ==
    /\ Begun(p, queue'[p])
    /\ Len(queue[p]) \in Nat \ {0} /\ Len(queue'[p]) = Len(queue[p]) - 1
    /\ \A k \in 1..Len(queue'[p]) : queue'[p][k] = queue[p][k + 1]

LEMMA AdvanceFacts ==
  ASSUME TypeOK, NEW p \in Fixers, queue[p] # <<>>, Next1(p)
  PROVE  Advanced(p)
<1>1. queue[p] \in Seq(Registered)
  BY DEF TypeOK
<1>2. /\ Tail(queue[p]) \in Seq(Registered)
      /\ Len(Tail(queue[p])) = Len(queue[p]) - 1
      /\ \A k \in 1..Len(Tail(queue[p])) : Tail(queue[p])[k] = queue[p][k + 1]
  BY <1>1, HeadTailProperties
<1>3. Len(queue[p]) \in Nat \ {0}
  BY <1>1, EmptySeq
<1>4. Begun(p, Tail(queue[p]))
  BY <1>2, BeginFacts DEF Next1
<1>5. queue'[p] = Tail(queue[p])
  BY <1>4 DEF Begun
<1> QED BY <1>2, <1>3, <1>4, <1>5 DEF Advanced

\* What Execute's error leaves in runFix: a flag, whichever it is.
Flagged(p) ==
    /\ flags' \in [Fixers -> SUBSET Flags] /\ flags'[p] # {}
    /\ \A q \in Fixers \ {p} : flags'[q] = flags[q]

LEMMA FailFacts ==
  ASSUME TypeOK, NEW p \in Fixers, queue[p] # <<>>, NEW denied, Fail(p, denied)
  PROVE  Advanced(p) /\ Flagged(p)
<1>1. Advanced(p)
  BY AdvanceFacts DEF Fail
<1>2. PICK f \in Flags : flags' = [flags EXCEPT ![p] = @ \cup {f}]
  BY DEF Fail, Flags
<1>3. Flagged(p)
  BY <1>2 DEF TypeOK, Flagged
<1> QED BY <1>1, <1>3

\* The three ways on from AuditLog.Write.
Announces(p) ==
    /\ pc[p] = "preflight" /\ pc' = [pc EXCEPT ![p] = "gate"] /\ UNCHANGED <<queue, flags>>

Settles(p) ==
    /\ pc[p] = "final" /\ LastOutcome(p) = "ok" /\ Advanced(p) /\ UNCHANGED flags

LEMMA AuditFacts ==
  ASSUME TypeOK, NEW p \in Fixers, queue[p] # <<>>, Writing(p), NEW err, AuditReturns(p, err)
  PROVE  \/ err = "nil" /\ Announces(p)
         \/ err = "nil" /\ Settles(p)
         \/ Advanced(p) /\ Flagged(p)
<1>1. CASE pc[p] = "preflight"
  BY <1>1, FailFacts DEF AuditReturns, Announces
<1>2. CASE pc[p] \in {"blocked", "refusal"}
  BY <1>2, FailFacts DEF AuditReturns
<1>3. CASE pc[p] = "final"
  <2>1. \/ err = "nil" /\ LastOutcome(p) = "ok" /\ Succeed(p)
        \/ \E denied : Fail(p, denied)
    BY <1>3 DEF AuditReturns
  <2> QED BY <1>3, <2>1, AdvanceFacts, FailFacts DEF Succeed, Settles
<1> QED BY <1>1, <1>2, <1>3 DEF Writing
-------------------------------------------------------------------------------
(* The steps of the other processes.                                       *)

Same(q) ==
    /\ line'[q] = line[q] /\ pc'[q] = pc[q] /\ queue'[q] = queue[q]
    /\ confirmed'[q] = confirmed[q] /\ ran'[q] = ran[q]
    /\ flags'[q] = flags[q] /\ exit'[q] = exit[q]
    /\ \A k, h : LinesOf(q, k, h)' = LinesOf(q, k, h)

LEMMA LogStays ==
  ASSUME UNCHANGED log
  PROVE  \A p, k, h : LinesOf(p, k, h)' = LinesOf(p, k, h)
BY LinesArePlaces

LEMMA SameKeeps ==
  ASSUME NEW q \in Fixers, FixerInv(q), Same(q)
  PROVE  FixerInv(q)'
<1>1. \A h : RunsOf(q, h)' = RunsOf(q, h)
  BY DEF Same, RunsOf
<1>2. (Asked(q) /\ Allowed(q))'
  BY DEF FixerInv, Same, Asked, Allowed, This
<1>3. Announced(q)'
  BY <1>1 DEF FixerInv, Same, Announced, This
<1>4. (Counted(q) /\ Ended(q))'
  BY <1>1 DEF FixerInv, Same, Counted, Tally, Ended, Due, DueFor, This
<1> QED BY <1>2, <1>3, <1>4 DEF FixerInv
-------------------------------------------------------------------------------
(* Type correctness.                                                       *)

LEMMA InitIInv == Init => IInv
<1> SUFFICES ASSUME Init PROVE IInv
  OBVIOUS
<1>1. /\ <<>> \in Seq(Registered) /\ <<>> \in Seq([hint: Hints, outcome: Outcomes])
      /\ <<>> \in Seq(Entries) /\ Len(<<>>) = 0 /\ {} \in SUBSET Flags
  OBVIOUS
<1>2. TypeOK
  BY <1>1, FixAssumption DEF Init, TypeOK, Entries
<1>3. \A p, k, h : LinesOf(p, k, h) = 0
  <2>1. {i \in 1..Len(log) : FALSE} = {} /\ 1..Len(log) = {}
    BY <1>1 DEF Init
  <2> QED BY <2>1, FS_EmptySet DEF LinesOf
<1>4. \A p \in Fixers : \A h : RunsOf(p, h) = 0
  <2>1. \A p \in Fixers : 1..Len(ran[p]) = {}
    BY <1>1 DEF Init
  <2> QED BY <2>1, FS_EmptySet DEF RunsOf
<1>5. ASSUME NEW p \in Fixers PROVE FixerInv(p)
  BY <1>1, <1>3, <1>4 DEF Init, FixerInv, Asked, Allowed, Announced, Counted, Ended, Busy
<1> QED BY <1>2, <1>5 DEF IInv

\* The proposal at hand.
LEMMA ThisFacts ==
  ASSUME TypeOK, NEW p \in Fixers, FixerInv(p), pc[p] \in Busy
  PROVE  This(p) \in Registered /\ This(p) \in Hints /\ queue[p] # <<>> /\ This(p) = queue[p][1]
<1>1. queue[p] \in Seq(Registered) /\ queue[p] # <<>>
  BY DEF TypeOK, FixerInv, Asked
<1> QED BY <1>1, EmptySeq, HeadTailProperties, FixAssumption DEF This

LEMMA EntryFacts ==
  ASSUME TypeOK, NEW p \in Fixers, FixerInv(p), Writing(p), NEW part \in {"entry", "newline"}
  PROVE  /\ Entry(p, part, EntryKind(p), This(p)) \in Entries
         /\ Appended(p, part) = Append(log, Entry(p, part, EntryKind(p), This(p)))
         /\ Appended(p, part) \in Seq(Entries)
<1>1. EntryKind(p) \in Kinds
  BY DEF Writing, EntryKind, Kinds
<1>2. Entry(p, part, EntryKind(p), This(p)) \in Entries
  BY <1>1, ThisFacts DEF Writing, Busy, Entry, Entries
<1>3. Appended(p, part) = Append(log, Entry(p, part, EntryKind(p), This(p)))
  BY DEF Appended, Entry
<1>4. log \in Seq(Entries)
  BY DEF TypeOK, Entries
<1> QED BY <1>2, <1>3, <1>4, AppendProperties

LEMMA TypeStep ==
  ASSUME IInv, [Next]_vars
  PROVE  TypeOK'
<1> USE DEF IInv
<1>1. ASSUME NEW p \in Fixers, NoReport(p) PROVE TypeOK'
  BY <1>1 DEF NoReport, Exit, TypeOK, Codes
<1>2. ASSUME NEW p \in Fixers, Plan(p) PROVE TypeOK'
  <2>1. line[p] \in CommandLines
    BY DEF TypeOK
  <2>2. CASE \E code \in Codes : Exit(p, code) /\ UNCHANGED queue
    <3>1. PICK code \in Codes : Exit(p, code) /\ UNCHANGED queue
      BY <2>2
    <3>2. exit' \in [Fixers -> Codes \cup {"none", "killed"}]
      BY <3>1 DEF Exit, TypeOK
    <3> QED BY <1>2, <3>1, <3>2 DEF Plan, Exit, TypeOK
  <2>3. ASSUME NEW hs \in Seq(Registered), Begin(p, hs), UNCHANGED exit PROVE TypeOK'
    <3>1. Begun(p, hs)
      BY <2>3, BeginFacts
    <3> QED BY <1>2, <2>3, <3>1 DEF Plan, Begun, PCs, TypeOK
  <2>4. <<>> \in Seq(Registered) /\ Chosen(line[p]) \in Seq(Registered)
    BY <2>1, ChosenFacts
  <2> QED BY <1>2, <2>2, <2>3, <2>4 DEF Plan, Codes, Chosen
<1>3. ASSUME NEW p \in Fixers, WriteEntry(p) PROVE TypeOK'
  <2>1. log' \in Seq(Entries)
    BY <1>3, EntryFacts DEF WriteEntry
  <2> QED BY <1>3, <2>1 DEF WriteEntry, TypeOK, Entries
<1>4. ASSUME NEW p \in Fixers, WriteNewline(p) PROVE TypeOK'
  <2>1. log' \in Seq(Entries)
    BY <1>4, EntryFacts DEF WriteNewline
  <2>2. Announces(p) \/ Settles(p) \/ (Advanced(p) /\ Flagged(p))
    BY <1>4, ThisFacts, AuditFacts DEF WriteNewline, Writing, Busy
  <2>3. /\ queue' \in [Fixers -> Seq(Registered)] /\ pc' \in [Fixers -> PCs]
        /\ flags' \in [Fixers -> SUBSET Flags]
    BY <2>2 DEF Announces, Settles, Advanced, Begun, Flagged, TypeOK, PCs
  <2> QED BY <1>4, <2>1, <2>3 DEF WriteNewline, TypeOK, Entries, PCs
<1>5. ASSUME NEW p \in Fixers, WriteFails(p) PROVE TypeOK'
  <2>1. log' \in Seq(Entries)
    BY <1>5, EntryFacts DEF WriteFails, TypeOK, Entries
  <2>2. \E err \in {"other", "perm"} : AuditReturns(p, err)
    BY <1>5 DEF WriteFails
  <2>3. Advanced(p) /\ Flagged(p)
    BY <1>5, <2>2, ThisFacts, AuditFacts DEF WriteFails, Writing, Busy
  <2>4. faults' \in 0..MaxFaults
    BY <1>5, FixAssumption DEF WriteFails, TypeOK
  <2> QED BY <1>5, <2>1, <2>3, <2>4 DEF WriteFails, Advanced, Begun, Flagged, TypeOK, Entries, PCs
<1>6. ASSUME NEW p \in Fixers, Gate(p) PROVE TypeOK'
  <2>1. confirmed' \in [Fixers -> BOOLEAN] /\ pc' \in [Fixers -> PCs]
    BY <1>6 DEF Gate, TypeOK, PCs
  <2> QED BY <1>6, <2>1 DEF Gate, TypeOK, PCs
<1>7. ASSUME NEW p \in Fixers, RunBlocked(p) PROVE TypeOK'
  <2>1. Advanced(p) /\ Flagged(p)
    BY <1>7, ThisFacts, FailFacts DEF RunBlocked, Busy
  <2> QED BY <1>7, <2>1 DEF RunBlocked, Advanced, Begun, Flagged, TypeOK, PCs
<1>8. ASSUME NEW p \in Fixers, RunCommand(p) PROVE TypeOK'
  <2>1. PICK o \in Outcomes :
          ran' = [ran EXCEPT ![p] = Append(@, [hint |-> This(p), outcome |-> o])]
    BY <1>8 DEF RunCommand
  <2>2. This(p) \in Hints
    BY <1>8, ThisFacts DEF RunCommand, Busy
  <2>3. ran' \in [Fixers -> Seq([hint: Hints, outcome: Outcomes])]
    <3>1. [hint |-> This(p), outcome |-> o] \in [hint: Hints, outcome: Outcomes]
      BY <2>2
    <3>2. Append(ran[p], [hint |-> This(p), outcome |-> o])
            \in Seq([hint: Hints, outcome: Outcomes])
      BY <3>1, AppendProperties DEF TypeOK
    <3> QED BY <2>1, <3>2 DEF TypeOK
  <2> QED BY <1>8, <2>3 DEF RunCommand, TypeOK
<1>9. ASSUME NEW p \in Fixers, ReportExit(p) PROVE TypeOK'
  BY <1>9 DEF ReportExit, Exit, ExitCodeFromFixResults, TypeOK, Codes
<1>10. ASSUME NEW p \in Fixers, Kill(p) PROVE TypeOK'
  <2>1. crashes' \in 0..MaxCrashes
    BY <1>10, FixAssumption DEF Kill, TypeOK
  <2> QED BY <1>10, <2>1 DEF Kill, Exit, TypeOK
<1>11. CASE UNCHANGED vars
  BY <1>11 DEF vars, procVars, TypeOK
<1> QED BY <1>1, <1>2, <1>3, <1>4, <1>5, <1>6, <1>7, <1>8, <1>9, <1>10, <1>11 DEF Next, Step
-------------------------------------------------------------------------------
(* The invariant of each process.                                          *)

LEMMA OthersStay ==
  ASSUME TypeOK, NEW p \in Fixers, FixerInv(p), Step(p) \/ Kill(p),
         NEW q \in Fixers \ {p}
  PROVE  Same(q)
<1> USE DEF TypeOK
<1>1. \A k, h : LinesOf(q, k, h)' = LinesOf(q, k, h)
  <2>1. UNCHANGED log \/ \E part \in {"entry", "newline"} : Writing(p) /\ log' = Appended(p, part)
    BY DEF Step, NoReport, Plan, WriteEntry, WriteNewline, WriteFails, Gate, RunBlocked,
           RunCommand, ReportExit, Kill
  <2>2. CASE UNCHANGED log
    BY <2>2, LogStays
  <2>3. ASSUME NEW part \in {"entry", "newline"}, Writing(p), log' = Appended(p, part)
        PROVE  \A k, h : LinesOf(q, k, h)' = LinesOf(q, k, h)
    <3> DEFINE e == Entry(p, part, EntryKind(p), This(p))
    <3>1. e \in Entries /\ log' = Append(log, e) /\ log \in Seq(Entries)
      BY <2>3, EntryFacts DEF Entries
    <3>2. \A k, h : e # Entry(q, "newline", k, h)
      BY DEF Entry
    <3> HIDE DEF e
    <3> QED BY <3>1, <3>2, LogFacts
  <2> QED BY <2>1, <2>2, <2>3
<1>2. CASE NoReport(p) \/ WriteEntry(p) \/ Gate(p) \/ RunCommand(p) \/ ReportExit(p) \/ Kill(p)
  BY <1>1, <1>2 DEF NoReport, WriteEntry, Gate, RunCommand, ReportExit, Kill, Exit, Same
<1>3. CASE Plan(p)
  BY <1>1, <1>3 DEF Plan, Exit, Begin, Same
<1>4. CASE WriteNewline(p) \/ WriteFails(p) \/ RunBlocked(p)
  <2>1. Announces(p) \/ Settles(p) \/ (Advanced(p) /\ Flagged(p))
    BY <1>4, ThisFacts, AuditFacts, FailFacts
       DEF WriteNewline, WriteFails, RunBlocked, Writing, Busy
  <2>2. pc'[q] = pc[q] /\ queue'[q] = queue[q] /\ flags'[q] = flags[q]
    BY <2>1 DEF Announces, Settles, Advanced, Begun, Flagged
  <2>3. UNCHANGED <<line, confirmed, ran, exit>>
    BY <1>4 DEF WriteNewline, WriteFails, RunBlocked
  <2> QED BY <1>1, <2>2, <2>3 DEF Same
<1> QED BY <1>2, <1>3, <1>4 DEF Step

\* A step after which p has another proposal or none.
LEMMA AdvanceKeeps ==
  ASSUME IInv, NEW p \in Fixers, pc[p] \in Busy, Advanced(p),
         UNCHANGED <<line, confirmed, ran, exit>>,
         \A h \in Hints : /\ LinesOf(p, "preflight", h) \in Nat
                          /\ LinesOf(p, "preflight", h)' \in Nat
                          /\ LinesOf(p, "preflight", h)' >= LinesOf(p, "preflight", h)
  PROVE  (Asked(p) /\ Allowed(p) /\ Announced(p) /\ Ended(p))'
<1> USE DEF IInv, FixerInv
<1>1. /\ queue'[p] \in Seq(Registered) /\ Len(queue'[p]) \in Nat
      /\ pc'[p] \in {"exit", "blocked", "preflight"}
      /\ pc'[p] = "exit" <=> queue'[p] = <<>>
  BY EmptySeq DEF Advanced, Begun
<1>2. Asked(p)'
  <2>1. queue'[p] # <<>> => Len(queue'[p]) > 0
    BY <1>1, EmptySeq
  <2>2. line[p].hint # NoHint => \A k \in 1..Len(queue'[p]) : queue'[p][k] = line[p].hint
    <3>1. \A k \in 1..Len(queue'[p]) : k + 1 \in 1..Len(queue[p])
      BY <1>1 DEF Advanced
    <3> QED BY <3>1 DEF Asked, Advanced
  <2> QED BY <1>1, <2>1, <2>2 DEF Asked, Advanced, Busy
<1>3. Allowed(p)'
  BY <1>1 DEF Allowed, Advanced, Begun, Busy, This
<1>4. Announced(p)'
  <2>1. ASSUME NEW h \in Hints PROVE LinesOf(p, "preflight", h)' >= RunsOf(p, h)'
    <3>1. RunsOf(p, h)' = RunsOf(p, h) /\ RunsOf(p, h) \in Nat
      BY CountsAreNumbers DEF RunsOf
    <3> QED BY <3>1 DEF Announced
  <2> QED BY <1>1, <2>1 DEF Announced
<1>5. Ended(p)'
  BY DEF Ended, Busy
<1> QED BY <1>2, <1>3, <1>4, <1>5

\* A step after which p has its exit code.
LEMMA EndKeeps ==
  ASSUME IInv, NEW p \in Fixers, pc'[p] = "ended", UNCHANGED <<line, ran, log>>,
         exit'[p] = "Success" /\ line[p].apply /\ line[p].found =>
            /\ Len(ran[p]) = Len(Chosen(line[p]))
            /\ \A k \in DOMAIN ran[p] : ran[p][k].outcome = "ok"
            /\ \A h \in Hints : LinesOf(p, "executed", h) = RunsOf(p, h)
  PROVE  FixerInv(p)'
<1>1. /\ \A k, h : LinesOf(p, k, h)' = LinesOf(p, k, h)
      /\ \A h : RunsOf(p, h)' = RunsOf(p, h)
  BY LogStays DEF RunsOf
<1>2. (Asked(p) /\ Allowed(p) /\ Counted(p) /\ Ended(p))'
  BY <1>1 DEF Asked, Allowed, Counted, Ended, Busy, Chosen
<1>3. Announced(p)'
  BY <1>1 DEF IInv, FixerInv, Announced
<1> QED BY <1>2, <1>3 DEF FixerInv

LEMMA PlanKeeps ==
  ASSUME IInv, NEW p \in Fixers, Plan(p)
  PROVE  FixerInv(p)'
<1> DEFINE l == line[p]
           hs == IF l.apply THEN Chosen(l) ELSE <<>>
<1>1. /\ l \in CommandLines /\ pc[p] = "resolve" /\ exit[p] = "none"
      /\ ran[p] = <<>> /\ flags[p] = {} /\ \A h \in Hints : LinesOf(p, "executed", h) = 0
  BY DEF Plan, IInv, TypeOK, FixerInv, Counted, Ended
<1>2. /\ Resolve(l) \in Seq(Registered) /\ Chosen(l) \in Seq(Registered)
      /\ l.hint = NoHint => Chosen(l) = Resolve(l)
      /\ l.hint # NoHint => \A k \in 1..Len(Chosen(l)) : Chosen(l)[k] = l.hint
      /\ Resolve(l) = <<>> => Chosen(l) = <<>>
  BY <1>1, ChosenFacts
<1>3. \A h : RunsOf(p, h) = 0
  <2>1. 1..Len(ran[p]) = {}
    BY <1>1
  <2> QED BY <2>1, FS_EmptySet DEF RunsOf
<1>4. CASE /\ Exit(p, exit'[p])
           /\ exit'[p] = "Success" => ~l.found \/ Resolve(l) = <<>>
  <2>1. pc'[p] = "ended"
    BY <1>4 DEF Exit, IInv, TypeOK
  <2>2. Resolve(l) = <<>> => Len(ran[p]) = Len(Chosen(l)) /\ DOMAIN ran[p] = {}
    BY <1>1, <1>2
  <2>3. UNCHANGED <<line, ran, log>>
    BY DEF Plan
  <2> HIDE DEF l
  <2> QED BY <1>1, <1>3, <1>4, <2>1, <2>2, <2>3, EndKeeps DEF l
<1>5. CASE /\ Begin(p, hs) /\ UNCHANGED exit
           /\ l.apply => Chosen(l) # <<>> /\ (l.hint = NoHint => Len(Chosen(l)) <= 1)
  <2>1. hs \in Seq(Registered) /\ Len(hs) \in Nat /\ (hs # <<>> => Len(hs) > 0)
    BY <1>2, EmptySeq
  <2>2. Begun(p, hs)
    BY <1>5, <2>1, BeginFacts DEF IInv
  <2>3. /\ UNCHANGED <<line, confirmed, ran, flags, log>>
        /\ pc'[p] \in {"exit", "blocked", "preflight"} /\ queue'[p] = hs
        /\ pc'[p] = "exit" <=> hs = <<>>
        /\ pc'[p] = "preflight" => Class[Head(queue'[p])] # "blocked"
    BY <2>2 DEF Plan, Begun
  <2>4. /\ \A k, h : LinesOf(p, k, h)' = LinesOf(p, k, h)
        /\ \A h : RunsOf(p, h)' = 0
    BY <1>3, <2>3, LogStays DEF RunsOf
  <2>5. Asked(p)'
    <3>1. CASE l.apply
      <4>1. queue'[p] = Chosen(l) /\ Chosen(l) # <<>> /\ line'[p] = l /\ pc'[p] # "exit"
        BY <1>5, <2>3, <3>1
      <4>2. l.hint = NoHint => Chosen(l) = Resolve(l) /\ Len(Chosen(l)) = 1
        <5>1. hs = Chosen(l)
          BY <3>1
        <5>2. Len(Chosen(l)) \in Nat /\ Len(Chosen(l)) > 0 /\ Chosen(l) # <<>>
          BY <1>5, <2>1, <3>1, <5>1
        <5>3. l.hint = NoHint => Len(Chosen(l)) <= 1
          BY <1>5, <3>1
        <5>4. l.hint = NoHint => Len(Chosen(l)) = 1
          <6> HIDE DEF l, hs
          <6> QED BY <5>2, <5>3
        <5> QED BY <1>2, <5>4
      <4> HIDE DEF l, hs
      <4> QED BY <1>2, <3>1, <4>1, <4>2 DEF Asked
    <3>2. CASE ~l.apply
      BY <2>3, <3>2 DEF Asked, Busy
    <3> QED BY <3>1, <3>2
  <2>6. Allowed(p)'
    BY <2>3 DEF Allowed, Busy, This
  <2>7. Announced(p)'
    BY <1>3, <2>3, <2>4 DEF IInv, FixerInv, Announced
  <2>8. Counted(p)'
    <3>1. Due(p)' = 0 /\ \A h : DueFor(p, h)' = 0
      BY <2>3 DEF Due, DueFor
    <3>2. Len(ran'[p]) = 0 /\ ran'[p] = <<>> /\ flags'[p] = {}
      BY <1>1, <2>3
    <3>3. line'[p].apply => Len(queue'[p]) = Len(Chosen(line'[p])) /\ Len(queue'[p]) \in Nat
      BY <2>1, <2>3
    <3>4. pc'[p] # "resolve" /\ pc'[p] # "final"
      BY <2>3
    <3> HIDE DEF hs, l
    <3> QED BY <1>1, <2>4, <3>1, <3>2, <3>3, <3>4 DEF Counted, Tally, Chosen
  <2>9. Ended(p)'
    BY <1>1, <1>5 DEF Ended
  <2> QED BY <2>5, <2>6, <2>7, <2>8, <2>9 DEF FixerInv
<1>6. \/ /\ Exit(p, exit'[p])
         /\ exit'[p] = "Success" => ~l.found \/ Resolve(l) = <<>>
      \/ /\ Begin(p, hs) /\ UNCHANGED exit
         /\ l.apply => Chosen(l) # <<>> /\ (l.hint = NoHint => Len(Chosen(l)) <= 1)
  <2>1. ASSUME NEW code \in Codes, Exit(p, code) PROVE exit'[p] = code
    BY <2>1 DEF Exit, IInv, TypeOK
  <2>2. Len(Chosen(l)) \in Nat
    BY <1>2
  <2> QED BY <2>1, <2>2 DEF Plan, Chosen, Codes
<1> QED BY <1>4, <1>5, <1>6

\* The entry without its newline counts for nothing yet.
LEMMA WriteEntryKeeps ==
  ASSUME IInv, NEW p \in Fixers, WriteEntry(p)
  PROVE  FixerInv(p)'
<1> DEFINE e == Entry(p, "entry", EntryKind(p), This(p))
<1>1. e \in Entries /\ log' = Append(log, e) /\ log \in Seq(Entries)
  BY EntryFacts DEF WriteEntry, IInv, TypeOK, Entries
<1>2. \A k, h : e # Entry(p, "newline", k, h)
  BY DEF Entry
<1> HIDE DEF e
<1>3. \A k, h : LinesOf(p, k, h)' = LinesOf(p, k, h)
  BY <1>1, <1>2, LogFacts
<1>4. Same(p)
  BY <1>3 DEF WriteEntry, Same
<1> QED BY <1>4, SameKeeps DEF IInv

\* What the log gains with a newline, or fails to gain.
LEMMA NewlineFacts ==
  ASSUME IInv, NEW p \in Fixers, Writing(p), log' = Appended(p, "newline")
  PROVE  \A k, h : LinesOf(p, k, h)' =
           LinesOf(p, k, h) + (IF k = EntryKind(p) /\ h = This(p) THEN 1 ELSE 0)
<1> DEFINE e == Entry(p, "newline", EntryKind(p), This(p))
<1>1. e \in Entries /\ log' = Append(log, e) /\ log \in Seq(Entries)
  BY EntryFacts DEF IInv, TypeOK, Entries
<1>2. \A k, h : e = Entry(p, "newline", k, h) <=> k = EntryKind(p) /\ h = This(p)
  BY DEF Entry
<1> HIDE DEF e
<1> QED BY <1>1, <1>2, LogFacts

LEMMA AuditKeeps ==
  ASSUME IInv, NEW p \in Fixers, WriteNewline(p) \/ WriteFails(p)
  PROVE  FixerInv(p)'
<1> USE DEF IInv
<1>1. Writing(p) /\ pc[p] \in Busy /\ UNCHANGED <<line, confirmed, ran, exit>>
  BY DEF WriteNewline, WriteFails, Writing, Busy
<1>2. queue[p] # <<>> /\ This(p) \in Hints
  BY <1>1, ThisFacts
<1>3. UNCHANGED log \/ log' = Appended(p, "newline")
  BY DEF WriteNewline, WriteFails
<1>4. \A k, h : /\ LinesOf(p, k, h) \in Nat /\ LinesOf(p, k, h)' \in Nat
                /\ LinesOf(p, k, h)' >= LinesOf(p, k, h)
  <2>1. \A k, h : LinesOf(p, k, h) \in Nat
    BY CountsAreNumbers
  <2>2. CASE UNCHANGED log
    BY <2>1, <2>2, LogStays
  <2>3. CASE log' = Appended(p, "newline")
    BY <1>1, <2>1, <2>3, NewlineFacts
  <2> QED BY <1>3, <2>2, <2>3
<1>5. \A h : RunsOf(p, h)' = RunsOf(p, h) /\ RunsOf(p, h) \in Nat
  BY <1>1, CountsAreNumbers DEF RunsOf
<1>6. \/ WriteNewline(p) /\ Announces(p)
      \/ WriteNewline(p) /\ Settles(p)
      \/ Advanced(p) /\ Flagged(p)
  BY <1>1, <1>2, AuditFacts DEF WriteNewline, WriteFails
<1>7. CASE WriteNewline(p) /\ Announces(p)
  <2>1. /\ pc[p] = "preflight" /\ pc'[p] = "gate" /\ UNCHANGED <<queue, flags>>
        /\ \A k, h : LinesOf(p, k, h)' =
             LinesOf(p, k, h) + (IF k = "preflight" /\ h = This(p) THEN 1 ELSE 0)
    BY <1>1, <1>7, NewlineFacts DEF Announces, WriteNewline, EntryKind, TypeOK
  <2>2. This(p)' = This(p)
    BY <2>1 DEF This
  <2>3. (Asked(p) /\ Allowed(p))'
    BY <1>1, <2>1, <2>2 DEF FixerInv, Asked, Allowed, Busy
  <2>4. Announced(p)'
    <3>1. ASSUME NEW h \in Hints
          PROVE  /\ LinesOf(p, "preflight", h)' >= RunsOf(p, h)'
                 /\ h = This(p) => LinesOf(p, "preflight", h)' > RunsOf(p, h)'
      <4>1. LinesOf(p, "preflight", h) >= RunsOf(p, h)
        BY DEF FixerInv, Announced
      <4> QED BY <1>4, <1>5, <2>1, <4>1
    <3> QED BY <1>2, <2>2, <3>1 DEF Announced
  <2>5. \A h : LinesOf(p, "executed", h)' = LinesOf(p, "executed", h)
    BY <1>4, <2>1
  <2>6. Counted(p)'
    <3>1. /\ Due(p)' = Due(p) /\ \A h : DueFor(p, h)' = DueFor(p, h)
      BY <2>1 DEF Due, DueFor
    <3>2. ASSUME Tally(p) PROVE Tally(p)'
      BY <1>1, <1>5, <2>1, <2>5, <3>1, <3>2 DEF Tally, Chosen
    <3> QED BY <1>1, <2>1, <3>2 DEF FixerInv, Counted, Busy
  <2>7. Ended(p)'
    BY <1>1, <2>1 DEF FixerInv, Ended
  <2> QED BY <2>3, <2>4, <2>6, <2>7 DEF FixerInv
<1>8. ASSUME Advanced(p) PROVE (Asked(p) /\ Allowed(p) /\ Announced(p) /\ Ended(p))'
  BY <1>1, <1>4, <1>8, AdvanceKeeps
<1>9. CASE Advanced(p) /\ Flagged(p)
  <2>1. Counted(p)'
    BY <1>9 DEF Advanced, Begun, Flagged, Counted
  <2> QED BY <1>8, <1>9, <2>1 DEF FixerInv
<1>10. CASE WriteNewline(p) /\ Settles(p)
  <2>1. /\ pc[p] = "final" /\ LastOutcome(p) = "ok" /\ Advanced(p) /\ UNCHANGED flags
        /\ \A k, h : LinesOf(p, k, h)' =
             LinesOf(p, k, h) + (IF k = "executed" /\ h = This(p) THEN 1 ELSE 0)
    BY <1>1, <1>10, NewlineFacts DEF Settles, WriteNewline, EntryKind
  <2>2. pc'[p] \in {"exit", "blocked", "preflight"} /\ Len(queue'[p]) = Len(queue[p]) - 1
    BY <2>1 DEF Advanced, Begun
  <2>3. Counted(p)'
    <3>1. /\ Due(p) = 1 /\ Due(p)' = 0
          /\ \A h : DueFor(p, h) = (IF h = This(p) THEN 1 ELSE 0) /\ DueFor(p, h)' = 0
      BY <2>1, <2>2 DEF Due, DueFor
    <3>2. Len(ran[p]) \in Nat /\ Len(queue[p]) \in Nat
      BY DEF TypeOK
    <3>3. Len(Chosen(line[p])) \in Nat /\ line'[p] = line[p] /\ ran'[p] = ran[p]
      BY <1>1, ChosenFacts DEF TypeOK
    <3>4. ASSUME Tally(p) PROVE Tally(p)'
      <4>1. Len(ran'[p]) + Len(queue'[p]) = Len(Chosen(line'[p])) + Due(p)'
        <5>1. Len(ran[p]) + Len(queue[p]) = Len(Chosen(line[p])) + 1
          BY <3>1, <3>4 DEF Tally
        <5>2. Len(ran[p]) + (Len(queue[p]) - 1) = Len(Chosen(line[p])) + 0
          <6>1. ASSUME NEW a \in Nat, NEW b \in Nat, NEW c \in Nat, a + b = c + 1
                PROVE  a + (b - 1) = c + 0
            BY <6>1
          <6> HIDE DEF IInv
          <6> QED BY <3>2, <3>3, <5>1, <6>1
        <5> QED BY <2>2, <3>1, <3>3, <5>2
      <4>2. \A k \in 1..Len(ran'[p]) : ran'[p][k].outcome = "ok"
        BY <2>1, <3>2, <3>3, <3>4 DEF Tally, LastOutcome
      <4>3. \A h \in Hints : LinesOf(p, "executed", h)' = RunsOf(p, h)
        BY <1>4, <2>1, <3>1, <3>4 DEF Tally
      <4>4. \A h \in Hints : LinesOf(p, "executed", h)' + DueFor(p, h)' = RunsOf(p, h)'
        BY <1>4, <1>5, <3>1, <4>3
      <4> QED BY <4>1, <4>2, <4>4 DEF Tally, Chosen
    <3> QED BY <1>1, <2>1, <2>2, <3>4 DEF FixerInv, Counted
  <2> QED BY <1>8, <2>1, <2>3 DEF FixerInv
<1> QED BY <1>6, <1>7, <1>9, <1>10

LEMMA GateKeeps ==
  ASSUME IInv, NEW p \in Fixers, Gate(p)
  PROVE  FixerInv(p)'
<1> USE DEF IInv
<1>1. /\ pc[p] = "gate" /\ pc'[p] \in {"run", "refusal"}
      /\ UNCHANGED <<line, queue, ran, flags, exit, log>>
  BY DEF Gate, TypeOK
<1>2. This(p)' = This(p) /\ Class[This(p)] # "blocked" /\ This(p) \in Hints
  BY <1>1, ThisFacts DEF This, FixerInv, Allowed, Busy
<1>3. pc'[p] = "run" => \/ Class[This(p)] = "safe"
                        \/ Class[This(p)] = "guarded" /\ confirmed'[p] /\ line[p].fresh
  <2>1. Class[This(p)] \in Classes
    BY <1>2, FixAssumption
  <2>2. CASE Class[This(p)] = "guarded"
    BY <2>2 DEF Gate, TypeOK
  <2>3. CASE Class[This(p)] # "guarded"
    BY <1>2, <2>1, <2>3 DEF Gate, TypeOK, Classes
  <2> QED BY <2>2, <2>3
<1>4. /\ \A k, h : LinesOf(p, k, h)' = LinesOf(p, k, h)
      /\ \A h : RunsOf(p, h)' = RunsOf(p, h)
  BY <1>1, LogStays DEF RunsOf
<1>5. (Asked(p) /\ Allowed(p))'
  BY <1>1, <1>2, <1>3 DEF FixerInv, Asked, Allowed, Busy
<1>6. Announced(p)'
  BY <1>1, <1>2, <1>4 DEF FixerInv, Announced
<1>7. Counted(p)'
  <2>1. /\ Due(p)' = Due(p) /\ \A h : DueFor(p, h)' = DueFor(p, h)
    BY <1>1 DEF Due, DueFor
  <2>2. ASSUME Tally(p) PROVE Tally(p)'
    BY <1>1, <1>4, <2>1, <2>2 DEF Tally, Chosen
  <2> QED BY <1>1, <2>2 DEF FixerInv, Counted, Busy
<1>8. Ended(p)'
  BY <1>1 DEF FixerInv, Ended
<1> QED BY <1>5, <1>6, <1>7, <1>8 DEF FixerInv

LEMMA RunBlockedKeeps ==
  ASSUME IInv, NEW p \in Fixers, RunBlocked(p)
  PROVE  FixerInv(p)'
<1>1. pc[p] \in Busy /\ UNCHANGED <<line, confirmed, ran, exit, log>>
  BY DEF RunBlocked, Busy
<1>2. Advanced(p) /\ Flagged(p)
  BY <1>1, ThisFacts, FailFacts DEF IInv, RunBlocked
<1>3. \A h \in Hints : /\ LinesOf(p, "preflight", h) \in Nat
                       /\ LinesOf(p, "preflight", h)' \in Nat
                       /\ LinesOf(p, "preflight", h)' >= LinesOf(p, "preflight", h)
  <2>1. \A h \in Hints : LinesOf(p, "preflight", h) \in Nat
    BY CountsAreNumbers DEF IInv
  <2>2. \A h \in Hints : LinesOf(p, "preflight", h)' = LinesOf(p, "preflight", h)
    BY <1>1, LogStays
  <2> QED BY <2>1, <2>2
<1>4. Counted(p)'
  BY <1>2 DEF Advanced, Begun, Flagged, Counted
<1> QED BY <1>1, <1>2, <1>3, <1>4, AdvanceKeeps DEF FixerInv

LEMMA RunCommandKeeps ==
  ASSUME IInv, NEW p \in Fixers, RunCommand(p)
  PROVE  FixerInv(p)'
<1> USE DEF IInv
<1>1. /\ pc[p] = "run" /\ pc'[p] = "final"
      /\ UNCHANGED <<line, queue, confirmed, flags, exit, log>>
  BY DEF RunCommand, TypeOK
<1>2. PICK o \in Outcomes :
        ran' = [ran EXCEPT ![p] = Append(@, [hint |-> This(p), outcome |-> o])]
  BY DEF RunCommand
<1>3. This(p)' = This(p) /\ This(p) \in Hints
  BY <1>1, ThisFacts DEF This, Busy
<1>4. /\ \A k, h : LinesOf(p, k, h)' = LinesOf(p, k, h) /\ LinesOf(p, k, h) \in Nat
      /\ \A h : /\ RunsOf(p, h) \in Nat
                /\ RunsOf(p, h)' = RunsOf(p, h) + (IF This(p) = h THEN 1 ELSE 0)
  BY <1>1, <1>2, <1>3, LogStays, CountsAreNumbers, RunFacts
<1>5. /\ Len(ran[p]) \in Nat /\ Len(ran'[p]) = Len(ran[p]) + 1
      /\ \A k \in 1..Len(ran[p]) : ran'[p][k] = ran[p][k]
  <2> DEFINE r == [hint |-> This(p), outcome |-> o]
             Runs == [hint: Hints, outcome: Outcomes]
  <2>1. r \in Runs /\ ran[p] \in Seq(Runs) /\ ran'[p] = Append(ran[p], r)
    BY <1>2, <1>3 DEF TypeOK
  <2> HIDE DEF r, Runs
  <2> QED BY <2>1, AppendProperties
<1>6. (Asked(p) /\ Allowed(p))'
  BY <1>1, <1>3 DEF FixerInv, Asked, Allowed, Busy
<1>7. Announced(p)'
  <2>1. ASSUME NEW h \in Hints PROVE LinesOf(p, "preflight", h)' >= RunsOf(p, h)'
    <3>1. /\ LinesOf(p, "preflight", h) >= RunsOf(p, h)
          /\ h = This(p) => LinesOf(p, "preflight", h) > RunsOf(p, h)
      BY <1>1 DEF FixerInv, Announced
    <3> QED BY <1>4, <3>1
  <2> QED BY <1>1, <2>1 DEF Announced
<1>8. Counted(p)'
  <2>1. /\ Due(p) = 0 /\ Due(p)' = 1
        /\ \A h : DueFor(p, h) = 0 /\ DueFor(p, h)' = (IF This(p) = h THEN 1 ELSE 0)
    BY <1>1, <1>3 DEF Due, DueFor
  <2>2. ASSUME Tally(p) PROVE Tally(p)'
    <3>1. Len(ran'[p]) + Len(queue'[p]) = Len(Chosen(line'[p])) + Due(p)'
      <4>1. ASSUME NEW a \in Nat, NEW b \in Nat, NEW c \in Nat, a + b = c + 0
            PROVE  (a + 1) + b = c + 1
        BY <4>1
      <4>2. Len(queue[p]) \in Nat /\ Len(Chosen(line[p])) \in Nat
        BY ChosenFacts DEF TypeOK
      <4>3. Len(ran[p]) + Len(queue[p]) = Len(Chosen(line[p])) + 0
        BY <2>1, <2>2 DEF Tally
      <4>4. (Len(ran[p]) + 1) + Len(queue[p]) = Len(Chosen(line[p])) + 1
        <5> HIDE DEF IInv
        <5> QED BY <1>5, <4>1, <4>2, <4>3
      <4> QED BY <1>1, <1>5, <2>1, <4>4
    <3>2. \A k \in 1..Len(ran'[p]) : ran'[p][k].outcome = "ok" \/ k = Len(ran'[p])
      BY <1>1, <1>5, <2>2 DEF Tally
    <3>3. \A h \in Hints : LinesOf(p, "executed", h)' + DueFor(p, h)' = RunsOf(p, h)'
      BY <1>4, <2>1, <2>2 DEF Tally
    <3> QED BY <1>1, <3>1, <3>2, <3>3 DEF Tally, Chosen
  <2> QED BY <1>1, <1>5, <2>2 DEF FixerInv, Counted, Busy
<1>9. Ended(p)'
  BY <1>1 DEF FixerInv, Ended
<1> QED BY <1>6, <1>7, <1>8, <1>9 DEF FixerInv

LEMMA ExitKeeps ==
  ASSUME IInv, NEW p \in Fixers, NoReport(p) \/ ReportExit(p) \/ Kill(p)
  PROVE  FixerInv(p)'
<1> USE DEF IInv
<1>1. pc'[p] = "ended" /\ UNCHANGED <<line, ran, log>>
  BY DEF NoReport, ReportExit, Kill, Exit, TypeOK
<1>2. CASE exit'[p] # "Success"
  BY <1>1, <1>2, EndKeeps
<1>3. CASE exit'[p] = "Success"
  <2>1. pc[p] = "exit" /\ exit'[p] = ExitCodeFromFixResults(flags[p])
    BY <1>3 DEF NoReport, ReportExit, Kill, Exit, TypeOK
  <2>2. flags[p] = {}
    BY <1>3, <2>1 DEF ExitCodeFromFixResults, TypeOK, Flags
  <2>3. Due(p) = 0 /\ queue[p] = <<>> /\ \A h : DueFor(p, h) = 0
    BY <2>1 DEF Due, DueFor, FixerInv, Asked
  <2>4. line[p].apply => Tally(p)
    BY <2>1, <2>2 DEF FixerInv, Counted
  <2>5. /\ Len(ran[p]) \in Nat /\ Len(Chosen(line[p])) \in Nat /\ Len(queue[p]) = 0
        /\ DOMAIN ran[p] = 1..Len(ran[p])
        /\ \A k, h : LinesOf(p, k, h) \in Nat
    <3>1. /\ line[p] \in CommandLines
          /\ ran[p] \in Seq([hint: Hints, outcome: Outcomes])
      BY DEF TypeOK
    <3>2. Len(ran[p]) \in Nat /\ DOMAIN ran[p] = 1..Len(ran[p])
      BY <3>1, LenProperties
    <3>3. Len(Chosen(line[p])) \in Nat
      BY <3>1, ChosenFacts
    <3> QED BY <2>3, <3>2, <3>3, EmptySeq, CountsAreNumbers
  <2>6. line[p].apply => Len(ran[p]) = Len(Chosen(line[p]))
    BY <2>3, <2>4, <2>5 DEF Tally
  <2>7. line[p].apply => /\ \A k \in DOMAIN ran[p] : ran[p][k].outcome = "ok"
                         /\ \A h \in Hints : LinesOf(p, "executed", h) = RunsOf(p, h)
    BY <2>1, <2>3, <2>4, <2>5 DEF Tally
  <2> QED BY <1>1, <2>6, <2>7, EndKeeps
<1> QED BY <1>2, <1>3
-------------------------------------------------------------------------------
\* IInv is inductive: it holds whatever the processes are asked, whichever writes
\* of the audit log fail and whenever a process is killed.
THEOREM IInvHolds == Spec => []IInv
<1>1. IInv /\ [Next]_vars => IInv'
  <2> SUFFICES ASSUME IInv, [Next]_vars PROVE IInv'
    OBVIOUS
  <2>1. ASSUME NEW p \in Fixers, Step(p) \/ Kill(p), NEW q \in Fixers PROVE FixerInv(q)'
    <3>1. CASE q = p
      <4>1. FixerInv(p)'
        BY <2>1, PlanKeeps, WriteEntryKeeps, AuditKeeps, GateKeeps, RunBlockedKeeps,
           RunCommandKeeps, ExitKeeps DEF Step
      <4> QED BY <3>1, <4>1
    <3>2. CASE q # p
      BY <2>1, <3>2, OthersStay, SameKeeps DEF IInv
    <3> QED BY <3>1, <3>2
  <2>2. ASSUME UNCHANGED vars, NEW q \in Fixers PROVE FixerInv(q)'
    BY <2>2, LogStays, SameKeeps DEF vars, procVars, Same, IInv
  <2>3. \A q \in Fixers : FixerInv(q)'
    BY <2>1, <2>2 DEF Next
  <2> QED BY <2>3, TypeStep DEF IInv
<1> QED BY InitIInv, <1>1, PTL DEF Spec

\* Type correctness, for any processes, hints, classes and command lines.
THEOREM TypeCorrect == Spec => []TypeOK
<1>1. IInv => TypeOK
  BY DEF IInv
<1> QED BY <1>1, IInvHolds, PTL

\* Exit 0 of an applying process: everything it chose has run, succeeded, and is
\* in the audit log.
THEOREM SuccessStaysTrue == Spec => []SuccessIsTrue
<1>1. IInv => SuccessIsTrue
  BY DEF IInv, FixerInv, Ended, SuccessIsTrue, Chosen
<1> QED BY <1>1, IInvHolds, PTL

\* Nothing but p's own RunCommand adds to what p ran.
LEMMA OnlyRunCommand ==
  ASSUME IInv, [Next]_vars, NEW p \in Fixers, ran'[p] # ran[p]
  PROVE  RunCommand(p)
<1>1. PICK q \in Fixers : Step(q) \/ Kill(q)
  BY DEF Next, vars, procVars
<1>2. RunCommand(q)
  BY <1>1 DEF Step, NoReport, Plan, WriteEntry, WriteNewline, WriteFails, Gate, RunBlocked,
              ReportExit, Kill
<1>3. q = p
  BY <1>2 DEF RunCommand, IInv, TypeOK
<1> QED BY <1>2, <1>3

\* No fix command runs before its own preflight entry is in the log, however the
\* processes interleave and whichever writes fail.
THEOREM MutationStaysAnnounced == Spec => MutationIsAnnounced
<1>1. IInv /\ [Next]_vars =>
        [\A p \in Fixers : \A h \in Hints :
           RunsOf(p, h)' > RunsOf(p, h) => LinesOf(p, "preflight", h) > RunsOf(p, h)]_vars
  <2> SUFFICES ASSUME IInv, [Next]_vars, NEW p \in Fixers, NEW h \in Hints,
                      RunsOf(p, h)' > RunsOf(p, h)
               PROVE  LinesOf(p, "preflight", h) > RunsOf(p, h)
    OBVIOUS
  <2>1. RunsOf(p, h) \in Nat
    BY CountsAreNumbers DEF IInv
  <2>2. ran'[p] # ran[p]
    <3>1. ran'[p] = ran[p] => RunsOf(p, h)' = RunsOf(p, h)
      BY DEF RunsOf
    <3> QED BY <2>1, <3>1
  <2>3. RunCommand(p)
    BY <2>2, OnlyRunCommand
  <2>4. pc[p] = "run" /\ This(p) \in Hints
    BY <2>3, ThisFacts DEF RunCommand, Busy, IInv
  <2>5. PICK o \in Outcomes :
          ran' = [ran EXCEPT ![p] = Append(@, [hint |-> This(p), outcome |-> o])]
    BY <2>3 DEF RunCommand
  <2>6. RunsOf(p, h)' = RunsOf(p, h) + (IF This(p) = h THEN 1 ELSE 0)
    BY <2>4, <2>5, RunFacts DEF IInv
  <2>7. h = This(p)
    BY <2>1, <2>6
  <2> QED BY <2>4, <2>7 DEF IInv, FixerInv, Announced
<1> QED BY <1>1, IInvHolds, PTL DEF Spec, MutationIsAnnounced

\* What runs was asked for: --apply, safe or confirmed against a fresh scan, and
\* the one proposal there is or one named with --hint.
THEOREM NothingEverRunsUnasked == Spec => NothingRunsUnasked
<1>1. IInv /\ [Next]_vars =>
        [\A p \in Fixers : ran'[p] # ran[p] =>
           /\ line[p].apply
           /\ Class[This(p)] = "safe" \/ (Class[This(p)] = "guarded" /\ confirmed[p]
                                          /\ line[p].fresh)
           /\ line[p].hint = This(p) \/ (line[p].hint = NoHint
                                         /\ Resolve(line[p]) = <<This(p)>>)]_vars
  <2> SUFFICES ASSUME IInv, [Next]_vars, NEW p \in Fixers, ran'[p] # ran[p]
               PROVE  /\ line[p].apply
                      /\ Class[This(p)] = "safe" \/ (Class[This(p)] = "guarded" /\ confirmed[p]
                                                     /\ line[p].fresh)
                      /\ line[p].hint = This(p) \/ (line[p].hint = NoHint
                                                    /\ Resolve(line[p]) = <<This(p)>>)
    OBVIOUS
  <2>1. pc[p] = "run"
    BY OnlyRunCommand DEF RunCommand
  <2>2. /\ queue[p] \in Seq(Registered) /\ queue[p] # <<>> /\ This(p) = queue[p][1]
        /\ This(p) \in Registered
    BY <2>1, ThisFacts DEF IInv, TypeOK, Busy
  <2>3. Len(queue[p]) > 0 /\ Len(queue[p]) \in Nat
    BY <2>2, EmptySeq
  <2>4. /\ line[p].apply
        /\ Class[This(p)] = "safe" \/ (Class[This(p)] = "guarded" /\ confirmed[p]
                                       /\ line[p].fresh)
    BY <2>1 DEF IInv, FixerInv, Asked, Allowed, Busy
  <2>5. CASE line[p].hint # NoHint
    <3>1. \A k \in 1..Len(queue[p]) : queue[p][k] = line[p].hint
      BY <2>1, <2>5 DEF IInv, FixerInv, Asked, Busy
    <3> QED BY <2>2, <2>3, <2>4, <3>1
  <2>6. CASE line[p].hint = NoHint
    <3>1. queue[p] = Resolve(line[p]) /\ Len(queue[p]) = 1
      BY <2>1, <2>6 DEF IInv, FixerInv, Asked, Busy
    <3>2. queue[p] = <<This(p)>>
      <4>1. <<This(p)>> \in Seq(Registered) /\ Len(<<This(p)>>) = 1
            /\ <<This(p)>>[1] = This(p)
        BY <2>2
      <4> QED BY <2>2, <3>1, <4>1, SeqEqual
    <3> QED BY <2>4, <2>6, <3>1, <3>2
  <2> QED BY <2>5, <2>6
<1> QED BY <1>1, IInvHolds, PTL DEF Spec, NothingRunsUnasked
================================================================================
