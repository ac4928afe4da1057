--------------------------- MODULE ScanPipelineProofs ---------------------------
(***************************************************************************)
(* The scan's events, its report and its exit code, for every number of    *)
(* collectors, every output of the engines and every option.               *)
(*                                                                         *)
(* The first half is about the aggregator: what Deduped makes of a         *)
(* sequence of findings, by induction on its length, and that StableSorted *)
(* is a permutation, by counting.                                          *)
(***************************************************************************)
EXTENDS ScanPipeline, WellFoundedInduction, FiniteSetTheorems, SequenceTheorems, TLAPS

\* Key, and RanksBefore, of places in a sequence.
Same(s, i, t, j) == Key(s[i]) = Key(t[j])

\* acc is what Add made of the first n findings of fs.
Faithful(acc, fs, n) ==
    /\ acc \in Seq(Findings)
    /\ \A a, b \in 1..Len(acc) : Same(acc, a, acc, b) => a = b
    /\ \A j \in 1..n : \E a \in 1..Len(acc) : Same(acc, a, fs, j)
    /\ \A a \in 1..Len(acc) : \E j \in 1..n : Same(acc, a, fs, j)
    /\ \A a \in 1..Len(acc), j \in 1..n : Same(acc, a, fs, j) =>
          fs[j].ev \subseteq acc[a].ev /\ ~RanksBefore(fs[j], acc[a])
    /\ \A a \in 1..Len(acc) : \A x \in acc[a].ev :
          \E j \in 1..n : Same(acc, a, fs, j) /\ x \in fs[j].ev
---------------------------------------------------------------------------------
(* Induction, and the recursive function of Deduped.                       *)

\* A set of numbers that has 0 and every successor has them all.
LEMMA NumbersByInduction ==
  ASSUME NEW S, 0 \in S, \A n \in Nat : n \in S => n + 1 \in S
  PROVE  \A n \in Nat : n \in S
<1> SUFFICES ASSUME Nat \ S # {} PROVE FALSE
  OBVIOUS
<1> DEFINE Less == {pair \in Nat \X Nat : pair[1] < pair[2]}
<1>1. IsWellFoundedOn(Less, Nat)
  BY NatLessThanWellFounded DEF OpToRel
<1>2. \E m \in Nat \ S : \A n \in Nat \ S : ~ (<<n, m>> \in Less)
  <2> HIDE DEF Less
  <2> QED BY <1>1, WFMin, Nat \ S \subseteq Nat
<1>3. PICK m \in Nat \ S : \A n \in Nat \ S : ~ (<<n, m>> \in Less)
  BY <1>2
<1>4. m - 1 \in Nat /\ m = (m - 1) + 1
  BY <1>3
<1>5. <<m - 1, m>> \in Less
  BY <1>3, <1>4
<1> QED BY <1>3, <1>4, <1>5

\* One unfolding of a candidate g for the function in Deduped.
Piece(fs, g, i) == IF i = 0 THEN <<>> ELSE DedupedBy(g[i - 1], fs[i])

Unfolded(fs, g, n) == [i \in 0..n |-> Piece(fs, g, i)]

Acc(fs) == CHOOSE g : g = Unfolded(fs, g, Len(fs))

LEMMA UnfoldedAt ==
  ASSUME NEW fs, NEW n \in Nat, NEW g, g = Unfolded(fs, g, n), NEW i \in 0..n
  PROVE  g[i] = Piece(fs, g, i)
<1>1. Unfolded(fs, g, n)[i] = Piece(fs, g, i)
  BY DEF Unfolded
<1> QED BY <1>1

LEMMA AccExists ==
  ASSUME NEW fs
  PROVE  \A n \in Nat : \E g : g = Unfolded(fs, g, n)
<1> DEFINE good == {n \in Nat : \E g : g = Unfolded(fs, g, n)}
<1>1. 0 \in good
  <2>1. [i \in 0..0 |-> <<>>] = Unfolded(fs, [i \in 0..0 |-> <<>>], 0)
    BY DEF Unfolded, Piece
  <2> QED BY <2>1
<1>2. ASSUME NEW n \in Nat, n \in good PROVE n + 1 \in good
  <2>1. PICK g : g = Unfolded(fs, g, n)
    BY <1>2
  <2> DEFINE h == Unfolded(fs, g, n + 1)
  <2>2. ASSUME NEW i \in 0..n PROVE h[i] = g[i]
    <3>1. h[i] = Piece(fs, g, i)
      BY DEF Unfolded
    <3>2. g[i] = Piece(fs, g, i)
      <4> HIDE DEF good, h
      <4> QED BY <2>1, UnfoldedAt
    <3> QED BY <3>1, <3>2
  <2>3. \A i \in 0..(n + 1) : i # 0 => h[i - 1] = g[i - 1]
    BY <2>2
  <2>4. ASSUME NEW f, \A i \in 0..(n + 1) : i # 0 => f[i - 1] = g[i - 1]
        PROVE  Unfolded(fs, f, n + 1) = Unfolded(fs, g, n + 1)
    BY <2>4 DEF Unfolded, Piece
  <2>5. h = Unfolded(fs, h, n + 1)
    <3> HIDE DEF h
    <3>1. Unfolded(fs, h, n + 1) = Unfolded(fs, g, n + 1)
      BY <2>3, <2>4
    <3> QED BY <3>1 DEF h
  <2> QED BY <2>5
<1> HIDE DEF good
<1>3. \A n \in Nat : n \in good
  BY <1>1, <1>2, NumbersByInduction
<1> QED BY <1>3 DEF good

LEMMA AccEquation ==
  ASSUME NEW fs, Len(fs) \in Nat
  PROVE  /\ Deduped(fs) = Acc(fs)[Len(fs)]
         /\ \A i \in 0..Len(fs) : Acc(fs)[i] = Piece(fs, Acc(fs), i)
<1>1. Deduped(fs) = Acc(fs)[Len(fs)]
  BY DEF Deduped, Acc, Unfolded, Piece
<1>2. \E g : g = Unfolded(fs, g, Len(fs))
  BY AccExists
<1>3. Acc(fs) = Unfolded(fs, Acc(fs), Len(fs))
  BY <1>2 DEF Acc
<1> QED BY <1>1, <1>3, UnfoldedAt
---------------------------------------------------------------------------------
(* What Add does.                                                          *)

\* Two findings of one key merge into one that is at least as severe as both.
LEMMA MergeFacts ==
  ASSUME NEW f \in Findings, NEW g \in Findings, Key(f) = Key(g)
  PROVE  /\ MergeFinding(f, g) \in Findings
         /\ Key(MergeFinding(f, g)) = Key(f)
         /\ MergeFinding(f, g).ev = f.ev \cup g.ev
         /\ ~RanksBefore(f, MergeFinding(f, g)) /\ ~RanksBefore(g, MergeFinding(f, g))
         /\ \A h \in Findings : ~RanksBefore(h, f) => ~RanksBefore(h, MergeFinding(f, g))
BY DEF Findings, Key, MergeFinding, RanksBefore, Severities


\* A new key is appended, a known one merged in its place.
LEMMA AddAppends ==
  ASSUME NEW acc \in Seq(Findings), NEW f \in Findings,
         \A a \in 1..Len(acc) : Key(acc[a]) # Key(f)
  PROVE  DedupedBy(acc, f) = Append(acc, f)
<1>1. DOMAIN acc = 1..Len(acc)
  OBVIOUS
<1> QED BY <1>1 DEF DedupedBy

LEMMA AddMerges ==
  ASSUME NEW acc \in Seq(Findings), NEW f \in Findings,
         NEW b \in 1..Len(acc), Key(acc[b]) = Key(f),
         \A a, c \in 1..Len(acc) : Key(acc[a]) = Key(acc[c]) => a = c
  PROVE  /\ DedupedBy(acc, f) \in Seq(Findings) /\ Len(DedupedBy(acc, f)) = Len(acc)
         /\ DedupedBy(acc, f)[b] = MergeFinding(acc[b], f)
         /\ \A a \in 1..Len(acc) : a # b => DedupedBy(acc, f)[a] = acc[a]
<1> DEFINE new == [i \in 1..Len(acc) |-> IF i = b THEN MergeFinding(acc[i], f) ELSE acc[i]]
           same == {i \in DOMAIN acc : Key(acc[i]) = Key(f)}
<1>1. DOMAIN acc = 1..Len(acc) /\ Len(acc) \in Nat
  OBVIOUS
<1>2. same = {b}
  BY <1>1
<1>3. DedupedBy(acc, f) = [i \in DOMAIN acc |-> IF i \in same THEN MergeFinding(acc[i], f) ELSE acc[i]]
  <2> HIDE DEF same
  <2>1. same # {}
    BY <1>2
  <2> QED BY <2>1 DEF DedupedBy, same
<1>4. DedupedBy(acc, f) = new
  <2> HIDE DEF same
  <2> QED BY <1>1, <1>2, <1>3
<1>5. \A i \in 1..Len(acc) : acc[i] \in Findings
  BY ElementOfSeq
<1>6. MergeFinding(acc[b], f) \in Findings
  BY <1>5, MergeFacts
<1>7. new \in [1..Len(acc) -> Findings]
  BY <1>5, <1>6
<1>8. new \in Seq(Findings) /\ Len(new) = Len(acc)
  <2> HIDE DEF new
  <2> QED BY <1>1, <1>7
<1>9. new[b] = MergeFinding(acc[b], f) /\ \A a \in 1..Len(acc) : a # b => new[a] = acc[a]
  OBVIOUS
<1> HIDE DEF new
<1> QED BY <1>4, <1>8, <1>9

LEMMA AddIsFaithful ==
  ASSUME NEW fs \in Seq(Findings), NEW n \in Nat, n + 1 <= Len(fs), NEW acc, Faithful(acc, fs, n)
  PROVE  Faithful(DedupedBy(acc, fs[n + 1]), fs, n + 1)
<1> DEFINE f == fs[n + 1]
           new == DedupedBy(acc, f)
<1>1. acc \in Seq(Findings) /\ Len(acc) \in Nat
  BY DEF Faithful
<1>2. n + 1 \in 1..Len(fs)
  OBVIOUS
<1>3. /\ \A j \in 1..(n + 1) : fs[j] \in Findings
      /\ \A a \in 1..Len(acc) : acc[a] \in Findings
      /\ f \in Findings
  <2>1. \A j \in 1..Len(fs) : fs[j] \in Findings
    BY ElementOfSeq
  <2>2. \A a \in 1..Len(acc) : acc[a] \in Findings
    BY <1>1, ElementOfSeq
  <2> QED BY <1>2, <2>1, <2>2
<1>4. \A j \in 1..(n + 1) : j \in 1..n \/ j = n + 1
  OBVIOUS
<1>5. 1..n \subseteq 1..(n + 1) /\ n + 1 \in 1..(n + 1)
  OBVIOUS
<1>6. CASE \A a \in 1..Len(acc) : Key(acc[a]) # Key(f)
  <2>1. /\ new \in Seq(Findings) /\ Len(new) = Len(acc) + 1
        /\ \A a \in 1..Len(acc) : new[a] = acc[a]
        /\ new[Len(acc) + 1] = f
    <3>1. new = Append(acc, f)
      BY <1>1, <1>3, <1>6, AddAppends
    <3> HIDE DEF new, f
    <3> QED BY <1>1, <1>3, <3>1, AppendProperties
  <2> HIDE DEF new, f
  <2>2. /\ Len(acc) + 1 \in 1..Len(new) /\ 1..Len(acc) \subseteq 1..Len(new)
        /\ \A a \in 1..Len(new) : a \in 1..Len(acc) \/ a = Len(acc) + 1
    BY <1>1, <2>1
  <2>3. \A j \in 1..n : Key(fs[j]) # Key(f)
    BY <1>6 DEF Faithful, Same
  <2>4. ~RanksBefore(f, f)
    BY <1>3 DEF RanksBefore, Findings, Severities
  <2>5. fs[n + 1] = f
    BY DEF f
  <2>6. \A a, b \in 1..Len(new) : Same(new, a, new, b) => a = b
    BY <1>6, <2>1, <2>2 DEF Faithful, Same
  <2>7. \A j \in 1..(n + 1) : \E a \in 1..Len(new) : Same(new, a, fs, j)
    <3> SUFFICES ASSUME NEW j \in 1..(n + 1) PROVE \E a \in 1..Len(new) : Key(new[a]) = Key(fs[j])
      BY DEF Same
    <3>1. CASE j \in 1..n
      <4>1. PICK a \in 1..Len(acc) : Key(acc[a]) = Key(fs[j])
        BY <3>1 DEF Faithful, Same
      <4> QED BY <2>1, <2>2, <4>1
    <3>2. CASE j = n + 1
      BY <2>1, <2>2, <2>5, <3>2
    <3> QED BY <1>4, <3>1, <3>2
  <2>8. \A a \in 1..Len(new) : \E j \in 1..(n + 1) : Same(new, a, fs, j)
    BY <1>5, <2>1, <2>2, <2>5 DEF Faithful, Same
  <2>9. \A a \in 1..Len(new), j \in 1..(n + 1) : Same(new, a, fs, j) =>
          fs[j].ev \subseteq new[a].ev /\ ~RanksBefore(fs[j], new[a])
    <3> SUFFICES ASSUME NEW a \in 1..Len(new), NEW j \in 1..(n + 1), Key(new[a]) = Key(fs[j])
                 PROVE  fs[j].ev \subseteq new[a].ev /\ ~RanksBefore(fs[j], new[a])
      BY DEF Same
    <3>1. CASE a \in 1..Len(acc)
      <4>1. new[a] = acc[a] /\ Key(acc[a]) # Key(f)
        BY <1>6, <2>1, <3>1
      <4>2. j \in 1..n
        BY <1>4, <2>5, <4>1
      <4> QED BY <3>1, <4>1, <4>2 DEF Faithful, Same
    <3>2. CASE a = Len(acc) + 1
      <4>1. new[a] = f /\ j = n + 1
        BY <1>4, <2>1, <2>3, <3>2
      <4> QED BY <2>4, <2>5, <4>1
    <3> QED BY <2>2, <3>1, <3>2
  <2>10. \A a \in 1..Len(new) : \A x \in new[a].ev :
           \E j \in 1..(n + 1) : Same(new, a, fs, j) /\ x \in fs[j].ev
    <3> SUFFICES ASSUME NEW a \in 1..Len(new), NEW x \in new[a].ev
                 PROVE  \E j \in 1..(n + 1) : Key(new[a]) = Key(fs[j]) /\ x \in fs[j].ev
      BY DEF Same
    <3>1. CASE a \in 1..Len(acc)
      BY <1>5, <2>1, <3>1 DEF Faithful, Same
    <3>2. CASE a = Len(acc) + 1
      BY <1>5, <2>1, <2>5, <3>2
    <3> QED BY <2>2, <3>1, <3>2
  <2> QED BY <2>1, <2>6, <2>7, <2>8, <2>9, <2>10 DEF Faithful, f, new
<1>7. ASSUME NEW b \in 1..Len(acc), Key(acc[b]) = Key(f)
      PROVE  Faithful(new, fs, n + 1)
  <2>1. /\ new \in Seq(Findings) /\ Len(new) = Len(acc)
        /\ new[b] = MergeFinding(acc[b], f)
        /\ \A a \in 1..Len(acc) : a # b => new[a] = acc[a]
    BY <1>1, <1>3, <1>7, AddMerges DEF Faithful, Same
  <2> HIDE DEF new, f
  <2>2. /\ Key(new[b]) = Key(acc[b]) /\ new[b].ev = acc[b].ev \cup f.ev
        /\ ~RanksBefore(f, new[b])
        /\ \A h \in Findings : ~RanksBefore(h, acc[b]) => ~RanksBefore(h, new[b])
    BY <1>3, <1>7, <2>1, MergeFacts
  <2>3. \A a \in 1..Len(acc) : Key(new[a]) = Key(acc[a])
    BY <2>1, <2>2
  <2>4. fs[n + 1] = f
    BY DEF f
  <2>5. \A a, c \in 1..Len(new) : Same(new, a, new, c) => a = c
    BY <2>1, <2>3 DEF Faithful, Same
  <2>6. \A j \in 1..(n + 1) : \E a \in 1..Len(new) : Same(new, a, fs, j)
    BY <1>4, <1>7, <2>1, <2>3, <2>4 DEF Faithful, Same
  <2>7. \A a \in 1..Len(new) : \E j \in 1..(n + 1) : Same(new, a, fs, j)
    BY <1>5, <2>1, <2>3 DEF Faithful, Same
  <2>8. \A a \in 1..Len(new), j \in 1..(n + 1) : Same(new, a, fs, j) =>
          fs[j].ev \subseteq new[a].ev /\ ~RanksBefore(fs[j], new[a])
    <3> SUFFICES ASSUME NEW a \in 1..Len(acc), NEW j \in 1..(n + 1), Key(acc[a]) = Key(fs[j])
                 PROVE  fs[j].ev \subseteq new[a].ev /\ ~RanksBefore(fs[j], new[a])
      BY <2>1, <2>3 DEF Same
    <3>1. CASE j \in 1..n /\ a # b
      BY <2>1, <3>1 DEF Faithful, Same
    <3>2. CASE j \in 1..n /\ a = b
      BY <1>3, <2>2, <3>2 DEF Faithful, Same
    <3>3. CASE j = n + 1
      <4>1. a = b
        BY <1>7, <2>4, <3>3 DEF Faithful, Same
      <4> QED BY <2>2, <2>4, <3>3, <4>1
    <3> QED BY <1>4, <3>1, <3>2, <3>3
  <2>9. \A a \in 1..Len(new) : \A x \in new[a].ev :
          \E j \in 1..(n + 1) : Same(new, a, fs, j) /\ x \in fs[j].ev
    <3> SUFFICES ASSUME NEW a \in 1..Len(acc), NEW x \in new[a].ev
                 PROVE  \E j \in 1..(n + 1) : Key(acc[a]) = Key(fs[j]) /\ x \in fs[j].ev
      BY <2>1, <2>3 DEF Same
    <3>1. CASE x \in acc[a].ev
      BY <1>5, <3>1 DEF Faithful, Same
    <3>2. CASE a = b /\ x \in f.ev
      BY <1>5, <1>7, <2>4, <3>2
    <3> QED BY <2>1, <2>2, <3>1, <3>2
  <2> QED BY <2>1, <2>5, <2>6, <2>7, <2>8, <2>9 DEF Faithful
<1> QED BY <1>6, <1>7

LEMMA DedupedIsFaithful ==
  ASSUME NEW fs \in Seq(Findings)
  PROVE  Faithful(Deduped(fs), fs, Len(fs))
<1> DEFINE acc == Acc(fs)
           good == {n \in Nat : n <= Len(fs) => Faithful(acc[n], fs, n)}
<1>1. Len(fs) \in Nat
  OBVIOUS
<1>2. Deduped(fs) = acc[Len(fs)] /\ \A i \in 0..Len(fs) : acc[i] = Piece(fs, acc, i)
  BY <1>1, AccEquation
<1> HIDE DEF acc
<1>3. 0 \in good
  <2>1. acc[0] = <<>>
    BY <1>1, <1>2, 0 \in 0..Len(fs) DEF Piece
  <2>2. <<>> \in Seq(Findings) /\ Len(<<>>) = 0
    OBVIOUS
  <2>3. Faithful(<<>>, fs, 0)
    BY <2>2 DEF Faithful
  <2> QED BY <2>1, <2>3
<1>4. ASSUME NEW n \in Nat, n \in good PROVE n + 1 \in good
  <2> SUFFICES ASSUME n + 1 <= Len(fs) PROVE Faithful(acc[n + 1], fs, n + 1)
    OBVIOUS
  <2>1. n + 1 \in 0..Len(fs) /\ n + 1 # 0 /\ (n + 1) - 1 = n
    BY <1>1
  <2>2. acc[n + 1] = DedupedBy(acc[n], fs[n + 1])
    BY <1>2, <2>1 DEF Piece
  <2>3. Faithful(acc[n], fs, n)
    BY <1>1, <1>4
  <2> QED BY <2>2, <2>3, AddIsFaithful
<1> HIDE DEF good
<1>5. \A n \in Nat : n \in good
  BY <1>3, <1>4, NumbersByInduction
<1> QED BY <1>1, <1>2, <1>5 DEF good
---------------------------------------------------------------------------------
(* What StableSorted does: the places before i are as many as i's new      *)
(* place says, and no two places have equally many before them.            *)

Before(s, i, j) == RanksBefore(s[i], s[j]) \/ (i < j /\ ~RanksBefore(s[j], s[i]))

Ahead(s, i) == {j \in DOMAIN s \ {i} : Before(s, j, i)}

Place(s, k) == CHOOSE i \in DOMAIN s : Cardinality(Ahead(s, i)) = k - 1

LEMMA SortedPlaces == \A s : StableSorted(s) = [k \in DOMAIN s |-> s[Place(s, k)]]
BY DEF StableSorted, Place, Ahead, Before

LEMMA RanksAreOrdered ==
  ASSUME NEW f \in Findings, NEW g \in Findings, NEW h \in Findings
  PROVE  /\ ~(RanksBefore(f, g) /\ RanksBefore(g, f))
         /\ RanksBefore(f, g) /\ RanksBefore(g, h) => RanksBefore(f, h)
         /\ ~RanksBefore(f, g) /\ ~RanksBefore(g, h) => ~RanksBefore(f, h)
BY DEF Findings, RanksBefore, Severities

LEMMA BeforeIsTotal ==
  ASSUME NEW s \in Seq(Findings), NEW i \in 1..Len(s), NEW j \in 1..Len(s), NEW k \in 1..Len(s)
  PROVE  /\ ~Before(s, i, i)
         /\ i # j => (Before(s, i, j) <=> ~Before(s, j, i))
         /\ Before(s, i, j) /\ Before(s, j, k) => Before(s, i, k)
<1>1. s[i] \in Findings /\ s[j] \in Findings /\ s[k] \in Findings
  BY ElementOfSeq
<1>2. i \in Nat /\ j \in Nat /\ k \in Nat
  OBVIOUS
<1>3. /\ ~RanksBefore(s[i], s[i])
      /\ ~(RanksBefore(s[i], s[j]) /\ RanksBefore(s[j], s[i]))
      /\ RanksBefore(s[i], s[j]) /\ RanksBefore(s[j], s[k]) => RanksBefore(s[i], s[k])
      /\ ~RanksBefore(s[k], s[j]) /\ ~RanksBefore(s[j], s[i]) => ~RanksBefore(s[k], s[i])
      /\ RanksBefore(s[i], s[j]) /\ RanksBefore(s[k], s[i]) => RanksBefore(s[k], s[j])
      /\ RanksBefore(s[j], s[k]) /\ RanksBefore(s[k], s[i]) => RanksBefore(s[j], s[i])
      /\ ~RanksBefore(s[i], s[k]) /\ ~RanksBefore(s[k], s[j]) => ~RanksBefore(s[i], s[j])
      /\ ~RanksBefore(s[j], s[i]) /\ ~RanksBefore(s[i], s[k]) => ~RanksBefore(s[j], s[k])
  BY <1>1, RanksAreOrdered
<1> QED BY <1>2, <1>3 DEF Before

LEMMA AheadFacts ==
  ASSUME NEW s \in Seq(Findings), NEW i \in 1..Len(s)
  PROVE  IsFiniteSet(Ahead(s, i)) /\ Cardinality(Ahead(s, i)) \in 0..(Len(s) - 1)
<1>1. DOMAIN s = 1..Len(s) /\ Len(s) \in Nat
  OBVIOUS
<1>2. IsFiniteSet(1..Len(s)) /\ Cardinality(1..Len(s)) = Len(s)
  <2>1. Cardinality(1..Len(s)) = IF 1 > Len(s) THEN 0 ELSE Len(s) - 1 + 1
    BY <1>1, FS_Interval
  <2> QED BY <1>1, <2>1, FS_Interval
<1>3. IsFiniteSet((1..Len(s)) \ {i}) /\ Cardinality((1..Len(s)) \ {i}) = Len(s) - 1
  BY <1>2, FS_RemoveElement
<1>4. Ahead(s, i) \in SUBSET ((1..Len(s)) \ {i})
  BY <1>1 DEF Ahead
<1>5. IsFiniteSet(Ahead(s, i)) /\ Cardinality(Ahead(s, i)) <= Len(s) - 1
  <2> HIDE DEF Ahead
  <2>1. /\ IsFiniteSet(Ahead(s, i))
        /\ Cardinality(Ahead(s, i)) <= Cardinality((1..Len(s)) \ {i})
    BY <1>3, <1>4, FS_Subset
  <2> QED BY <1>3, <2>1
<1>6. Cardinality(Ahead(s, i)) \in Nat
  BY <1>5, FS_CardinalityType
<1> QED BY <1>1, <1>5, <1>6

LEMMA AheadGrows ==
  ASSUME NEW s \in Seq(Findings), NEW i \in 1..Len(s), NEW j \in 1..Len(s), Before(s, i, j)
  PROVE  Cardinality(Ahead(s, i)) < Cardinality(Ahead(s, j))
<1>1. DOMAIN s = 1..Len(s)
  OBVIOUS
<1>2. i # j /\ i \notin Ahead(s, i) /\ i \in Ahead(s, j)
  BY <1>1, BeforeIsTotal DEF Ahead
<1>3. Ahead(s, i) \cup {i} \in SUBSET Ahead(s, j)
  <2>1. ASSUME NEW k \in 1..Len(s), Before(s, k, i) PROVE Before(s, k, j) /\ k # j
    <3>1. Before(s, k, j)
      BY <2>1, BeforeIsTotal
    <3>2. ~Before(s, j, j)
      BY BeforeIsTotal
    <3> QED BY <3>1, <3>2
  <2> QED BY <1>1, <1>2, <2>1 DEF Ahead
<1>4. /\ IsFiniteSet(Ahead(s, i)) /\ Cardinality(Ahead(s, i)) \in Nat
      /\ IsFiniteSet(Ahead(s, j)) /\ Cardinality(Ahead(s, j)) \in Nat
  BY AheadFacts
<1>5. Cardinality(Ahead(s, i) \cup {i}) = Cardinality(Ahead(s, i)) + 1
  BY <1>2, <1>4, FS_AddElement
<1>6. Cardinality(Ahead(s, i) \cup {i}) <= Cardinality(Ahead(s, j))
  BY <1>3, <1>4, FS_Subset
<1> QED BY <1>4, <1>5, <1>6

LEMMA PlaceFacts ==
  ASSUME NEW s \in Seq(Findings)
  PROVE  /\ \A k \in 1..Len(s) : /\ Place(s, k) \in 1..Len(s)
                                 /\ Cardinality(Ahead(s, Place(s, k))) = k - 1
         /\ \A i \in 1..Len(s) : \E k \in 1..Len(s) : Place(s, k) = i
<1> DEFINE n == Len(s)
           rank == [i \in 1..n |-> Cardinality(Ahead(s, i))]
<1>1. n \in Nat /\ DOMAIN s = 1..n
  OBVIOUS
<1>2. \A i \in 1..n : rank[i] = Cardinality(Ahead(s, i)) /\ rank[i] \in 0..(n - 1)
  BY AheadFacts
<1>3. \A i, j \in 1..n : i # j => rank[i] # rank[j]
  <2> SUFFICES ASSUME NEW i \in 1..n, NEW j \in 1..n, i # j PROVE rank[i] # rank[j]
    OBVIOUS
  <2>1. Before(s, i, j) \/ Before(s, j, i)
    BY BeforeIsTotal
  <2>2. rank[i] < rank[j] \/ rank[j] < rank[i]
    BY <1>2, <2>1, AheadGrows
  <2> QED BY <1>2, <2>2
<1>4. rank \in [1..n -> 0..(n - 1)]
  BY <1>2
<1> HIDE DEF rank
<1>5. rank \in Injection(1..n, 0..(n - 1))
  BY <1>3, <1>4 DEF Injection, IsInjective
<1>6. IsFiniteSet(0..(n - 1)) /\ Cardinality(0..(n - 1)) = n /\ Cardinality(1..n) = n
  <2>1. /\ IsFiniteSet(0..(n - 1))
        /\ Cardinality(0..(n - 1)) = IF 0 > n - 1 THEN 0 ELSE (n - 1) - 0 + 1
        /\ Cardinality(1..n) = IF 1 > n THEN 0 ELSE n - 1 + 1
    <3> HIDE DEF n
    <3> QED BY <1>1, FS_Interval
  <2> QED BY <1>1, <2>1
<1>7. rank \in Surjection(1..n, 0..(n - 1))
  BY <1>5, <1>6, FS_Injection
<1>8. \A k \in 1..n : \E i \in 1..n : rank[i] = k - 1
  <2>1. \A r \in 0..(n - 1) : \E i \in 1..n : rank[i] = r
    BY <1>7 DEF Surjection
  <2>2. \A k \in 1..n : k - 1 \in 0..(n - 1)
    BY <1>1
  <2> QED BY <2>1, <2>2
<1>9. \A k \in 1..n : Place(s, k) \in 1..n /\ rank[Place(s, k)] = k - 1
  BY <1>1, <1>2, <1>8 DEF Place
<1>10. ASSUME NEW i \in 1..n PROVE \E k \in 1..n : Place(s, k) = i
  <2>1. rank[i] + 1 \in 1..n /\ (rank[i] + 1) - 1 = rank[i]
    BY <1>1, <1>2
  <2>2. rank[Place(s, rank[i] + 1)] = rank[i] /\ Place(s, rank[i] + 1) \in 1..n
    BY <1>9, <2>1
  <2>3. Place(s, rank[i] + 1) = i
    BY <1>3, <2>2
  <2> QED BY <2>1, <2>3
<1> QED BY <1>2, <1>9, <1>10

\* The sorted sequence has the elements of s, each at one place, the best first.
LEMMA SortFacts ==
  ASSUME NEW s \in Seq(Findings)
  PROVE  /\ StableSorted(s) \in Seq(Findings) /\ Len(StableSorted(s)) = Len(s)
         /\ \A k \in 1..Len(s) : /\ Place(s, k) \in 1..Len(s)
                                 /\ StableSorted(s)[k] = s[Place(s, k)]
         /\ \A i \in 1..Len(s) : \E k \in 1..Len(s) : Place(s, k) = i
         /\ \A k, l \in 1..Len(s) : k < l =>
               /\ Place(s, k) # Place(s, l)
               /\ ~RanksBefore(s[Place(s, l)], s[Place(s, k)])
<1>1. DOMAIN s = 1..Len(s) /\ Len(s) \in Nat /\ \A i \in 1..Len(s) : s[i] \in Findings
  BY ElementOfSeq
<1>2. StableSorted(s) = [k \in 1..Len(s) |-> s[Place(s, k)]]
  BY <1>1, SortedPlaces
<1>3. /\ \A k \in 1..Len(s) : /\ Place(s, k) \in 1..Len(s)
                              /\ Cardinality(Ahead(s, Place(s, k))) = k - 1
      /\ \A i \in 1..Len(s) : \E k \in 1..Len(s) : Place(s, k) = i
  BY PlaceFacts
<1>4. StableSorted(s) \in [1..Len(s) -> Findings]
  BY <1>1, <1>2, <1>3
<1>5. StableSorted(s) \in Seq(Findings) /\ Len(StableSorted(s)) = Len(s)
  BY <1>1, <1>4
<1>6. ASSUME NEW k \in 1..Len(s), NEW l \in 1..Len(s), k < l
      PROVE  /\ Place(s, k) # Place(s, l)
             /\ ~RanksBefore(s[Place(s, l)], s[Place(s, k)])
  <2>1. Place(s, k) # Place(s, l)
    BY <1>3, <1>6
  <2>2. ~Before(s, Place(s, l), Place(s, k))
    <3>1. CASE Before(s, Place(s, l), Place(s, k))
      <4>1. Cardinality(Ahead(s, Place(s, l))) < Cardinality(Ahead(s, Place(s, k)))
        BY <1>3, <3>1, AheadGrows
      <4> QED BY <1>3, <1>6, <4>1
    <3> QED BY <3>1
  <2> QED BY <2>1, <2>2 DEF Before
<1> QED BY <1>2, <1>3, <1>5, <1>6

\* The report has each finding once, at least as severe as all its reports, with
\* the evidence of all of them, and nothing else, the best ranked first.
Aggregated(r, fs) ==
    /\ r \in Seq(Findings)
    /\ \A a, b \in 1..Len(r) : a < b => ~Same(r, a, r, b) /\ ~RanksBefore(r[b], r[a])
    /\ \A j \in 1..Len(fs) : \E a \in 1..Len(r) : Same(r, a, fs, j)
    /\ \A a \in 1..Len(r) : \E j \in 1..Len(fs) : Same(r, a, fs, j)
    /\ \A a \in 1..Len(r), j \in 1..Len(fs) : Same(r, a, fs, j) =>
          fs[j].ev \subseteq r[a].ev /\ ~RanksBefore(fs[j], r[a])
    /\ \A a \in 1..Len(r) : \A x \in r[a].ev :
          \E j \in 1..Len(fs) : Same(r, a, fs, j) /\ x \in fs[j].ev

LEMMA AggregateFacts ==
  ASSUME NEW fs \in Seq(Findings)
  PROVE  Aggregated(Aggregate(fs), fs)
<1> DEFINE d == Deduped(fs)
           r == StableSorted(d)
<1>1. Faithful(d, fs, Len(fs))
  BY DedupedIsFaithful
<1>2. d \in Seq(Findings)
  BY <1>1 DEF Faithful
<1> HIDE DEF d
<1>3. /\ r \in Seq(Findings) /\ Len(r) = Len(d)
      /\ \A k \in 1..Len(d) : Place(d, k) \in 1..Len(d) /\ r[k] = d[Place(d, k)]
      /\ \A i \in 1..Len(d) : \E k \in 1..Len(d) : Place(d, k) = i
      /\ \A k, l \in 1..Len(d) : k < l =>
            Place(d, k) # Place(d, l) /\ ~RanksBefore(d[Place(d, l)], d[Place(d, k)])
  BY <1>2, SortFacts
<1> HIDE DEF r
<1>4. \A a, b \in 1..Len(r) : a < b => ~Same(r, a, r, b) /\ ~RanksBefore(r[b], r[a])
  BY <1>1, <1>3 DEF Faithful, Same
<1>5. \A j \in 1..Len(fs) : \E a \in 1..Len(r) : Same(r, a, fs, j)
  <2> SUFFICES ASSUME NEW j \in 1..Len(fs) PROVE \E a \in 1..Len(r) : Same(r, a, fs, j)
    OBVIOUS
  <2>1. PICK i \in 1..Len(d) : Same(d, i, fs, j)
    BY <1>1 DEF Faithful
  <2>2. PICK k \in 1..Len(d) : Place(d, k) = i
    BY <1>3
  <2> QED BY <1>3, <2>1, <2>2 DEF Same
<1>6. ASSUME NEW a \in 1..Len(r)
      PROVE  /\ \E j \in 1..Len(fs) : Same(r, a, fs, j)
             /\ \A j \in 1..Len(fs) : Same(r, a, fs, j) =>
                   fs[j].ev \subseteq r[a].ev /\ ~RanksBefore(fs[j], r[a])
             /\ \A x \in r[a].ev : \E j \in 1..Len(fs) : Same(r, a, fs, j) /\ x \in fs[j].ev
  <2>1. PICK i \in 1..Len(d) : r[a] = d[i]
    BY <1>3
  <2>2. \A j : Same(r, a, fs, j) <=> Same(d, i, fs, j)
    BY <2>1 DEF Same
  <2>3. /\ \E j \in 1..Len(fs) : Same(d, i, fs, j)
        /\ \A j \in 1..Len(fs) : Same(d, i, fs, j) =>
              fs[j].ev \subseteq d[i].ev /\ ~RanksBefore(fs[j], d[i])
        /\ \A x \in d[i].ev : \E j \in 1..Len(fs) : Same(d, i, fs, j) /\ x \in fs[j].ev
    BY <1>1 DEF Faithful
  <2> QED BY <2>1, <2>2, <2>3
<1> QED BY <1>3, <1>4, <1>5, <1>6 DEF Aggregated, Aggregate, r, d
---------------------------------------------------------------------------------
(* The invariant.                                                          *)

Ends  == {"filter", "persist", "exit", "done"}
Types == {"scan_started", "collector_started", "collector_done", "rule_evaluated",
          "finding_added", "scan_completed", "scan_failed"}
Event == [type: Types,
          of: {"scan"} \cup Collectors \cup Engines \cup {Key(f) : f \in Raw}]

\* The events about the collectors, those about the engines.
Collected ==
    /\ pc = "start" => events = <<>>
    /\ pc # "start" => Len(events) > 0
    /\ gathered <=> pc \notin {"start", "collect"}
    /\ pc \notin {"start", "collect"} => \A c \in Collectors : verdict[c] # Undecided
    /\ \A i \in Kinds("collector_started") : events[i].of \in started
    /\ \A c \in started : \E i \in Kinds("collector_started") : events[i].of = c
    /\ \A i \in Kinds("collector_done") : verdict[events[i].of] # Undecided

Ruled ==
    \A i \in Kinds("rule_evaluated") :
        /\ pc \notin {"start", "collect"}
        /\ pc \in Engines => pc \in Later(events[i].of)

\* Announced and found are the same.
Told ==
    /\ \A i \in Kinds("finding_added") : \E k \in 1..Len(all) : events[i].of = Key(all[k])
    /\ \A k \in 1..Len(all) : \E i \in Kinds("finding_added") : events[i].of = Key(all[k])

Reported ==
    /\ completed => report = Aggregate(all)
    /\ pc \in {"filter", "persist", "exit"} => completed
    /\ filtered => visible = {f \in ToSet(report) : ~IsHidden(f)}

Exited ==
    /\ exit # "none" => pc = "done"
    /\ pc = "persist" => opts.save
    /\ pc = "exit" /\ opts.save => saved = "yes"

IInv == /\ TypeOK /\ events \in Seq(Event)
        /\ EventLogIsWellFormed /\ Collected /\ Ruled
        /\ Told /\ Reported /\ Exited /\ ExitIsHonest
---------------------------------------------------------------------------------
LEMMA AfterFacts ==
  ASSUME NEW e \in Engines
  PROVE  /\ After(e) \in Later(e) \cup {"report"}
         /\ Later(e) \subseteq Engines \ {e}
         /\ \A d \in Later(e) : Later(d) \subseteq Later(e)
<1> DEFINE left == {d \in Later(e) : Selected(d)}
<1>1. /\ Later(e) \subseteq Engines \ {e}
      /\ \A d \in Later(e) : Later(d) \subseteq Later(e)
  BY DEF Engines, Later
<1>2. left # {} => \E d \in left : left \ {d} \subseteq Later(d)
  <2> SUFFICES ASSUME left # {} PROVE \E d \in left : left \ {d} \subseteq Later(d)
    OBVIOUS
  <2>1. left \subseteq {"m6", "m8", "rulepack"}
    BY DEF Engines, Later
  <2> HIDE DEF left
  <2>2. CASE "m6" \in left
    BY <2>1, <2>2 DEF Later
  <2>3. CASE "m6" \notin left /\ "m8" \in left
    BY <2>1, <2>3 DEF Later
  <2>4. CASE "m6" \notin left /\ "m8" \notin left
    BY <2>1, <2>4 DEF Later
  <2> QED BY <2>2, <2>3, <2>4
<1>3. After(e) = IF left = {} THEN "report" ELSE CHOOSE d \in left : left \ {d} \subseteq Later(d)
  BY DEF After
<1>4. left \subseteq Later(e)
  OBVIOUS
<1> HIDE DEF left
<1>5. After(e) \in left \cup {"report"}
  BY <1>2, <1>3
<1> QED BY <1>1, <1>4, <1>5

LEMMA RawFindings == Raw \subseteq Findings /\ \A q \in Outputs : q \in Seq(Findings) /\ q \in Seq(Raw)
<1>1. \A q \in Outputs : q \in Seq(Findings)
  BY ScanAssumption
<1>2. ASSUME NEW q \in Outputs PROVE ToSet(q) \subseteq Findings /\ q \in Seq(ToSet(q))
  <2>1. q \in Seq(Findings) /\ DOMAIN q = 1..Len(q) /\ Len(q) \in Nat
    BY <1>1
  <2>2. \A i \in DOMAIN q : q[i] \in Findings
    BY <2>1, ElementOfSeq
  <2>3. q \in [1..Len(q) -> ToSet(q)]
    BY <2>1 DEF ToSet
  <2> QED BY <2>1, <2>2, <2>3 DEF ToSet
<1>3. \A q \in Outputs : ToSet(q) \subseteq Raw
  BY DEF Raw
<1>4. \A q \in Outputs : q \in Seq(Raw)
  BY <1>2, <1>3, SeqMonotonic
<1> QED BY <1>1, <1>2, <1>4 DEF Raw

\* A step adds the event e and announces the findings fs.
Grown(e, fs) ==
    /\ e \in Event /\ events' \in Seq(Event)
    /\ Len(events) \in Nat /\ Len(events') = Len(events) + 1 + Len(fs) /\ Len(fs) \in Nat
    /\ \A i \in 1..Len(events) : events'[i] = events[i]
    /\ events'[Len(events) + 1] = e
    /\ \A k \in 1..Len(fs) :
          events'[Len(events) + 1 + k] = Ev("finding_added", Key(fs[k]))

LEMMA EmitGrows ==
  ASSUME events \in Seq(Event), NEW e \in Event, Emit(e)
  PROVE  Grown(e, <<>>)
<1>1. Len(<<>>) = 0 /\ 1..Len(<<>>) = {}
  OBVIOUS
<1>2. /\ events' \in Seq(Event) /\ Len(events') = Len(events) + 1
      /\ \A i \in 1..Len(events) : events'[i] = events[i]
      /\ events'[Len(events) + 1] = e
  BY AppendProperties DEF Emit
<1>3. Len(events) \in Nat
  BY LenProperties
<1>4. Len(events) + 1 = Len(events) + 1 + Len(<<>>)
  BY <1>1, <1>3
<1>5. \A k \in 1..Len(<<>>) : events'[Len(events) + 1 + k] = Ev("finding_added", Key(<<>>[k]))
  BY <1>1
<1> QED BY <1>1, <1>2, <1>3, <1>4, <1>5 DEF Grown

LEMMA EvaluationGrows ==
  ASSUME events \in Seq(Event), NEW e \in Event, NEW fs \in Seq(Raw),
         events' = events \o (<<e>> \o Announced(fs))
  PROVE  Grown(e, fs)
<1>1. Len(fs) \in Nat /\ DOMAIN fs = 1..Len(fs) /\ \A k \in 1..Len(fs) : fs[k] \in Raw
  BY ElementOfSeq
<1>2. Announced(fs) = [k \in 1..Len(fs) |-> Ev("finding_added", Key(fs[k]))]
  BY <1>1 DEF Announced
<1>3. \A k \in 1..Len(fs) : Ev("finding_added", Key(fs[k])) \in Event
  BY <1>1 DEF Ev, Event, Types
<1>4. Announced(fs) \in [1..Len(fs) -> Event]
  <2> HIDE DEF Event, Announced
  <2> DEFINE a(k) == Ev("finding_added", Key(fs[k]))
  <2>1. Announced(fs) = [k \in 1..Len(fs) |-> a(k)] /\ \A k \in 1..Len(fs) : a(k) \in Event
    BY <1>2, <1>3
  <2> HIDE DEF a
  <2> QED BY <2>1
<1>5. Announced(fs) \in Seq(Event) /\ Len(Announced(fs)) = Len(fs)
  <2> DEFINE a == Announced(fs)
  <2>1. a \in [1..Len(fs) -> Event]
    BY <1>4
  <2> HIDE DEF a, Event
  <2>2. a \in Seq(Event)
    BY <1>1, <2>1, SeqDef
  <2>3. DOMAIN a = 1..Len(fs) /\ DOMAIN a = 1..Len(a) /\ Len(a) \in Nat
    BY <2>1, <2>2, LenProperties
  <2>4. Len(a) = Len(fs)
    BY <1>1, <2>3
  <2> QED BY <2>2, <2>4 DEF a
<1>6. /\ <<e>> \o Announced(fs) \in Seq(Event) /\ Len(<<e>> \o Announced(fs)) = 1 + Len(fs)
      /\ (<<e>> \o Announced(fs))[1] = e
      /\ \A k \in 1..Len(fs) : (<<e>> \o Announced(fs))[1 + k] = Announced(fs)[k]
  <2>1. <<e>> \in Seq(Event) /\ Len(<<e>>) = 1 /\ <<e>>[1] = e
    OBVIOUS
  <2> QED BY <1>1, <1>5, <2>1, ConcatProperties
<1> DEFINE new == <<e>> \o Announced(fs)
<1> HIDE DEF new
<1>7. /\ new \in Seq(Event) /\ Len(new) = 1 + Len(fs) /\ new[1] = e
      /\ \A k \in 1..Len(fs) : new[1 + k] = Ev("finding_added", Key(fs[k]))
  BY <1>2, <1>6 DEF new
<1>8. events' = events \o new
  BY DEF new
<1>9. /\ events' \in Seq(Event) /\ Len(events') = Len(events) + Len(new)
      /\ \A i \in 1..Len(events) : events'[i] = events[i]
      /\ \A k \in 1..Len(new) : events'[Len(events) + k] = new[k]
  <2>1. /\ events \o new \in Seq(Event)
        /\ Len(events \o new) = Len(events) + Len(new)
        /\ \A i \in 1..Len(events) + Len(new) :
              (events \o new)[i] = IF i <= Len(events) THEN events[i] ELSE new[i - Len(events)]
    <3>1. events \in Seq(Event) /\ new \in Seq(Event)
      BY <1>7
    <3> QED BY ONLY <3>1, ConcatProperties
  <2>2. Len(events) \in Nat /\ Len(new) \in Nat
    BY <1>7, LenProperties
  <2>3. \A k \in 1..Len(new) : /\ Len(events) + k \in 1..Len(events) + Len(new)
                              /\ ~(Len(events) + k <= Len(events))
                              /\ (Len(events) + k) - Len(events) = k
    BY <2>2
  <2>4. \A i \in 1..Len(events) : i \in 1..Len(events) + Len(new) /\ i <= Len(events)
    BY <2>2
  <2> QED BY <1>8, <2>1, <2>3, <2>4
<1>10. Len(events) \in Nat /\ 1 \in 1..Len(new) /\ \A k \in 1..Len(fs) : 1 + k \in 1..Len(new)
  BY <1>1, <1>7
<1>11. events'[Len(events) + 1] = e
  BY <1>7, <1>9, <1>10
<1>12. \A k \in 1..Len(fs) : events'[Len(events) + 1 + k] = Ev("finding_added", Key(fs[k]))
  <2> SUFFICES ASSUME NEW k \in 1..Len(fs)
               PROVE  events'[Len(events) + 1 + k] = Ev("finding_added", Key(fs[k]))
    OBVIOUS
  <2>1. events'[Len(events) + (1 + k)] = new[1 + k]
    BY <1>9, <1>10
  <2>2. Len(events) + (1 + k) = Len(events) + 1 + k
    BY <1>10
  <2> QED BY <1>7, <2>1, <2>2
<1> QED BY <1>1, <1>7, <1>9, <1>10, <1>11, <1>12 DEF Grown

\* Where an event of the grown log comes from.
LEMMA GrownEvents ==
  ASSUME events \in Seq(Event), NEW e, NEW fs, Grown(e, fs)
  PROVE  /\ DOMAIN events = 1..Len(events) /\ DOMAIN events' = 1..Len(events')
         /\ Len(events) \in Nat /\ Len(events') \in Nat
         /\ Len(events) + 1 \in DOMAIN events' /\ events'[Len(events) + 1] = e
         /\ \A i \in DOMAIN events : i \in DOMAIN events' /\ events'[i] = events[i]
         /\ \A k \in 1..Len(fs) : /\ Len(events) + 1 + k \in DOMAIN events'
                                  /\ events'[Len(events) + 1 + k] = Ev("finding_added", Key(fs[k]))
         /\ \A i \in DOMAIN events' :
               \/ i \in DOMAIN events
               \/ i = Len(events) + 1
               \/ /\ i > Len(events) + 1
                  /\ \E k \in 1..Len(fs) : events'[i] = Ev("finding_added", Key(fs[k]))
<1> USE DEF Grown
<1>1. DOMAIN events = 1..Len(events) /\ DOMAIN events' = 1..Len(events')
  BY LenProperties
<1>2. /\ Len(events) \in Nat /\ Len(fs) \in Nat
      /\ Len(events') = Len(events) + 1 + Len(fs) /\ Len(events') \in Nat
  OBVIOUS
<1>3. \A k \in 1..Len(fs) : Len(events) + 1 + k \in 1..Len(events')
  BY <1>2
<1>4. Len(events) + 1 \in 1..Len(events') /\ \A i \in 1..Len(events) : i \in 1..Len(events')
  BY <1>2
<1>5. \A i \in 1..Len(events') :
         \/ i \in 1..Len(events)
         \/ i = Len(events) + 1
         \/ i > Len(events) + 1 /\ i - (Len(events) + 1) \in 1..Len(fs)
            /\ Len(events) + 1 + (i - (Len(events) + 1)) = i
  BY <1>2
<1>6. \A i \in 1..Len(events') :
         i > Len(events) + 1 /\ i - (Len(events) + 1) \in 1..Len(fs)
            /\ Len(events) + 1 + (i - (Len(events) + 1)) = i
         => \E k \in 1..Len(fs) : events'[i] = Ev("finding_added", Key(fs[k]))
  OBVIOUS
<1> QED BY <1>1, <1>2, <1>3, <1>4, <1>5, <1>6

\* A new event, and the findings announced with it, leave the log well-formed.
LEMMA LogGrows ==
  ASSUME events \in Seq(Event), EventLogIsWellFormed, NEW e, NEW fs, Grown(e, fs),
         pc \notin Ends,
         e.type # "finding_added",
         \A i \in DOMAIN events : events[i] # e,
         Len(events) = 0 <=> e.type = "scan_started",
         e.type = "collector_done" =>
            /\ \A i \in DOMAIN events : events[i].type # "rule_evaluated"
            /\ \E i \in DOMAIN events : events[i].type = "collector_started" /\ events[i].of = e.of,
         e.type \in {"scan_completed", "scan_failed"} <=> pc' \in Ends,
         pc' \in Ends => fs = <<>>
  PROVE  EventLogIsWellFormed'
<1> DEFINE n == Len(events)
           Told2(i) == \E k \in 1..Len(fs) : events'[i] = Ev("finding_added", Key(fs[k]))
<1>1. /\ DOMAIN events = 1..n /\ DOMAIN events' = 1..Len(events')
      /\ n \in Nat /\ Len(events') \in Nat
      /\ n + 1 \in DOMAIN events' /\ events'[n + 1] = e
      /\ \A i \in DOMAIN events : i \in DOMAIN events' /\ events'[i] = events[i]
      /\ \A i \in DOMAIN events' : i \in DOMAIN events \/ i = n + 1 \/ (i > n + 1 /\ Told2(i))
  BY GrownEvents
<1>2. \A i : Told2(i) => events'[i].type = "finding_added"
  BY DEF Ev
<1>3. fs = <<>> => Len(events') = n + 1
  BY <1>1 DEF Grown
<1>4. /\ \A i \in DOMAIN events : i = 1 <=> events[i].type = "scan_started"
      /\ \A i, j \in DOMAIN events : events[i] = events[j] /\ events[i].type # "finding_added" => i = j
      /\ \A i, j \in DOMAIN events : /\ events[j].type = "collector_done"
                                     /\ events[i].type = "rule_evaluated"
                                     => j < i
      /\ \A j \in DOMAIN events : events[j].type = "collector_done" =>
            \E i \in DOMAIN events : /\ events[i].type = "collector_started"
                                     /\ i < j /\ events[i].of = events[j].of
      /\ \A i \in DOMAIN events : events[i].type \notin {"scan_completed", "scan_failed"}
  BY DEF EventLogIsWellFormed, Kinds, Terminal, Ends
<1> HIDE DEF n, Told2
<1>5. \A i \in DOMAIN events' : i = 1 <=> events'[i].type = "scan_started"
  <2> SUFFICES ASSUME NEW i \in DOMAIN events' PROVE i = 1 <=> events'[i].type = "scan_started"
    OBVIOUS
  <2>1. CASE i \in DOMAIN events
    BY <1>1, <1>4, <2>1
  <2>2. CASE i = n + 1
    BY <1>1, <2>2 DEF n
  <2>3. CASE i > n + 1 /\ Told2(i)
    BY <1>1, <1>2, <2>3
  <2> QED BY <1>1, <2>1, <2>2, <2>3
<1>6. \A i, j \in DOMAIN events' : events'[i] = events'[j] /\ events'[i].type # "finding_added" => i = j
  BY <1>1, <1>2, <1>4
<1>7. \A i, j \in DOMAIN events' :
         events'[j].type = "collector_done"
         /\ events'[i].type \in {"rule_evaluated", "scan_completed", "scan_failed"} => j < i
  <2> SUFFICES ASSUME NEW i \in DOMAIN events', NEW j \in DOMAIN events',
                      events'[j].type = "collector_done",
                      events'[i].type \in {"rule_evaluated", "scan_completed", "scan_failed"}
               PROVE  j < i
    OBVIOUS
  <2>1. CASE j \in DOMAIN events
    BY <1>1, <1>2, <1>4, <2>1
  <2>2. CASE j = n + 1
    BY <1>1, <1>2, <1>4, <2>2
  <2> QED BY <1>1, <1>2, <2>1, <2>2
<1>8. \A j \in DOMAIN events' : events'[j].type = "collector_done" =>
         \E i \in DOMAIN events' : /\ events'[i].type = "collector_started"
                                   /\ i < j /\ events'[i].of = events'[j].of
  <2> SUFFICES ASSUME NEW j \in DOMAIN events', events'[j].type = "collector_done"
               PROVE  \E i \in DOMAIN events' : /\ events'[i].type = "collector_started"
                                                /\ i < j /\ events'[i].of = events'[j].of
    OBVIOUS
  <2>1. CASE j \in DOMAIN events
    BY <1>1, <1>4, <2>1
  <2>2. CASE j = n + 1
    <3>1. PICK i \in DOMAIN events : events[i].type = "collector_started" /\ events[i].of = e.of
      BY <1>1, <2>2
    <3> QED BY <1>1, <2>2, <3>1
  <2> QED BY <1>1, <1>2, <2>1, <2>2
<1>9. \A i \in DOMAIN events' : events'[i].type \in {"scan_completed", "scan_failed"} =>
         i = Len(events') /\ pc' \in Ends
  BY <1>1, <1>2, <1>3, <1>4
<1>10. pc' \in Ends => events'[n + 1].type \in {"scan_completed", "scan_failed"}
  BY <1>1
<1>11. /\ Kinds("rule_evaluated")' = {i \in DOMAIN events' : events'[i].type = "rule_evaluated"}
       /\ Kinds("collector_done")' = {i \in DOMAIN events' : events'[i].type = "collector_done"}
       /\ Kinds("collector_started")' = {i \in DOMAIN events' : events'[i].type = "collector_started"}
       /\ Terminal' = {i \in DOMAIN events' : events'[i].type \in {"scan_completed", "scan_failed"}}
  BY DEF Kinds, Terminal
<1>12. /\ \A i, j \in DOMAIN events' :
             /\ events'[i] = events'[j] /\ events'[i].type # "finding_added" => i = j
             /\ j \in Kinds("collector_done")' /\ i \in Kinds("rule_evaluated")' \cup Terminal' => j < i
       /\ \A j \in Kinds("collector_done")' :
             \E i \in Kinds("collector_started")' : i < j /\ events'[i].of = events'[j].of
  BY <1>6, <1>7, <1>8, <1>11
<1>13. Terminal' \subseteq {Len(events')}
  BY <1>9, <1>11
<1>14. Terminal' # {} <=> pc' \in {"filter", "persist", "exit", "done"}
  BY <1>1, <1>9, <1>10, <1>11 DEF Ends
<1> QED BY <1>5, <1>12, <1>13, <1>14 DEF EventLogIsWellFormed

LEMMA GrownKinds ==
  ASSUME events \in Seq(Event), NEW e, NEW fs, Grown(e, fs),
         NEW type, type # "finding_added"
  PROVE  /\ \A i \in Kinds(type) : i \in Kinds(type)' /\ events'[i] = events[i]
         /\ \A i \in Kinds(type)' : \/ i \in Kinds(type) /\ events'[i] = events[i]
                                    \/ events'[i] = e /\ e.type = type
         /\ e.type = type => \E i \in Kinds(type)' : events'[i] = e
<1> DEFINE Told2(i) == \E k \in 1..Len(fs) : events'[i] = Ev("finding_added", Key(fs[k]))
           n == Len(events)
<1>1. /\ n + 1 \in DOMAIN events' /\ events'[n + 1] = e
      /\ \A i \in DOMAIN events : i \in DOMAIN events' /\ events'[i] = events[i]
      /\ \A i \in DOMAIN events' : i \in DOMAIN events \/ i = n + 1 \/ Told2(i)
  BY GrownEvents
<1>2. \A i : Told2(i) => events'[i].type = "finding_added"
  BY DEF Ev
<1> HIDE DEF Told2, n
<1> QED BY <1>1, <1>2 DEF Kinds

LEMMA GrownFindings ==
  ASSUME events \in Seq(Event), NEW e, NEW fs, Grown(e, fs), e.type # "finding_added"
  PROVE  /\ \A i \in Kinds("finding_added") : i \in Kinds("finding_added")' /\ events'[i] = events[i]
         /\ \A i \in Kinds("finding_added")' :
               \/ i \in Kinds("finding_added") /\ events'[i] = events[i]
               \/ \E k \in 1..Len(fs) : events'[i].of = Key(fs[k])
         /\ \A k \in 1..Len(fs) : \E i \in Kinds("finding_added")' : events'[i].of = Key(fs[k])
<1> DEFINE Told2(i) == \E k \in 1..Len(fs) : events'[i] = Ev("finding_added", Key(fs[k]))
           n == Len(events)
<1>1. /\ n + 1 \in DOMAIN events' /\ events'[n + 1] = e
      /\ \A i \in DOMAIN events : i \in DOMAIN events' /\ events'[i] = events[i]
      /\ \A i \in DOMAIN events' : i \in DOMAIN events \/ i = n + 1 \/ Told2(i)
      /\ \A k \in 1..Len(fs) : /\ n + 1 + k \in DOMAIN events'
                               /\ events'[n + 1 + k] = Ev("finding_added", Key(fs[k]))
  BY GrownEvents
<1>2. \A k \in 1..Len(fs) : /\ Ev("finding_added", Key(fs[k])).type = "finding_added"
                            /\ Ev("finding_added", Key(fs[k])).of = Key(fs[k])
  BY DEF Ev
<1>3. \A i : Told2(i) => \E k \in 1..Len(fs) : events'[i].of = Key(fs[k])
  BY <1>2
<1>4. \A k \in 1..Len(fs) : n + 1 + k \in Kinds("finding_added")'
  BY <1>1, <1>2 DEF Kinds
<1>5. \A k \in 1..Len(fs) : \E i \in Kinds("finding_added")' : events'[i].of = Key(fs[k])
  BY <1>1, <1>2, <1>4
<1> HIDE DEF Told2, n
<1>6. \A i \in Kinds("finding_added") : i \in Kinds("finding_added")' /\ events'[i] = events[i]
  BY <1>1 DEF Kinds
<1>7. \A i \in Kinds("finding_added")' : \/ i \in Kinds("finding_added") /\ events'[i] = events[i]
                                         \/ Told2(i)
  BY <1>1 DEF Kinds
<1> QED BY <1>3, <1>5, <1>6, <1>7

\* What every step that adds to the log preserves.
LEMMA LogKept ==
  ASSUME TypeOK, events \in Seq(Event), Told,
         NEW e \in Event, NEW fs \in Seq(Raw), Grown(e, fs), all' = all \o fs,
         e.type # "finding_added", e.of \in Subjects(e.type)
  PROVE  /\ events' \in Seq(Event) /\ all' \in Seq(Findings) /\ Told'
         /\ \A d \in ToSet(events)' : d.of \in Subjects(d.type)
<1>1. fs \in Seq(Findings) /\ all \in Seq(Findings)
  <2>1. Raw \subseteq Findings
    BY RawFindings
  <2> QED BY <2>1, SeqMonotonic DEF TypeOK
<1>2. Len(all) \in Nat /\ Len(fs) \in Nat /\ \A k \in 1..Len(fs) : fs[k] \in Raw
  BY <1>1, ElementOfSeq, LenProperties
<1>3. /\ all' \in Seq(Findings)
      /\ Len(all') = Len(all) + Len(fs)
      /\ \A i \in 1..Len(all) + Len(fs) :
            all'[i] = IF i <= Len(all) THEN all[i] ELSE fs[i - Len(all)]
  <2>1. /\ all \o fs \in Seq(Findings)
        /\ Len(all \o fs) = Len(all) + Len(fs)
        /\ \A i \in 1..Len(all) + Len(fs) :
              (all \o fs)[i] = IF i <= Len(all) THEN all[i] ELSE fs[i - Len(all)]
    BY ONLY <1>1, ConcatProperties
  <2> QED BY <2>1
<1>4. \A k \in 1..Len(all) : k \in 1..Len(all') /\ all'[k] = all[k]
  BY <1>2, <1>3
<1>5. \A k \in 1..Len(fs) : \E j \in 1..Len(all') : all'[j] = fs[k]
  <2> SUFFICES ASSUME NEW k \in 1..Len(fs) PROVE \E j \in 1..Len(all') : all'[j] = fs[k]
    OBVIOUS
  <2>1. /\ Len(all) + k \in 1..Len(all) + Len(fs) /\ ~(Len(all) + k <= Len(all))
        /\ (Len(all) + k) - Len(all) = k
    BY <1>2
  <2> QED BY <1>3, <2>1
<1>6. \A j \in 1..Len(all') : (\E k \in 1..Len(all) : all'[j] = all[k]) \/ \E k \in 1..Len(fs) : all'[j] = fs[k]
  <2> SUFFICES ASSUME NEW j \in 1..Len(all')
               PROVE  (\E k \in 1..Len(all) : all'[j] = all[k]) \/ \E k \in 1..Len(fs) : all'[j] = fs[k]
    OBVIOUS
  <2>1. CASE j <= Len(all)
    BY <1>2, <1>3, <2>1
  <2>2. CASE ~(j <= Len(all))
    <3>1. j - Len(all) \in 1..Len(fs)
      BY <1>2, <1>3, <2>2
    <3> QED BY <1>3, <2>2, <3>1
  <2> QED BY <2>1, <2>2
<1>7. Told'
  <2> DEFINE F == Kinds("finding_added")
  <2>1. /\ \A i \in F : i \in F' /\ events'[i] = events[i]
        /\ \A i \in F' : \/ i \in F /\ events'[i] = events[i]
                         \/ \E k \in 1..Len(fs) : events'[i].of = Key(fs[k])
        /\ \A k \in 1..Len(fs) : \E i \in F' : events'[i].of = Key(fs[k])
    BY GrownFindings
  <2>2. /\ \A i \in F : \E k \in 1..Len(all) : events[i].of = Key(all[k])
        /\ \A k \in 1..Len(all) : \E i \in F : events[i].of = Key(all[k])
    BY DEF Told
  <2> HIDE DEF F
  <2>3. \A i \in F' : \E j \in 1..Len(all') : events'[i].of = Key(all'[j])
    <3> SUFFICES ASSUME NEW i \in F' PROVE \E j \in 1..Len(all') : events'[i].of = Key(all'[j])
      OBVIOUS
    <3>1. CASE i \in F /\ events'[i] = events[i]
      BY <1>4, <2>2, <3>1
    <3>2. CASE \E k \in 1..Len(fs) : events'[i].of = Key(fs[k])
      BY <1>5, <3>2
    <3> QED BY <2>1, <3>1, <3>2
  <2>4. \A j \in 1..Len(all') : \E i \in F' : events'[i].of = Key(all'[j])
    <3> SUFFICES ASSUME NEW j \in 1..Len(all') PROVE \E i \in F' : events'[i].of = Key(all'[j])
      OBVIOUS
    <3>1. CASE \E k \in 1..Len(all) : all'[j] = all[k]
      BY <2>1, <2>2, <3>1
    <3>2. CASE \E k \in 1..Len(fs) : all'[j] = fs[k]
      BY <2>1, <3>2
    <3> QED BY <1>6, <3>1, <3>2
  <2> QED BY <2>3, <2>4 DEF Told, F
<1>8. \A d \in ToSet(events)' : d.of \in Subjects(d.type)
  <2>1. /\ \A i \in DOMAIN events : events'[i] = events[i]
        /\ events'[Len(events) + 1] = e
        /\ \A i \in DOMAIN events' : \/ i \in DOMAIN events
                                     \/ i = Len(events) + 1
                                     \/ \E k \in 1..Len(fs) : events'[i] = Ev("finding_added", Key(fs[k]))
    BY GrownEvents
  <2>2. \A i \in DOMAIN events : events[i].of \in Subjects(events[i].type)
    BY DEF TypeOK, ToSet
  <2>3. \A k \in 1..Len(fs) : Ev("finding_added", Key(fs[k])).of
                              \in Subjects(Ev("finding_added", Key(fs[k])).type)
    BY <1>2 DEF Ev, Subjects
  <2>4. \A i \in DOMAIN events' : events'[i].of \in Subjects(events'[i].type)
    BY <2>1, <2>2, <2>3
  <2> QED BY <2>4 DEF ToSet
<1> QED BY <1>3, <1>7, <1>8 DEF Grown

LEMMA EmitKept ==
  ASSUME IInv, NEW e \in Event, Emit(e), all' = all, pc \notin Ends,
         e.type # "finding_added", e.of \in Subjects(e.type),
         \A i \in DOMAIN events : events[i] # e,
         Len(events) = 0 <=> e.type = "scan_started",
         e.type = "collector_done" =>
            /\ \A i \in DOMAIN events : events[i].type # "rule_evaluated"
            /\ \E i \in DOMAIN events : events[i].type = "collector_started" /\ events[i].of = e.of,
         e.type \in {"scan_completed", "scan_failed"} <=> pc' \in Ends
  PROVE  /\ Grown(e, <<>>) /\ EventLogIsWellFormed'
         /\ events' \in Seq(Event) /\ all' \in Seq(Findings) /\ Told'
         /\ \A d \in ToSet(events)' : d.of \in Subjects(d.type)
<1>1. <<>> \in Seq(Raw)
  OBVIOUS
<1>2. /\ events \in Seq(Event) /\ TypeOK /\ Told /\ EventLogIsWellFormed /\ all \in Seq(Findings)
  BY DEF IInv, TypeOK
<1>3. Grown(e, <<>>)
  BY <1>2, EmitGrows
<1>4. all' = all \o <<>>
  BY <1>2, ConcatEmptySeq
<1>5. EventLogIsWellFormed'
  BY <1>2, <1>3, LogGrows
<1> QED BY <1>1, <1>2, <1>3, <1>4, <1>5, LogKept

\* While the scan has not ended, there is nothing to say of report and exit code.
LEMMA Working ==
  ASSUME IInv, pc \notin Ends, pc' \notin Ends, EventLogIsWellFormed', exit' = exit
  PROVE  Reported' /\ Exited' /\ ExitIsHonest'
<1>1. exit = "none"
  BY DEF IInv, Exited, Ends
<1>2. ~completed'
  <2>1. Terminal' = {}
    BY DEF EventLogIsWellFormed, Ends
  <2> QED BY <2>1 DEF completed, Terminal
<1> QED BY <1>1, <1>2 DEF Reported, Exited, ExitIsHonest, filtered, Ends

LEMMA StartKeeps == ASSUME IInv, Start PROVE IInv'
<1> DEFINE e == Ev("scan_started", "scan")
<1> USE DEF Start
<1>1. /\ TypeOK /\ events \in Seq(Event) /\ events = <<>> /\ pc \notin Ends /\ pc' \notin Ends
  BY DEF IInv, Collected, Ends
<1>2. e \in Event /\ e.type = "scan_started" /\ e.of = "scan" /\ e.of \in Subjects(e.type)
  BY DEF Ev, Event, Types, Subjects
<1>3. Len(events) = 0 /\ DOMAIN events = {}
  BY <1>1
<1> HIDE DEF e
<1>4. Emit(e)
  BY DEF e
<1>5. /\ Grown(e, <<>>) /\ EventLogIsWellFormed'
      /\ events' \in Seq(Event) /\ all' \in Seq(Findings) /\ Told'
      /\ \A d \in ToSet(events)' : d.of \in Subjects(d.type)
  BY <1>1, <1>2, <1>3, <1>4, EmitKept DEF Ends
<1>6. Reported' /\ Exited' /\ ExitIsHonest'
  BY <1>1, <1>5, Working
<1>7. TypeOK'
  BY <1>1, <1>5 DEF TypeOK
<1>8. started = {}
  <2>1. \A c \in started : \E i \in Kinds("collector_started") : events[i].of = c
    BY DEF IInv, Collected
  <2> QED BY <1>3, <2>1 DEF Kinds
<1>9. /\ Kinds("collector_started")' = {} /\ Kinds("collector_done")' = {}
      /\ Kinds("rule_evaluated")' = {}
  <2>1. \A T : Kinds(T) = {}
    BY <1>3 DEF Kinds
  <2>2. \A i \in Kinds("collector_started")' : i \in Kinds("collector_started")
    BY <1>1, <1>2, <1>5, GrownKinds
  <2>3. \A i \in Kinds("collector_done")' : i \in Kinds("collector_done")
    BY <1>1, <1>2, <1>5, GrownKinds
  <2>4. \A i \in Kinds("rule_evaluated")' : i \in Kinds("rule_evaluated")
    BY <1>1, <1>2, <1>5, GrownKinds
  <2> QED BY <2>1, <2>2, <2>3, <2>4
<1>10. Len(events') > 0
  BY <1>3, <1>5 DEF Grown
<1>11. Collected'
  <2>1. gathered' = gathered /\ ~gathered
    BY DEF IInv, Collected
  <2> QED BY <1>8, <1>9, <1>10, <2>1 DEF Collected
<1>12. Ruled'
  BY <1>9 DEF Ruled
<1> QED BY <1>5, <1>6, <1>7, <1>11, <1>12 DEF IInv

LEMMA CollectorStartedKeeps ==
  ASSUME IInv, NEW c \in Collectors, CollectorStarted(c) PROVE IInv'
<1> DEFINE e == Ev("collector_started", c)
<1> USE DEF CollectorStarted
<1>1. /\ TypeOK /\ events \in Seq(Event) /\ Collected /\ pc = "collect" /\ pc' = "collect"
      /\ pc \notin Ends /\ pc' \notin Ends
  BY DEF IInv, Ends
<1>2. e \in Event /\ e.type = "collector_started" /\ e.of = c /\ e.of \in Subjects(e.type)
  BY DEF Ev, Event, Types, Subjects
<1> HIDE DEF e
<1>3. Len(events) # 0 /\ Len(events) > 0 /\ Len(events) \in Nat
  BY <1>1, LenProperties DEF Collected
<1>4. \A i \in DOMAIN events : events[i] # e
  BY <1>1, <1>2 DEF Collected, Kinds
<1>5. Emit(e)
  BY DEF e
<1>6. /\ Grown(e, <<>>) /\ EventLogIsWellFormed'
      /\ events' \in Seq(Event) /\ all' \in Seq(Findings) /\ Told'
      /\ \A d \in ToSet(events)' : d.of \in Subjects(d.type)
  BY <1>1, <1>2, <1>3, <1>4, <1>5, EmitKept
<1>7. Reported' /\ Exited' /\ ExitIsHonest'
  BY <1>1, <1>6, Working
<1>8. TypeOK'
  BY <1>1, <1>6 DEF TypeOK
<1>9. Len(events') > 0
  BY <1>3, <1>6, EmptySeq DEF Grown
<1>10. /\ \A i \in Kinds("collector_started") :
             i \in Kinds("collector_started")' /\ events'[i] = events[i]
       /\ \A i \in Kinds("collector_started")' :
             \/ i \in Kinds("collector_started") /\ events'[i] = events[i]
             \/ events'[i] = e
       /\ \E i \in Kinds("collector_started")' : events'[i] = e
  BY <1>1, <1>2, <1>6, GrownKinds
<1>11. \A i \in Kinds("collector_done")' : i \in Kinds("collector_done") /\ events'[i] = events[i]
  BY <1>1, <1>2, <1>6, GrownKinds
<1>12. \A i \in Kinds("rule_evaluated")' : i \in Kinds("rule_evaluated") /\ events'[i] = events[i]
  BY <1>1, <1>2, <1>6, GrownKinds
<1>13. Collected'
  BY <1>1, <1>2, <1>9, <1>10, <1>11 DEF Collected
<1>14. Ruled'
  BY <1>1, <1>12 DEF IInv, Ruled
<1> QED BY <1>6, <1>7, <1>8, <1>13, <1>14 DEF IInv

LEMMA CollectorDoneKeeps ==
  ASSUME IInv, NEW c \in Collectors, CollectorDone(c) PROVE IInv'
<1> DEFINE e == Ev("collector_done", c)
<1>1. /\ TypeOK /\ events \in Seq(Event) /\ Collected /\ Ruled /\ pc = "collect" /\ pc' = "collect"
      /\ pc \notin Ends /\ pc' \notin Ends /\ c \in started
      /\ Emit(e) /\ UNCHANGED <<opts, pc, started, all, faulty, report, visible, saved, exit>>
  BY DEF IInv, Ends, CollectorDone
<1>2. PICK v \in Verdicts : SG!Decide(c, v)
  BY DEF CollectorDone
<1>3. /\ verdict[c] = Undecided /\ verdict' = [verdict EXCEPT ![c] = v] /\ UNCHANGED gathered
      /\ v # Undecided
  BY <1>2, ScanAssumption DEF SG!Decide
<1>4. e \in Event /\ e.type = "collector_done" /\ e.of = c /\ e.of \in Subjects(e.type)
  BY DEF Ev, Event, Types, Subjects
<1> HIDE DEF e
<1>5. Len(events) # 0 /\ Len(events) > 0 /\ Len(events) \in Nat
  BY <1>1, LenProperties DEF Collected
<1>6. \A i \in DOMAIN events : events[i] # e
  BY <1>1, <1>3, <1>4 DEF Collected, Kinds
<1>7. \A i \in DOMAIN events : events[i].type # "rule_evaluated"
  BY <1>1 DEF Ruled, Kinds
<1>8. \E i \in DOMAIN events : events[i].type = "collector_started" /\ events[i].of = e.of
  BY <1>1, <1>4 DEF Collected, Kinds
<1>9. /\ Grown(e, <<>>) /\ EventLogIsWellFormed'
      /\ events' \in Seq(Event) /\ all' \in Seq(Findings) /\ Told'
      /\ \A d \in ToSet(events)' : d.of \in Subjects(d.type)
  BY <1>1, <1>4, <1>5, <1>6, <1>7, <1>8, EmitKept
<1>10. Reported' /\ Exited' /\ ExitIsHonest'
  BY <1>1, <1>9, Working
<1>11. verdict' \in [Collectors -> Verdicts \cup {Undecided}]
  BY <1>1, <1>3 DEF TypeOK
<1>12. TypeOK'
  BY <1>1, <1>3, <1>9, <1>11 DEF TypeOK
<1>13. Len(events') > 0
  BY <1>5, <1>9, EmptySeq DEF Grown
<1>14. /\ \A i \in Kinds("collector_started") :
             i \in Kinds("collector_started")' /\ events'[i] = events[i]
       /\ \A i \in Kinds("collector_started")' : i \in Kinds("collector_started") /\ events'[i] = events[i]
  BY <1>1, <1>4, <1>9, GrownKinds
<1>15. \A i \in Kinds("collector_done")' :
          \/ i \in Kinds("collector_done") /\ events'[i] = events[i]
          \/ events'[i] = e
  BY <1>1, <1>4, <1>9, GrownKinds
<1>16. \A i \in Kinds("rule_evaluated")' : i \in Kinds("rule_evaluated") /\ events'[i] = events[i]
  BY <1>1, <1>4, <1>9, GrownKinds
<1>17. \A d \in Collectors : verdict'[d] = IF d = c THEN v ELSE verdict[d]
  BY <1>1, <1>3 DEF TypeOK
<1>18. \A i \in Kinds("collector_done") : events[i].of \in Collectors
  BY <1>1 DEF TypeOK, Kinds, ToSet, Subjects
<1>19. \A i \in Kinds("collector_done")' : verdict'[events'[i].of] # Undecided
  BY <1>1, <1>3, <1>4, <1>15, <1>17, <1>18 DEF Collected
<1>20. Collected'
  BY <1>1, <1>3, <1>13, <1>14, <1>19 DEF Collected
<1>21. Ruled'
  BY <1>1, <1>16 DEF Ruled
<1> QED BY <1>9, <1>10, <1>12, <1>20, <1>21 DEF IInv

\* A step that does not touch the log, before the report.
LEMMA RunnerReturnsKeeps == ASSUME IInv, RunnerReturns PROVE IInv'
<1>1. /\ TypeOK /\ Collected /\ Ruled /\ pc = "collect" /\ pc' = "m1"
      /\ pc \notin Ends /\ pc' \notin Ends
      /\ UNCHANGED <<opts, started, events, all, faulty, report, visible, saved, exit>>
  BY DEF IInv, RunnerReturns, Ends
<1>2. gathered' = TRUE /\ UNCHANGED verdict /\ \A c \in Collectors : verdict[c] # Undecided
  BY DEF RunnerReturns, SG!Return
<1>3. EventLogIsWellFormed'
  BY <1>1 DEF IInv, EventLogIsWellFormed, Kinds, Terminal, Ends
<1>4. Reported' /\ Exited' /\ ExitIsHonest'
  BY <1>1, <1>3, Working
<1>5. TypeOK'
  BY <1>1, <1>2 DEF TypeOK, Engines
<1>6. events' \in Seq(Event) /\ Told'
  BY <1>1 DEF IInv, Told, Kinds
<1>7. Collected'
  BY <1>1, <1>2 DEF Collected, Kinds
<1>8. Ruled'
  BY <1>1 DEF Ruled, Kinds
<1> QED BY <1>3, <1>4, <1>5, <1>6, <1>7, <1>8 DEF IInv

\* An engine that is evaluated has been evaluated only once, and the scan goes
\* on with a later one.
LEMMA RuleKept ==
  ASSUME IInv, NEW d \in Engines, pc = d, pc' = After(d), UNCHANGED <<started, verdict, gathered>>,
         NEW fs, Grown(Ev("rule_evaluated", d), fs)
  PROVE  Collected' /\ Ruled'
<1> DEFINE e == Ev("rule_evaluated", d)
<1>1. /\ TypeOK /\ events \in Seq(Event) /\ Collected /\ Ruled
      /\ pc \notin {"start", "collect"} /\ pc \in Engines
  BY DEF IInv, Engines
<1>2. e.type = "rule_evaluated" /\ e.of = d /\ Grown(e, fs)
  BY DEF Ev
<1> HIDE DEF e
<1>3. /\ pc' \in Later(d) \cup {"report"} /\ Later(d) \subseteq Engines
      /\ pc' \notin {"start", "collect"}
  BY AfterFacts DEF Engines
<1>4. Len(events') > 0
  <2>1. Len(events) \in Nat /\ Len(fs) \in Nat /\ Len(events') = Len(events) + 1 + Len(fs)
    BY <1>2 DEF Grown
  <2> QED BY <2>1
<1>5. /\ \A i \in Kinds("collector_started") :
             i \in Kinds("collector_started")' /\ events'[i] = events[i]
      /\ \A i \in Kinds("collector_started")' : i \in Kinds("collector_started") /\ events'[i] = events[i]
  BY <1>1, <1>2, GrownKinds
<1>6. \A i \in Kinds("collector_done")' : i \in Kinds("collector_done") /\ events'[i] = events[i]
  BY <1>1, <1>2, GrownKinds
<1>7. \A i \in Kinds("rule_evaluated")' :
         \/ i \in Kinds("rule_evaluated") /\ events'[i] = events[i]
         \/ events'[i] = e
  BY <1>1, <1>2, GrownKinds
<1>8. Collected'
  BY <1>1, <1>3, <1>4, <1>5, <1>6 DEF Collected
<1>9. \A i \in Kinds("rule_evaluated")' : pc' \in Engines => pc' \in Later(events'[i].of)
  <2> SUFFICES ASSUME NEW i \in Kinds("rule_evaluated")', pc' \in Engines
               PROVE  pc' \in Later(events'[i].of)
    OBVIOUS
  <2>1. pc' \in Later(d)
    BY <1>3 DEF Engines
  <2>2. CASE i \in Kinds("rule_evaluated") /\ events'[i] = events[i]
    <3>1. events[i].of \in Engines
      BY <1>1, <2>2 DEF TypeOK, Kinds, ToSet, Subjects
    <3>2. d \in Later(events[i].of)
      BY <1>1, <2>2 DEF Ruled
    <3>3. Later(d) \subseteq Later(events[i].of)
      BY <3>1, <3>2, AfterFacts
    <3> QED BY <2>1, <2>2, <3>3
  <2>3. CASE events'[i] = e
    BY <1>2, <2>1, <2>3
  <2> QED BY <1>7, <2>2, <2>3
<1>10. Ruled'
  BY <1>3, <1>9 DEF Ruled
<1> QED BY <1>8, <1>10

\* What holds of the log when engine d is evaluated.
LEMMA Unevaluated ==
  ASSUME IInv, NEW d \in Engines, pc = d
  PROVE  /\ Len(events) # 0 /\ Len(events) \in Nat
         /\ \A i \in DOMAIN events : /\ events[i].type = "rule_evaluated" => events[i].of # d
                                     /\ events[i].type # "scan_failed"
                                     /\ events[i].type # "scan_completed"
<1>1. Len(events) # 0 /\ Len(events) \in Nat
  BY LenProperties DEF IInv, Collected, Engines
<1>2. \A i \in DOMAIN events : events[i].type = "rule_evaluated" => events[i].of # d
  <2>1. d \notin Later(d)
    BY AfterFacts
  <2> QED BY <2>1 DEF IInv, Ruled, Kinds
<1>3. \A i \in DOMAIN events : events[i].type # "scan_failed" /\ events[i].type # "scan_completed"
  BY DEF IInv, EventLogIsWellFormed, Terminal, Kinds, Engines
<1> QED BY <1>1, <1>2, <1>3

LEMMA EvaluatesKeeps ==
  ASSUME IInv, NEW d \in Engines, Evaluates(d) PROVE IInv'
<1> DEFINE e == Ev("rule_evaluated", d)
<1>1. /\ TypeOK /\ events \in Seq(Event) /\ EventLogIsWellFormed /\ Told
      /\ pc = d /\ pc' = After(d)
      /\ UNCHANGED <<opts, started, verdict, gathered, faulty, report, visible, saved, exit>>
  BY DEF IInv, Evaluates
<1>2. PICK fs \in Outputs : all' = all \o fs /\ events' = events \o (<<e>> \o Announced(fs))
  BY DEF Evaluates
<1>3. e \in Event /\ e.type = "rule_evaluated" /\ e.of = d /\ e.of \in Subjects(e.type)
  BY DEF Ev, Event, Types, Subjects
<1>4. fs \in Seq(Raw)
  BY RawFindings
<1>5. pc \notin Ends /\ pc' \notin Ends /\ pc' \in Engines \cup {"report"}
  BY <1>1, AfterFacts DEF Ends, Engines
<1> HIDE DEF e
<1>6. Grown(e, fs)
  BY <1>1, <1>2, <1>3, <1>4, EvaluationGrows
<1>7. /\ events' \in Seq(Event) /\ all' \in Seq(Findings) /\ Told'
      /\ \A q \in ToSet(events)' : q.of \in Subjects(q.type)
  BY <1>1, <1>2, <1>3, <1>4, <1>6, LogKept
<1>8. /\ Len(events) # 0 /\ Len(events) \in Nat
      /\ \A i \in DOMAIN events : events[i] # e
  BY <1>1, <1>3, Unevaluated
<1>9. EventLogIsWellFormed'
  BY <1>1, <1>3, <1>5, <1>6, <1>8, LogGrows
<1>10. Reported' /\ Exited' /\ ExitIsHonest'
  BY <1>1, <1>5, <1>9, Working
<1>11. Collected' /\ Ruled'
  BY <1>1, <1>6, RuleKept DEF e
<1>12. TypeOK'
  BY <1>1, <1>5, <1>7 DEF TypeOK
<1> QED BY <1>7, <1>9, <1>10, <1>11, <1>12 DEF IInv

LEMMA AddOnFailsKeeps ==
  ASSUME IInv, NEW d \in Engines, AddOnFails(d) PROVE IInv'
<1> DEFINE e == Ev("rule_evaluated", d)
<1>1. /\ TypeOK /\ events \in Seq(Event) /\ pc = d /\ pc' = After(d)
      /\ faulty' = faulty \cup {d} /\ Emit(e)
      /\ UNCHANGED <<opts, started, verdict, gathered, all, report, visible, saved, exit>>
  BY DEF IInv, AddOnFails
<1>2. e \in Event /\ e.type = "rule_evaluated" /\ e.of = d /\ e.of \in Subjects(e.type)
  BY DEF Ev, Event, Types, Subjects
<1>3. pc \notin Ends /\ pc' \notin Ends /\ pc' \in Engines \cup {"report"}
  BY <1>1, AfterFacts DEF Ends, Engines
<1> HIDE DEF e
<1>4. /\ Len(events) # 0 /\ Len(events) \in Nat
      /\ \A i \in DOMAIN events : events[i] # e
  BY <1>1, <1>2, Unevaluated
<1>5. /\ Grown(e, <<>>) /\ EventLogIsWellFormed'
      /\ events' \in Seq(Event) /\ all' \in Seq(Findings) /\ Told'
      /\ \A q \in ToSet(events)' : q.of \in Subjects(q.type)
  BY <1>1, <1>2, <1>3, <1>4, EmitKept
<1>6. Reported' /\ Exited' /\ ExitIsHonest'
  BY <1>1, <1>3, <1>5, Working
<1>7. Collected' /\ Ruled'
  BY <1>1, <1>5, RuleKept DEF e
<1>8. TypeOK'
  BY <1>1, <1>3, <1>5 DEF TypeOK
<1> QED BY <1>5, <1>6, <1>7, <1>8 DEF IInv

\* The terminal event.
LEMMA EndKept ==
  ASSUME IInv, pc \in Engines \cup {"report"}, pc' \in Ends,
         UNCHANGED <<started, verdict, gathered>>,
         NEW e, e.type \in {"scan_completed", "scan_failed"}, NEW fs, Grown(e, fs)
  PROVE  Collected' /\ Ruled'
<1>1. /\ TypeOK /\ events \in Seq(Event) /\ Collected /\ Ruled
      /\ pc \notin {"start", "collect"} /\ pc' \notin {"start", "collect"} /\ pc' \notin Engines
  BY DEF IInv, Engines, Ends
<1>2. Len(events') > 0
  <2>1. Len(events) \in Nat /\ Len(fs) \in Nat /\ Len(events') = Len(events) + 1 + Len(fs)
    BY DEF Grown
  <2> QED BY <2>1
<1>3. /\ \A i \in Kinds("collector_started") :
             i \in Kinds("collector_started")' /\ events'[i] = events[i]
      /\ \A i \in Kinds("collector_started")' : i \in Kinds("collector_started") /\ events'[i] = events[i]
  BY <1>1, GrownKinds
<1>4. \A i \in Kinds("collector_done")' : i \in Kinds("collector_done") /\ events'[i] = events[i]
  BY <1>1, GrownKinds
<1>5. Collected'
  BY <1>1, <1>2, <1>3, <1>4 DEF Collected
<1>6. Ruled'
  BY <1>1 DEF Ruled
<1> QED BY <1>5, <1>6

LEMMA ScanFailsKeeps ==
  ASSUME IInv, NEW d \in Engines, ScanFails(d) PROVE IInv'
<1> DEFINE e == Ev("scan_failed", d)
<1>1. /\ TypeOK /\ events \in Seq(Event) /\ pc = d /\ pc' = "done"
      /\ faulty' = faulty \cup {d} /\ Emit(e)
      /\ exit' \in {"InvalidInput", "InternalError"}
      /\ UNCHANGED <<opts, started, verdict, gathered, all, report, visible, saved>>
  BY DEF IInv, ScanFails
<1>2. e \in Event /\ e.type = "scan_failed" /\ e.of = d /\ e.of \in Subjects(e.type)
  BY DEF Ev, Event, Types, Subjects
<1>3. pc \notin Ends /\ pc' \in Ends /\ pc \in Engines \cup {"report"}
  BY <1>1 DEF Ends, Engines
<1> HIDE DEF e
<1>4. /\ Len(events) # 0 /\ Len(events) \in Nat
      /\ \A i \in DOMAIN events : events[i] # e
  BY <1>1, <1>2, Unevaluated
<1>5. /\ Grown(e, <<>>) /\ EventLogIsWellFormed'
      /\ events' \in Seq(Event) /\ all' \in Seq(Findings) /\ Told'
      /\ \A q \in ToSet(events)' : q.of \in Subjects(q.type)
  BY <1>1, <1>2, <1>3, <1>4, EmitKept
<1>6. Collected' /\ Ruled'
  BY <1>1, <1>2, <1>3, <1>5, EndKept
<1>7. TypeOK'
  BY <1>1, <1>5 DEF TypeOK
<1>8. ~completed'
  <2>1. Kinds("scan_completed") = {}
    BY <1>1, Unevaluated DEF Kinds
  <2>2. \A i \in Kinds("scan_completed")' : i \in Kinds("scan_completed")
    BY <1>1, <1>2, <1>5, GrownKinds
  <2> QED BY <2>1, <2>2 DEF completed
<1>9. Reported' /\ Exited' /\ ExitIsHonest'
  BY <1>1, <1>8 DEF Reported, Exited, ExitIsHonest, filtered
<1> QED BY <1>5, <1>6, <1>7, <1>9 DEF IInv

LEMMA ReportKeeps == ASSUME IInv, Report PROVE IInv'
<1> DEFINE e == Ev("scan_completed", "scan")
<1>1. /\ TypeOK /\ events \in Seq(Event) /\ pc = "report" /\ pc' = "filter"
      /\ report' = Aggregate(all) /\ Emit(e)
      /\ UNCHANGED <<opts, started, verdict, gathered, all, faulty, visible, saved, exit>>
  BY DEF IInv, Report
<1>2. e \in Event /\ e.type = "scan_completed" /\ e.of = "scan" /\ e.of \in Subjects(e.type)
  BY DEF Ev, Event, Types, Subjects
<1>3. pc \notin Ends /\ pc' \in Ends /\ pc \in Engines \cup {"report"}
  BY <1>1 DEF Ends
<1> HIDE DEF e
<1>4. /\ Len(events) # 0 /\ Len(events) \in Nat
      /\ \A i \in DOMAIN events : events[i] # e
  <2>1. Len(events) # 0 /\ Len(events) \in Nat
    BY <1>1, LenProperties DEF IInv, Collected
  <2>2. \A i \in DOMAIN events : events[i].type # "scan_completed"
    BY <1>1 DEF IInv, EventLogIsWellFormed, Terminal, Kinds
  <2> QED BY <1>2, <2>1, <2>2
<1>5. /\ Grown(e, <<>>) /\ EventLogIsWellFormed'
      /\ events' \in Seq(Event) /\ all' \in Seq(Findings) /\ Told'
      /\ \A q \in ToSet(events)' : q.of \in Subjects(q.type)
  BY <1>1, <1>2, <1>3, <1>4, EmitKept
<1>6. Collected' /\ Ruled'
  BY <1>1, <1>2, <1>3, <1>5, EndKept
<1>7. report' \in Seq(Findings)
  <2>1. all \in Seq(Findings)
    BY <1>1 DEF TypeOK
  <2> QED BY <1>1, <2>1, AggregateFacts DEF Aggregated
<1>8. TypeOK'
  BY <1>1, <1>5, <1>7 DEF TypeOK
<1>9. completed'
  BY <1>1, <1>2, <1>5, GrownKinds DEF completed
<1>10. exit' = "none"
  BY <1>1 DEF IInv, Exited
<1>11. Reported' /\ Exited' /\ ExitIsHonest'
  BY <1>1, <1>9, <1>10 DEF Reported, Exited, ExitIsHonest, filtered
<1> QED BY <1>5, <1>6, <1>8, <1>11 DEF IInv
---------------------------------------------------------------------------------
(* The command: the log and the report stay as they are.                       *)

LEMMA LogStays ==
  ASSUME IInv, pc \in Ends, pc' \in Ends, UNCHANGED <<started, verdict, gathered, events, all>>
  PROVE  /\ events' \in Seq(Event) /\ EventLogIsWellFormed' /\ Collected' /\ Ruled' /\ Told'
         /\ completed' = completed
<1>1. pc \notin {"start", "collect"} /\ pc' \notin {"start", "collect"} /\ pc' \notin Engines
  BY DEF Ends, Engines
<1>2. /\ events' \in Seq(Event) /\ completed' = completed
      /\ Terminal' = Terminal
  BY DEF IInv, completed, Terminal, Kinds
<1>3. EventLogIsWellFormed'
  BY <1>2 DEF IInv, EventLogIsWellFormed, Kinds, Ends
<1>4. Collected'
  BY <1>1 DEF IInv, Collected, Kinds
<1>5. Ruled'
  BY <1>1 DEF Ruled
<1>6. Told'
  BY DEF IInv, Told, Kinds
<1> QED BY <1>2, <1>3, <1>4, <1>5, <1>6

LEMMA FilterReportKeeps == ASSUME IInv, FilterReport PROVE IInv'
<1>1. /\ TypeOK /\ pc = "filter" /\ pc' = IF opts.save THEN "persist" ELSE "exit"
      /\ visible' = {f \in ToSet(report) : ~IsHidden(f)}
      /\ UNCHANGED <<opts, started, verdict, gathered, events, all, faulty, report, saved, exit>>
  BY DEF IInv, FilterReport
<1>2. /\ pc \in Ends /\ pc' \in Ends
      /\ pc' \in {"persist", "exit"}
      /\ pc' = "persist" => opts.save
      /\ pc' = "exit" => ~opts.save
  BY <1>1 DEF Ends
<1>3. /\ events' \in Seq(Event) /\ EventLogIsWellFormed' /\ Collected' /\ Ruled' /\ Told'
      /\ completed' = completed
  BY <1>1, <1>2, LogStays
<1>4. completed /\ report = Aggregate(all) /\ exit = "none"
  BY <1>1 DEF IInv, Reported, Exited
<1>5. visible' \subseteq Findings
  <2>1. report \in Seq(Findings)
    BY <1>1 DEF TypeOK
  <2>2. \A i \in DOMAIN report : report[i] \in Findings
    BY <2>1, ElementOfSeq
  <2> QED BY <1>1, <2>2 DEF ToSet
<1>6. TypeOK'
  BY <1>1, <1>2, <1>5 DEF TypeOK
<1>7. visible' = {f \in ToSet(report)' : ~IsHidden(f)'}
  BY <1>1 DEF IsHidden, Suppressed, Actionability, ToSet
<1>8. Reported'
  BY <1>1, <1>3, <1>4, <1>7 DEF Reported, filtered
<1>9. Exited' /\ ExitIsHonest'
  BY <1>1, <1>2, <1>4 DEF Exited, ExitIsHonest
<1> QED BY <1>3, <1>6, <1>8, <1>9 DEF IInv

\* The report and what the filter left of it stay.
LEMMA ReportStays ==
  ASSUME IInv, pc \in {"persist", "exit"}, pc' \in {"exit", "done"}, completed' = completed,
         UNCHANGED <<opts, all, report, visible>>
  PROVE  Reported'
<1>1. completed /\ filtered /\ report = Aggregate(all)
  BY DEF IInv, Reported, filtered
<1>2. visible = {f \in ToSet(report) : ~IsHidden(f)}
  BY <1>1 DEF IInv, Reported
<1>3. visible' = {f \in ToSet(report)' : ~IsHidden(f)'}
  BY <1>2 DEF IsHidden, Suppressed, Actionability, ToSet
<1> QED BY <1>1, <1>3 DEF Reported

LEMMA PersistKeeps == ASSUME IInv, Persist PROVE IInv'
<1>1. /\ TypeOK /\ pc = "persist" /\ pc \in Ends
      /\ \/ saved' = "yes" /\ pc' = "exit" /\ UNCHANGED exit
         \/ saved' = "failed" /\ pc' = "done" /\ exit' = "InternalError"
      /\ UNCHANGED <<opts, started, verdict, gathered, events, all, faulty, report, visible>>
  BY DEF IInv, Persist, Ends
<1>2. pc' \in Ends /\ pc' \in {"exit", "done"}
  BY <1>1 DEF Ends
<1>3. /\ events' \in Seq(Event) /\ EventLogIsWellFormed' /\ Collected' /\ Ruled' /\ Told'
      /\ completed' = completed
  BY <1>1, <1>2, LogStays
<1>4. exit = "none"
  BY <1>1 DEF IInv, Exited
<1>5. TypeOK'
  BY <1>1 DEF TypeOK
<1>6. Reported'
  BY <1>1, <1>2, <1>3, ReportStays
<1>7. Exited' /\ ExitIsHonest'
  BY <1>1, <1>4 DEF Exited, ExitIsHonest
<1> QED BY <1>3, <1>5, <1>6, <1>7 DEF IInv

\* maxSeverity is the severity of a visible finding, and no visible one is worse.
LEMMA MaxSeverityFacts ==
  ASSUME visible \subseteq Findings, visible # {}
  PROVE  /\ MaxSeverity \in Severities
         /\ \A f \in visible : f.sev <= MaxSeverity
         /\ \E f \in visible : f.sev = MaxSeverity
<1> DEFINE S == {f.sev : f \in visible}
<1>1. S \subseteq 0..4 /\ S # {} /\ \A f \in visible : f.sev \in 0..4
  BY DEF Findings, Severities
<1>2. MaxSeverity = CHOOSE m \in S : \A f \in visible : f.sev <= m
  BY DEF MaxSeverity
<1>3. (\A s \in S : \E f \in visible : f.sev = s) /\ \A f \in visible : f.sev \in S
  OBVIOUS
<1> HIDE DEF S
<1>4. \E m \in S : \A s \in S : s <= m
  <2>1. CASE 4 \in S
    BY <1>1, <2>1
  <2>2. CASE 4 \notin S /\ 3 \in S
    BY <1>1, <2>2
  <2>3. CASE 4 \notin S /\ 3 \notin S /\ 2 \in S
    BY <1>1, <2>3
  <2>4. CASE 4 \notin S /\ 3 \notin S /\ 2 \notin S /\ 1 \in S
    BY <1>1, <2>4
  <2>5. CASE 4 \notin S /\ 3 \notin S /\ 2 \notin S /\ 1 \notin S
    <3>1. \A s \in S : s = 0
      BY <1>1, <2>5
    <3>2. 0 \in S
      BY <1>1, <3>1
    <3> QED BY <3>1, <3>2
  <2> QED BY <2>1, <2>2, <2>3, <2>4, <2>5
<1>5. \E m \in S : \A f \in visible : f.sev <= m
  BY <1>3, <1>4
<1>6. MaxSeverity \in S /\ \A f \in visible : f.sev <= MaxSeverity
  BY <1>2, <1>5
<1> QED BY <1>1, <1>3, <1>6 DEF Severities

\* What the exit code says of the findings and of the collectors.
LEMMA ExitCodeFacts ==
  ASSUME TypeOK
  PROVE  /\ ExitCode \in {"FindingsExist", "Success", "PermissionDenied", "CollectorPartial"}
         /\ ExitCode = "FindingsExist" /\ opts.threshold > 0 =>
               \E f \in visible : f.sev >= opts.threshold
         /\ ExitCode = "Success" =>
               /\ \A c \in Collectors : verdict[c] \notin Incomplete
               /\ opts.threshold # Off => \A f \in visible : f.sev < opts.threshold
<1>1. /\ visible \subseteq Findings /\ opts.threshold \in 0..5
  BY ScanAssumption DEF TypeOK, Severities, Off
<1>2. visible = {} => MaxSeverity = 0
  BY DEF MaxSeverity
<1>3. \A f \in visible : f.sev \in 0..4
  BY <1>1 DEF Findings, Severities
<1>4. ASSUME visible # {}
      PROVE  /\ MaxSeverity \in 0..4
             /\ \A f \in visible : f.sev <= MaxSeverity
             /\ \E f \in visible : f.sev = MaxSeverity
  BY <1>1, <1>4, MaxSeverityFacts DEF Severities
<1> DEFINE bad == {c \in Collectors : verdict[c] \in Incomplete}
<1>5. /\ Failing => ExitCode = "FindingsExist"
      /\ ~Failing => ExitCode \in {"Success", "PermissionDenied", "CollectorPartial"}
      /\ ~Failing /\ bad # {} => ExitCode # "Success"
  BY DEF ExitCode
<1>6. Failing /\ opts.threshold > 0 => \E f \in visible : f.sev >= opts.threshold
  BY <1>1, <1>2, <1>4 DEF Failing
<1>7. ~Failing /\ opts.threshold # Off => \A f \in visible : f.sev < opts.threshold
  BY <1>1, <1>3, <1>4 DEF Failing
<1> QED BY <1>5, <1>6, <1>7

LEMMA ExitKeeps == ASSUME IInv, Exit PROVE IInv'
<1>1. /\ TypeOK /\ pc = "exit" /\ pc' = "done" /\ exit' = ExitCode
      /\ UNCHANGED <<opts, started, verdict, gathered, events, all, faulty, report, visible, saved>>
  BY DEF IInv, Exit
<1>2. pc \in Ends /\ pc' \in Ends
  BY <1>1 DEF Ends
<1>3. /\ events' \in Seq(Event) /\ EventLogIsWellFormed' /\ Collected' /\ Ruled' /\ Told'
      /\ completed' = completed
  BY <1>1, <1>2, LogStays
<1>4. /\ completed /\ visible = {f \in ToSet(report) : ~IsHidden(f)}
      /\ \A c \in Collectors : verdict[c] # Undecided
      /\ opts.save => saved = "yes"
  BY <1>1 DEF IInv, Reported, filtered, Collected, Exited
<1>5. TypeOK'
  BY <1>1, ExitCodeFacts DEF TypeOK
<1>6. Reported' /\ Exited'
  BY <1>1, <1>2, <1>3, ReportStays DEF Exited
<1>7. exit' = "Success" =>
         /\ completed' /\ (opts'.save => saved' = "yes")
         /\ \A c \in Collectors : verdict'[c] \notin Incomplete \cup {Undecided}
         /\ opts'.threshold # Off => \A f \in visible' : f.sev < opts'.threshold
  BY <1>1, <1>3, <1>4, ExitCodeFacts
<1>8. exit' = "FindingsExist" /\ ~opts'.hidden /\ opts'.threshold > 0 =>
         \E f \in ToSet(report)' : ~Suppressed(f)' /\ f.sev >= opts'.threshold
  <2> SUFFICES ASSUME ExitCode = "FindingsExist", ~opts.hidden, opts.threshold > 0
               PROVE  \E f \in ToSet(report) : ~Suppressed(f) /\ f.sev >= opts.threshold
    BY <1>1 DEF Suppressed, ToSet
  <2>1. PICK f \in visible : f.sev >= opts.threshold
    BY <1>1, ExitCodeFacts
  <2>2. f \in ToSet(report) /\ ~IsHidden(f)
    BY <1>4
  <2> QED BY <2>1, <2>2 DEF IsHidden
<1>9. ExitIsHonest'
  BY <1>7, <1>8 DEF ExitIsHonest
<1> QED BY <1>3, <1>5, <1>6, <1>9 DEF IInv
---------------------------------------------------------------------------------
(* The theorems.                                                               *)

LEMMA InitIInv == Init => IInv
<1> SUFFICES ASSUME Init PROVE IInv
  OBVIOUS
<1>1. /\ opts \in Options /\ pc = "start" /\ started = {} /\ events = <<>> /\ all = <<>>
      /\ faulty = {} /\ report = <<>> /\ visible = {} /\ saved = "no" /\ exit = "none"
      /\ verdict = [c \in Collectors |-> Undecided] /\ gathered = FALSE
  BY DEF Init, SG!Init
<1>2. DOMAIN events = {} /\ Len(all) = 0
  BY <1>1
<1>3. \A type : Kinds(type) = {}
  BY <1>2 DEF Kinds
<1>4. TypeOK
  <2>1. ToSet(events) = {}
    BY <1>2 DEF ToSet
  <2>2. all \in Seq(Findings) /\ report \in Seq(Findings)
    BY <1>1
  <2>3. verdict \in [Collectors -> Verdicts \cup {Undecided}] /\ gathered \in BOOLEAN
    BY <1>1
  <2> QED BY <1>1, <2>1, <2>2, <2>3 DEF TypeOK
<1>5. events \in Seq(Event)
  BY <1>1
<1>6. EventLogIsWellFormed
  BY <1>1, <1>2, <1>3 DEF EventLogIsWellFormed, Terminal
<1>7. Collected
  BY <1>1, <1>3 DEF Collected
<1>8. Ruled /\ Told
  BY <1>2, <1>3 DEF Ruled, Told
<1>9. Reported /\ Exited /\ ExitIsHonest
  BY <1>1, <1>3 DEF Reported, Exited, ExitIsHonest, filtered, completed
<1> QED BY <1>4, <1>5, <1>6, <1>7, <1>8, <1>9 DEF IInv

LEMMA IdleKeeps == ASSUME IInv, UNCHANGED vars PROVE IInv'
<1> USE DEF vars
<1>1. TypeOK' /\ events' \in Seq(Event)
  BY DEF IInv, TypeOK
<1>2. EventLogIsWellFormed' /\ Told'
  BY DEF IInv, EventLogIsWellFormed, Told, Kinds, Terminal
<1>3. Collected' /\ Ruled'
  BY DEF IInv, Collected, Ruled, Kinds
<1>4. completed' = completed /\ filtered' = filtered
  BY DEF completed, filtered, Kinds
<1>5. {f \in ToSet(report)' : ~IsHidden(f)'} = {f \in ToSet(report) : ~IsHidden(f)}
  BY DEF IsHidden, Suppressed, Actionability, ToSet
<1>6. Reported' /\ Exited'
  BY <1>4, <1>5 DEF IInv, Reported, Exited
<1>7. ExitIsHonest'
  BY <1>4 DEF IInv, ExitIsHonest, Suppressed, ToSet
<1> QED BY <1>1, <1>2, <1>3, <1>6, <1>7 DEF IInv

\* Every reachable state of the scan satisfies the inductive invariant.
THEOREM IInvHolds == Spec => []IInv
<1>1. Init => IInv
  BY InitIInv
<1>2. IInv /\ [Next]_vars => IInv'
  <2> SUFFICES ASSUME IInv, [Next]_vars PROVE IInv'
    OBVIOUS
  <2>1. CASE Start
    BY <2>1, StartKeeps
  <2>2. CASE Collecting
    BY <2>2, RunnerReturnsKeeps, CollectorStartedKeeps, CollectorDoneKeeps DEF Collecting
  <2>3. CASE Evaluating
    BY <2>3, EvaluatesKeeps, AddOnFailsKeeps, ScanFailsKeeps DEF Evaluating
  <2>4. CASE Report
    BY <2>4, ReportKeeps
  <2>5. CASE Command
    BY <2>5, FilterReportKeeps, PersistKeeps, ExitKeeps DEF Command
  <2>6. CASE UNCHANGED vars
    BY <2>6, IdleKeeps
  <2> QED BY <2>1, <2>2, <2>3, <2>4, <2>5, <2>6 DEF Next
<1> QED BY <1>1, <1>2, PTL DEF Spec

\* The state of a scan has the types the code gives it.
THEOREM TypeCorrect == Spec => []TypeOK
<1>1. IInv => TypeOK
  BY DEF IInv
<1> QED BY <1>1, IInvHolds, PTL

\* However the workers' callbacks interleave, and whichever engine fails, the
\* events of a scan tell one story, with one end.
THEOREM TheLogStaysWellFormed == Spec => []EventLogIsWellFormed
<1>1. IInv => EventLogIsWellFormed
  BY DEF IInv
<1> QED BY <1>1, IInvHolds, PTL

\* What a completed scan announced is what its report has.
THEOREM EventsAgreeWithTheReport == Spec => []EventsTellTheReport
<1>1. IInv => EventsTellTheReport
  <2> SUFFICES ASSUME IInv, completed
               PROVE  {events[i].of : i \in Kinds("finding_added")} = {Key(f) : f \in ToSet(report)}
    BY DEF EventsTellTheReport
  <2>1. Aggregated(report, all)
    BY AggregateFacts DEF IInv, TypeOK, Reported
  <2>2. /\ \A a \in 1..Len(report) : \E j \in 1..Len(all) : Key(report[a]) = Key(all[j])
        /\ \A j \in 1..Len(all) : \E a \in 1..Len(report) : Key(report[a]) = Key(all[j])
    BY <2>1 DEF Aggregated, Same
  <2>3. DOMAIN report = 1..Len(report)
    BY LenProperties DEF IInv, TypeOK
  <2>4. {Key(f) : f \in ToSet(report)} = {Key(report[a]) : a \in 1..Len(report)}
    BY <2>3 DEF ToSet
  <2>5. /\ \A i \in Kinds("finding_added") : \E k \in 1..Len(all) : events[i].of = Key(all[k])
        /\ \A k \in 1..Len(all) : \E i \in Kinds("finding_added") : events[i].of = Key(all[k])
    BY DEF IInv, Told
  <2>6. \A i \in Kinds("finding_added") : \E a \in 1..Len(report) : events[i].of = Key(report[a])
    BY <2>2, <2>5
  <2>7. \A a \in 1..Len(report) : \E i \in Kinds("finding_added") : events[i].of = Key(report[a])
    BY <2>2, <2>5
  <2>8. {events[i].of : i \in Kinds("finding_added")} = {Key(report[a]) : a \in 1..Len(report)}
    BY <2>6, <2>7
  <2> QED BY <2>4, <2>8
<1> QED BY <1>1, IInvHolds, PTL

\* Each finding is in the report once, with the evidence of all its reports and
\* the rank of the best of them, the worst findings first.
THEOREM TheReportIsFaithful == Spec => []AggregateIsFaithful
<1>1. IInv => AggregateIsFaithful
  <2> SUFFICES ASSUME IInv, completed
               PROVE  /\ \A i, j \in DOMAIN report : i < j =>
                            Key(report[i]) # Key(report[j]) /\ ~RanksBefore(report[j], report[i])
                      /\ \A f \in ToSet(report) :
                            LET same == {g \in ToSet(all) : Key(g) = Key(f)}
                            IN  /\ f.ev = UNION {g.ev : g \in same}
                                /\ \A g \in same : ~RanksBefore(g, f)
    BY DEF AggregateIsFaithful
  <2>1. Aggregated(report, all)
    BY AggregateFacts DEF IInv, TypeOK, Reported
  <2>2. DOMAIN report = 1..Len(report) /\ DOMAIN all = 1..Len(all)
    BY LenProperties DEF IInv, TypeOK
  <2>3. \A i, j \in 1..Len(report) : i < j =>
           Key(report[i]) # Key(report[j]) /\ ~RanksBefore(report[j], report[i])
    BY <2>1 DEF Aggregated, Same
  <2>4. ASSUME NEW a \in 1..Len(report)
        PROVE  LET same == {g \in ToSet(all) : Key(g) = Key(report[a])}
               IN  /\ report[a].ev = UNION {g.ev : g \in same}
                   /\ \A g \in same : ~RanksBefore(g, report[a])
    <3> DEFINE same == {g \in ToSet(all) : Key(g) = Key(report[a])}
    <3>1. /\ \A j \in 1..Len(all) : Same(report, a, all, j) =>
                all[j].ev \subseteq report[a].ev /\ ~RanksBefore(all[j], report[a])
          /\ \A x \in report[a].ev : \E j \in 1..Len(all) : Same(report, a, all, j) /\ x \in all[j].ev
      BY <2>1 DEF Aggregated
    <3>2. \A j \in 1..Len(all) : Same(report, a, all, j) <=> all[j] \in same
      BY <2>2 DEF Same, ToSet
    <3>3. \A g \in same : \E j \in 1..Len(all) : g = all[j]
      BY <2>2 DEF ToSet
    <3> HIDE DEF same
    <3>4. \A g \in same : g.ev \subseteq report[a].ev /\ ~RanksBefore(g, report[a])
      BY <3>1, <3>2, <3>3
    <3>5. \A x \in report[a].ev : \E g \in same : x \in g.ev
      BY <3>1, <3>2
    <3>6. report[a].ev = UNION {g.ev : g \in same}
      BY <3>4, <3>5
    <3> QED BY <3>4, <3>6 DEF same
  <2>5. \A f \in ToSet(report) : \E a \in 1..Len(report) : f = report[a]
    BY <2>2 DEF ToSet
  <2> QED BY <2>2, <2>3, <2>4, <2>5
<1> QED BY <1>1, IInvHolds, PTL

\* A high or critical finding is out of sight only when the user, or the view
\* the user chose, put it there.
THEOREM SevereStaysShown == Spec => []SevereIsShown
<1>1. IInv => SevereIsShown
  <2> SUFFICES ASSUME IInv, filtered, NEW f \in ToSet(report), f.sev >= High, f \notin visible
               PROVE  \/ Suppressed(f) \/ f.id \in EvidenceOnly
                      \/ opts.view = "ci" /\ f.id \notin CiIds
    BY DEF SevereIsShown
  <2>1. IsHidden(f)
    BY DEF IInv, Reported
  <2>2. f.sev \in 0..4
    <3>1. \A i \in DOMAIN report : report[i] \in Findings
      BY ElementOfSeq DEF IInv, TypeOK
    <3> QED BY <3>1 DEF ToSet, Findings, Severities
  <2>3. opts.view \in {"actionable", "all", "ci"}
    BY ScanAssumption DEF IInv, TypeOK
  <2>4. Actionability(f) = "high" /\ ~(f.sev < Medium)
    BY <2>2 DEF Actionability, High, Medium
  <2> QED BY <2>1, <2>3, <2>4 DEF IsHidden
<1> QED BY <1>1, IInvHolds, PTL

\* Exit codes 0 and 1 are earned.
THEOREM ExitStaysHonest == Spec => []ExitIsHonest
<1>1. IInv => ExitIsHonest
  BY DEF IInv
<1> QED BY <1>1, IInvHolds, PTL
=================================================================================
