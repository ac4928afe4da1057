-------------------------------- MODULE Versions --------------------------------
(***************************************************************************)
(* How a version a project asks for is compared with one that is there     *)
(* (rules/m1engine.go).  A version is a sequence of numbers.  What is      *)
(* asked for is [op, v, also]: a first constraint and the ones after it.   *)
(*   ""    a bare version          "x"  18.x or 18.*    "^" "~" carets     *)
(*   ">=" "<=" ">" "<" "="         "||" an alternative, which is no number *)
(*   "any" lts/*, node or nothing          "lts" the name of a line of v   *)
(*   ">= " "<= " "> " "< " a space before the number        "~>" as in Ruby *)
(***************************************************************************)
EXTENDS Integers, Sequences

Ask(op, v)        == [op |-> op, v |-> v, also |-> <<>>]
Both(a, op, v)    == [a EXCEPT !.also = Append(@, [op |-> op, v |-> v])]
Installed(v)      == Ask("", v)

At(v, i) == IF i <= Len(v) THEN v[i] ELSE 0

\* -1, 0 or 1: the first place where a and b differ, up to place n.
CompareTo(n, a, b) ==
    LET differ == {i \in 1..n : At(a, i) # At(b, i)}
        first  == CHOOSE i \in differ : \A j \in differ : i <= j
    IN  IF differ = {} THEN 0 ELSE IF At(a, first) < At(b, first) THEN -1 ELSE 1

compareVersionParts(a, b)       == CompareTo(IF Len(a) > Len(b) THEN Len(a) ELSE Len(b), a, b)
compareVersionPartsPrefix(a, b) == CompareTo(Len(b), a, b)

\* The numbers of an expression: "~" is not stripped, and neither what comes
\* after a first constraint nor an alternative is a number.
Parses(s) == s.op \notin {"~", "any", "||", "lts"} /\ s.also = <<>> /\ s.v # <<>>

caretUpperBoundMajor(v) == <<v[1] + 1>>   \* mutant

caretUpperBound(v) ==
    CASE v[1] > 0 -> <<v[1] + 1>>
      [] v[1] = 0 /\ Len(v) > 1 -> <<0, v[2] + 1>>
      [] OTHER -> <<1>>

tildeUpperBound(v) == IF Len(v) > 1 THEN <<v[1], v[2] + 1>> ELSE <<v[1] + 1>>

Between(low, x, high) == compareVersionParts(x, low) >= 0 /\ compareVersionParts(x, high) < 0

looksLikeVersionExpression(s) == s.op \notin {"", "=", "any", "||", "lts"} \/ s.also # <<>>

\* A token that is an alternative or a sign without its number ends the reading.
Unread == {"||", ">= ", "<= ", "> ", "< "}

versionConstraintSatisfied(c, x) ==
    LET cmp == compareVersionPartsPrefix(x, c.v)
    IN  CASE c.op = ">=" -> cmp >= 0   [] c.op = "<=" -> cmp <= 0
          [] c.op = ">"  -> cmp > 0    [] c.op = "<"  -> cmp < 0
          [] OTHER -> cmp = 0

\* "yes", "no", or "unclear": the constraints are taken in order, and the
\* first that fails or cannot be read ends the matter.
versionExpressionSatisfied(s, actual) ==
    LET x == actual.v
        tokens == <<[op |-> s.op, v |-> s.v]>> \o s.also
        stops  == {i \in 1..Len(tokens) : tokens[i].op \in Unread \/ ~versionConstraintSatisfied(tokens[i], x)}
        first  == CHOOSE i \in stops : \A j \in stops : i <= j
        says(b) == IF b THEN "yes" ELSE "no"
    IN  CASE ~looksLikeVersionExpression(s) \/ ~Parses(actual) -> "unclear"
          [] looksLikeVersionExpression(s) /\ Parses(actual) /\ s.op \in {"^", "~"} ->
                IF s.also # <<>> THEN "unclear"
                ELSE says(Between(s.v, x, IF s.op = "^" THEN caretUpperBound(s.v) ELSE tildeUpperBound(s.v)))
          [] OTHER -> IF stops = {} THEN "yes" ELSE IF tokens[first].op \in Unread THEN "unclear" ELSE "no"

\* What no expression settles: the first two numbers, as they are written.
\* One with more than a number in it equals no number, and neither does a name.
SameMajorMinor(s, actual) ==
    LET n == IF Len(s.v) < 2 THEN Len(s.v) ELSE 2
        written(e, i) == IF e.op = "lts" \/ (i = Len(e.v) /\ e.also # <<>>) THEN -1 ELSE e.v[i]
    IN  \A i \in 1..n : i <= Len(actual.v) => written(s, i) = written(actual, i)

versionsCompatible(expected, actual) ==
    LET forth == versionExpressionSatisfied(expected, actual)
        back  == versionExpressionSatisfied(actual, expected)
    IN  \/ expected.op = "any"
        \/ forth = "yes"
        \/ forth = "unclear" /\ back = "yes"
        \/ forth = "unclear" /\ back = "unclear" /\ SameMajorMinor(expected, actual)

(* What the expressions mean, as the versions they allow: from low on and  *)
(* below high, for the constraints of node and Cargo.                      *)
Bump(v, i) == [j \in 1..i |-> IF j = i THEN v[i] + 1 ELSE v[j]]

\* The first number of v that is not 0; the last one if all are.
Leading(v) == LET some == {i \in 1..Len(v) : v[i] # 0}
              IN  IF some = {} THEN Len(v) ELSE CHOOSE i \in some : \A j \in some : i <= j

From(c)  == IF c.op \in {"<", "<=", "< ", "<= "} THEN <<0>>
            ELSE IF c.op \in {">", "> "} THEN Bump(c.v, Len(c.v)) ELSE c.v
Until(c) == CASE c.op \in {"<", "< "} -> c.v
             [] c.op \in {"<=", "<= ", "x", "=", "lts"} -> Bump(c.v, Len(c.v))
             [] c.op = "^" -> Bump(c.v, Leading(c.v))
             [] c.op = "~>" -> Bump(c.v, IF Len(c.v) > 1 THEN Len(c.v) - 1 ELSE 1)
             [] c.op = "~" -> Bump(c.v, IF Len(c.v) > 1 THEN 2 ELSE 1)
             [] c.op = ""  -> Bump(c.v, IF Len(c.v) > 1 THEN 2 ELSE 1)
             [] OTHER -> <<1000>>

\* A bare version asks for its major and minor number, whatever the patch.
MeansAllowed(s, x) ==
    s.op = "any" \/ \A i \in 0..Len(s.also) :
        LET c == IF i = 0 THEN [op |-> s.op, v |-> s.v] ELSE s.also[i]
            low == IF c.op = "" THEN SubSeq(c.v, 1, IF Len(c.v) > 1 THEN 2 ELSE 1) ELSE From(c)
        IN  Between(low, x, Until(c))
=================================================================================
