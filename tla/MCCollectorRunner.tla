---------------------------- MODULE MCCollectorRunner ----------------------------
(* Small instances of CollectorRunner: three kinds of Collect answers.     *)
EXTENDS CollectorRunner

CONSTANTS MCAnswers   \* names of the answers enumerated

AnswerNamed ==
    [clean |-> [result |-> [EmptyResult EXCEPT !.evidence = TRUE], err |-> "nil"],
     denied |-> [result |-> [EmptyResult EXCEPT !.status = "permission_denied",
                                                !.evidence = TRUE], err |-> "nil"],
     cut   |-> [result |-> [EmptyResult EXCEPT !.evidence = TRUE], err |-> "deadline"],
     broken |-> [result |-> EmptyResult, err |-> "own"]]

TheAnswers == {AnswerNamed[n] : n \in MCAnswers}
==================================================================================
