------------------------------ MODULE ScatterGather ------------------------------
(***************************************************************************)
(* What collectors.Runner promises to the scan: one verdict per task, each *)
(* decided once and for good, and a call that returns only with all of     *)
(* them.  Nothing is said of goroutines, channels or time.                 *)
(***************************************************************************)
CONSTANTS Tasks,      \* what is run concurrently
          Verdicts,   \* what a task may end with
          Undecided   \* not a verdict

VARIABLES verdict,    \* [Tasks -> Verdicts \cup {Undecided}]
          returned    \* has the call returned to its caller?

sgVars == <<verdict, returned>>

Init == /\ verdict = [t \in Tasks |-> Undecided]
        /\ returned = FALSE

Decide(t, v) == /\ ~returned
                /\ verdict[t] = Undecided
                /\ verdict' = [verdict EXCEPT ![t] = v]
                /\ UNCHANGED returned

Return == /\ ~returned
          /\ \A t \in Tasks : verdict[t] # Undecided
          /\ returned' = TRUE
          /\ UNCHANGED verdict

Next == \/ \E t \in Tasks, v \in Verdicts : Decide(t, v)
        \/ Return

Spec == Init /\ [][Next]_sgVars
==================================================================================
