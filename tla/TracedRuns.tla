------------------------------- MODULE TracedRuns -------------------------------
(***************************************************************************)
(* The trace command from its command line to its saved run: a capture,    *)
(* whose result is told and then written as the files of a run, next to    *)
(* other commands that save, read and pack runs of the same project.       *)
(***************************************************************************)
EXTENDS TraceCapture, SavedRuns

CONSTANT Tracer    \* the process of the trace command

ASSUME TracerAssumption == Tracer \in Users

vars == <<captureVars, storeVars>>

Init == CaptureInit /\ StoreInit

Capture == CaptureNext /\ UNCHANGED storeVars

\* What devdiag trace has captured is told, and its run is saved; all that is left
\* of the capture are files, whole whatever the result was.
Persist ==
    /\ phase = "done" /\ phase' = "told"
    /\ BeginRun(Tracer, "trace")
    /\ prog' = CHOOSE p \in Programs : TRUE
    /\ backend' = "strace" /\ host' = [strace |-> "fine", ebpf |-> "fine", exitKills |-> TRUE] /\ mode' = "none"
    /\ ctx' = "live" /\ status' = "none" /\ made' = <<>> /\ lost' = {} /\ res' = NoResult
    /\ alive' = [t \in Tasks |-> FALSE] /\ inCall' = [t \in Tasks |-> FALSE]
    /\ count' = [t \in Tasks |-> 0] /\ chanClosed' = TRUE /\ readerOpen' = FALSE
    /\ UNCHANGED <<file, pending, ring, hand, chan, got>>

\* A bound: other commands begin when the trace has been captured.
Store == phase = "told" /\ StoreNext /\ UNCHANGED captureVars

Next == Capture \/ Persist \/ Store

Spec == Init /\ [][Next]_vars /\ CaptureFairness
=================================================================================
