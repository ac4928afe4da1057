------------------------------- MODULE TuiSession -------------------------------
(***************************************************************************)
(* The scan sessions of the inspect TUI.  Bubble Tea runs Update for one   *)
(* message at a time and every command in a goroutine of its own, so that  *)
(* messages of different commands arrive in any order.  Each scan has one  *)
(* chain of commands: startScan, then nextEvent again and again until the  *)
(* scan is done or a handler does not ask for more.  The scan itself runs  *)
(* in another goroutine and feeds a bounded channel through safeEventSink. *)
(* Keys: r (ReRun) and q (quit).  Every scan emits EventsPerScan events.   *)
(***************************************************************************)
EXTENDS Naturals, Sequences

CONSTANTS MaxReruns,      \* bound on presses of r
          EventsPerScan,  \* events app.Scan emits
          ChannelCap,     \* capacity of a session's channel (256 in the code)
          NoSession       \* the nil *scanSession

Sessions == 0..MaxReruns
None == NoSession
Outcomes == {"report", "error"}

ASSUME TuiAssumption ==
    /\ MaxReruns \in Nat /\ EventsPerScan \in Nat \ {0} /\ ChannelCap \in Nat \ {0}
    /\ NoSession \notin Sessions

VARIABLES
    sessionID,  \* Model.sessionID, the number of the latest scan started
    session,    \* Model.session: the session whose messages are accepted
    scanning,   \* Model.scanning
    events,     \* Model.events: pairs of a session and the number of its event
    report,     \* Model.report: the session that produced it, or None
    scanErr,    \* Model.scanErr: the session that produced it, or None
    quit,       \* was q pressed?
    chain,      \* per session: the command that runs, or its message in flight
    carried,    \* per session: the event its message carries
    scan,       \* per session: the goroutine that runs app.Scan
    emitted,    \* per session: number of events emitted
    buffer,     \* per session: the channel
    cancelled,  \* per session: is its context cancelled?
    outcome     \* per session: sess.report / sess.err

modelVars == <<sessionID, session, scanning, events, report, scanErr>>
scanVars  == <<scan, emitted, outcome>>
vars == <<modelVars, quit, chain, carried, scanVars, buffer, cancelled>>

TypeOK ==
    /\ sessionID \in Sessions /\ session \in Sessions \cup {None}
    /\ scanning \in BOOLEAN /\ quit \in BOOLEAN
    /\ events \in Seq(Sessions \X (1..EventsPerScan))
    /\ report \in Sessions \cup {None} /\ scanErr \in Sessions \cup {None}
    /\ chain \in [Sessions -> {"none", "startScan", "startedMsg", "nextEvent",
                               "eventMsg", "doneMsg", "ended"}]
    /\ carried \in [Sessions -> 0..EventsPerScan]
    /\ scan \in [Sessions -> {"none", "running", "returned", "done"}]
    /\ emitted \in [Sessions -> 0..EventsPerScan]
    /\ buffer \in [Sessions -> Seq(1..EventsPerScan)]
    /\ \A s \in Sessions : Len(buffer[s]) <= ChannelCap
    /\ cancelled \in [Sessions -> BOOLEAN]
    /\ outcome \in [Sessions -> Outcomes \cup {"none"}]

\* NewScanModel followed by Init, which issues startScan for session 0.
Init ==
    /\ sessionID = 0 /\ session = None /\ scanning = FALSE /\ events = <<>>
    /\ report = None /\ scanErr = None /\ quit = FALSE
    /\ chain = [s \in Sessions |-> IF s = 0 THEN "startScan" ELSE "none"]
    /\ carried = [s \in Sessions |-> 0]
    /\ scan = [s \in Sessions |-> "none"]
    /\ emitted = [s \in Sessions |-> 0]
    /\ buffer = [s \in Sessions |-> <<>>]
    /\ cancelled = [s \in Sessions |-> FALSE]
    /\ outcome = [s \in Sessions |-> "none"]
---------------------------------------------------------------------------------
(* The scan goroutine of a session.                                        *)

\* safeEventSink.Emit: the sink is closed only after Scan returned, so that a
\* running scan can only send, and waits while the channel is full.
Emit(s) ==
    /\ scan[s] = "running" /\ emitted[s] < EventsPerScan
    /\ Len(buffer[s]) < ChannelCap
    /\ emitted' = [emitted EXCEPT ![s] = @ + 1]
    /\ buffer' = [buffer EXCEPT ![s] = Append(@, emitted'[s])]
    /\ UNCHANGED <<modelVars, quit, chain, carried, scan, outcome, cancelled>>

ScanReturns(s) ==
    /\ scan[s] = "running" /\ emitted[s] = EventsPerScan
    /\ \E o \in Outcomes : outcome' = [outcome EXCEPT ![s] = o]
    /\ scan' = [scan EXCEPT ![s] = "returned"]
    /\ UNCHANGED <<modelVars, quit, chain, carried, emitted, buffer, cancelled>>

\* sink.Close() and close(sess.done).
DoneCloses(s) ==
    /\ scan[s] = "returned"
    /\ scan' = [scan EXCEPT ![s] = "done"]
    /\ UNCHANGED <<modelVars, quit, chain, carried, emitted, outcome, buffer, cancelled>>
---------------------------------------------------------------------------------
(* Commands: run outside Update, end with a message.                       *)

RunStartScan(s) ==
    /\ chain[s] = "startScan"
    /\ scan' = [scan EXCEPT ![s] = "running"]
    /\ chain' = [chain EXCEPT ![s] = "startedMsg"]
    /\ UNCHANGED <<modelVars, quit, carried, emitted, outcome, buffer, cancelled>>

NextEvent(s) ==
    /\ chain[s] = "nextEvent" /\ buffer[s] # <<>>
    /\ carried' = [carried EXCEPT ![s] = Head(buffer[s])]
    /\ buffer' = [buffer EXCEPT ![s] = Tail(@)]
    /\ chain' = [chain EXCEPT ![s] = "eventMsg"]
    /\ UNCHANGED <<modelVars, quit, scanVars, cancelled>>

\* Mutant: completion is reported as soon as done is closed.
NextEventUndrained(s) ==
    /\ chain[s] = "nextEvent" /\ scan[s] = "done"
    /\ chain' = [chain EXCEPT ![s] = "doneMsg"]
    /\ UNCHANGED <<modelVars, quit, carried, scanVars, buffer, cancelled>>

\* Both select arms drain the channel before they report completion.
NextEventIsDone(s) ==
    /\ chain[s] = "nextEvent" /\ scan[s] = "done" /\ buffer[s] = <<>>
    /\ chain' = [chain EXCEPT ![s] = "doneMsg"]
    /\ UNCHANGED <<modelVars, quit, carried, scanVars, buffer, cancelled>>
---------------------------------------------------------------------------------
(* Update, one message at a time, until the program quits.                 *)

\* Mutant: a started message keeps the events of the scan before it.
HandleStartedKeepsEvents(s) ==
    /\ ~quit /\ chain[s] = "startedMsg"
    /\ scanning' = TRUE
    /\ session' = s
    /\ chain' = [chain EXCEPT ![s] = "nextEvent"]
    /\ UNCHANGED <<sessionID, events, report, scanErr, quit, carried, scanVars, buffer,
                   cancelled>>

HandleStarted(s) ==
    /\ ~quit /\ chain[s] = "startedMsg"
    /\ scanning' = TRUE
    /\ session' = s
    /\ events' = <<>>
    /\ chain' = [chain EXCEPT ![s] = "nextEvent"]
    /\ UNCHANGED <<sessionID, report, scanErr, quit, carried, scanVars, buffer, cancelled>>

\* Mutant: the handler forgets to ask for the next event.
HandleEventOnce(s) ==
    /\ ~quit /\ chain[s] = "eventMsg"
    /\ events' = IF session = s THEN Append(events, <<s, carried[s]>>) ELSE events
    /\ chain' = [chain EXCEPT ![s] = "ended"]
    /\ UNCHANGED <<sessionID, session, scanning, report, scanErr, quit, carried, scanVars,
                   buffer, cancelled>>

\* An event of any other session is dropped, and its chain ends there.
HandleEvent(s) ==
    /\ ~quit /\ chain[s] = "eventMsg"
    /\ IF session = s
       THEN /\ events' = Append(events, <<s, carried[s]>>)
            /\ chain' = [chain EXCEPT ![s] = "nextEvent"]
       ELSE /\ chain' = [chain EXCEPT ![s] = "ended"]
            /\ UNCHANGED events
    /\ UNCHANGED <<sessionID, session, scanning, report, scanErr, quit, carried, scanVars,
                   buffer, cancelled>>

ShowOutcome(s) ==
    /\ scanning' = FALSE
    /\ report' = IF outcome[s] = "report" THEN s ELSE None
    /\ scanErr' = IF outcome[s] = "error" THEN s ELSE None

HandleDone(s) ==
    /\ ~quit /\ chain[s] = "doneMsg"
    /\ IF session = s THEN ShowOutcome(s) ELSE UNCHANGED <<scanning, report, scanErr>>
    /\ chain' = [chain EXCEPT ![s] = "ended"]
    /\ UNCHANGED <<sessionID, session, events, quit, carried, scanVars, buffer, cancelled>>

\* cancelScan reaches only the session the model knows of.
CancelScan ==
    cancelled' = [s \in Sessions |-> cancelled[s] \/ s = session]

\* Key r: cancelScan, then StartScan.
ReRun ==
    /\ ~quit /\ sessionID < MaxReruns
    /\ CancelScan
    /\ sessionID' = sessionID + 1
    /\ scanning' = TRUE /\ session' = None /\ events' = <<>>
    /\ report' = None /\ scanErr' = None
    /\ chain' = [chain EXCEPT ![sessionID'] = "startScan"]
    /\ UNCHANGED <<quit, carried, scanVars, buffer>>

\* Key q or ctrl+c.
Quit ==
    /\ ~quit
    /\ quit' = TRUE
    /\ CancelScan
    /\ UNCHANGED <<modelVars, chain, carried, scanVars, buffer>>
---------------------------------------------------------------------------------
ScanStep(s) == Emit(s) \/ ScanReturns(s) \/ DoneCloses(s)
CmdStep(s)  == RunStartScan(s) \/ NextEvent(s) \/ NextEventIsDone(s)
Update(s)   == HandleStarted(s) \/ HandleEvent(s) \/ HandleDone(s)

Next == \/ \E s \in Sessions : ScanStep(s) \/ CmdStep(s) \/ Update(s)
        \/ ReRun
        \/ Quit

\* Goroutines run and messages are handled; nobody has to press a key.
Fairness == \A s \in Sessions : /\ WF_vars(ScanStep(s))
                                /\ WF_vars(CmdStep(s))
                                /\ WF_vars(Update(s))

Spec     == Init /\ [][Next]_vars
FairSpec == Spec /\ Fairness
---------------------------------------------------------------------------------
(* Properties.                                                             *)

\* The progress list holds the first events of the accepted session, all of
\* them and in order: nothing of a superseded scan is mixed in, nothing lost.
ProgressIsAPrefix ==
    \A k \in 1..Len(events) : events[k] = <<session, k>>

\* A report or an error comes on screen only from the session the progress
\* list is about, and after the last of its events.
OutcomeIsComplete ==
    [][\A s \in Sessions :
         (report' = s /\ report # s) \/ (scanErr' = s /\ scanErr # s)
             => session = s /\ Len(events) = EventsPerScan]_vars

\* However often r is pressed, and in whatever order the messages of old and
\* new scans arrive, the TUI does not stay in the scanning state.
ScanningEnds == scanning ~> (~scanning \/ quit)

\* "ReRun triggers a fresh scan, cancelling any active scan first."
ReRunCancelsActive ==
    [][sessionID' # sessionID =>
         \A s \in Sessions : scan[s] = "running" => cancelled'[s]]_vars

\* "safeEventSink ensures progress events never deadlock or panic, even if the
\* TUI exits or the scan is cancelled": while the program runs, a cancelled
\* scan ends.
CancelledScanEnds == \A s \in Sessions : cancelled[s] ~> (scan[s] = "done" \/ quit)

\* "Expected stale scanDoneMsg to be ignored": a report on screen is the one
\* of the latest scan the user asked for.
LatestScanIsShown == report # None => report = sessionID
=================================================================================
