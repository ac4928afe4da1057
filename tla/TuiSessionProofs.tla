---------------------------- MODULE TuiSessionProofs ----------------------------
(***************************************************************************)
(* Safety of the TUI's scan sessions for every number of scans and events  *)
(* and every capacity of the channel.                                      *)
(*                                                                         *)
(* A channel holds the latest of the events its scan emitted, in order     *)
(* (Queues); what has left the channel of the accepted session is in the   *)
(* progress list, but for the event of a message in flight (Accepted).     *)
(***************************************************************************)
EXTENDS TuiSession, SequenceTheorems, TLAPS

\* Events of s that its chain of commands has taken out of the channel.
Taken(s) == emitted[s] - Len(buffer[s])

Waiting == {"none", "startScan", "startedMsg"}

Ordered(s) == \A i \in 1..Len(buffer[s]) : buffer[s][i] = Taken(s) + i

QueueOf(s) ==
    /\ Ordered(s)
    /\ Taken(s) \in Nat
    /\ chain[s] \in Waiting => Taken(s) = 0
    /\ s > sessionID => chain[s] = "none"
    /\ scan[s] \in {"returned", "done"} => emitted[s] = EventsPerScan

Queues == \A s \in Sessions : QueueOf(s)

Accepted ==
    /\ session = None => events = <<>>
    /\ session # None =>
        /\ chain[session] \notin Waiting
        /\ chain[session] = "nextEvent" => Taken(session) = Len(events)
        /\ chain[session] = "eventMsg" => /\ carried[session] = Len(events) + 1
                                          /\ Taken(session) = Len(events) + 1
        /\ chain[session] \in {"doneMsg", "ended"} => Len(events) = EventsPerScan

IInv == TypeOK /\ Queues /\ Accepted /\ ProgressIsAPrefix
--------------------------------------------------------------------------------
LEMMA InitIInv == Init => IInv
<1> SUFFICES ASSUME Init PROVE IInv
  OBVIOUS
<1> USE TuiAssumption DEF Init, Sessions, None
<1>1. TypeOK
  BY DEF TypeOK, Outcomes
<1>2. Queues /\ Accepted /\ ProgressIsAPrefix
  BY DEF Queues, QueueOf, Ordered, Taken, Accepted, ProgressIsAPrefix, Waiting
<1> QED BY <1>1, <1>2 DEF IInv

(* What the sequences of the session do.                                   *)

Event == Sessions \X (1..EventsPerScan)

\* A scan sends its next event.
Sent(s) ==
    /\ emitted' \in [Sessions -> 0..EventsPerScan] /\ emitted'[s] = emitted[s] + 1
    /\ buffer' \in [Sessions -> Seq(1..EventsPerScan)]
    /\ Len(buffer[s]) \in Nat /\ Len(buffer'[s]) = Len(buffer[s]) + 1
    /\ \A i \in 1..Len(buffer[s]) : buffer'[s][i] = buffer[s][i]
    /\ buffer'[s][Len(buffer[s]) + 1] = emitted[s] + 1
    /\ Len(buffer'[s]) <= ChannelCap
    /\ \A t \in Sessions \ {s} : buffer'[t] = buffer[t] /\ emitted'[t] = emitted[t]
    /\ scan[s] = "running"
    /\ UNCHANGED <<modelVars, quit, chain, carried, scan, outcome, cancelled>>

LEMMA EmitFacts ==
  ASSUME TypeOK, NEW s \in Sessions, Emit(s)
  PROVE  Sent(s)
<1> USE TuiAssumption DEF TypeOK
<1>1. buffer[s] \in Seq(1..EventsPerScan)
  OBVIOUS
<1>2. emitted[s] + 1 \in 1..EventsPerScan /\ emitted'[s] = emitted[s] + 1
  <2>1. emitted[s] \in 0..EventsPerScan /\ emitted[s] < EventsPerScan
    BY DEF Emit
  <2>2. EventsPerScan \in Nat
    OBVIOUS
  <2>3. emitted[s] + 1 \in 1..EventsPerScan
    BY ONLY <2>1, <2>2
  <2>4. emitted'[s] = emitted[s] + 1
    BY DEF Emit
  <2> QED BY <2>3, <2>4
<1>3. buffer'[s] = Append(buffer[s], emitted[s] + 1)
  BY <1>2 DEF Emit
<1>4. Append(buffer[s], emitted[s] + 1) \in Seq(1..EventsPerScan)
  BY <1>1, <1>2
<1>5. buffer' \in [Sessions -> Seq(1..EventsPerScan)]
  BY <1>3, <1>4 DEF Emit
<1> QED BY <1>1, <1>2, <1>3, <1>5 DEF Emit, Sent

\* A command takes the oldest event of the channel.
Took(s) ==
    /\ carried' \in [Sessions -> 0..EventsPerScan] /\ carried'[s] = buffer[s][1]
    /\ buffer' \in [Sessions -> Seq(1..EventsPerScan)]
    /\ Len(buffer[s]) \in Nat \ {0} /\ Len(buffer'[s]) = Len(buffer[s]) - 1
    /\ \A i \in 1..Len(buffer'[s]) : buffer'[s][i] = buffer[s][i + 1]
    /\ \A t \in Sessions \ {s} : buffer'[t] = buffer[t] /\ carried'[t] = carried[t]
    /\ chain[s] = "nextEvent" /\ chain' = [chain EXCEPT ![s] = "eventMsg"]
    /\ UNCHANGED <<modelVars, quit, scanVars, cancelled>>

LEMMA TakeFacts ==
  ASSUME TypeOK, NEW s \in Sessions, NextEvent(s)
  PROVE  Took(s)
<1>1. buffer[s] \in Seq(1..EventsPerScan) /\ buffer[s] # <<>>
  BY DEF TypeOK, NextEvent
<1>2. Len(buffer[s]) \in Nat \ {0}
  BY <1>1, EmptySeq
<1>3. buffer'[s] = Tail(buffer[s]) /\ carried'[s] = Head(buffer[s])
  BY DEF TypeOK, NextEvent
<1>4. /\ Tail(buffer[s]) \in Seq(1..EventsPerScan)
      /\ Len(Tail(buffer[s])) = Len(buffer[s]) - 1
      /\ \A i \in 1..Len(Tail(buffer[s])) : Tail(buffer[s])[i] = buffer[s][i + 1]
  BY <1>1, HeadTailProperties
<1>5. Head(buffer[s]) = buffer[s][1]
  BY <1>1, <1>2
<1>6. buffer[s][1] \in 1..EventsPerScan
  <2>1. 1 \in 1..Len(buffer[s])
    BY <1>2
  <2> QED BY <1>1, <2>1, ElementOfSeq
<1>7. buffer' \in [Sessions -> Seq(1..EventsPerScan)]
  BY <1>3, <1>4 DEF TypeOK, NextEvent
<1>8. carried' \in [Sessions -> 0..EventsPerScan]
  BY <1>3, <1>5, <1>6, TuiAssumption DEF TypeOK, NextEvent
<1>9. \A t \in Sessions \ {s} : buffer'[t] = buffer[t] /\ carried'[t] = carried[t]
  BY DEF TypeOK, NextEvent
<1> QED BY <1>2, <1>3, <1>4, <1>5, <1>7, <1>8, <1>9 DEF Took, NextEvent

LEMMA NoEvents == <<>> \in Seq(Event) /\ Len(<<>>) = 0
  OBVIOUS

LEMMA CarriedIsAnEvent ==
  ASSUME IInv, session \in Sessions, chain[session] = "eventMsg"
  PROVE  <<session, carried[session]>> \in Event
<1>1. carried[session] = Taken(session) /\ carried[session] \in Nat \ {0}
  BY TuiAssumption DEF IInv, TypeOK, Accepted, None
<1> QED BY <1>1, TuiAssumption DEF IInv, TypeOK, Taken, Event

\* An event of the accepted session is appended to the progress list.
Shown(s) ==
    /\ events' \in Seq(Event) /\ Len(events) \in Nat /\ Len(events') = Len(events) + 1
    /\ \A k \in 1..Len(events) : events'[k] = events[k]
    /\ events'[Len(events) + 1] = <<s, carried[s]>>
    /\ session = s /\ chain[s] = "eventMsg" /\ chain' = [chain EXCEPT ![s] = "nextEvent"]
    /\ UNCHANGED <<sessionID, session, scanning, report, scanErr, quit, carried, scanVars,
                   buffer, cancelled>>

LEMMA ShowFacts ==
  ASSUME IInv, NEW s \in Sessions, HandleEvent(s), session = s
  PROVE  Shown(s)
<1>1. events \in Seq(Event) /\ <<s, carried[s]>> \in Event
  BY CarriedIsAnEvent DEF IInv, TypeOK, Event, HandleEvent
<1>2. events' = Append(events, <<s, carried[s]>>)
  BY DEF HandleEvent
<1>3. /\ Append(events, <<s, carried[s]>>) \in Seq(Event)
      /\ Len(Append(events, <<s, carried[s]>>)) = Len(events) + 1
      /\ \A k \in 1..Len(events) : Append(events, <<s, carried[s]>>)[k] = events[k]
      /\ Append(events, <<s, carried[s]>>)[Len(events) + 1] = <<s, carried[s]>>
  BY <1>1
<1> QED BY <1>1, <1>2, <1>3 DEF HandleEvent, Shown

LEMMA TypeStep == IInv /\ [Next]_vars => TypeOK'
<1> SUFFICES ASSUME IInv, [Next]_vars PROVE TypeOK'
  OBVIOUS
<1> USE TuiAssumption
<1>1. ASSUME NEW s \in Sessions, Emit(s) PROVE TypeOK'
  <2>1. Sent(s)
    BY <1>1, EmitFacts DEF IInv
  <2> QED BY <1>1, <2>1 DEF Sent, IInv, TypeOK, Sessions, None, modelVars
<1>2. ASSUME NEW s \in Sessions, ScanReturns(s) PROVE TypeOK'
  BY <1>2 DEF IInv, TypeOK, Sessions, None, ScanReturns, modelVars, Outcomes
<1>3. ASSUME NEW s \in Sessions, DoneCloses(s) PROVE TypeOK'
  BY <1>3 DEF IInv, TypeOK, Sessions, None, DoneCloses, modelVars
<1>4. ASSUME NEW s \in Sessions, RunStartScan(s) PROVE TypeOK'
  BY <1>4 DEF IInv, TypeOK, Sessions, None, RunStartScan, modelVars
<1>5. ASSUME NEW s \in Sessions, NextEvent(s) PROVE TypeOK'
  <2>1. Took(s)
    BY <1>5, TakeFacts DEF IInv
  <2>2. \A t \in Sessions : Len(buffer'[t]) <= ChannelCap
    <3> SUFFICES ASSUME NEW t \in Sessions PROVE Len(buffer'[t]) <= ChannelCap
      OBVIOUS
    <3>1. Len(buffer[t]) <= ChannelCap
      BY DEF IInv, TypeOK
    <3>2. CASE t # s
      BY <2>1, <3>1, <3>2 DEF Took
    <3>3. CASE t = s
      <4>1. Len(buffer'[s]) = Len(buffer[s]) - 1 /\ Len(buffer[s]) \in Nat
        BY <2>1 DEF Took
      <4> QED BY <3>1, <3>3, <4>1
    <3> QED BY <3>2, <3>3
  <2> QED BY <2>1, <2>2 DEF Took, IInv, TypeOK, modelVars, scanVars
<1>6. ASSUME NEW s \in Sessions, NextEventIsDone(s) PROVE TypeOK'
  BY <1>6 DEF IInv, TypeOK, Sessions, None, NextEventIsDone, modelVars, scanVars
<1>7. ASSUME NEW s \in Sessions, HandleStarted(s) PROVE TypeOK'
  BY <1>7, NoEvents DEF IInv, TypeOK, Sessions, None, HandleStarted, scanVars, Event
<1>8. ASSUME NEW s \in Sessions, HandleEvent(s) PROVE TypeOK'
  <2>1. CASE session = s
    <3>1. Shown(s)
      BY <1>8, <2>1, ShowFacts
    <3> QED BY <3>1 DEF Shown, Event, IInv, TypeOK, Sessions, None, scanVars
  <2>2. CASE session # s
    BY <1>8, <2>2 DEF IInv, TypeOK, Sessions, None, HandleEvent, scanVars
  <2> QED BY <2>1, <2>2
<1>9. ASSUME NEW s \in Sessions, HandleDone(s) PROVE TypeOK'
  <2>1. chain' \in [Sessions -> {"none", "startScan", "startedMsg", "nextEvent",
                               "eventMsg", "doneMsg", "ended"}]
    BY <1>9 DEF IInv, TypeOK, HandleDone
  <2>2. /\ scanning' \in BOOLEAN
        /\ report' \in Sessions \cup {None} /\ scanErr' \in Sessions \cup {None}
    BY <1>9 DEF IInv, TypeOK, HandleDone, ShowOutcome
  <2>3. UNCHANGED <<sessionID, session, events, quit, carried, scan, emitted, outcome, buffer, cancelled>>
    BY <1>9 DEF HandleDone, scanVars
  <2> QED BY <2>1, <2>2, <2>3 DEF IInv, TypeOK
<1>10. ASSUME ReRun PROVE TypeOK'
  <2>1. /\ sessionID' = sessionID + 1 /\ sessionID < MaxReruns
        /\ scanning' = TRUE /\ session' = None /\ events' = <<>> /\ report' = None /\ scanErr' = None
        /\ chain' = [chain EXCEPT ![sessionID'] = "startScan"]
        /\ cancelled' = [s \in Sessions |-> cancelled[s] \/ s = session]
        /\ UNCHANGED <<quit, carried, scan, emitted, outcome, buffer>>
    BY <1>10 DEF ReRun, CancelScan, scanVars
  <2>2. sessionID' \in Sessions
    BY <2>1 DEF IInv, TypeOK, Sessions
  <2>3. events' \in Seq(Sessions \X (1..EventsPerScan))
    BY <2>1, NoEvents DEF Event
  <2>4. chain' \in [Sessions -> {"none", "startScan", "startedMsg", "nextEvent",
                               "eventMsg", "doneMsg", "ended"}]
    BY <2>1 DEF IInv, TypeOK
  <2>5. cancelled' \in [Sessions -> BOOLEAN]
    BY <2>1
  <2> QED BY <2>1, <2>2, <2>3, <2>4, <2>5 DEF IInv, TypeOK
<1>11. ASSUME Quit PROVE TypeOK'
  BY <1>11 DEF IInv, TypeOK, Sessions, None, Quit, CancelScan, modelVars, scanVars
<1>12. ASSUME UNCHANGED vars PROVE TypeOK'
  BY <1>12 DEF IInv, TypeOK, Sessions, None, vars, modelVars, scanVars
<1> QED BY <1>1, <1>2, <1>3, <1>4, <1>5, <1>6, <1>7, <1>8, <1>9, <1>10, <1>11, <1>12 DEF Next, ScanStep, CmdStep, Update

LEMMA QueueFrame ==
  ASSUME NEW t \in Sessions, QueueOf(t), buffer'[t] = buffer[t], emitted'[t] = emitted[t],
         chain'[t] = chain[t], scan'[t] = scan[t], sessionID' = sessionID
  PROVE  QueueOf(t)'
BY DEF QueueOf, Ordered, Taken

\* To send changes nothing of what was taken; to take, one event.
LEMMA SentTakes ==
  ASSUME IInv, NEW s \in Sessions, Sent(s)
  PROVE  \A t \in Sessions : Taken(t)' = Taken(t)
<1> SUFFICES ASSUME NEW t \in Sessions PROVE Taken(t)' = Taken(t)
  OBVIOUS
<1>1. Len(buffer[s]) \in Nat /\ emitted[s] \in Nat
  BY DEF Sent, IInv, TypeOK
<1>2. CASE t = s
  BY <1>1, <1>2 DEF Sent, Taken
<1>3. CASE t # s
  BY <1>3 DEF Sent, Taken
<1> QED BY <1>2, <1>3

LEMMA TookTakes ==
  ASSUME IInv, NEW s \in Sessions, Took(s)
  PROVE  /\ Taken(s) \in Nat /\ Taken(s)' = Taken(s) + 1 /\ carried'[s] = Taken(s)'
         /\ \A t \in Sessions \ {s} : Taken(t)' = Taken(t)
<1>1. Len(buffer[s]) \in Nat \ {0} /\ emitted[s] \in Nat /\ QueueOf(s)
  BY DEF Took, IInv, TypeOK, Queues
<1>2. emitted'[s] = emitted[s] /\ Len(buffer'[s]) = Len(buffer[s]) - 1
  BY DEF Took, scanVars
<1>3. Taken(s)' = Taken(s) + 1 /\ Taken(s) \in Nat
  BY <1>1, <1>2 DEF Taken, QueueOf
<1>4. carried'[s] = Taken(s) + 1
  BY <1>1 DEF Took, QueueOf, Ordered
<1>5. \A t \in Sessions \ {s} : Taken(t)' = Taken(t)
  BY DEF Took, Taken, scanVars
<1> QED BY <1>3, <1>4, <1>5

LEMMA QueuesStep == IInv /\ [Next]_vars => Queues'
<1> SUFFICES ASSUME IInv, [Next]_vars PROVE Queues'
  OBVIOUS
<1> USE TuiAssumption
<1>1. ASSUME NEW s \in Sessions, Emit(s) PROVE Queues'
  <2>1. Sent(s)
    BY <1>1, EmitFacts DEF IInv
  <2>2. QueueOf(s) /\ Len(buffer[s]) \in Nat /\ emitted[s] \in Nat
    BY <2>1 DEF Sent, IInv, TypeOK, Queues
  <2>3. emitted'[s] = emitted[s] + 1 /\ Len(buffer'[s]) = Len(buffer[s]) + 1
    BY <2>1 DEF Sent, scanVars
  <2>4. Taken(s)' = Taken(s) /\ Taken(s) \in Nat
    BY <2>2, <2>3 DEF Taken, QueueOf
  <2>5. Ordered(s)'
    <3> SUFFICES ASSUME NEW i \in 1..Len(buffer'[s]) PROVE buffer'[s][i] = Taken(s)' + i
      BY DEF Ordered
    <3>1. CASE i \in 1..Len(buffer[s])
      BY <2>1, <2>2, <2>4, <3>1 DEF Sent, QueueOf, Ordered
    <3>2. CASE i = Len(buffer[s]) + 1
      BY <2>1, <2>2, <2>4, <3>2 DEF Sent, Taken
    <3> QED BY <2>2, <2>3, <3>1, <3>2
  <2>6. QueueOf(s)'
    BY <2>1, <2>2, <2>4, <2>5 DEF Sent, QueueOf, Waiting, IInv, TypeOK, modelVars, scanVars
  <2>7. \A t \in Sessions \ {s} : QueueOf(t)'
    BY <2>1, QueueFrame DEF Sent, IInv, TypeOK, Queues, modelVars, scanVars
  <2> QED BY <2>6, <2>7 DEF Queues, Sessions
<1>2. ASSUME NEW s \in Sessions, ScanReturns(s) PROVE Queues'
  <2>1. /\ scan[s] = "running" /\ scan'[s] = "returned"
        /\ \A t \in Sessions \ {s} : scan'[t] = scan[t]
        /\ UNCHANGED <<sessionID, chain, carried, emitted, buffer>>
    BY <1>2 DEF IInv, TypeOK, ScanReturns, modelVars, scanVars
  <2>2. QueueOf(s)'
    BY <1>2, <2>1 DEF IInv, Queues, QueueOf, Ordered, Taken, Waiting, ScanReturns
  <2>3. \A t \in Sessions \ {s} : QueueOf(t)'
    BY <2>1 DEF IInv, Queues, QueueOf, Ordered, Taken, Waiting
  <2> QED BY <2>1, <2>2, <2>3 DEF Queues, Sessions
<1>3. ASSUME NEW s \in Sessions, DoneCloses(s) PROVE Queues'
  BY <1>3 DEF IInv, TypeOK, Queues, QueueOf, Ordered, Taken, Waiting, Sessions, DoneCloses, modelVars
<1>4. ASSUME NEW s \in Sessions, RunStartScan(s) PROVE Queues'
  BY <1>4 DEF IInv, TypeOK, Queues, QueueOf, Ordered, Taken, Waiting, Sessions, RunStartScan, modelVars
<1>5. ASSUME NEW s \in Sessions, NextEvent(s) PROVE Queues'
  <2>1. Took(s)
    BY <1>5, TakeFacts DEF IInv
  <2>2. QueueOf(s) /\ Len(buffer[s]) \in Nat /\ emitted[s] \in Nat
    BY <2>1 DEF Took, IInv, TypeOK, Queues
  <2>3. emitted'[s] = emitted[s] /\ Len(buffer'[s]) = Len(buffer[s]) - 1
    BY <2>1 DEF Took, scanVars
  <2>4. Taken(s)' = Taken(s) + 1 /\ Taken(s) \in Nat
    BY <2>2, <2>3 DEF Taken, QueueOf
  <2>5. Ordered(s)'
    <3> SUFFICES ASSUME NEW i \in 1..Len(buffer'[s]) PROVE buffer'[s][i] = Taken(s)' + i
      BY DEF Ordered
    <3>1. i + 1 \in 1..Len(buffer[s]) /\ buffer'[s][i] = buffer[s][i + 1]
      BY <2>1, <2>2, <2>3 DEF Took
    <3>2. buffer[s][i + 1] = Taken(s) + (i + 1)
      BY <2>2, <3>1 DEF QueueOf, Ordered
    <3> QED BY <2>2, <2>3, <2>4, <3>1, <3>2
  <2>6. QueueOf(s)'
    <3>1. chain'[s] = "eventMsg" /\ UNCHANGED <<scan, emitted, sessionID>>
      BY <2>1 DEF Took, modelVars, scanVars, IInv, TypeOK
    <3>2. chain[s] = "nextEvent"
      BY <2>1 DEF Took
    <3> QED BY <2>2, <2>4, <2>5, <3>1, <3>2 DEF QueueOf, Waiting
  <2>7. \A t \in Sessions \ {s} : QueueOf(t)'
    BY <2>1, QueueFrame DEF Took, IInv, TypeOK, Queues, modelVars, scanVars
  <2> QED BY <2>6, <2>7 DEF Queues, Sessions
<1>6. ASSUME NEW s \in Sessions, NextEventIsDone(s) PROVE Queues'
  BY <1>6 DEF IInv, TypeOK, Queues, QueueOf, Ordered, Taken, Waiting, Sessions, NextEventIsDone, modelVars, scanVars
<1>7. ASSUME NEW s \in Sessions, HandleStarted(s) PROVE Queues'
  BY <1>7 DEF IInv, TypeOK, Queues, QueueOf, Ordered, Taken, Waiting, Sessions, HandleStarted, scanVars
<1>8. ASSUME NEW s \in Sessions, HandleEvent(s) PROVE Queues'
  <2>1. /\ chain[s] = "eventMsg" /\ chain'[s] \in {"nextEvent", "ended"}
        /\ \A t \in Sessions \ {s} : chain'[t] = chain[t]
        /\ UNCHANGED <<sessionID, carried, scan, emitted, buffer>>
    BY <1>8 DEF IInv, TypeOK, HandleEvent, scanVars
  <2>2. QueueOf(s)'
    BY <2>1 DEF IInv, Queues, QueueOf, Ordered, Taken, Waiting
  <2>3. \A t \in Sessions \ {s} : QueueOf(t)'
    BY <2>1 DEF IInv, Queues, QueueOf, Ordered, Taken, Waiting
  <2> QED BY <2>1, <2>2, <2>3 DEF Queues, Sessions
<1>9. ASSUME NEW s \in Sessions, HandleDone(s) PROVE Queues'
  BY <1>9 DEF IInv, TypeOK, Queues, QueueOf, Ordered, Taken, Waiting, Sessions, HandleDone, ShowOutcome, scanVars
<1>10. ASSUME ReRun PROVE Queues'
  <2>1. \A t \in Sessions : t > sessionID' => t > sessionID /\ chain'[t] = chain[t]
    BY <1>10 DEF ReRun, IInv, TypeOK, Sessions
  <2>2. \A t \in Sessions : chain'[t] = chain[t] \/ (t > sessionID /\ chain'[t] = "startScan")
    BY <1>10 DEF ReRun, IInv, TypeOK, Sessions
  <2> SUFFICES ASSUME NEW t \in Sessions PROVE QueueOf(t)'
    BY DEF Queues, Sessions
  <2>3. QueueOf(t) /\ buffer'[t] = buffer[t] /\ emitted'[t] = emitted[t] /\ scan'[t] = scan[t]
    BY <1>10 DEF ReRun, scanVars, IInv, Queues
  <2>4. Taken(t)' = Taken(t) /\ Ordered(t)'
    BY <2>3 DEF Taken, Ordered, QueueOf
  <2> QED BY <2>1, <2>2, <2>3, <2>4 DEF QueueOf, Waiting
<1>11. ASSUME Quit PROVE Queues'
  BY <1>11 DEF IInv, TypeOK, Queues, QueueOf, Ordered, Taken, Waiting, Sessions, Quit, CancelScan, modelVars, scanVars
<1>12. ASSUME UNCHANGED vars PROVE Queues'
  BY <1>12 DEF IInv, TypeOK, Queues, QueueOf, Ordered, Taken, Waiting, Sessions, vars, modelVars, scanVars
<1> QED BY <1>1, <1>2, <1>3, <1>4, <1>5, <1>6, <1>7, <1>8, <1>9, <1>10, <1>11, <1>12 DEF Next, ScanStep, CmdStep, Update

LEMMA AcceptedStep == IInv /\ [Next]_vars => Accepted'
<1> SUFFICES ASSUME IInv, [Next]_vars PROVE Accepted'
  OBVIOUS
<1> USE TuiAssumption
<1>0. session \in Sessions \cup {None} /\ Len(events) \in Nat
  BY DEF IInv, TypeOK
<1>1. ASSUME NEW s \in Sessions, Emit(s) PROVE Accepted'
  <2>1. Sent(s)
    BY <1>1, EmitFacts DEF IInv
  <2>2. UNCHANGED <<session, events, chain, carried>>
    BY <2>1 DEF Sent, modelVars
  <2> QED BY <1>0, <2>1, <2>2, SentTakes DEF IInv, Accepted, None
<1>2. ASSUME NEW s \in Sessions, ScanReturns(s) PROVE Accepted'
  BY <1>2 DEF IInv, TypeOK, Queues, QueueOf, Ordered, Taken, Waiting, Sessions, Accepted, None, ScanReturns, modelVars, Outcomes
<1>3. ASSUME NEW s \in Sessions, DoneCloses(s) PROVE Accepted'
  BY <1>3 DEF IInv, TypeOK, Queues, QueueOf, Ordered, Taken, Waiting, Sessions, Accepted, None, DoneCloses, modelVars
<1>4. ASSUME NEW s \in Sessions, RunStartScan(s) PROVE Accepted'
  BY <1>4 DEF IInv, TypeOK, Queues, QueueOf, Ordered, Taken, Waiting, Sessions, Accepted, None, RunStartScan, modelVars
<1>5. ASSUME NEW s \in Sessions, NextEvent(s) PROVE Accepted'
  <2>1. Took(s)
    BY <1>5, TakeFacts DEF IInv
  <2>2. /\ UNCHANGED <<session, events>>
        /\ chain[s] = "nextEvent" /\ chain'[s] = "eventMsg"
        /\ \A t \in Sessions \ {s} : chain'[t] = chain[t] /\ carried'[t] = carried[t]
    BY <2>1 DEF Took, modelVars, IInv, TypeOK
  <2> QED BY <1>0, <2>1, <2>2, TookTakes DEF IInv, Accepted, None, Waiting
<1>6. ASSUME NEW s \in Sessions, NextEventIsDone(s) PROVE Accepted'
  <2>1. Taken(s) = EventsPerScan
    BY <1>6, NoEvents DEF NextEventIsDone, IInv, TypeOK, Queues, QueueOf, Taken
  <2>2. /\ UNCHANGED <<session, events, carried, emitted, buffer>>
        /\ chain[s] = "nextEvent" /\ chain'[s] = "doneMsg"
        /\ \A t \in Sessions \ {s} : chain'[t] = chain[t]
    BY <1>6 DEF NextEventIsDone, modelVars, scanVars, IInv, TypeOK
  <2>3. \A t \in Sessions : Taken(t)' = Taken(t)
    BY <2>2 DEF Taken
  <2> QED BY <1>0, <2>1, <2>2, <2>3 DEF IInv, Accepted, None, Waiting
<1>7. ASSUME NEW s \in Sessions, HandleStarted(s) PROVE Accepted'
  BY <1>7 DEF IInv, TypeOK, Queues, QueueOf, Ordered, Taken, Waiting, Sessions, Accepted, None, HandleStarted, scanVars
<1>8. ASSUME NEW s \in Sessions, HandleEvent(s) PROVE Accepted'
  <2>1. CASE session = s
    <3>1. Shown(s)
      BY <1>8, <2>1, ShowFacts
    <3> QED BY <3>1 DEF Shown, Event, IInv, TypeOK, Queues, QueueOf, Ordered, Taken, Waiting, Sessions, Accepted, None, scanVars
  <2>2. CASE session # s
    BY <1>8, <2>2 DEF IInv, TypeOK, Queues, QueueOf, Ordered, Taken, Waiting, Sessions, Accepted, None, HandleEvent, scanVars
  <2> QED BY <2>1, <2>2
<1>9. ASSUME NEW s \in Sessions, HandleDone(s) PROVE Accepted'
  BY <1>9 DEF IInv, TypeOK, Queues, QueueOf, Ordered, Taken, Waiting, Sessions, Accepted, None, HandleDone, ShowOutcome, scanVars
<1>10. ASSUME ReRun PROVE Accepted'
  BY <1>10 DEF IInv, TypeOK, Queues, QueueOf, Ordered, Taken, Waiting, Sessions, Accepted, None, ReRun, CancelScan, scanVars
<1>11. ASSUME Quit PROVE Accepted'
  BY <1>11 DEF IInv, TypeOK, Queues, QueueOf, Ordered, Taken, Waiting, Sessions, Accepted, None, Quit, CancelScan, modelVars, scanVars
<1>12. ASSUME UNCHANGED vars PROVE Accepted'
  BY <1>12 DEF IInv, TypeOK, Queues, QueueOf, Ordered, Taken, Waiting, Sessions, Accepted, None, vars, modelVars, scanVars
<1> QED BY <1>1, <1>2, <1>3, <1>4, <1>5, <1>6, <1>7, <1>8, <1>9, <1>10, <1>11, <1>12 DEF Next, ScanStep, CmdStep, Update

LEMMA ProgressStep == IInv /\ [Next]_vars => ProgressIsAPrefix'
<1> SUFFICES ASSUME IInv, [Next]_vars PROVE ProgressIsAPrefix'
  OBVIOUS
<1> USE TuiAssumption
<1>1. ASSUME NEW s \in Sessions, Emit(s) PROVE ProgressIsAPrefix'
  BY <1>1 DEF IInv, TypeOK, Accepted, ProgressIsAPrefix, Sessions, None, Emit, modelVars
<1>2. ASSUME NEW s \in Sessions, ScanReturns(s) PROVE ProgressIsAPrefix'
  BY <1>2 DEF IInv, TypeOK, Accepted, ProgressIsAPrefix, Sessions, None, ScanReturns, modelVars, Outcomes
<1>3. ASSUME NEW s \in Sessions, DoneCloses(s) PROVE ProgressIsAPrefix'
  BY <1>3 DEF IInv, TypeOK, Accepted, ProgressIsAPrefix, Sessions, None, DoneCloses, modelVars
<1>4. ASSUME NEW s \in Sessions, RunStartScan(s) PROVE ProgressIsAPrefix'
  BY <1>4 DEF IInv, TypeOK, Accepted, ProgressIsAPrefix, Sessions, None, RunStartScan, modelVars
<1>5. ASSUME NEW s \in Sessions, NextEvent(s) PROVE ProgressIsAPrefix'
  BY <1>5 DEF IInv, TypeOK, Accepted, ProgressIsAPrefix, Sessions, None, NextEvent, modelVars, scanVars
<1>6. ASSUME NEW s \in Sessions, NextEventIsDone(s) PROVE ProgressIsAPrefix'
  BY <1>6 DEF IInv, TypeOK, Accepted, ProgressIsAPrefix, Sessions, None, NextEventIsDone, modelVars, scanVars
<1>7. ASSUME NEW s \in Sessions, HandleStarted(s) PROVE ProgressIsAPrefix'
  BY <1>7 DEF IInv, TypeOK, Accepted, ProgressIsAPrefix, Sessions, None, HandleStarted, scanVars
<1>8. ASSUME NEW s \in Sessions, HandleEvent(s) PROVE ProgressIsAPrefix'
  <2>1. CASE session = s
    <3>1. Shown(s)
      BY <1>8, <2>1, ShowFacts
    <3>2. carried[s] = Len(events) + 1
      BY <3>1 DEF Shown, IInv, Accepted, None
    <3>3. /\ Len(events) \in Nat /\ Len(events') = Len(events) + 1 /\ session' = session
          /\ \A k \in 1..Len(events) : events'[k] = <<session, k>>
          /\ events'[Len(events) + 1] = <<session, Len(events) + 1>>
      BY <2>1, <3>1, <3>2 DEF Shown, IInv, ProgressIsAPrefix
    <3> QED BY <3>3 DEF ProgressIsAPrefix
  <2>2. CASE session # s
    BY <1>8, <2>2 DEF IInv, TypeOK, Accepted, ProgressIsAPrefix, Sessions, None, HandleEvent, scanVars
  <2> QED BY <2>1, <2>2
<1>9. ASSUME NEW s \in Sessions, HandleDone(s) PROVE ProgressIsAPrefix'
  BY <1>9 DEF IInv, TypeOK, Accepted, ProgressIsAPrefix, Sessions, None, HandleDone, ShowOutcome, scanVars
<1>10. ASSUME ReRun PROVE ProgressIsAPrefix'
  BY <1>10 DEF IInv, TypeOK, Accepted, ProgressIsAPrefix, Sessions, None, ReRun, CancelScan, scanVars
<1>11. ASSUME Quit PROVE ProgressIsAPrefix'
  BY <1>11 DEF IInv, TypeOK, Accepted, ProgressIsAPrefix, Sessions, None, Quit, CancelScan, modelVars, scanVars
<1>12. ASSUME UNCHANGED vars PROVE ProgressIsAPrefix'
  BY <1>12 DEF IInv, TypeOK, Accepted, ProgressIsAPrefix, Sessions, None, vars, modelVars, scanVars
<1> QED BY <1>1, <1>2, <1>3, <1>4, <1>5, <1>6, <1>7, <1>8, <1>9, <1>10, <1>11, <1>12 DEF Next, ScanStep, CmdStep, Update
--------------------------------------------------------------------------------
(* The theorems.                                                           *)

\* The invariant is inductive: it holds in every state of the program, for any
\* number of scans, events and channel slots.
THEOREM IInvHolds == Spec => []IInv
<1>1. IInv /\ [Next]_vars => IInv'
  BY TypeStep, QueuesStep, AcceptedStep, ProgressStep DEF IInv
<1> QED BY <1>1, InitIInv, PTL DEF Spec

\* Every variable keeps its type, and no channel holds more than its capacity.
THEOREM TypeCorrect == Spec => []TypeOK
<1>1. IInv => TypeOK
  BY DEF IInv
<1> QED BY <1>1, IInvHolds, PTL

\* Whatever the order in which messages of old and new scans arrive, the progress
\* list is a prefix of the accepted scan's events.
THEOREM ProgressStaysAPrefix == Spec => []ProgressIsAPrefix
<1>1. IInv => ProgressIsAPrefix
  BY DEF IInv
<1> QED BY <1>1, IInvHolds, PTL

\* A report or an error is shown after all events of the scan it is of.
THEOREM OutcomesAreComplete == Spec => OutcomeIsComplete
<1> DEFINE Complete == \A s \in Sessions :
                         (report' = s /\ report # s) \/ (scanErr' = s /\ scanErr # s)
                             => session = s /\ Len(events) = EventsPerScan
<1>1. ASSUME IInv, NEW s \in Sessions, HandleDone(s) PROVE Complete
  <2>1. report' \in {s, None, report} /\ scanErr' \in {s, None, scanErr}
    BY <1>1 DEF HandleDone, ShowOutcome
  <2>2. CASE session = s
    BY <1>1, <2>1, <2>2, TuiAssumption DEF IInv, Accepted, None, HandleDone
  <2>3. CASE session # s
    BY <1>1, <2>3 DEF HandleDone
  <2> QED BY <2>2, <2>3
<1>2. ASSUME ReRun PROVE Complete
  BY <1>2, TuiAssumption DEF ReRun, None
<1>3. ASSUME UNCHANGED <<report, scanErr>> PROVE Complete
  BY <1>3
<1>4. ASSUME [Next]_vars, ~ReRun, \A s \in Sessions : ~HandleDone(s)
      PROVE  UNCHANGED <<report, scanErr>>
  BY <1>4 DEF Next, ScanStep, CmdStep, Update, Emit, ScanReturns, DoneCloses, RunStartScan,
     NextEvent, NextEventIsDone, HandleStarted, HandleEvent, Quit, vars, modelVars
<1>5. IInv /\ [Next]_vars =>
        [\A s \in Sessions :
            (report' = s /\ report # s) \/ (scanErr' = s /\ scanErr # s)
                => session = s /\ Len(events) = EventsPerScan]_vars
  BY <1>1, <1>2, <1>3, <1>4
<1> QED BY <1>5, IInvHolds, PTL DEF Spec, OutcomeIsComplete
================================================================================
