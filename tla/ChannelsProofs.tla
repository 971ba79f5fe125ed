--------------------------- MODULE ChannelsProofs ---------------------------
(***************************************************************************)
(* Theorems about Channels, for every set of events, messages, adapters    *)
(* and sessions, any window, and any number of faults, stops and           *)
(* deliveries: its types, that what a platform was told not to send again  *)
(* was handled, that it was handled once, and where the output goes.       *)
(***************************************************************************)
EXTENDS Channels, TLAPS

Deliveries == 1..MaxDeliveries

PCs == Idle \cup {"routing", "executing", "failing", "delivering", "noticing", "filing"}

Sending == [segment : 1..Segments, try : Nat, attempt : Nat, failed : Nat]

InboxTyped ==
    /\ adapter \in Adapters
    /\ message \in [Events -> Messages \cup {None}]
    /\ queue \in Seq(Events) /\ batch \in Seq(Events) /\ ahead \in 0..Len(queue)
    /\ listener \in {"up", "down", "dialed", "ended"}
    /\ seen \in [Events -> Nat \cup {None}]
    /\ now \in Nat

RunsTyped ==
    /\ pc \in [Runs -> PCs]
    /\ session \in [Runs -> Sessions \cup {None}]
    /\ sending \in [Runs -> Sending]
    /\ targets \in [Sessions -> Runs \cup {None}]

Typed == InboxTyped /\ RunsTyped /\ began \in [Runs -> Nat \cup {None}]

LEMMA RunsArePairs ==
  /\ \A r \in Runs : r[1] \in Events /\ r[2] \in Deliveries /\ r = <<r[1], r[2]>>
  /\ \A e \in Events, k \in Deliveries : <<e, k>> \in Runs
  /\ None \notin Runs
  BY ChannelConstants DEF Runs, Deliveries

LEMMA FirstIsSending == FirstAttempt \in Sending
  BY ChannelConstants DEF FirstAttempt, Attempt, Sending

-----------------------------------------------------------------------------
(* Handlers.  An execution and a delivery belong to a session, which stays *)
(* bound to the run, or to one that was at work with it.                   *)

AtWork(r) == pc[r] \notin Idle

HasSession(r) == pc[r] \in {"executing", "delivering"} => session[r] \in Sessions

\* Nothing was sent before the delivery.
Ready(r) == pc[r] \in {"new", "routing", "executing"} => sending[r] = FirstAttempt

\* The segments before the one at hand have arrived, or their failure is counted.
Counted(r) ==
    /\ sending[r].failed < sending[r].segment
    /\ pc[r] = "delivering" /\ sending[r].failed = 0 =>
          \A n \in 1..(sending[r].segment - 1) : \E q \in Runs : <<r, n, q>> \in arrived

\* The run that the session of a delivery is bound to.
BoundWell(r) ==
    pc[r] = "delivering" =>
        /\ targets[session[r]] # None
        /\ targets[session[r]] = r \/ <<r, targets[session[r]]>> \in together

Met(r) == AtWork(r) => \A q \in Runs \ {r} : AtWork(q) => <<r, q>> \in together

WorkOf(r) == HasSession(r) /\ Ready(r) /\ Counted(r) /\ BoundWell(r) /\ Met(r)

Work == \A r \in Runs : WorkOf(r)

\* A run goes on; others may be told to fail.
Onward(r) ==
    /\ AtWork(r)
    /\ \A q \in Runs \ {r} : /\ pc'[q] = pc[q] \/ (pc[q] = "executing" /\ pc'[q] = "failing")
                             /\ session'[q] = session[q] /\ sending'[q] = sending[q]
    /\ pc'[r] \notin {"new", "lost"}
    /\ arrived \subseteq arrived'
    /\ \A p \in together : p[1] # r => p \in together'
    /\ \A s \in Sessions : targets'[s] = targets[s] \/ targets'[s] = r

LEMMA OthersWork ==
  ASSUME RunsTyped, Work, NEW r \in Runs, Onward(r), WorkOf(r)'
  PROVE  Work'
<1>. SUFFICES ASSUME NEW q \in Runs \ {r} PROVE WorkOf(q)'
  BY DEF Work
<1>0. WorkOf(q) /\ WorkOf(r) /\ r # None
  BY RunsArePairs DEF Work
<1>1. /\ pc'[q] = pc[q] \/ (pc[q] = "executing" /\ pc'[q] = "failing")
      /\ session'[q] = session[q] /\ sending'[q] = sending[q]
  BY DEF Onward
<1>2. HasSession(q)' /\ Ready(q)'
  BY <1>0, <1>1 DEF WorkOf, HasSession, Ready
<1>3. Counted(q)'
  <2>1. arrived \subseteq arrived'
    BY DEF Onward
  <2>. QED BY <1>0, <1>1, <2>1 DEF WorkOf, Counted
<1>4. \A p \in Runs : AtWork(p)' => AtWork(p)
  BY DEF Onward, AtWork, Idle
<1>5. Met(q)'
  <2>. SUFFICES ASSUME AtWork(q)', NEW p \in Runs \ {q}, AtWork(p)' PROVE <<q, p>> \in together'
    BY DEF Met
  <2>1. <<q, p>> \in together
    BY <1>0, <1>4 DEF WorkOf, Met
  <2>. QED BY <2>1 DEF Onward
<1>6. BoundWell(q)'
  <2>. SUFFICES ASSUME pc'[q] = "delivering"
                PROVE  /\ targets'[session'[q]] # None
                       /\ targets'[session'[q]] = q \/ <<q, targets'[session'[q]]>> \in together'
    BY DEF BoundWell
  <2>1. pc[q] = "delivering" /\ session[q] \in Sessions /\ session'[q] = session[q]
    BY <1>0, <1>1 DEF WorkOf, HasSession
  <2>2. CASE targets'[session[q]] = r
    <3>1. <<q, r>> \in together
      BY <1>0, <2>1 DEF WorkOf, Met, AtWork, Idle, Onward
    <3>. QED BY <1>0, <2>1, <2>2, <3>1 DEF Onward
  <2>3. CASE targets'[session[q]] = targets[session[q]]
    BY <1>0, <2>1, <2>3 DEF WorkOf, BoundWell, Onward
  <2>. QED BY <2>1, <2>2, <2>3 DEF Onward
<1>. QED BY <1>2, <1>3, <1>5, <1>6 DEF WorkOf

\* A run that ends.
LEMMA EndWorks ==
  ASSUME RunsTyped, Work, NEW r \in Runs, AtWork(r), End(r), arrived \subseteq arrived',
         UNCHANGED targets
  PROVE  RunsTyped' /\ Work' /\ Onward(r)
<1>1. /\ pc' = [pc EXCEPT ![r] = "done"] /\ session' = [session EXCEPT ![r] = None]
      /\ sending' = [sending EXCEPT ![r] = FirstAttempt]
      /\ together' = {p \in together : p[1] # r}
  BY DEF End, Goto
<1>2. RunsTyped'
  BY <1>1, FirstIsSending DEF RunsTyped, PCs, Idle
<1>3. /\ pc'[r] = "done" /\ session'[r] = None /\ sending'[r] = FirstAttempt
      /\ \A q \in Runs \ {r} : pc'[q] = pc[q] /\ session'[q] = session[q] /\ sending'[q] = sending[q]
  BY <1>1 DEF RunsTyped
<1>4. Onward(r)
  BY <1>1, <1>3 DEF Onward
<1>5. WorkOf(r)'
  BY <1>3 DEF WorkOf, HasSession, Ready, Counted, BoundWell, Met, AtWork, Idle, FirstAttempt, Attempt
<1>. QED BY <1>2, <1>4, <1>5, OthersWork

\* A run that goes to a step after its delivery.
LEMMA AfterWorks ==
  ASSUME RunsTyped, Work, NEW r \in Runs, AtWork(r), NEW step \in {"noticing", "filing"}, Goto(r, step),
         arrived \subseteq arrived', UNCHANGED <<session, sending, together, targets>>
  PROVE  RunsTyped' /\ Work' /\ Onward(r)
<1>1. pc' = [pc EXCEPT ![r] = step]
  BY DEF Goto
<1>2. RunsTyped'
  BY <1>1 DEF RunsTyped, PCs
<1>3. pc'[r] = step /\ \A q \in Runs \ {r} : pc'[q] = pc[q]
  BY <1>1 DEF RunsTyped
<1>4. Onward(r)
  BY <1>3 DEF Onward
<1>5. \A q \in Runs : AtWork(q)' => AtWork(q)
  BY <1>3 DEF AtWork
<1>6. Met(r)' /\ Counted(r)'
  BY <1>3, <1>5 DEF Work, WorkOf, Met, Counted
<1>7. WorkOf(r)'
  BY <1>3, <1>6 DEF WorkOf, HasSession, Ready, BoundWell
<1>. QED BY <1>2, <1>4, <1>7, OthersWork

LEMMA DeliveredWorks ==
  ASSUME RunsTyped, Work, NEW r \in Runs, AtWork(r), Delivered(r), arrived \subseteq arrived',
         UNCHANGED targets
  PROVE  RunsTyped' /\ Work' /\ Onward(r)
  BY EndWorks, AfterWorks DEF Delivered

\* The segment at hand has arrived, or its failure is counted in failed.
SegmentDone(r, failed) ==
    /\ failed \in Nat /\ failed >= sending[r].failed /\ failed <= sending[r].segment
    /\ failed = 0 => \E q \in Runs : <<r, sending[r].segment, q>> \in arrived'

LEMMA AdvanceWorks ==
  ASSUME RunsTyped, Work, NEW r \in Runs, pc[r] = "delivering", NEW failed, SegmentDone(r, failed),
         Advance(r, failed), arrived \subseteq arrived', UNCHANGED targets
  PROVE  RunsTyped' /\ Work' /\ Onward(r)
<1>1. AtWork(r)
  BY DEF AtWork, Idle
<1>2. CASE sending[r].segment < Segments
  <2>. DEFINE next == Attempt(sending[r].segment + 1, 1, failed)
  <2>1. sending' = [sending EXCEPT ![r] = next] /\ UNCHANGED <<pc, session, together>>
    BY <1>2 DEF Advance
  <2>2. sending[r] \in Sending /\ Segments \in Nat /\ failed \in Nat
    BY ChannelConstants DEF RunsTyped, SegmentDone
  <2>3. next = [segment |-> sending[r].segment + 1, try |-> 1, attempt |-> 1, failed |-> failed]
    BY DEF Attempt
  <2>4. next \in Sending
    BY <1>2, <2>2, <2>3 DEF Sending
  <2>. HIDE DEF next
  <2>5. sending'[r] = next /\ \A q \in Runs \ {r} : sending'[q] = sending[q]
    BY <2>1 DEF RunsTyped
  <2>6. RunsTyped'
    BY <2>1, <2>4 DEF RunsTyped
  <2>7. Onward(r)
    BY <1>1, <2>1, <2>5 DEF Onward
  <2>8. HasSession(r)' /\ Ready(r)' /\ BoundWell(r)' /\ Met(r)'
    BY <2>1 DEF Work, WorkOf, HasSession, Ready, BoundWell, Met, AtWork
  <2>9. sending[r].segment \in Nat /\ sending[r].failed \in Nat
    BY <2>2 DEF Sending
  <2>10. failed < sending[r].segment + 1
    BY <2>9 DEF SegmentDone
  <2>11. failed = 0 => \A n \in 1..sending[r].segment : \E q \in Runs : <<r, n, q>> \in arrived'
    <3>. SUFFICES ASSUME failed = 0, NEW n \in 1..sending[r].segment
                  PROVE  \E q \in Runs : <<r, n, q>> \in arrived'
      OBVIOUS
    <3>1. CASE n = sending[r].segment
      BY <3>1 DEF SegmentDone
    <3>2. CASE n # sending[r].segment
      <4>1. n \in 1..(sending[r].segment - 1) /\ sending[r].failed = 0
        BY <2>9, <3>2 DEF SegmentDone
      <4>. QED BY <4>1 DEF Work, WorkOf, Counted
    <3>. QED BY <3>1, <3>2
  <2>12. Counted(r)'
    BY <2>3, <2>5, <2>9, <2>10, <2>11 DEF Counted
  <2>. QED BY <2>6, <2>7, <2>8, <2>12, OthersWork DEF WorkOf
<1>3. CASE ~(sending[r].segment < Segments) /\ failed > 0
  <2>1. Goto(r, "noticing") /\ UNCHANGED <<session, sending, together>>
    BY <1>3 DEF Advance
  <2>. QED BY <1>1, <2>1, AfterWorks
<1>4. CASE ~(sending[r].segment < Segments) /\ ~(failed > 0)
  <2>1. Delivered(r)
    BY <1>4 DEF Advance
  <2>. QED BY <1>1, <2>1, DeliveredWorks
<1>. QED BY <1>2, <1>3, <1>4

\* The target of a delivery is a run.
LEMMA TargetIsRun ==
  ASSUME RunsTyped, Work, NEW r \in Runs, pc[r] = "delivering"
  PROVE  session[r] \in Sessions /\ targets[session[r]] \in Runs
  BY DEF RunsTyped, Work, WorkOf, HasSession, BoundWell

LEMMA SentWorks ==
  ASSUME RunsTyped, Work, NEW r \in Runs, pc[r] = "delivering", Sent(r), UNCHANGED targets
  PROVE  RunsTyped' /\ Work' /\ Onward(r)
<1>1. sending[r] \in Sending /\ Counted(r)
  BY DEF RunsTyped, Work, WorkOf
<1>2. Segment(r) \in arrived' /\ targets[session[r]] \in Runs
  BY TargetIsRun DEF Sent
<1>3. SegmentDone(r, sending[r].failed)
  BY <1>1, <1>2 DEF SegmentDone, Segment, Counted, Sending
<1>. QED BY <1>3, AdvanceWorks DEF Sent

LEMMA NotSentWorks ==
  ASSUME RunsTyped, Work, NEW r \in Runs, pc[r] = "delivering",
         NEW error, NEW reached, NotSent(r, error, reached), UNCHANGED targets
  PROVE  RunsTyped' /\ Work' /\ Onward(r)
<1>1. sending[r] \in Sending /\ Counted(r) /\ arrived \subseteq arrived' /\ AtWork(r)
  BY DEF RunsTyped, Work, WorkOf, NotSent, AtWork, Idle
<1>2. ASSUME NEW next \in Sending, next.segment = sending[r].segment, next.failed = sending[r].failed,
             sending' = [sending EXCEPT ![r] = next], UNCHANGED <<pc, session, together>>
      PROVE  RunsTyped' /\ Work' /\ Onward(r)
  <2>1. sending'[r] = next /\ \A q \in Runs \ {r} : sending'[q] = sending[q]
    BY <1>2 DEF RunsTyped
  <2>2. RunsTyped'
    BY <1>2 DEF RunsTyped
  <2>3. Onward(r)
    BY <1>1, <1>2, <2>1 DEF Onward, AtWork, Idle
  <2>4. HasSession(r)' /\ Ready(r)' /\ BoundWell(r)' /\ Met(r)'
    BY <1>2 DEF Work, WorkOf, HasSession, Ready, BoundWell, Met, AtWork
  <2>5. Counted(r)'
    BY <1>1, <1>2, <2>1 DEF Counted
  <2>. QED BY <2>2, <2>3, <2>4, <2>5, OthersWork DEF WorkOf
<1>3. CASE error \in Retried /\ sending[r].attempt < Attempts
  <2>. DEFINE next == [sending[r] EXCEPT !.attempt = @ + 1]
  <2>1. sending' = [sending EXCEPT ![r].attempt = @ + 1] /\ UNCHANGED <<pc, session, together>>
    BY <1>3 DEF NotSent
  <2>2. sending' = [sending EXCEPT ![r] = next]
    BY <2>1
  <2>3. next \in Sending
    BY <1>1 DEF Sending
  <2>4. next.segment = sending[r].segment /\ next.failed = sending[r].failed
    BY <1>1 DEF Sending
  <2>. QED BY <1>2, <2>1, <2>2, <2>3, <2>4
<1>4. CASE ~(error \in Retried /\ sending[r].attempt < Attempts) /\ sending[r].try < Tries
  <2>. DEFINE next == Attempt(sending[r].segment, sending[r].try + 1, sending[r].failed)
  <2>1. sending' = [sending EXCEPT ![r] = next] /\ UNCHANGED <<pc, session, together>>
    BY <1>4 DEF NotSent
  <2>2. next \in Sending /\ next.segment = sending[r].segment /\ next.failed = sending[r].failed
    BY <1>1 DEF Sending, Attempt
  <2>. QED BY <1>2, <2>1, <2>2
<1>5. CASE ~(error \in Retried /\ sending[r].attempt < Attempts) /\ ~(sending[r].try < Tries)
  <2>1. Advance(r, sending[r].failed + 1)
    BY <1>5 DEF NotSent
  <2>2. SegmentDone(r, sending[r].failed + 1)
    BY <1>1 DEF SegmentDone, Counted, Sending
  <2>. QED BY <1>1, <2>1, <2>2, AdvanceWorks
<1>. QED BY <1>3, <1>4, <1>5

\* /new, /resume and /cancel.
LEMMA ControlWorks ==
  ASSUME RunsTyped, Work, NEW r \in Runs, NEW s \in Sessions, Control(r, s), UNCHANGED arrived
  PROVE  RunsTyped' /\ Work' /\ Onward(r)
<1>1. /\ pc[r] = "routing" /\ AtWork(r)
      /\ targets' = [targets EXCEPT ![s] = r] /\ UNCHANGED <<session, sending>>
      /\ together' = {p \in together : p[1] # r}
  BY DEF Control, Bind, AtWork, Idle
<1>2. /\ pc'[r] = "done"
      /\ \A q \in Runs \ {r} : pc'[q] = pc[q] \/ (pc[q] \in {"executing", "failing"} /\ pc'[q] = "failing")
  BY DEF Control, Executing
<1>3. RunsTyped'
  <2>1. pc' \in [Runs -> PCs]
    BY DEF Control, RunsTyped, PCs, Idle
  <2>. QED BY <1>1, <2>1 DEF RunsTyped
<1>4. Onward(r)
  <2>1. \A q \in Sessions : targets'[q] = targets[q] \/ targets'[q] = r
    BY <1>1 DEF RunsTyped
  <2>2. \A q \in Runs \ {r} : pc'[q] = pc[q] \/ (pc[q] = "executing" /\ pc'[q] = "failing")
    BY <1>2
  <2>. QED BY <1>1, <1>2, <2>1, <2>2 DEF Onward
<1>5. WorkOf(r)'
  BY <1>1, <1>2 DEF Work, WorkOf, HasSession, Ready, Counted, BoundWell, Met, AtWork, Idle
<1>. QED BY <1>3, <1>4, <1>5, OthersWork

LEMMA ExecuteWorks ==
  ASSUME RunsTyped, Work, NEW r \in Runs, NEW s \in Sessions, Execute(r, s), UNCHANGED arrived
  PROVE  RunsTyped' /\ Work' /\ Onward(r)
<1>1. /\ pc[r] = "routing" /\ AtWork(r) /\ pc' = [pc EXCEPT ![r] = "executing"]
      /\ session' = [session EXCEPT ![r] = s] /\ UNCHANGED <<sending, targets, together>>
  BY DEF Execute, Goto, AtWork, Idle
<1>2. RunsTyped'
  BY <1>1 DEF RunsTyped, PCs
<1>3. /\ pc'[r] = "executing" /\ session'[r] = s
      /\ \A q \in Runs \ {r} : pc'[q] = pc[q] /\ session'[q] = session[q]
  BY <1>1 DEF RunsTyped
<1>4. Onward(r)
  BY <1>1, <1>3 DEF Onward
<1>5. \A q \in Runs : AtWork(q)' => AtWork(q)
  BY <1>1, <1>3 DEF AtWork
<1>6. HasSession(r)' /\ Ready(r)' /\ Met(r)' /\ Counted(r)' /\ BoundWell(r)'
  BY <1>1, <1>3, <1>5 DEF Work, WorkOf, HasSession, Ready, Counted, BoundWell, Met
<1>. QED BY <1>2, <1>4, <1>6, OthersWork DEF WorkOf

\* A delivery that has counted no failure starts with the first segment.
LEMMA ExecutedWorks ==
  ASSUME RunsTyped, Work, NEW r \in Runs, Executed(r), UNCHANGED arrived
  PROVE  RunsTyped' /\ Work' /\ Onward(r)
<1>1. /\ pc[r] = "executing" /\ AtWork(r) /\ pc' = [pc EXCEPT ![r] = "delivering"]
      /\ targets' = [targets EXCEPT ![session[r]] = r] /\ UNCHANGED <<session, sending, together>>
  BY DEF Executed, Bind, Goto, AtWork, Idle
<1>2. session[r] \in Sessions
  BY <1>1 DEF Work, WorkOf, HasSession
<1>3. RunsTyped'
  BY <1>1, <1>2 DEF RunsTyped, PCs
<1>4. /\ pc'[r] = "delivering" /\ targets'[session[r]] = r
      /\ \A q \in Runs \ {r} : pc'[q] = pc[q]
      /\ \A s \in Sessions : targets'[s] = targets[s] \/ targets'[s] = r
  BY <1>1, <1>2 DEF RunsTyped
<1>5. Onward(r)
  BY <1>1, <1>4 DEF Onward
<1>6. \A q \in Runs : AtWork(q)' => AtWork(q)
  BY <1>1, <1>4 DEF AtWork
<1>7. HasSession(r)' /\ Ready(r)' /\ BoundWell(r)' /\ Met(r)'
  BY <1>1, <1>2, <1>4, <1>6, RunsArePairs DEF Work, WorkOf, HasSession, Ready, BoundWell, Met
<1>8. Counted(r)'
  BY <1>1 DEF Work, WorkOf, Ready, Counted, FirstAttempt, Attempt
<1>. QED BY <1>3, <1>5, <1>7, <1>8, OthersWork DEF WorkOf

\* Every step of a handler moves one run onward.
LEMMA HandlerWorks ==
  ASSUME RunsTyped, Work, NEW r \in Runs, HandlerStep(r)
  PROVE  RunsTyped' /\ Work' /\ Onward(r)
<1>1. ASSUME End(r), AtWork(r), UNCHANGED <<targets, arrived>> PROVE RunsTyped' /\ Work' /\ Onward(r)
  BY <1>1, EndWorks
<1>2. CASE Deliver(r)
  BY <1>2, SentWorks, NotSentWorks DEF Deliver
<1>3. CASE Notice(r) /\ UNCHANGED arrived
  <2>1. AtWork(r)
    BY <1>3 DEF Notice, AtWork, Idle
  <2>. QED BY <1>3, <2>1, DeliveredWorks DEF Notice
<1>4. CASE (Answer(r) \/ Failed(r) \/ Files(r)) /\ UNCHANGED arrived
  <2>1. AtWork(r) /\ End(r) /\ UNCHANGED targets
    BY <1>4 DEF Answer, Failed, Files, AtWork, Idle
  <2>. QED BY <1>1, <1>4, <2>1
<1>5. CASE (\E s \in Sessions : Control(r, s) \/ Execute(r, s)) /\ UNCHANGED arrived
  BY <1>5, ControlWorks, ExecuteWorks
<1>6. CASE Executed(r) /\ UNCHANGED arrived
  BY <1>6, ExecutedWorks
<1>. QED BY <1>2, <1>3, <1>4, <1>5, <1>6
     DEF HandlerStep, TelegramInbound, FeishuInbound, WeComInbound, DiscordInbound, Inbound

\* A run begins, which meets all that are at work.
LEMMA BeginWorks ==
  ASSUME RunsTyped, Work, NEW r \in Runs, pc[r] = "new", Begin(r),
         UNCHANGED <<session, sending, targets, arrived>>
  PROVE  RunsTyped' /\ Work'
<1>1. /\ pc' = [pc EXCEPT ![r] = "routing"]
      /\ together' = together \cup UNION {{<<r, q>>, <<q, r>>} : q \in Active}
  BY DEF Begin, Goto
<1>2. RunsTyped'
  BY <1>1 DEF RunsTyped, PCs
<1>3. pc'[r] = "routing" /\ \A q \in Runs \ {r} : pc'[q] = pc[q]
  BY <1>1 DEF RunsTyped
<1>4. \A q \in Runs \ {r} : AtWork(q)' => /\ AtWork(q)
                                          /\ <<r, q>> \in together' /\ <<q, r>> \in together'
  BY <1>1, <1>3 DEF AtWork, Active
<1>5. ASSUME NEW q \in Runs PROVE Met(q)'
  <2>. SUFFICES ASSUME AtWork(q)', NEW p \in Runs \ {q}, AtWork(p)' PROVE <<q, p>> \in together'
    BY DEF Met
  <2>1. CASE q = r \/ p = r
    BY <1>4, <2>1
  <2>2. CASE q # r /\ p # r
    <3>1. AtWork(q) /\ AtWork(p)
      BY <1>4, <2>2
    <3>. QED BY <1>1, <3>1 DEF Work, WorkOf, Met
  <2>. QED BY <2>1, <2>2
<1>6. ASSUME NEW q \in Runs PROVE HasSession(q)' /\ Ready(q)' /\ Counted(q)' /\ BoundWell(q)'
  <2>1. /\ pc'[q] \in {"executing", "delivering"} => pc'[q] = pc[q]
        /\ pc'[q] \in {"new", "routing", "executing"} => pc[q] \in {"new", "routing", "executing"}
    BY <1>3
  <2>. QED BY <1>1, <2>1 DEF Work, WorkOf, HasSession, Ready, Counted, BoundWell
<1>. QED BY <1>2, <1>5, <1>6 DEF Work, WorkOf

LEMMA StopWorks ==
  ASSUME RunsTyped, Stop
  PROVE  RunsTyped' /\ Work'
<1>1. /\ pc' = [r \in Runs |-> IF pc[r] \in Idle THEN pc[r] ELSE "lost"]
      /\ session' = [r \in Runs |-> None] /\ sending' = [r \in Runs |-> FirstAttempt]
      /\ targets' = [s \in Sessions |-> None]
  BY DEF Stop
<1>2. RunsTyped'
  BY <1>1, FirstIsSending DEF RunsTyped, PCs, Idle
<1>3. \A r \in Runs : ~AtWork(r)' /\ sending'[r] = FirstAttempt
  BY <1>1 DEF AtWork, Idle
<1>4. Work'
  BY <1>3 DEF Work, WorkOf, HasSession, Ready, Counted, BoundWell, Met, AtWork, Idle, FirstAttempt, Attempt
<1>. QED BY <1>2, <1>4

-----------------------------------------------------------------------------
(* The inbox.  What an adapter has fetched and not looked at, what the     *)
(* platform has still to deliver, and the runs there are of an event.      *)

Distinct(s) == \A i, j \in DOMAIN s : s[i] = s[j] => i = j

\* In this life of ClawX no run of the event has begun.
Untouched(e) == \A k \in Deliveries : began[<<e, k>>] = None

Modes ==
    /\ adapter.mode # "polling" => ahead = 0
    /\ adapter.mode = "webhook" => batch = <<>>
    /\ adapter.mode = "gateway" => queue = <<>> /\ confirmed = {}

\* An event was sent once.
SentOnce ==
    /\ Distinct(queue) /\ Distinct(batch)
    /\ \A i \in DOMAIN queue : message[queue[i]] # None
    /\ \A i \in DOMAIN batch : message[batch[i]] # None
    /\ \A e \in confirmed : e \in Events /\ message[e] # None
    /\ \A r \in Runs : pc[r] # "new" => message[r[1]] # None

\* An event that was taken out of the batch has a run that no stop has lost.
Handled(e) == Wanted(e) => \E k \in Deliveries : pc[<<e, k>>] \notin {"new", "lost"}

FetchedOnce ==
    /\ \A i \in DOMAIN batch : Untouched(batch[i])
    /\ adapter.mode = "polling" =>
        /\ \A i \in DOMAIN batch : \E j \in 1..ahead : queue[j] = batch[i]
        /\ \A j \in (ahead + 1)..Len(queue) : Untouched(queue[j])
        /\ \A j \in 1..ahead : (\E i \in DOMAIN batch : batch[i] = queue[j]) \/ Handled(queue[j])

Begun ==
    /\ \A r \in Runs : pc[r] = "new" => began[r] = None
    /\ \A e \in Events, k \in 2..MaxDeliveries : pc[<<e, k>>] # "new" => pc[<<e, k - 1>>] # "new"
    /\ \A r \in Runs : began[r] # None /\ adapter.mode = "webhook" =>
          seen[r[1]] # None /\ began[r] <= seen[r[1]]

Inbox == Modes /\ SentOnce /\ FetchedOnce /\ Begun /\ ConfirmedIsHandled /\ HandledOnce

\* What a step may do to the runs without touching the inbox.
Progress ==
    \A q \in Runs : IF pc[q] \in Idle THEN pc'[q] = pc[q] ELSE pc'[q] \notin {"new", "lost"}

LEMMA OnwardIsProgress ==
  ASSUME RunsTyped, NEW r \in Runs, Onward(r)
  PROVE  Progress
  BY DEF Onward, Progress, AtWork, Idle

\* What an adapter wants depends on the message.
LEMMA WantedStays ==
  ASSUME UNCHANGED adapter, NEW e, message'[e] = message[e]
  PROVE  Wanted(e)' <=> Wanted(e)
  BY DEF Wanted, TelegramWants, DiscordWants, DiscordCommand, FeishuWants, WeComWants

LEMMA HandledStays ==
  ASSUME UNCHANGED adapter, NEW e \in Events, message'[e] = message[e], Handled(e),
         \A r \in Runs : pc[r] \notin {"new", "lost"} => pc'[r] \notin {"new", "lost"}
  PROVE  Handled(e)'
<1>1. Wanted(e)' <=> Wanted(e)
  BY WantedStays
<1>. QED BY <1>1, RunsArePairs DEF Handled

\* What the platform was told stays true of an event that was sent.
ConfirmedWell(e) ==
    Wanted(e) => \E k \in Deliveries : \/ pc[<<e, k>>] = "done"
                                       \/ adapter.mode = "webhook" /\ pc[<<e, k>>] # "new"

LEMMA ConfirmedParts == ConfirmedIsHandled <=> \A e \in confirmed : ConfirmedWell(e)
  BY DEF ConfirmedIsHandled, ConfirmedWell, Deliveries

LEMMA ConfirmedStays ==
  ASSUME RunsTyped, UNCHANGED adapter, NEW e \in Events, message'[e] = message[e], ConfirmedWell(e),
         \A r \in Runs : /\ pc[r] = "done" => pc'[r] = "done"
                         /\ pc[r] # "new" => pc'[r] # "new"
  PROVE  ConfirmedWell(e)'
<1>1. Wanted(e)' <=> Wanted(e)
  BY WantedStays
<1>. QED BY <1>1, RunsArePairs DEF ConfirmedWell

LEMMA ProgressIsSafe ==
  ASSUME RunsTyped, Progress
  PROVE  \A r \in Runs : /\ pc[r] = "done" => pc'[r] = "done"
                         /\ pc[r] # "new" <=> pc'[r] # "new"
                         /\ pc[r] \notin {"new", "lost"} => pc'[r] \notin {"new", "lost"}
  BY DEF Progress, Idle

\* Steps of the handlers, and of a listener that takes nothing in.
LEMMA InboxStays ==
  ASSUME Typed, Inbox, Progress, UNCHANGED <<adapter, message, queue, ahead, batch, seen, confirmed, began>>
  PROVE  Inbox'
<1>0. RunsTyped
  BY DEF Typed
<1>1. Modes'
  BY DEF Inbox, Modes
<1>2. SentOnce'
  BY <1>0, ProgressIsSafe DEF Inbox, SentOnce, Distinct
<1>3. FetchedOnce'
  <2>1. \A j \in DOMAIN queue : queue[j] \in Events
    BY DEF Typed, InboxTyped
  <2>2. \A j \in DOMAIN queue : Handled(queue[j]) => Handled(queue[j])'
    BY <1>0, <2>1, HandledStays, ProgressIsSafe
  <2>3. \A j \in 1..ahead : j \in DOMAIN queue
    BY DEF Typed, InboxTyped
  <2>. QED BY <2>2, <2>3 DEF Inbox, FetchedOnce, Untouched
<1>4. Begun'
  <2>1. \A e \in Events, k \in 2..MaxDeliveries : <<e, k>> \in Runs /\ <<e, k - 1>> \in Runs
    BY ChannelConstants DEF Runs
  <2>. QED BY <1>0, <2>1, ProgressIsSafe DEF Inbox, Begun
<1>5. ConfirmedIsHandled'
  <2>1. \A e \in confirmed : ConfirmedWell(e)'
    BY <1>0, ProgressIsSafe, ConfirmedStays, ConfirmedParts DEF Inbox, SentOnce
  <2>. QED BY <2>1 DEF ConfirmedIsHandled, ConfirmedWell, Deliveries
<1>6. HandledOnce'
  BY DEF Inbox, HandledOnce
<1>. QED BY <1>1, <1>2, <1>3, <1>4, <1>5, <1>6 DEF Inbox

LEMMA Appended ==
  ASSUME NEW s \in Seq(Events), NEW e \in Events, NEW t, t = s \/ t = Append(s, e)
  PROVE  /\ t \in Seq(Events) /\ Len(s) <= Len(t)
         /\ \A j \in DOMAIN s : j \in DOMAIN t /\ t[j] = s[j]
         /\ \A j \in DOMAIN t : j \in DOMAIN s \/ (j = Len(s) + 1 /\ t[j] = e)
  OBVIOUS

\* A user sends what nobody has seen.
LEMMA SendInbox ==
  ASSUME Typed, Inbox, NEW e \in Events, Send(e)
  PROVE  InboxTyped' /\ Inbox'
<1>. USE DEF runs, histories
<1>0. RunsTyped /\ InboxTyped
  BY DEF Typed
<1>1. PICK m \in Messages : message' = [message EXCEPT ![e] = m]
  BY DEF Send
<1>2. /\ message[e] = None /\ message'[e] = m /\ m # None
      /\ \A d \in Events \ {e} : message'[d] = message[d]
      /\ message' \in [Events -> Messages \cup {None}]
  BY <1>0, <1>1, ChannelConstants DEF Send, InboxTyped
<1>3. /\ UNCHANGED <<adapter, ahead, listener, seen, now, pc, began, confirmed>>
      /\ \/ queue' = queue
         \/ queue' = Append(queue, e) /\ adapter.mode # "gateway"
      /\ \/ batch' = batch
         \/ batch' = Append(batch, e) /\ adapter.mode = "gateway"
  BY DEF Send
<1>4. /\ queue' \in Seq(Events) /\ batch' \in Seq(Events) /\ Len(queue) <= Len(queue')
      /\ \A j \in DOMAIN queue : j \in DOMAIN queue' /\ queue'[j] = queue[j]
      /\ \A j \in DOMAIN queue' : j \in DOMAIN queue \/ (j = Len(queue) + 1 /\ queue'[j] = e)
      /\ \A j \in DOMAIN batch : batch'[j] = batch[j]
      /\ \A j \in DOMAIN batch' : j \in DOMAIN batch \/ (j = Len(batch) + 1 /\ batch'[j] = e)
  BY <1>0, <1>3, Appended DEF InboxTyped
<1>5. \A j \in DOMAIN queue : queue[j] \in Events \ {e}
  BY <1>0, <1>2 DEF InboxTyped, Inbox, SentOnce
<1>6. \A j \in DOMAIN batch : batch[j] \in Events \ {e}
  BY <1>0, <1>2 DEF InboxTyped, Inbox, SentOnce
<1>7. Untouched(e) /\ \A r \in Runs : pc[r] # "new" => r[1] # e
  <2>1. \A r \in Runs : pc[r] # "new" => r[1] # e
    BY <1>2 DEF Inbox, SentOnce
  <2>2. \A k \in Deliveries : <<e, k>> \in Runs /\ <<e, k>>[1] = e
    BY RunsArePairs
  <2>. QED BY <2>1, <2>2 DEF Untouched, Inbox, Begun
<1>8. InboxTyped'
  BY <1>0, <1>2, <1>3, <1>4 DEF InboxTyped
<1>9. Modes'
  BY <1>3 DEF Inbox, Modes, Send
<1>10. SentOnce'
  <2>1. Distinct(queue)' /\ \A i \in DOMAIN queue' : message'[queue'[i]] # None
    BY <1>2, <1>4, <1>5 DEF Inbox, SentOnce, Distinct
  <2>2. Distinct(batch)' /\ \A i \in DOMAIN batch' : message'[batch'[i]] # None
    BY <1>2, <1>4, <1>6 DEF Inbox, SentOnce, Distinct
  <2>3. \A d \in confirmed' : d \in Events /\ message'[d] # None
    BY <1>2, <1>3 DEF Inbox, SentOnce
  <2>4. \A r \in Runs : pc'[r] # "new" => message'[r[1]] # None
    BY <1>2, <1>3, RunsArePairs DEF Inbox, SentOnce
  <2>. QED BY <2>1, <2>2, <2>3, <2>4 DEF SentOnce
<1>11. FetchedOnce'
  <2>1. (\A i \in DOMAIN batch : Untouched(batch[i]))'
    <3>1. \A i \in DOMAIN batch' : Untouched(batch'[i])
      BY <1>4, <1>7 DEF Inbox, FetchedOnce
    <3>. QED BY <1>3, <3>1 DEF Untouched
  <2>2. ASSUME adapter.mode = "polling"
        PROVE  /\ \A i \in DOMAIN batch' : \E j \in 1..ahead' : queue'[j] = batch'[i]
               /\ (\A j \in (ahead + 1)..Len(queue) : Untouched(queue[j]))'
               /\ (\A j \in 1..ahead : (\E i \in DOMAIN batch : batch[i] = queue[j]) \/ Handled(queue[j]))'
    <3>1. batch' = batch
      BY <1>3, <2>2
    <3>2. \A j \in 1..ahead : j \in DOMAIN queue /\ queue'[j] = queue[j]
      BY <1>0, <1>4 DEF InboxTyped
    <3>3. \A j \in (ahead + 1)..Len(queue') : j \in (ahead + 1)..Len(queue) \/ queue'[j] = e
      BY <1>0, <1>4 DEF InboxTyped
    <3>4. \A j \in (ahead + 1)..Len(queue') : Untouched(queue'[j])
      <4>1. \A j \in (ahead + 1)..Len(queue) : Untouched(queue[j]) /\ queue'[j] = queue[j]
        BY <1>0, <1>4, <2>2 DEF InboxTyped, Inbox, FetchedOnce
      <4>. QED BY <1>7, <3>3, <4>1
    <3>5. \A j \in 1..ahead : Handled(queue[j]) => Handled(queue[j])'
      <4>. SUFFICES ASSUME NEW j \in 1..ahead, Handled(queue[j]) PROVE Handled(queue[j])'
        OBVIOUS
      <4>1. PICK d \in Events : d = queue[j] /\ d = queue'[j] /\ message'[d] = message[d]
        BY <1>2, <1>5, <3>2
      <4>2. Wanted(d)' <=> Wanted(d)
        BY <1>3, <4>1, WantedStays
      <4>. QED BY <1>3, <4>1, <4>2 DEF Handled
    <3>6. \A i \in DOMAIN batch : \E j \in 1..ahead : queue'[j] = batch[i]
      BY <2>2, <3>2 DEF Inbox, FetchedOnce
    <3>7. \A j \in 1..ahead : (\E i \in DOMAIN batch : batch[i] = queue'[j]) \/ Handled(queue[j])'
      BY <2>2, <3>2, <3>5 DEF Inbox, FetchedOnce
    <3>. QED BY <1>3, <3>1, <3>4, <3>6, <3>7 DEF Untouched
  <2>. QED BY <1>3, <2>1, <2>2 DEF FetchedOnce
<1>12. Begun'
  BY <1>3 DEF Inbox, Begun
<1>13. ConfirmedIsHandled'
  <2>1. \A d \in confirmed : d \in Events /\ message'[d] = message[d]
    BY <1>2 DEF Inbox, SentOnce
  <2>2. \A d \in confirmed : ConfirmedWell(d)'
    BY <1>0, <1>3, <2>1, ConfirmedStays, ConfirmedParts DEF Inbox
  <2>. QED BY <1>3, <2>2 DEF ConfirmedIsHandled, ConfirmedWell, Deliveries
<1>14. HandledOnce'
  BY <1>3 DEF Inbox, HandledOnce
<1>. QED BY <1>8, <1>9, <1>10, <1>11, <1>12, <1>13, <1>14 DEF Inbox

\* What comes after the first n.
Rest(s, n) == SubSeq(s, n + 1, Len(s))

LEMMA Unfetched ==
  ASSUME NEW s \in Seq(Events), NEW n \in 0..Len(s), NEW t, t = Rest(s, n)
  PROVE  /\ t \in Seq(Events) /\ Len(t) = Len(s) - n
         /\ \A j \in DOMAIN t : n + j \in DOMAIN s /\ t[j] = s[n + j]
         /\ Distinct(s) => Distinct(t)
<1>1. t \in Seq(Events) /\ Len(t) = Len(s) - n
  BY DEF Rest
<1>2. \A j \in DOMAIN t : n + j \in DOMAIN s /\ t[j] = s[n + j]
  BY DEF Rest
<1>3. Distinct(s) => Distinct(t)
  <2>1. \A i, j \in DOMAIN t : n + i = n + j => i = j
    BY <1>1
  <2>. QED BY <1>2, <2>1 DEF Distinct
<1>. QED BY <1>1, <1>2, <1>3

LEMMA FetchedSet ==
  ASSUME NEW s \in Seq(Events), NEW n \in 0..Len(s), NEW e \in ToSet(SubSeq(s, 1, n))
  PROVE  \E j \in 1..n : e = s[j]
  BY DEF ToSet

\* A poll comes when what the last one brought is done with.
LEMMA PollInbox ==
  ASSUME Typed, Inbox, Poll
  PROVE  InboxTyped' /\ Inbox'
<1>. USE DEF runs
<1>0. RunsTyped /\ InboxTyped
  BY DEF Typed
<1>1. /\ adapter.mode = "polling" /\ batch = <<>> /\ Active = {}
      /\ queue' = SubSeq(queue, ahead + 1, Len(queue))
      /\ confirmed' = confirmed \cup ToSet(SubSeq(queue, 1, ahead))
      /\ UNCHANGED <<adapter, message, seen, now, pc, began>>
  BY DEF Poll, Fetch
<1>2. /\ listener' \in {"up", "down", "dialed", "ended"}
      /\ (batch' = queue' /\ ahead' = Len(queue')) \/ (batch' = <<>> /\ ahead' = 0)
  BY <1>0, <1>1 DEF Poll, Fetched, Unanswered, FailsInto, InboxTyped
<1>3. /\ queue' \in Seq(Events) /\ Len(queue') = Len(queue) - ahead
      /\ \A j \in DOMAIN queue' : ahead + j \in DOMAIN queue /\ queue'[j] = queue[ahead + j]
      /\ Distinct(queue')
  <2>1. queue \in Seq(Events) /\ ahead \in 0..Len(queue) /\ Distinct(queue)
    BY <1>0 DEF InboxTyped, Inbox, SentOnce
  <2>2. queue' = Rest(queue, ahead)
    BY <1>1 DEF Rest
  <2>. QED BY <2>1, <2>2, Unfetched
<1>4. ahead \in Nat /\ Len(queue) \in Nat /\ Len(queue') \in Nat
  BY <1>0, <1>3 DEF InboxTyped
<1>5. InboxTyped'
  <2>1. batch' \in Seq(Events) /\ ahead' \in 0..Len(queue')
    <3>1. CASE batch' = queue' /\ ahead' = Len(queue')
      BY <1>3, <1>4, <3>1
    <3>2. CASE batch' = <<>> /\ ahead' = 0
      <4>1. <<>> \in Seq(Events) /\ 0 \in 0..Len(queue')
        BY <1>4
      <4>. QED BY <3>2, <4>1
    <3>. QED BY <1>2, <3>1, <3>2
  <2>. QED BY <1>0, <1>1, <1>2, <1>3, <2>1 DEF InboxTyped
<1>6. Modes'
  BY <1>1 DEF Modes
<1>7. ASSUME NEW e \in ToSet(SubSeq(queue, 1, ahead)) PROVE e \in Events /\ message[e] # None /\ ConfirmedWell(e)
  <2>1. PICK j \in 1..ahead : e = queue[j]
    BY <1>0, FetchedSet DEF InboxTyped
  <2>2. j \in DOMAIN queue /\ e \in Events
    BY <1>0, <2>1 DEF InboxTyped
  <2>3. Handled(e)
    BY <1>1, <2>1 DEF Inbox, FetchedOnce
  <2>4. \A k \in Deliveries : pc[<<e, k>>] \in {"new", "done", "lost"}
    BY <1>1, <2>2, RunsArePairs DEF Active, Idle
  <2>. QED BY <2>1, <2>2, <2>3, <2>4 DEF Handled, ConfirmedWell, Inbox, SentOnce
<1>8. SentOnce'
  <2>1. \A i \in DOMAIN queue' : message'[queue'[i]] # None
    BY <1>1, <1>3 DEF Inbox, SentOnce
  <2>2. Distinct(batch)' /\ \A i \in DOMAIN batch' : message'[batch'[i]] # None
    BY <1>2, <1>3, <2>1 DEF Distinct
  <2>3. \A e \in confirmed' : e \in Events /\ message'[e] # None
    BY <1>1, <1>7 DEF Inbox, SentOnce
  <2>4. \A r \in Runs : pc'[r] # "new" => message'[r[1]] # None
    BY <1>1 DEF Inbox, SentOnce
  <2>. QED BY <1>3, <2>1, <2>2, <2>3, <2>4 DEF SentOnce, Distinct
<1>9. FetchedOnce'
  <2>1. \A j \in DOMAIN queue' : Untouched(queue'[j])
    <3>1. \A j \in DOMAIN queue' : ahead + j \in (ahead + 1)..Len(queue)
      BY <1>3, <1>4
    <3>. QED BY <1>1, <1>3, <3>1 DEF Inbox, FetchedOnce
  <2>2. (\A i \in DOMAIN batch : Untouched(batch[i]))'
    <3>1. \A i \in DOMAIN batch' : i \in DOMAIN queue' /\ batch'[i] = queue'[i]
      BY <1>2
    <3>2. \A i \in DOMAIN batch' : Untouched(batch'[i])
      BY <2>1, <3>1
    <3>. QED BY <1>1, <3>2 DEF Untouched
  <2>3. (\A j \in (ahead + 1)..Len(queue) : Untouched(queue[j]))'
    <3>1. \A j \in (ahead' + 1)..Len(queue') : j \in DOMAIN queue'
      BY <1>2, <1>3, <1>4
    <3>. QED BY <1>1, <2>1, <3>1 DEF Untouched
  <2>4. /\ \A i \in DOMAIN batch' : \E j \in 1..ahead' : queue'[j] = batch'[i]
        /\ \A j \in 1..ahead' : \E i \in DOMAIN batch' : batch'[i] = queue'[j]
    BY <1>2, <1>3, <1>4
  <2>. QED BY <2>2, <2>3, <2>4 DEF FetchedOnce
<1>10. Begun' /\ HandledOnce'
  BY <1>1 DEF Inbox, Begun, HandledOnce
<1>11. ConfirmedIsHandled'
  <2>1. \A e \in confirmed' : e \in Events /\ ConfirmedWell(e)
    BY <1>1, <1>7, ConfirmedParts DEF Inbox, SentOnce
  <2>2. \A e \in confirmed' : ConfirmedWell(e)'
    BY <1>0, <1>1, <2>1, ConfirmedStays
  <2>. QED BY <2>2 DEF ConfirmedIsHandled, ConfirmedWell, Deliveries
<1>. QED BY <1>5, <1>6, <1>8, <1>9, <1>10, <1>11 DEF Inbox

-----------------------------------------------------------------------------
(* What a new run changes.                                                 *)

\* What handling an event does to its runs: a new one begins, or none.
LEMMA HandleRuns ==
  ASSUME Typed, Begun, NEW e \in Events, Handle(e)
  PROVE  /\ pc' \in [Runs -> PCs] /\ began' \in [Runs -> Nat \cup {None}]
         /\ \A r \in Runs : pc[r] # "new" => pc'[r] = pc[r]
         /\ \A r \in Runs : pc'[r] # pc[r] => r[1] = e
         /\ \A r \in Runs : r[1] # e => began'[r] = began[r]
         /\ \A r \in Runs : pc'[r] = "new" => began'[r] = None
         /\ \A d \in Events, k \in 2..MaxDeliveries : pc'[<<d, k>>] # "new" => pc'[<<d, k - 1>>] # "new"
         /\ \A r, q \in Runs : /\ r[1] = e /\ began'[r] # None /\ began[r] = None
                               /\ q[1] = e /\ began'[q] # None /\ began[q] = None
                               => r = q
         /\ \A r \in Runs : began'[r] # began[r] =>
                              began'[r] = now /\ pc[r] = "new" /\ began[r] = None
         /\ Handled(e) \/ (Wanted(e) => \E k \in Deliveries : pc'[<<e, k>>] = "routing")
<1>0. /\ pc \in [Runs -> PCs] /\ began \in [Runs -> Nat \cup {None}] /\ now \in Nat
      /\ \A d \in Events, k \in 2..MaxDeliveries : <<d, k>> \in Runs /\ <<d, k - 1>> \in Runs
  BY ChannelConstants DEF Typed, RunsTyped, InboxTyped, Runs
<1>1. CASE ~Wanted(e)
  <2>1. UNCHANGED <<pc, began>>
    BY <1>1 DEF Handle
  <2>. QED BY <1>0, <1>1, <2>1 DEF Begun, Handled
<1>2. CASE Wanted(e)
  <2>1. PICK r \in Runs : NewRun(e, r) /\ Begin(r)
    BY <1>2 DEF Handle
  <2>2. /\ r[1] = e /\ pc[r] = "new" /\ \A k \in 1..(r[2] - 1) : pc[<<e, k>>] # "new"
        /\ pc' = [pc EXCEPT ![r] = "routing"] /\ began' = [began EXCEPT ![r] = now]
        /\ r[2] \in Deliveries /\ r = <<e, r[2]>>
    BY <2>1, RunsArePairs DEF NewRun, Begin, Goto
  <2>3. /\ pc' \in [Runs -> PCs] /\ began' \in [Runs -> Nat \cup {None}]
        /\ pc'[r] = "routing" /\ began'[r] = now
        /\ \A q \in Runs \ {r} : pc'[q] = pc[q] /\ began'[q] = began[q]
    BY <1>0, <2>2 DEF PCs
  <2>4. began[r] = None
    BY <2>2 DEF Begun
  <2>5. \A d \in Events, k \in 2..MaxDeliveries : pc'[<<d, k>>] # "new" => pc'[<<d, k - 1>>] # "new"
    <3>. SUFFICES ASSUME NEW d \in Events, NEW k \in 2..MaxDeliveries, pc'[<<d, k>>] # "new"
                  PROVE  pc'[<<d, k - 1>>] # "new"
      OBVIOUS
    <3>1. CASE <<d, k>> = r
      <4>1. d = e /\ k = r[2] /\ k - 1 \in 1..(r[2] - 1)
        BY <2>2, <3>1
      <4>2. pc[<<e, k - 1>>] # "new"
        BY <2>2, <4>1
      <4>. QED BY <1>0, <2>3, <4>1, <4>2
    <3>2. CASE <<d, k>> # r
      <4>1. pc[<<d, k - 1>>] # "new"
        BY <1>0, <2>3, <3>2 DEF Begun
      <4>. QED BY <1>0, <2>3, <4>1
    <3>. QED BY <3>1, <3>2
  <2>6. \E k \in Deliveries : pc'[<<e, k>>] = "routing"
    BY <2>2, <2>3
  <2>7. \A q \in Runs : pc'[q] = "new" => began'[q] = None
    BY <2>3 DEF Begun
  <2>. QED BY <2>2, <2>3, <2>4, <2>5, <2>6, <2>7
<1>. QED BY <1>1, <1>2

LEMMA HandleStays ==
  ASSUME Typed, Inbox, NEW e \in Events, message[e] # None, Handle(e), UNCHANGED <<adapter, message>>
  PROVE  /\ \A r \in Runs : pc'[r] # "new" => message'[r[1]] # None
         /\ \A d \in Events : Handled(d) => Handled(d)'
         /\ Handled(e)'
         /\ \A d \in Events \ {e} : Untouched(d) => Untouched(d)'
         /\ \A d \in confirmed : d \in Events /\ ConfirmedWell(d)'
<1>0. Begun /\ RunsTyped
  BY DEF Inbox, Typed
<1>1. /\ \A r \in Runs : pc[r] # "new" => pc'[r] = pc[r]
      /\ \A r \in Runs : pc'[r] # pc[r] => r[1] = e
      /\ \A r \in Runs : r[1] # e => began'[r] = began[r]
  BY <1>0, HandleRuns
<1>2. \A r \in Runs : pc'[r] # "new" => message'[r[1]] # None
  BY <1>1 DEF Inbox, SentOnce
<1>3. ASSUME NEW d \in Events, Handled(d) PROVE Handled(d)'
  BY <1>1, <1>3, HandledStays
<1>4. Handled(e)'
  <2>1. Handled(e) \/ (Wanted(e) => \E k \in Deliveries : pc'[<<e, k>>] = "routing")
    BY <1>0, HandleRuns
  <2>2. Wanted(e)' <=> Wanted(e)
    BY WantedStays
  <2>3. CASE Wanted(e) => \E k \in Deliveries : pc'[<<e, k>>] = "routing"
    BY <2>2, <2>3 DEF Handled
  <2>. QED BY <1>3, <2>1, <2>3
<1>5. \A d \in Events \ {e} : Untouched(d) => Untouched(d)'
  <2>1. \A d \in Events, k \in Deliveries : <<d, k>> \in Runs /\ <<d, k>>[1] = d
    BY RunsArePairs
  <2>. QED BY <1>1, <2>1 DEF Untouched
<1>6. \A d \in confirmed : d \in Events /\ ConfirmedWell(d)'
  <2>1. \A d \in confirmed : d \in Events /\ ConfirmedWell(d)
    BY ConfirmedParts DEF Inbox, SentOnce
  <2>. QED BY <1>0, <1>1, <2>1, ConfirmedStays
<1>. QED BY <1>2, <1>3, <1>4, <1>5, <1>6

\* The first element and the others.
First(s, e, t) == s # <<>> /\ e = Head(s) /\ t = Tail(s)

LEMMA Taken ==
  ASSUME NEW s \in Seq(Events), NEW e, NEW t, First(s, e, t), Distinct(s)
  PROVE  /\ e = s[1] /\ 1 \in DOMAIN s /\ e \in Events
         /\ t \in Seq(Events)
         /\ \A j \in DOMAIN t : j + 1 \in DOMAIN s /\ t[j] = s[j + 1] /\ t[j] # e
         /\ \A j \in DOMAIN s : j = 1 \/ (\E i \in DOMAIN t : t[i] = s[j])
         /\ Distinct(t)
<1>1. e = s[1] /\ 1 \in DOMAIN s /\ e \in Events /\ t \in Seq(Events)
  BY DEF First
<1>2. \A j \in DOMAIN t : j + 1 \in DOMAIN s /\ t[j] = s[j + 1] /\ j + 1 # 1
  BY DEF First
<1>3. \A j \in DOMAIN t : t[j] # e
  BY <1>1, <1>2 DEF Distinct
<1>4. ASSUME NEW j \in DOMAIN s, j # 1 PROVE \E i \in DOMAIN t : t[i] = s[j]
  <2>1. j - 1 \in DOMAIN t /\ t[j - 1] = s[j]
    BY <1>4 DEF First
  <2>. QED BY <2>1
<1>5. Distinct(t)
  <2>1. \A i, j \in DOMAIN t : i + 1 = j + 1 => i = j
    BY <1>1
  <2>. QED BY <1>2, <2>1 DEF Distinct
<1>. QED BY <1>1, <1>2, <1>3, <1>4, <1>5

\* The next of what was fetched or pushed.
LEMMA TakeInbox ==
  ASSUME Typed, Inbox, TakeNext, adapter.mode # "webhook"
  PROVE  InboxTyped' /\ Inbox' /\ began' \in [Runs -> Nat \cup {None}]
<1>0. RunsTyped /\ InboxTyped /\ Begun
  BY DEF Typed, Inbox
<1>1. PICK e : /\ e = Head(batch) /\ batch # <<>> /\ batch' = Tail(batch) /\ Handle(e)
               /\ UNCHANGED <<adapter, message, queue, ahead, listener, seen, now, confirmed>>
  BY DEF TakeNext, platform
<1>2. /\ e = batch[1] /\ 1 \in DOMAIN batch /\ e \in Events
      /\ batch' \in Seq(Events)
      /\ \A j \in DOMAIN batch' : j + 1 \in DOMAIN batch /\ batch'[j] = batch[j + 1] /\ batch'[j] # e
      /\ \A j \in DOMAIN batch : j = 1 \/ (\E i \in DOMAIN batch' : batch'[i] = batch[j])
      /\ Distinct(batch')
  <2>1. batch \in Seq(Events) /\ Distinct(batch)
    BY <1>0 DEF InboxTyped, Inbox, SentOnce
  <2>2. First(batch, e, batch')
    BY <1>1 DEF First
  <2>. QED BY <2>1, <2>2, Taken
<1>3. message[e] # None
  BY <1>2 DEF Inbox, SentOnce
<1>4. /\ \A r \in Runs : pc'[r] # "new" => message'[r[1]] # None
      /\ \A d \in Events : Handled(d) => Handled(d)'
      /\ Handled(e)'
      /\ \A d \in Events \ {e} : Untouched(d) => Untouched(d)'
      /\ \A d \in confirmed : d \in Events /\ ConfirmedWell(d)'
  BY <1>1, <1>2, <1>3, HandleStays
<1>5. InboxTyped'
  BY <1>0, <1>1, <1>2 DEF InboxTyped
<1>6. Modes'
  BY <1>1 DEF Inbox, Modes
<1>7. SentOnce'
  <2>1. \A i \in DOMAIN batch' : message'[batch'[i]] # None
    BY <1>1, <1>2 DEF Inbox, SentOnce
  <2>2. /\ Distinct(queue)'
        /\ \A i \in DOMAIN queue' : message'[queue'[i]] # None
        /\ \A d \in confirmed' : d \in Events /\ message'[d] # None
    BY <1>1 DEF Inbox, SentOnce, Distinct
  <2>3. Distinct(batch)'
    BY <1>2 DEF Distinct
  <2>. QED BY <1>4, <2>1, <2>2, <2>3 DEF SentOnce
<1>8. FetchedOnce'
  <2>1. \A i \in DOMAIN batch' : batch'[i] \in Events \ {e} /\ Untouched(batch'[i])
    BY <1>0, <1>2 DEF Inbox, FetchedOnce, InboxTyped
  <2>2. (\A i \in DOMAIN batch : Untouched(batch[i]))'
    <3>. SUFFICES ASSUME NEW i \in DOMAIN batch' PROVE Untouched(batch[i])'
      OBVIOUS
    <3>1. PICK d \in Events \ {e} : d = batch'[i] /\ Untouched(d)
      BY <2>1
    <3>2. Untouched(d)'
      BY <1>4, <3>1
    <3>. QED BY <3>1, <3>2 DEF Untouched
  <2>3. ASSUME adapter.mode = "polling"
        PROVE  /\ \A i \in DOMAIN batch' : \E j \in 1..ahead' : queue'[j] = batch'[i]
               /\ (\A j \in (ahead + 1)..Len(queue) : Untouched(queue[j]))'
               /\ (\A j \in 1..ahead : (\E i \in DOMAIN batch : batch[i] = queue[j]) \/ Handled(queue[j]))'
    <3>1. \A i \in DOMAIN batch' : \E j \in 1..ahead' : queue'[j] = batch'[i]
      BY <1>1, <1>2, <2>3 DEF Inbox, FetchedOnce
    <3>2. ASSUME NEW j \in (ahead + 1)..Len(queue) PROVE Untouched(queue[j])'
      <4>1. PICK n \in 1..ahead : queue[n] = e
        BY <1>2, <2>3 DEF Inbox, FetchedOnce
      <4>2. n \in DOMAIN queue /\ j \in DOMAIN queue /\ n # j
        BY <1>0 DEF InboxTyped
      <4>3. queue[j] \in Events \ {e} /\ Untouched(queue[j])
        BY <1>0, <2>3, <4>1, <4>2 DEF InboxTyped, Inbox, SentOnce, FetchedOnce, Distinct
      <4>4. PICK d \in Events \ {e} : d = queue[j] /\ Untouched(d)
        BY <4>3
      <4>5. Untouched(d)'
        BY <1>4, <4>4
      <4>. QED BY <1>1, <4>4, <4>5 DEF Untouched
    <3>3. ASSUME NEW j \in 1..ahead
          PROVE  (\E i \in DOMAIN batch' : batch'[i] = queue[j]) \/ Handled(queue[j])'
      <4>1. queue[j] \in Events
        BY <1>0 DEF InboxTyped
      <4>2. PICK d \in Events : d = queue[j] /\ d = queue'[j]
        BY <1>1, <4>1
      <4>3. (\E i \in DOMAIN batch : batch[i] = d) \/ Handled(d)
        BY <2>3, <4>2 DEF Inbox, FetchedOnce
      <4>4. (\E i \in DOMAIN batch' : batch'[i] = d) \/ Handled(d)'
        <5>1. CASE d = e
          BY <1>4, <5>1 DEF Handled, Wanted, TelegramWants, DiscordWants, DiscordCommand, FeishuWants, WeComWants
        <5>2. CASE d # e
          BY <1>2, <1>4, <4>3, <5>2
        <5>. QED BY <5>1, <5>2
      <4>5. CASE Handled(d)'
        BY <4>2, <4>5 DEF Handled, Wanted, TelegramWants, DiscordWants, DiscordCommand, FeishuWants, WeComWants
      <4>. QED BY <4>2, <4>4, <4>5
    <3>. QED BY <1>1, <3>1, <3>2, <3>3
  <2>. QED BY <1>1, <2>2, <2>3 DEF FetchedOnce
<1>9. Begun'
  <2>1. /\ \A r \in Runs : pc'[r] = "new" => began'[r] = None
        /\ \A d \in Events, k \in 2..MaxDeliveries : pc'[<<d, k>>] # "new" => pc'[<<d, k - 1>>] # "new"
    BY <1>0, <1>1, <1>2, HandleRuns
  <2>. QED BY <1>1, <2>1 DEF Begun
<1>10. ConfirmedIsHandled'
  BY <1>1, <1>4 DEF ConfirmedIsHandled, ConfirmedWell, Deliveries
<1>11. HandledOnce'
  <2>. SUFFICES ASSUME NEW d \in Events, NEW k \in 2..MaxDeliveries,
                       began'[<<d, k>>] # None, began'[<<d, k - 1>>] # None
                PROVE  FALSE
    BY <1>1 DEF HandledOnce
  <2>1. k \in Deliveries /\ k - 1 \in Deliveries /\ <<d, k>> \in Runs /\ <<d, k - 1>> \in Runs
    BY ChannelConstants DEF Runs, Deliveries
  <2>2. CASE d = e
    <3>1. Untouched(e)
      BY <1>2 DEF Inbox, FetchedOnce
    <3>2. began[<<d, k>>] = None /\ began[<<d, k - 1>>] = None
      BY <2>1, <2>2, <3>1 DEF Untouched
    <3>3. <<d, k>> = <<d, k - 1>>
      BY <1>0, <1>1, <1>2, <2>1, <2>2, <3>2, HandleRuns
    <3>. QED BY <3>3
  <2>3. CASE d # e
    <3>1. began'[<<d, k>>] = began[<<d, k>>] /\ began'[<<d, k - 1>>] = began[<<d, k - 1>>]
      BY <1>0, <1>1, <1>2, <2>1, <2>3, HandleRuns
    <3>. QED BY <3>1 DEF Inbox, HandledOnce
  <2>. QED BY <2>2, <2>3
<1>12. began' \in [Runs -> Nat \cup {None}]
  BY <1>0, <1>1, <1>2, HandleRuns
<1>. QED BY <1>5, <1>6, <1>7, <1>8, <1>9, <1>10, <1>11, <1>12 DEF Inbox

LEMMA RemovedOne ==
  ASSUME NEW s \in Seq(Events), NEW n \in DOMAIN s, NEW t, t = RemoveAt(s, n)
  PROVE  /\ t \in Seq(Events) /\ Len(t) = Len(s) - 1
         /\ \A j \in DOMAIN t : /\ j < n => j \in DOMAIN s /\ t[j] = s[j]
                                /\ j >= n => j + 1 \in DOMAIN s /\ t[j] = s[j + 1]
<1>. DEFINE a == SubSeq(s, 1, n - 1)
            b == SubSeq(s, n + 1, Len(s))
<1>1. n \in 1..Len(s) /\ Len(s) \in Nat
  OBVIOUS
<1>2. /\ a \in Seq(Events) /\ Len(a) = n - 1
      /\ \A j \in 1..(n - 1) : a[j] = s[j]
  BY <1>1
<1>3. /\ b \in Seq(Events) /\ Len(b) = Len(s) - n
      /\ \A j \in 1..(Len(s) - n) : b[j] = s[n + j]
  BY <1>1
<1>4. t = a \o b
  BY DEF RemoveAt
<1>. HIDE DEF a, b
<1>5. /\ t \in Seq(Events) /\ Len(t) = Len(s) - 1
      /\ \A j \in 1..Len(t) : t[j] = IF j <= n - 1 THEN a[j] ELSE b[j - (n - 1)]
  BY <1>1, <1>2, <1>3, <1>4
<1>6. ASSUME NEW j \in 1..Len(t), j < n PROVE j \in DOMAIN s /\ t[j] = s[j]
  BY <1>1, <1>2, <1>5, <1>6
<1>7. ASSUME NEW j \in 1..Len(t), j >= n PROVE j + 1 \in DOMAIN s /\ t[j] = s[j + 1]
  <2>1. j - (n - 1) \in 1..(Len(s) - n) /\ n + (j - (n - 1)) = j + 1
    BY <1>1, <1>5, <1>7
  <2>. QED BY <1>1, <1>3, <1>5, <1>7, <2>1
<1>. QED BY <1>5, <1>6, <1>7

\* The queue when an event was taken out of it, or not.
LEMMA LetGoQueue ==
  ASSUME queue \in Seq(Events), Distinct(queue), NEW e,
         queue' = queue \/ LetsGo(e)
  PROVE  /\ queue' \in Seq(Events) /\ Distinct(queue')
         /\ \A j \in DOMAIN queue' : \E i \in DOMAIN queue : queue'[j] = queue[i]
<1>1. CASE queue' = queue
  BY <1>1
<1>2. CASE LetsGo(e)
  <2>1. PICK n \in DOMAIN queue : queue' = RemoveAt(queue, n)
    BY <1>2 DEF LetsGo
  <2>2. /\ queue' \in Seq(Events) /\ Len(queue') = Len(queue) - 1
        /\ \A j \in DOMAIN queue' : /\ j < n => j \in DOMAIN queue /\ queue'[j] = queue[j]
                                    /\ j >= n => j + 1 \in DOMAIN queue /\ queue'[j] = queue[j + 1]
    BY <2>1, RemovedOne
  <2>3. \A j \in DOMAIN queue' : j \in Nat /\ n \in Nat
    BY <2>2
  <2>4. \A j \in DOMAIN queue' : \E i \in DOMAIN queue : queue'[j] = queue[i]
    BY <2>2, <2>3
  <2>5. Distinct(queue')
    BY <2>2, <2>3 DEF Distinct
  <2>. QED BY <2>2, <2>4, <2>5
<1>. QED BY <1>1, <1>2

\* What a call changes: the platform may let go of the event, and a run may begin.
LEMMA CalledDoes ==
  ASSUME Typed, Inbox, NEW e \in Events, Called(e)
  PROVE  /\ adapter.mode = "webhook" /\ message[e] # None
         /\ UNCHANGED <<adapter, message, ahead, batch, listener, now>>
         /\ queue' = queue \/ LetsGo(e)
         /\ \/ UNCHANGED <<seen, pc, began>> /\ (Wanted(e) => confirmed' = confirmed)
            \/ Accepted(e) /\ Remember(e) /\ Handle(e)
         /\ confirmed' = confirmed \/ confirmed' = confirmed \cup {e}
<1>1. adapter.mode = "webhook"
  BY ChannelConstants DEF Called, TelegramCalled, FeishuCalled, WeComCalled, Hooked, Typed, InboxTyped
<1>2. message[e] # None
  BY DEF Called, ToSet, Inbox, SentOnce
<1>3. TelegramCalled(e) \/ RemembersWanted(e) \/ Forbidden(e)
  BY DEF Called, FeishuCalled, WeComCalled
<1>4. CASE Forbidden(e)
  BY <1>1, <1>2, <1>4 DEF Called, Forbidden
<1>5. CASE Ok(e) /\ ~Wanted(e) /\ UNCHANGED <<seen, pc, began>>
  BY <1>1, <1>2, <1>5 DEF Called, Ok
<1>6. CASE Accepted(e) /\ Remember(e) /\ Ok(e) /\ Handle(e)
  BY <1>1, <1>2, <1>6 DEF Called, Ok
<1>. QED BY <1>3, <1>4, <1>5, <1>6 DEF TelegramCalled, RemembersWanted

\* A call for an event that may be accepted again comes after what began before.
LEMMA CalledOnce ==
  ASSUME Typed, Inbox, adapter.mode = "webhook", NEW e \in Events, Accepted(e), Remember(e), Handle(e),
         UNCHANGED <<adapter, now>>
  PROVE  Begun' /\ HandledOnce' /\ seen' \in [Events -> Nat \cup {None}]
<1>0. RunsTyped /\ InboxTyped /\ Begun /\ None \notin Nat /\ Window \in Nat
  BY ChannelConstants DEF Typed, Inbox
<1>1. seen' = [seen EXCEPT ![e] = now]
  BY DEF Remember
<1>2. /\ seen' \in [Events -> Nat \cup {None}] /\ now \in Nat
      /\ seen'[e] = now /\ \A d \in Events \ {e} : seen'[d] = seen[d]
  BY <1>0, <1>1 DEF InboxTyped
<1>3. ASSUME NEW r \in Runs, r[1] = e, began[r] # None
      PROVE  began[r] \in Nat /\ began[r] + Window < now
  <2>1. began[r] \in Nat /\ seen[e] # None /\ began[r] <= seen[e]
    BY <1>3 DEF Typed, Inbox, Begun
  <2>2. seen[e] \in Nat /\ seen[e] + Window < now
    BY <1>0, <2>1 DEF InboxTyped, Accepted
  <2>. QED BY <1>0, <1>2, <2>1, <2>2
<1>4. /\ \A r \in Runs : r[1] # e => began'[r] = began[r]
      /\ \A r \in Runs : pc'[r] = "new" => began'[r] = None
      /\ \A d \in Events, k \in 2..MaxDeliveries : pc'[<<d, k>>] # "new" => pc'[<<d, k - 1>>] # "new"
      /\ \A r, q \in Runs : /\ r[1] = e /\ began'[r] # None /\ began[r] = None
                            /\ q[1] = e /\ began'[q] # None /\ began[q] = None
                            => r = q
      /\ \A r \in Runs : began'[r] # began[r] =>
                           began'[r] = now /\ pc[r] = "new" /\ began[r] = None
  BY <1>0, HandleRuns
<1>5. ASSUME NEW r \in Runs, began'[r] # None
      PROVE  seen'[r[1]] # None /\ began'[r] <= seen'[r[1]]
  <2>1. r[1] \in Events
    BY RunsArePairs
  <2>2. CASE r[1] # e
    <3>1. began'[r] = began[r] /\ seen'[r[1]] = seen[r[1]]
      BY <1>2, <1>4, <2>1, <2>2
    <3>. QED BY <1>0, <1>5, <3>1 DEF Begun
  <2>3. CASE r[1] = e /\ began'[r] = began[r]
    <3>1. began[r] \in Nat /\ began[r] + Window < now
      BY <1>3, <1>5, <2>3
    <3>. QED BY <1>0, <1>2, <2>3, <3>1
  <2>4. CASE r[1] = e /\ began'[r] # began[r]
    BY <1>0, <1>2, <1>4, <2>4
  <2>. QED BY <2>2, <2>3, <2>4
<1>6. Begun'
  BY <1>4, <1>5 DEF Begun
<1>7. HandledOnce'
  <2>. SUFFICES ASSUME NEW d \in Events, NEW k \in 2..MaxDeliveries,
                       began'[<<d, k>>] # None, began'[<<d, k - 1>>] # None
                PROVE  began'[<<d, k>>] > began'[<<d, k - 1>>] + Window
    BY DEF HandledOnce
  <2>1. k \in Deliveries /\ k - 1 \in Deliveries /\ <<d, k>> \in Runs /\ <<d, k - 1>> \in Runs
    BY ChannelConstants DEF Runs, Deliveries
  <2>2. CASE began'[<<d, k>>] = began[<<d, k>>] /\ began'[<<d, k - 1>>] = began[<<d, k - 1>>]
    BY <2>2 DEF Inbox, HandledOnce
  <2>3. CASE began'[<<d, k - 1>>] # began[<<d, k - 1>>]
    <3>1. d = e /\ pc[<<d, k - 1>>] = "new" /\ began[<<d, k - 1>>] = None
      BY <1>4, <2>1, <2>3
    <3>2. pc[<<d, k>>] = "new" /\ began[<<d, k>>] = None
      BY <1>0, <2>1, <3>1 DEF Begun
    <3>3. <<d, k>> = <<d, k - 1>>
      BY <1>4, <2>1, <3>1, <3>2
    <3>. QED BY <3>3
  <2>4. CASE began'[<<d, k>>] # began[<<d, k>>] /\ began'[<<d, k - 1>>] = began[<<d, k - 1>>]
    <3>1. d = e /\ began'[<<d, k>>] = now
      BY <1>4, <2>1, <2>4
    <3>2. began[<<d, k - 1>>] \in Nat /\ began[<<d, k - 1>>] + Window < now
      BY <1>3, <2>1, <2>4, <3>1
    <3>. QED BY <1>2, <2>4, <3>1, <3>2
  <2>. QED BY <2>2, <2>3, <2>4
<1>. QED BY <1>2, <1>6, <1>7

\* A platform calls a webhook.
LEMMA CalledInbox ==
  ASSUME Typed, Inbox, NEW e \in Events, Called(e)
  PROVE  InboxTyped' /\ Inbox' /\ began' \in [Runs -> Nat \cup {None}]
<1>0. RunsTyped /\ InboxTyped /\ Begun /\ batch = <<>> /\ ahead = 0
  BY CalledDoes DEF Typed, Inbox, Modes
<1>1. /\ adapter.mode = "webhook" /\ message[e] # None
      /\ UNCHANGED <<adapter, message, ahead, batch, listener, now>>
      /\ queue' = queue \/ LetsGo(e)
  BY CalledDoes
<1>2. /\ queue' \in Seq(Events) /\ Distinct(queue')
      /\ \A j \in DOMAIN queue' : \E i \in DOMAIN queue : queue'[j] = queue[i]
  BY <1>1, LetGoQueue DEF Typed, InboxTyped, Inbox, SentOnce
<1>3. confirmed' = confirmed \/ confirmed' = confirmed \cup {e}
  BY CalledDoes
<1>4. ASSUME \A r \in Runs : pc'[r] # "new" => message'[r[1]] # None,
             seen' \in [Events -> Nat \cup {None}],
             \A d \in confirmed' : d \in Events /\ ConfirmedWell(d)', Begun', HandledOnce'
      PROVE  InboxTyped' /\ Inbox'
  <2>1. InboxTyped'
    <3>1. Len(queue') \in Nat
      BY <1>2
    <3>2. ahead' \in 0..Len(queue')
      BY <1>0, <1>1, <3>1
    <3>. QED BY <1>0, <1>1, <1>2, <1>4, <3>2 DEF InboxTyped
  <2>2. Modes'
    BY <1>1 DEF Inbox, Modes
  <2>3. SentOnce'
    <3>1. \A i \in DOMAIN queue' : message'[queue'[i]] # None
      BY <1>1, <1>2 DEF Inbox, SentOnce
    <3>2. \A d \in confirmed' : d \in Events /\ message'[d] # None
      BY <1>1, <1>3 DEF Inbox, SentOnce
    <3>3. Distinct(batch)' /\ Distinct(queue)'
      BY <1>0, <1>1, <1>2 DEF Distinct
    <3>. QED BY <1>0, <1>1, <1>4, <3>1, <3>2, <3>3 DEF SentOnce
  <2>4. FetchedOnce'
    BY <1>0, <1>1 DEF FetchedOnce
  <2>5. ConfirmedIsHandled'
    BY <1>4 DEF ConfirmedIsHandled, ConfirmedWell, Deliveries
  <2>. QED BY <1>4, <2>1, <2>2, <2>3, <2>4, <2>5 DEF Inbox
<1>5. CASE UNCHANGED <<seen, pc, began>> /\ (Wanted(e) => confirmed' = confirmed)
  <2>1. \A r \in Runs : pc'[r] # "new" => message'[r[1]] # None
    BY <1>1, <1>5 DEF Inbox, SentOnce
  <2>2. \A d \in confirmed' : d \in Events /\ ConfirmedWell(d)
    BY <1>3, <1>5, ConfirmedParts DEF Inbox, SentOnce, ConfirmedWell
  <2>3. \A d \in confirmed' : ConfirmedWell(d)'
    BY <1>0, <1>1, <1>5, <2>2, ConfirmedStays
  <2>4. Begun' /\ HandledOnce'
    BY <1>1, <1>5 DEF Inbox, Begun, HandledOnce
  <2>. QED BY <1>4, <1>5, <2>1, <2>2, <2>3, <2>4 DEF Typed, InboxTyped
<1>6. CASE Accepted(e) /\ Remember(e) /\ Handle(e)
  <2>1. /\ \A r \in Runs : pc'[r] # "new" => message'[r[1]] # None
        /\ Handled(e)'
        /\ \A d \in confirmed : d \in Events /\ ConfirmedWell(d)'
    BY <1>1, <1>6, HandleStays
  <2>2. Begun' /\ HandledOnce' /\ seen' \in [Events -> Nat \cup {None}]
    BY <1>1, <1>6, CalledOnce
  <2>3. ConfirmedWell(e)'
    BY <1>1, <2>1 DEF Handled, ConfirmedWell
  <2>4. \A d \in confirmed' : d \in Events /\ ConfirmedWell(d)'
    <3>. SUFFICES ASSUME NEW d \in confirmed' PROVE d \in Events /\ ConfirmedWell(d)'
      OBVIOUS
    <3>1. CASE d \in confirmed
      BY <2>1, <3>1
    <3>2. CASE d = e
      BY <2>3, <3>2 DEF ConfirmedWell, Wanted, TelegramWants, DiscordWants, DiscordCommand, FeishuWants, WeComWants
    <3>. QED BY <1>3, <3>1, <3>2
  <2>5. began' \in [Runs -> Nat \cup {None}]
    BY <1>0, <1>6, HandleRuns
  <2>. QED BY <1>4, <2>1, <2>2, <2>4, <2>5
<1>. QED BY <1>5, <1>6, CalledDoes

\* A new life of ClawX has fetched and begun nothing.
LEMMA StopInbox ==
  ASSUME Typed, Inbox, Stop
  PROVE  InboxTyped' /\ Inbox' /\ began' \in [Runs -> Nat \cup {None}]
<1>. USE DEF platform
<1>0. RunsTyped /\ InboxTyped
  BY DEF Typed
<1>1. /\ ahead' = 0 /\ batch' = <<>> /\ seen' = [d \in Events |-> None] /\ began' = [r \in Runs |-> None]
      /\ pc' = [r \in Runs |-> IF pc[r] \in Idle THEN pc[r] ELSE "lost"]
      /\ UNCHANGED <<adapter, message, queue, now, confirmed>>
  BY DEF Stop
<1>2. listener' \in {"up", "down", "dialed", "ended"}
  BY <1>0 DEF Stop, Starting, InboxTyped
<1>3. \A r \in Runs : /\ pc[r] = "done" => pc'[r] = "done"
                      /\ pc[r] # "new" <=> pc'[r] # "new"
  BY <1>0, <1>1 DEF Idle
<1>4. InboxTyped'
  <2>1. <<>> \in Seq(Events) /\ Len(queue) \in Nat /\ 0 \in 0..Len(queue)
    BY <1>0 DEF InboxTyped
  <2>2. seen' \in [Events -> Nat \cup {None}]
    BY <1>1
  <2>3. batch' \in Seq(Events) /\ ahead' \in 0..Len(queue')
    BY <1>1, <2>1
  <2>. QED BY <1>0, <1>1, <1>2, <2>2, <2>3 DEF InboxTyped
<1>5. Modes'
  BY <1>1 DEF Inbox, Modes
<1>6. SentOnce'
  <2>1. /\ Distinct(queue)' /\ \A i \in DOMAIN queue' : message'[queue'[i]] # None
        /\ \A d \in confirmed' : d \in Events /\ message'[d] # None
    BY <1>1 DEF Inbox, SentOnce, Distinct
  <2>2. \A r \in Runs : pc'[r] # "new" => message'[r[1]] # None
    BY <1>1, <1>3 DEF Inbox, SentOnce
  <2>3. Distinct(batch)' /\ \A i \in DOMAIN batch' : message'[batch'[i]] # None
    BY <1>1 DEF Distinct
  <2>. QED BY <2>1, <2>2, <2>3 DEF SentOnce
<1>7. FetchedOnce'
  <2>1. \A j \in DOMAIN queue : queue[j] \in Events
    BY <1>0 DEF InboxTyped
  <2>2. ASSUME NEW j \in DOMAIN queue PROVE Untouched(queue[j])'
    <3>1. \A k \in Deliveries : <<queue[j], k>> \in Runs
      BY <2>1, RunsArePairs
    <3>. QED BY <1>1, <3>1 DEF Untouched
  <2>3. \A j \in (ahead' + 1)..Len(queue) : j \in DOMAIN queue
    BY <1>0, <1>1 DEF InboxTyped
  <2>4. (\A j \in (ahead + 1)..Len(queue) : Untouched(queue[j]))'
    BY <1>1, <2>2, <2>3
  <2>5. DOMAIN batch' = {} /\ 1..ahead' = {}
    BY <1>1
  <2>. QED BY <2>4, <2>5 DEF FetchedOnce
<1>8. Begun'
  <2>1. \A d \in Events, k \in 2..MaxDeliveries : <<d, k>> \in Runs /\ <<d, k - 1>> \in Runs
    BY ChannelConstants DEF Runs
  <2>. QED BY <1>1, <1>3, <2>1 DEF Inbox, Begun
<1>9. ConfirmedIsHandled'
  <2>1. \A d \in confirmed : ConfirmedWell(d)'
    BY <1>0, <1>1, <1>3, ConfirmedStays, ConfirmedParts DEF Inbox, SentOnce
  <2>. QED BY <1>1, <2>1 DEF ConfirmedIsHandled, ConfirmedWell, Deliveries
<1>10. HandledOnce'
  <2>1. \A d \in Events, k \in 2..MaxDeliveries : <<d, k>> \in Runs
    BY ChannelConstants DEF Runs
  <2>. QED BY <1>1, <2>1 DEF HandledOnce
<1>. QED BY <1>1, <1>4, <1>5, <1>6, <1>7, <1>8, <1>9, <1>10 DEF Inbox

\* What has been pushed over a connection is gone with it.
LEMMA DisconnectInbox ==
  ASSUME Typed, Inbox, Disconnect
  PROVE  InboxTyped' /\ Inbox'
<1>. USE DEF platform, runs, histories
<1>0. RunsTyped /\ InboxTyped
  BY DEF Typed
<1>1. /\ adapter.mode = "gateway" /\ batch' = <<>> /\ listener' = "down"
      /\ UNCHANGED <<adapter, message, queue, ahead, seen, now, pc, began, confirmed>>
  BY DEF Disconnect
<1>2. InboxTyped'
  <2>1. <<>> \in Seq(Events)
    OBVIOUS
  <2>2. batch' \in Seq(Events)
    BY <1>1, <2>1
  <2>. QED BY <1>0, <1>1, <2>2 DEF InboxTyped
<1>3. Modes' /\ Begun' /\ HandledOnce'
  BY <1>1 DEF Inbox, Modes, Begun, HandledOnce
<1>4. DOMAIN batch' = {}
  BY <1>1
<1>5. SentOnce' /\ FetchedOnce'
  BY <1>1, <1>4 DEF Inbox, SentOnce, Distinct, FetchedOnce
<1>6. ConfirmedIsHandled'
  BY <1>1 DEF Inbox, Modes, ConfirmedIsHandled
<1>. QED BY <1>2, <1>3, <1>5, <1>6 DEF Inbox

\* A step that touches neither the runs nor what is fetched.
LEMMA QuietInbox ==
  ASSUME Typed, Inbox, UNCHANGED <<platform, ahead, batch, seen, runs, histories>>,
         listener' \in {"up", "down", "dialed", "ended"}, now' \in Nat
  PROVE  InboxTyped' /\ Inbox'
<1>1. /\ UNCHANGED <<adapter, message, queue, ahead, batch, seen, confirmed, began, pc>>
      /\ Progress
  BY DEF platform, runs, histories, Progress, Idle
<1>2. InboxTyped'
  BY <1>1 DEF Typed, InboxTyped
<1>. QED BY <1>1, <1>2, InboxStays

-----------------------------------------------------------------------------
ChannelsIInv == Typed /\ Inbox /\ Work

NoticesTyped == notices \subseteq Runs \X BOOLEAN

LEMMA InitIInv == Init => ChannelsIInv
<1>. SUFFICES ASSUME Init PROVE ChannelsIInv
  OBVIOUS
<1>. USE DEF Init
<1>1. RunsTyped
  BY FirstIsSending DEF RunsTyped, PCs, Idle
<1>2. InboxTyped
  <2>1. <<>> \in Seq(Events) /\ Len(<<>>) = 0
    OBVIOUS
  <2>2. queue \in Seq(Events) /\ batch \in Seq(Events) /\ ahead \in 0..Len(queue)
    BY <2>1
  <2>3. listener \in {"up", "down", "dialed", "ended"}
    BY DEF Starting
  <2>4. message \in [Events -> Messages \cup {None}] /\ seen \in [Events -> Nat \cup {None}]
    OBVIOUS
  <2>. QED BY <2>2, <2>3, <2>4 DEF InboxTyped
<1>3. Typed
  BY <1>1, <1>2 DEF Typed
<1>4. \A r \in Runs : ~AtWork(r) /\ pc[r] = "new" /\ sending[r] = FirstAttempt /\ began[r] = None
  BY DEF AtWork, Idle
<1>5. Work
  BY <1>4 DEF Work, WorkOf, HasSession, Ready, Counted, BoundWell, Met, FirstAttempt, Attempt
<1>6. \A e \in Events, k \in 2..MaxDeliveries : <<e, k>> \in Runs
  BY ChannelConstants DEF Runs
<1>7. DOMAIN queue = {} /\ DOMAIN batch = {} /\ Len(queue) = 0
  OBVIOUS
<1>8. Modes /\ SentOnce /\ Begun /\ ConfirmedIsHandled /\ HandledOnce
  BY <1>4, <1>6, <1>7 DEF Modes, SentOnce, Distinct, Begun, ConfirmedIsHandled, HandledOnce
<1>9. FetchedOnce
  <2>1. 1..0 = {} /\ (0 + 1)..0 = {}
    OBVIOUS
  <2>. QED BY <1>7, <2>1 DEF FetchedOnce
<1>. QED BY <1>3, <1>5, <1>8, <1>9 DEF ChannelsIInv, Inbox

\* A step that leaves the handlers alone.
LEMMA WorkStays ==
  ASSUME RunsTyped, Work, UNCHANGED <<runs, arrived, together>>
  PROVE  RunsTyped' /\ Work'
  BY DEF runs, RunsTyped, Work, WorkOf, HasSession, Ready, Counted, BoundWell, Met, AtWork

\* What the listeners do to the handlers: one begins, or none.
LEMMA HandleWorks ==
  ASSUME RunsTyped, Work, NEW e, UNCHANGED <<session, sending, targets, arrived>>,
         UNCHANGED <<pc, together>> \/ Handle(e)
  PROVE  RunsTyped' /\ Work'
<1>1. CASE UNCHANGED <<pc, together>>
  BY <1>1, WorkStays DEF runs
<1>2. ASSUME NEW r \in Runs, NewRun(e, r), Begin(r) PROVE RunsTyped' /\ Work'
  BY <1>2, BeginWorks DEF NewRun
<1>. QED BY <1>1, <1>2 DEF Handle

LEMMA NextIInv == ChannelsIInv /\ [Next]_vars => ChannelsIInv'
<1>. SUFFICES ASSUME ChannelsIInv, [Next]_vars PROVE ChannelsIInv'
  OBVIOUS
<1>0. /\ Typed /\ Inbox /\ Work /\ RunsTyped /\ InboxTyped
      /\ began \in [Runs -> Nat \cup {None}]
  BY DEF ChannelsIInv, Typed
<1>1. ASSUME UNCHANGED <<platform, ahead, batch, seen, runs, histories>>,
             listener' \in {"up", "down", "dialed", "ended"}, now' \in Nat
      PROVE  ChannelsIInv'
  <2>1. InboxTyped' /\ Inbox'
    BY <1>0, <1>1, QuietInbox
  <2>2. RunsTyped' /\ Work'
    BY <1>0, <1>1, WorkStays DEF histories
  <2>. QED BY <1>0, <1>1, <2>1, <2>2 DEF ChannelsIInv, Typed, histories
<1>2. ASSUME NEW e \in Events, Send(e) PROVE ChannelsIInv'
  <2>1. InboxTyped' /\ Inbox'
    BY <1>0, <1>2, SendInbox
  <2>2. UNCHANGED <<runs, arrived, together, began>>
    BY <1>2 DEF Send, histories
  <2>. QED BY <1>0, <2>1, <2>2, WorkStays DEF ChannelsIInv, Typed
<1>3. CASE Poll
  <2>1. InboxTyped' /\ Inbox'
    BY <1>0, <1>3, PollInbox
  <2>2. UNCHANGED <<runs, arrived, together, began>>
    BY <1>3 DEF Poll
  <2>. QED BY <1>0, <2>1, <2>2, WorkStays DEF ChannelsIInv, Typed
<1>4. CASE TakeUpdate \/ Dispatch
  <2>1. TakeNext /\ adapter.mode # "webhook"
    BY <1>4 DEF TakeUpdate, Dispatch
  <2>2. InboxTyped' /\ Inbox' /\ began' \in [Runs -> Nat \cup {None}]
    BY <1>0, <2>1, TakeInbox
  <2>3. PICK e : Handle(e) /\ UNCHANGED <<session, sending, targets, arrived>>
    BY <2>1 DEF TakeNext
  <2>4. RunsTyped' /\ Work'
    BY <1>0, <2>3, HandleWorks
  <2>. QED BY <2>2, <2>4 DEF ChannelsIInv, Typed
<1>5. ASSUME NEW e \in Events, Called(e) PROVE ChannelsIInv'
  <2>1. InboxTyped' /\ Inbox' /\ began' \in [Runs -> Nat \cup {None}]
    BY <1>0, <1>5, CalledInbox
  <2>2. /\ UNCHANGED <<session, sending, targets, arrived>>
        /\ UNCHANGED <<pc, together>> \/ Handle(e)
    BY <1>5 DEF Called, TelegramCalled, FeishuCalled, WeComCalled, RemembersWanted, Forbidden
  <2>3. RunsTyped' /\ Work'
    BY <1>0, <2>2, HandleWorks
  <2>. QED BY <2>1, <2>3 DEF ChannelsIInv, Typed
<1>6. ASSUME NEW r \in Runs, HandlerStep(r) PROVE ChannelsIInv'
  <2>1. RunsTyped' /\ Work' /\ Onward(r)
    BY <1>0, <1>6, HandlerWorks
  <2>2. Progress
    BY <1>0, <2>1, OnwardIsProgress
  <2>3. UNCHANGED <<adapter, message, queue, ahead, batch, listener, seen, now, confirmed, began>>
    BY <1>6 DEF HandlerStep, platform, inbox
  <2>4. Inbox'
    BY <1>0, <2>2, <2>3, InboxStays
  <2>5. InboxTyped'
    BY <1>0, <2>3 DEF InboxTyped
  <2>. QED BY <1>0, <2>1, <2>3, <2>4, <2>5 DEF ChannelsIInv, Typed
<1>7. CASE Disconnect
  <2>1. InboxTyped' /\ Inbox'
    BY <1>0, <1>7, DisconnectInbox
  <2>2. UNCHANGED <<runs, arrived, together, began>>
    BY <1>7 DEF Disconnect, histories
  <2>. QED BY <1>0, <2>1, <2>2, WorkStays DEF ChannelsIInv, Typed
<1>8. CASE Stop
  <2>1. InboxTyped' /\ Inbox' /\ began' \in [Runs -> Nat \cup {None}]
    BY <1>0, <1>8, StopInbox
  <2>2. RunsTyped' /\ Work'
    BY <1>0, <1>8, StopWorks
  <2>. QED BY <2>1, <2>2 DEF ChannelsIInv, Typed
<1>9. CASE PollTimesOut \/ Dial \/ Identify \/ Register
  <2>1. /\ UNCHANGED <<platform, ahead, batch, seen, now, runs, histories>>
        /\ listener' \in {"up", "down", "dialed", "ended"}
    BY <1>9 DEF PollTimesOut, Dial, Identify, Register, FailsInto
  <2>. QED BY <1>0, <1>1, <2>1 DEF InboxTyped
<1>10. CASE Tick
  <2>1. /\ UNCHANGED <<platform, ahead, batch, seen, runs, histories, listener>> /\ now' = now + 1
    BY <1>10 DEF Tick, inbox
  <2>. QED BY <1>0, <1>1, <2>1 DEF InboxTyped
<1>11. CASE UNCHANGED vars
  <2>1. UNCHANGED <<platform, ahead, batch, seen, runs, histories, listener, now>>
    BY <1>11 DEF vars, inbox
  <2>. QED BY <1>0, <1>1, <2>1 DEF InboxTyped
<1>. QED BY <1>2, <1>3, <1>4, <1>5, <1>6, <1>7, <1>8, <1>9, <1>10, <1>11 DEF Next

LEMMA ReachableChannels == Spec => []ChannelsIInv
<1>. QED BY InitIInv, NextIInv, PTL DEF Spec

LEMMA NoticesAreTyped == Spec => []NoticesTyped
<1>1. Init => NoticesTyped
  BY DEF Init, NoticesTyped
<1>2. ASSUME NoticesTyped, [Next]_vars PROVE NoticesTyped'
  <2>1. CASE UNCHANGED notices
    BY <1>2, <2>1 DEF NoticesTyped
  <2>2. ASSUME NEW r \in Runs, Notice(r) PROVE NoticesTyped'
    BY <1>2, <2>2 DEF NoticesTyped, Notice
  <2>. QED BY <1>2, <2>1, <2>2 DEF Next, Send, Poll, PollTimesOut, TakeUpdate, Dispatch, TakeNext, Dial, Identify,
                                   Disconnect, Register, Called, HandlerStep, Tick, Stop, vars, histories
<1>. QED BY <1>1, <1>2, PTL DEF Spec

\* What the handlers and the listeners keep has its type, an execution and a
\* delivery have a session, and no delivery counts more failures than segments.
THEOREM ChannelTypes == Spec => []ChannelsTypeOK
<1>1. ChannelsIInv /\ NoticesTyped => ChannelsTypeOK
  <2>. SUFFICES ASSUME ChannelsIInv, NoticesTyped PROVE ChannelsTypeOK
    OBVIOUS
  <2>1. InboxTyped /\ RunsTyped /\ Work
    BY DEF ChannelsIInv, Typed
  <2>2. \A r \in Runs : sending[r].failed \in Nat /\ sending[r].segment \in Nat
    BY <2>1 DEF RunsTyped, Sending
  <2>3. \A r \in Runs : sending[r].failed < sending[r].segment + 1
    BY <2>1, <2>2 DEF Work, WorkOf, Counted
  <2>. QED BY <2>1, <2>3 DEF InboxTyped, RunsTyped, Work, WorkOf, HasSession, PCs, NoticesTyped, ChannelsTypeOK
<1>. QED BY <1>1, ReachableChannels, NoticesAreTyped, PTL

\* A message that a platform was told not to send again was handled to the end
\* (polling), or a handler has taken it on (a webhook): the offset of getUpdates
\* moves past an update only after its handler has returned.
THEOREM ConfirmedWasHandled == Spec => []ConfirmedIsHandled
<1>1. ChannelsIInv => ConfirmedIsHandled
  BY DEF ChannelsIInv, Inbox
<1>. QED BY <1>1, ReachableChannels, PTL

\* Within one life of ClawX an event is handled once by a poll or a push, and by
\* a webhook not again while acceptWebhookEvent remembers its id.
THEOREM EventsHandledOnce == Spec => []HandledOnce
<1>1. ChannelsIInv => HandledOnce
  BY DEF ChannelsIInv, Inbox
<1>. QED BY <1>1, ReachableChannels, PTL

-----------------------------------------------------------------------------
(* Steps of a delivery.                                                    *)

\* The end of a delivery after its last segment, with no failure counted.
LEMMA LastSegment ==
  ASSUME RunsTyped, Work, NEW r \in Runs, pc[r] = "delivering", NEW failed, SegmentDone(r, failed),
         Advance(r, failed), arrived \subseteq arrived', pc'[r] \in {"filing", "done"}
  PROVE  \A n \in 1..Segments : \E q \in Runs : <<r, n, q>> \in arrived'
<1>1. ~(sending[r].segment < Segments) /\ ~(failed > 0)
  <2>1. CASE sending[r].segment < Segments
    BY <2>1 DEF Advance
  <2>2. CASE ~(sending[r].segment < Segments) /\ failed > 0
    <3>1. pc'[r] = "noticing"
      BY <2>2 DEF Advance, Goto, RunsTyped
    <3>. QED BY <3>1
  <2>. QED BY <2>1, <2>2
<1>2. failed = 0 /\ sending[r].failed = 0 /\ sending[r].segment = Segments /\ Segments \in Nat
  <2>1. sending[r] \in Sending /\ failed \in Nat
    BY DEF RunsTyped, SegmentDone
  <2>2. sending[r].segment \in 1..Segments /\ sending[r].failed \in Nat /\ Segments \in Nat
    BY <2>1, ChannelConstants DEF Sending
  <2>. QED BY <1>1, <2>1, <2>2 DEF SegmentDone
<1>3. \A n \in 1..(Segments - 1) : \E q \in Runs : <<r, n, q>> \in arrived'
  BY <1>2 DEF Work, WorkOf, Counted
<1>4. \E q \in Runs : <<r, Segments, q>> \in arrived'
  BY <1>2 DEF SegmentDone
<1>5. \A n \in 1..Segments : n \in 1..(Segments - 1) \/ n = Segments
  BY <1>2
<1>. QED BY <1>3, <1>4, <1>5

\* The end of a delivery, or of its notice.
LEMMA EndOfOutput ==
  ASSUME ChannelsIInv, [Next]_vars, NEW r \in Runs,
         pc[r] \in {"delivering", "noticing"}, pc'[r] \in {"filing", "done"}
  PROVE  Whole(r)' \/ Noticed(r)'
<1>0. RunsTyped /\ Work /\ Typed /\ Begun /\ InboxTyped
  BY DEF ChannelsIInv, Typed, Inbox
<1>1. ASSUME NEW e, Handle(e) PROVE FALSE
  <2>1. \/ UNCHANGED pc
        \/ \E q \in Runs : pc[q] = "new" /\ pc' = [pc EXCEPT ![q] = "routing"]
    BY <1>1 DEF Handle, NewRun, Begin, Goto
  <2>. QED BY <1>0, <2>1 DEF RunsTyped
<1>2. \E q \in Runs : HandlerStep(q)
  <2>1. pc' # pc
    OBVIOUS
  <2>2. ~Stop
    BY DEF Stop, Idle
  <2>3. \A e : ~Handle(e)
    BY <1>1
  <2>4. ~TakeUpdate /\ ~Dispatch
    BY <2>3 DEF TakeUpdate, Dispatch, TakeNext
  <2>5. \A e \in Events : ~Called(e)
    BY <2>1, <2>3 DEF Called, TelegramCalled, FeishuCalled, WeComCalled, RemembersWanted, Forbidden
  <2>6. ~(\E e \in Events : Send(e)) /\ ~Poll /\ ~PollTimesOut /\ ~Tick
    BY <2>1 DEF Send, Poll, PollTimesOut, Tick, runs
  <2>7. ~Dial /\ ~Identify /\ ~Disconnect /\ ~Register
    BY <2>1 DEF Dial, Identify, Disconnect, Register, runs
  <2>. QED BY <2>1, <2>2, <2>4, <2>5, <2>6, <2>7 DEF Next, vars, runs
<1>3. HandlerStep(r)
  <2>1. PICK q \in Runs : HandlerStep(q)
    BY <1>2
  <2>2. Onward(q)
    BY <1>0, <2>1, HandlerWorks
  <2>. QED BY <2>1, <2>2 DEF Onward
<1>4. Deliver(r) \/ Notice(r)
  BY <1>3 DEF HandlerStep, TelegramInbound, FeishuInbound, WeComInbound, DiscordInbound, Inbound,
              Answer, Control, Execute, Executed, Failed, Files
<1>5. sending[r] \in Sending /\ Counted(r)
  BY <1>0 DEF RunsTyped, Work, WorkOf
<1>6. CASE pc[r] = "delivering" /\ Sent(r)
  <2>1. Segment(r) \in arrived' /\ targets[session[r]] \in Runs /\ arrived \subseteq arrived'
    BY <1>0, <1>6, TargetIsRun DEF Sent
  <2>2. SegmentDone(r, sending[r].failed)
    BY <1>5, <2>1 DEF SegmentDone, Segment, Counted, Sending
  <2>3. Advance(r, sending[r].failed)
    BY <1>6 DEF Sent
  <2>4. \A n \in 1..Segments : \E q \in Runs : <<r, n, q>> \in arrived'
    BY <1>0, <1>6, <2>1, <2>2, <2>3, LastSegment
  <2>. QED BY <2>4 DEF Whole
<1>7. ASSUME NEW error, NEW reached, NotSent(r, error, reached) PROVE FALSE
  <2>1. pc' = pc \/ Advance(r, sending[r].failed + 1)
    BY <1>7 DEF NotSent
  <2>2. sending[r].failed + 1 > 0
    BY <1>5 DEF Sending
  <2>3. pc' = pc \/ Goto(r, "noticing")
    BY <2>1, <2>2 DEF Advance
  <2>. QED BY <1>0, <2>3 DEF Goto, RunsTyped
<1>8. CASE Notice(r)
  BY <1>8 DEF Notice, Noticed
<1>. QED BY <1>4, <1>6, <1>7, <1>8 DEF Deliver

\* Deliver sends a notice whenever a segment has failed: an output that ends has
\* arrived as a whole, or the notice was sent, which may itself be lost.
THEOREM PartialDeliveryIsNoticed == Spec => PartialIsNoticed
<1>1. ChannelsIInv /\ [Next]_vars =>
        [\A r \in Runs : pc[r] \in {"delivering", "noticing"} /\ pc'[r] \in {"filing", "done"} =>
           Whole(r)' \/ Noticed(r)']_vars
  BY EndOfOutput
<1>. QED BY <1>1, ReachableChannels, PTL DEF Spec, PartialIsNoticed

LEMMA HomeStep ==
  ASSUME ChannelsIInv, [Next]_vars, NEW x \in arrived' \ arrived
  PROVE  x[3] # x[1] => <<x[1], x[3]>> \in together
<1>0. RunsTyped /\ Work
  BY DEF ChannelsIInv, Typed
<1>1. PICK r \in Runs : HandlerStep(r)
  <2>1. arrived' # arrived
    OBVIOUS
  <2>2. ~Stop /\ ~TakeUpdate /\ ~Dispatch /\ \A e \in Events : ~Called(e) /\ ~Send(e)
    BY <2>1 DEF Stop, TakeUpdate, Dispatch, TakeNext, Called, Send, histories
  <2>3. ~Poll /\ ~PollTimesOut /\ ~Tick
    BY <2>1 DEF Poll, PollTimesOut, Tick, histories
  <2>4. ~Dial /\ ~Identify /\ ~Disconnect /\ ~Register
    BY <2>1 DEF Dial, Identify, Disconnect, Register, histories
  <2>. QED BY <2>1, <2>2, <2>3, <2>4 DEF Next, vars, histories
<1>2. Deliver(r)
  BY <1>1 DEF HandlerStep
<1>3. pc[r] = "delivering" /\ x = Segment(r)
  BY <1>2 DEF Deliver, Sent, NotSent
<1>4. targets[session[r]] = r \/ <<r, targets[session[r]]>> \in together
  BY <1>0, <1>3 DEF Work, WorkOf, BoundWell
<1>. QED BY <1>3, <1>4 DEF Segment

\* A segment goes to the chat whose message bound the session last, which is that
\* of the run itself or of one that was at work at the same time.
THEOREM OutputGoesHome == Spec => AnswersGoHome
<1>1. ChannelsIInv /\ [Next]_vars =>
        [\A x \in arrived' \ arrived : x[3] # x[1] => <<x[1], x[3]>> \in together]_vars
  BY HomeStep
<1>. QED BY <1>1, ReachableChannels, PTL DEF Spec, AnswersGoHome
=============================================================================
