------------------------ MODULE ManagedServiceProofs ------------------------
(***************************************************************************)
(* Theorems about ManagedService, for every set of commands and any number *)
(* of failing writes and restarts: its types, that a refused start leaves  *)
(* no process, and that a service has one process, which is reported.      *)
(***************************************************************************)
EXTENDS ManagedService, FiniteSetTheorems, TLAPS

\* A start that has not begun, or failed to begin, has no process; one that was
\* refused has none that lives; and only an answered start is waited for.
Stages ==
    \A s \in Starters :
        /\ pc[s] \in {"new", "spawn"} => proc[s] = "none"
        /\ pc[s] = "refused" => ~Alive(s)
        /\ waiter[s] # "none" => pc[s] = "done"

\* One start at a time, while the map is empty; a living process that is
\* waited for is the one in the map; and so is one whose waiter has not
\* deleted it yet.
Lone ==
    /\ \A s, t \in Starters : Starting(s) /\ Starting(t) => s = t
    /\ \A s \in Starters :
        /\ Starting(s) => running = None
        /\ Alive(s) /\ ~Starting(s) => running = s
        /\ waiter[s] = "wait" => running = s

ServiceInv == ServiceTypeOK /\ Stages /\ (~loose => Lone)

\* What is written to the record file is a record.
LEMMA RecordTypes ==
  /\ NoRecord \in Record
  /\ \A st \in {"running", "stopped", "failed"}, h \in Handles : [status |-> st, process |-> h] \in Record
  /\ \A r \in Record : [r EXCEPT !.status = "stopped"] \in Record
  BY DEF Record, NoRecord, Handles

\* The initial record is of an earlier process, or not there.
LEMMA InitServiceInv == Init => ServiceInv
<1>. SUFFICES ASSUME Init PROVE ServiceInv
  OBVIOUS
<1>1. ServiceTypeOK
  <2>1. rec \in Record
    BY DEF Init, Record, NoRecord, Handles
  <2>2. copy \in [Stoppers -> Record]
    BY RecordTypes DEF Init
  <2>3. faults \in 0..MaxFaults /\ restarts \in 0..MaxRestarts
    BY ServiceConstants DEF Init
  <2>4. running \in Handles /\ handle \in [Stoppers -> Handles] /\ loose \in BOOLEAN
    BY DEF Init, Handles
  <2>5. /\ proc \in [Starters -> {"none", "alive", "exited", "failed"}]
        /\ pc \in [Commands -> {"new", "spawn", "write", "register", "signal", "kill",
                                "read", "done", "refused", "lost"}]
        /\ waiter \in [Starters -> {"none", "wait", "write", "done"}]
    BY DEF Init
  <2>. QED BY <2>1, <2>2, <2>3, <2>4, <2>5 DEF ServiceTypeOK
<1>2. Stages /\ Lone
  BY DEF Init, Stages, Lone, Starting, Alive, Commands
<1>. QED BY <1>1, <1>2 DEF ServiceInv

\* Steps of a start.
LEMMA StartTypes ==
  ASSUME ServiceTypeOK, NEW s \in Starters, StartCheck(s) \/ StartStep(s)
  PROVE  ServiceTypeOK'
<1>1. CASE StartCheck(s)
  BY <1>1 DEF StartCheck, ServiceTypeOK, Goto, Commands, commandVars, boundVars
<1>2. CASE Spawn(s)
  BY <1>2 DEF Spawn, ServiceTypeOK, Goto, Commands, boundVars
<1>3. CASE WriteStarted(s)
  BY <1>3, ServiceConstants, RecordTypes DEF WriteStarted, Write, WriteFails, Kill, ServiceTypeOK, Goto, Commands, Handles
<1>4. CASE Register(s)
  BY <1>4 DEF Register, ServiceTypeOK, Goto, Commands, Handles, boundVars
<1>. QED BY <1>1, <1>2, <1>3, <1>4 DEF StartStep

LEMMA WaiterTypes ==
  ASSUME ServiceTypeOK, NEW s \in Starters, ProcessEnds(s) \/ WaiterStep(s)
  PROVE  ServiceTypeOK'
<1>1. CASE ProcessEnds(s)
  BY <1>1 DEF ProcessEnds, ServiceTypeOK, commandVars, boundVars
<1>2. CASE Unregister(s)
  BY <1>2 DEF Unregister, ServiceTypeOK, Handles, commandVars, boundVars
<1>3. CASE WriteEnded(s)
  BY <1>3, ServiceConstants, RecordTypes DEF WriteEnded, Write, WriteFails, ServiceTypeOK, Handles, commandVars
<1>. QED BY <1>1, <1>2, <1>3 DEF WaiterStep

LEMMA StopTypes ==
  ASSUME ServiceTypeOK, NEW k \in Stoppers, StopLook(k) \/ StopStep(k)
  PROVE  ServiceTypeOK'
<1>1. CASE StopLook(k)
  BY <1>1 DEF StopLook, ServiceTypeOK, Goto, Commands, boundVars
<1>2. CASE Signal(k)
  BY <1>2 DEF Signal, ServiceTypeOK, Goto, Commands, boundVars
<1>3. CASE StopKill(k)
  BY <1>3 DEF StopKill, Kill, ServiceTypeOK, Goto, Commands, boundVars
<1>4. CASE StopRead(k)
  BY <1>4 DEF StopRead, ServiceTypeOK, Goto, Commands, boundVars
<1>5. CASE StopWrite(k)
  <2>1. [copy[k] EXCEPT !.status = "stopped"] \in Record
    BY RecordTypes DEF ServiceTypeOK
  <2>. QED BY <1>5, <2>1, ServiceConstants, RecordTypes DEF StopWrite, Write, WriteFails, ServiceTypeOK, Goto, Commands
<1>. QED BY <1>1, <1>2, <1>3, <1>4, <1>5 DEF StopStep

LEMMA RestartTypes ==
  ASSUME ServiceTypeOK, Restart
  PROVE  ServiceTypeOK'
  BY RecordTypes, ServiceConstants DEF Restart, ServiceTypeOK, Commands, Handles

\* The stages of starts.
LEMMA StagesKept ==
  ASSUME ServiceTypeOK, Stages, Next
  PROVE  Stages'
<1>1. ASSUME NEW s \in Starters, StartCheck(s) PROVE Stages'
  BY <1>1 DEF StartCheck, ServiceTypeOK, Stages, Goto, Alive, Commands
<1>2. ASSUME NEW s \in Starters, Spawn(s) PROVE Stages'
  BY <1>2 DEF Spawn, ServiceTypeOK, Stages, Goto, Alive, Commands
<1>3. ASSUME NEW s \in Starters, WriteStarted(s) PROVE Stages'
  BY <1>3 DEF WriteStarted, Kill, ServiceTypeOK, Stages, Goto, Alive, Commands
<1>4. ASSUME NEW s \in Starters, Register(s) PROVE Stages'
  BY <1>4 DEF Register, ServiceTypeOK, Stages, Goto, Alive, Commands
<1>5. ASSUME NEW s \in Starters, ProcessEnds(s) PROVE Stages'
  BY <1>5 DEF ProcessEnds, ServiceTypeOK, Stages, Alive, commandVars
<1>6. ASSUME NEW s \in Starters, WaiterStep(s) PROVE Stages'
  BY <1>6 DEF WaiterStep, Unregister, WriteEnded, ServiceTypeOK, Stages, Alive, commandVars
<1>7. ASSUME NEW k \in Stoppers, StopLook(k) \/ StopRead(k) \/ StopWrite(k) PROVE Stages'
  BY <1>7, ServiceConstants DEF StopLook, StopRead, StopWrite, ServiceTypeOK, Stages, Goto, Alive, Commands
<1>8. ASSUME NEW k \in Stoppers, Signal(k) \/ StopKill(k) PROVE Stages'
  BY <1>8, ServiceConstants DEF Signal, StopKill, Kill, ServiceTypeOK, Stages, Goto, Alive, Commands
<1>9. CASE Restart
  BY <1>9 DEF Restart, ServiceTypeOK, Stages, Alive, Commands
<1>. QED BY <1>1, <1>2, <1>3, <1>4, <1>5, <1>6, <1>7, <1>8, <1>9 DEF Next, StartStep, StopStep

\* Starts that do not overlap: the check at the start finds the map empty, so
\* that nothing lives and nobody waits.
LEMMA LoneKept ==
  ASSUME ServiceTypeOK, Stages, ~loose => Lone, Next, ~loose'
  PROVE  Lone'
<1>0. ~loose
  BY DEF Next, StartCheck, StartStep, Spawn, WriteStarted, Register, ProcessEnds, WaiterStep, Unregister,
         WriteEnded, StopLook, StopStep, Signal, StopKill, StopRead, StopWrite, Restart, ServiceTypeOK
<1>l. Lone
  BY <1>0
<1>. USE DEF ServiceTypeOK, Stages, Lone, Goto, Alive, Starting, Commands
<1>1. ASSUME NEW s \in Starters, StartCheck(s) PROVE Lone'
  <2>1. CASE running # None
    BY <1>1, <1>l, <2>1 DEF StartCheck
  <2>2. CASE running = None
    <3>1. \A t \in Starters : ~Starting(t) /\ ~Alive(t) /\ waiter[t] # "wait"
      BY <1>1, <1>l, <2>2, ServiceConstants DEF StartCheck
    <3>2. running' = None /\ proc' = proc /\ waiter' = waiter
      BY <1>1, <2>2 DEF StartCheck
    <3>3. \A t \in Starters : pc'[t] = IF t = s THEN "spawn" ELSE pc[t]
      BY <1>1, <2>2 DEF StartCheck
    <3>. QED BY <3>1, <3>2, <3>3
  <2>. QED BY <2>1, <2>2
<1>2. ASSUME NEW s \in Starters, Spawn(s) PROVE Lone'
  BY <1>2, <1>l DEF Spawn
<1>3. ASSUME NEW s \in Starters, WriteStarted(s) PROVE Lone'
  BY <1>3, <1>l DEF WriteStarted, Kill
<1>4. ASSUME NEW s \in Starters, Register(s) PROVE Lone'
  BY <1>4, <1>l, ServiceConstants DEF Register
<1>5. ASSUME NEW s \in Starters, ProcessEnds(s) PROVE Lone'
  BY <1>5, <1>l DEF ProcessEnds, commandVars
<1>6. ASSUME NEW s \in Starters, Unregister(s) PROVE Lone'
  BY <1>6, <1>l, ServiceConstants DEF Unregister, Ended, commandVars
<1>7. ASSUME NEW s \in Starters, WriteEnded(s) PROVE Lone'
  BY <1>7, <1>l DEF WriteEnded, commandVars
<1>8. ASSUME NEW k \in Stoppers, StopLook(k) \/ StopRead(k) \/ StopWrite(k) PROVE Lone'
  BY <1>8, <1>l, ServiceConstants DEF StopLook, StopRead, StopWrite
<1>9. ASSUME NEW k \in Stoppers, Signal(k) \/ StopKill(k) PROVE Lone'
  BY <1>9, <1>l, ServiceConstants DEF Signal, StopKill, Kill
<1>10. CASE Restart
  BY <1>10, <1>l DEF Restart
<1>. QED BY <1>1, <1>2, <1>3, <1>4, <1>5, <1>6, <1>7, <1>8, <1>9, <1>10 DEF Next, StartStep, StopStep, WaiterStep

LEMMA ServiceInvKept == ServiceInv /\ [Next]_vars => ServiceInv'
<1>. SUFFICES ASSUME ServiceInv, [Next]_vars PROVE ServiceInv'
  OBVIOUS
<1>1. CASE Next
  <2>1. ServiceTypeOK'
    BY <1>1, StartTypes, WaiterTypes, StopTypes, RestartTypes DEF Next, ServiceInv
  <2>2. Stages'
    BY <1>1, StagesKept DEF ServiceInv
  <2>3. ~loose' => Lone'
    BY <1>1, LoneKept DEF ServiceInv
  <2>. QED BY <2>1, <2>2, <2>3 DEF ServiceInv
<1>2. CASE UNCHANGED vars
  BY <1>2 DEF vars, commandVars, boundVars, ServiceInv, ServiceTypeOK, Stages, Lone, Starting, Alive
<1>. QED BY <1>1, <1>2

\* A set of at most one process has at most one element.
LEMMA LoneIsOne == ServiceInv => OneProcess
<1>. SUFFICES ASSUME ServiceInv, ~loose
              PROVE  Cardinality({s \in Starters : Alive(s)}) <= 1
  BY DEF OneProcess
<1>. DEFINE Living == {s \in Starters : Alive(s)}
<1>1. \A s, t \in Living : s = t
  BY ServiceConstants DEF ServiceInv, Lone
<1>2. CASE Living = {}
  BY <1>2, FS_EmptySet
<1>3. CASE Living # {}
  <2>1. PICK s \in Living : TRUE
    BY <1>3
  <2>2. Living = {s}
    BY <1>1, <2>1
  <2>. QED BY <2>2, FS_Singleton
<1>. QED BY <1>2, <1>3

LEMMA ServiceInvHolds == Spec => []ServiceInv
<1>. QED BY InitServiceInv, ServiceInvKept, PTL DEF Spec

\* The types of the service's state.
THEOREM ServiceTypes == Spec => []ServiceTypeOK
<1>1. ServiceInv => ServiceTypeOK
  BY DEF ServiceInv
<1>. QED BY <1>1, ServiceInvHolds, PTL

\* One process at a time, unless starts overlapped or a process outlived ClawX.
THEOREM ServiceHasOneProcess == Spec => []OneProcess
<1>. QED BY LoneIsOne, ServiceInvHolds, PTL

\* A process whose start was answered is in the map, and reported, till it ends.
THEOREM LivingIsReported == Spec => []LiveIsReported
<1>1. ServiceInv => LiveIsReported
  BY ServiceConstants DEF ServiceInv, Lone, LiveIsReported, Reported, Starting
<1>. QED BY <1>1, ServiceInvHolds, PTL

\* A refused start leaves no process, whatever failed and whenever ClawX stopped.
THEOREM RefusedHasNone == Spec => []RefusedLeavesNone
<1>1. ServiceInv => RefusedLeavesNone
  BY DEF ServiceInv, Stages, RefusedLeavesNone
<1>. QED BY <1>1, ServiceInvHolds, PTL
-----------------------------------------------------------------------------
(* The record on disk.                                                     *)

\* Somebody is still to answer for the process in a record that says running:
\* its start, which has yet to put it into the map, or its waiter.
Answered ==
    faults = 0 /\ restarts = 0 /\ rec.status = "running" /\ rec.process # None
        => pc[rec.process] = "register" \/ waiter[rec.process] \in {"wait", "write"}

\* Starts: the one that writes the record goes on to register.
LEMMA AnsweredStarts ==
  ASSUME ServiceTypeOK, Answered, NEW s \in Starters, StartCheck(s) \/ StartStep(s)
  PROVE  Answered'
<1>. USE DEF ServiceTypeOK, Answered, Goto, Commands
<1>1. CASE StartCheck(s) \/ Spawn(s)
  <2>1. UNCHANGED <<rec, waiter, boundVars>>
    BY <1>1 DEF StartCheck, Spawn
  <2>2. \A t \in Starters : pc[t] = "register" => pc'[t] = "register"
    BY <1>1 DEF StartCheck, Spawn
  <2>3. rec.process # None => rec.process \in Starters
    BY DEF Record, Handles
  <2>. QED BY <2>1, <2>2, <2>3 DEF boundVars
<1>3. CASE WriteStarted(s)
  <2>1. CASE Write([status |-> "running", process |-> s]) /\ Goto(s, "register")
    <3>1. rec'.process = s /\ pc'[s] = "register"
      BY <2>1 DEF Write
    <3>. QED BY <3>1
  <2>2. CASE WriteFails
    BY <2>2, ServiceConstants, <1>3 DEF WriteFails
  <2>. QED BY <1>3, <2>1, <2>2 DEF WriteStarted
<1>4. CASE Register(s)
  <2>1. /\ rec' = rec /\ faults' = faults /\ restarts' = restarts
        /\ waiter'[s] = "wait"
        /\ \A t \in Starters \ {s} : waiter'[t] = waiter[t] /\ pc'[t] = pc[t]
    BY <1>4 DEF Register, boundVars
  <2>2. rec.process # None => rec.process \in Starters
    BY DEF Record, Handles
  <2>. QED BY <2>1, <2>2
<1>. QED BY <1>1, <1>3, <1>4 DEF StartStep

\* Processes and waiters: a waiter leaves when it has written the end.
LEMMA AnsweredWaiters ==
  ASSUME ServiceTypeOK, Answered, NEW s \in Starters, ProcessEnds(s) \/ WaiterStep(s)
  PROVE  Answered'
<1>. USE DEF ServiceTypeOK, Answered
<1>1. CASE ProcessEnds(s)
  BY <1>1 DEF ProcessEnds, commandVars, boundVars
<1>2. CASE Unregister(s)
  BY <1>2 DEF Unregister, commandVars, boundVars
<1>3. CASE WriteEnded(s)
  <2>1. rec'.status # "running" \/ WriteFails
    BY <1>3 DEF WriteEnded, Write
  <2>2. WriteFails => faults' # 0
    BY ServiceConstants DEF WriteFails
  <2>. QED BY <2>1, <2>2
<1>. QED BY <1>1, <1>2, <1>3 DEF WaiterStep

\* A stop writes records that say stopped.
LEMMA AnsweredStops ==
  ASSUME ServiceTypeOK, Answered, NEW k \in Stoppers, StopLook(k) \/ StopStep(k)
  PROVE  Answered'
<1>. USE DEF ServiceTypeOK, Answered
<1>1. /\ waiter' = waiter
      /\ \A s \in Starters : pc'[s] = pc[s]
  BY ServiceConstants
     DEF StopLook, StopStep, Signal, StopKill, StopRead, StopWrite, Goto, Commands
<1>2. rec.process # None => rec.process \in Starters
  BY DEF Record, Handles
<1>3. CASE StopLook(k) \/ Signal(k) \/ StopKill(k) \/ StopRead(k)
  BY <1>1, <1>2, <1>3 DEF StopLook, Signal, StopKill, StopRead, boundVars
<1>4. CASE StopWrite(k)
  <2>1. rec'.status = "stopped" \/ WriteFails
    BY <1>4 DEF StopWrite, Write, Record
  <2>2. WriteFails => faults' # 0
    BY ServiceConstants DEF WriteFails
  <2>. QED BY <2>1, <2>2
<1>. QED BY <1>3, <1>4 DEF StopStep

LEMMA AnsweredKept == ServiceInv /\ Answered /\ [Next]_vars => Answered'
<1>. SUFFICES ASSUME ServiceInv, Answered, [Next]_vars PROVE Answered'
  OBVIOUS
<1>1. CASE Restart
  BY <1>1 DEF Restart, Answered, ServiceInv, ServiceTypeOK
<1>2. CASE UNCHANGED vars
  BY <1>2 DEF vars, commandVars, boundVars, Answered
<1>. QED BY <1>1, <1>2, AnsweredStarts, AnsweredWaiters, AnsweredStops DEF Next, ServiceInv

\* A record that says running tells the truth between operations: its process
\* lives, or its start or its waiter is about to change the record, as long as
\* no write failed and ClawX was not restarted.
THEOREM RecordsAreTrue == Spec => []RecordIsTrue
<1>1. Init => Answered
  BY DEF Init, Answered, NoRecord
<1>2. Answered => RecordIsTrue
  BY DEF Answered, RecordIsTrue
<1>. QED BY <1>1, <1>2, AnsweredKept, ServiceInvHolds, PTL DEF Spec

=============================================================================
