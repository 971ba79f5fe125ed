--------------------------- MODULE SchedulerProofs ---------------------------
(***************************************************************************)
(* Theorems about Scheduler, for every set of commands and every schedule, *)
(* horizon and bound: its types, that a job runs once at a time, and that  *)
(* the loop starts it once for a slot.                                     *)
(***************************************************************************)
EXTENDS Scheduler, TLAPS

\* A step of an actor that holds a job: the steps from Resolve to Unclaim.
AtJob(a) == pc[a] \in {"save", "claim", "execute", "saveRun", "unclaim"}

\* The types in two parts: the store's, and what the actors hold of it.
Base ==
    /\ jobs \in [Ids -> Job]
    /\ issued \in 0..MaxJobs
    /\ running \subseteq Ids
    /\ clock \in 0..MaxTime
    /\ kind \in [Commands -> Kinds]
    /\ todo \subseteq (Ids \X Job)
    /\ fired \subseteq (Ids \X Slots)
    /\ faults \in 0..MaxFaults
    /\ restarts \in 0..MaxRestarts

Held ==
    /\ pc \in [Actors -> PCs]
    /\ job \in [Actors -> Ids \cup {NoJob}]
    /\ \A a \in Actors : AtJob(a) => job[a] \in Ids
    /\ copy \in [Actors -> Job]

\* A step keeps the types if it keeps both parts.
LEMMA TypeParts == Base' /\ Held' => SchedulerTypeOK'
  BY DEF SchedulerTypeOK, Base, Held, AtJob

\* There is a job of status "none" for CHOOSE to find.
LEMMA AbsentIsJob == Absent \in Job
<1>1. PICK n \in Names, s \in Slots : TRUE
  BY SchedulerConstants
<1>2. [name |-> n, status |-> "none", next |-> s] \in {rec \in Job : rec.status = "none"}
  BY <1>1 DEF Job, Statuses
<1>. QED BY <1>2 DEF Absent

\* nextRunFromExpr answers slots of the expression, if anything.
LEMMA NextRunIsSlot == \A t : NextRun(t) \subseteq Slots
  BY DEF NextRun, Earliest, Following

\* What a command makes of a job is a job.
LEMMA ChangedIsJob ==
  ASSUME NEW rec \in Job, NEW k \in Kinds \ {"add"}
  PROVE  Changed(rec, k) \subseteq Job
<1>1. CASE k = "pause"
  BY <1>1 DEF Changed, Job, Statuses
<1>2. CASE k = "resume"
  <2>1. Changed(rec, k) = {[rec EXCEPT !.status = "active", !.next = s] : s \in NextRun(clock)}
    BY <1>2 DEF Changed
  <2>2. \A s \in Slots : [rec EXCEPT !.status = "active", !.next = s] \in Job
    BY DEF Job, Statuses
  <2>. QED BY <2>1, <2>2, NextRunIsSlot
<1>3. CASE k = "remove"
  BY <1>3 DEF Changed, Job, Statuses
<1>4. CASE k = "run"
  BY <1>4 DEF Changed
<1>5. k \in {"pause", "resume", "remove", "run"}
  BY DEF Kinds
<1>. QED BY <1>1, <1>2, <1>3, <1>4, <1>5

\* An actor that takes a job in hand, or goes on with nothing, has the types.
LEMMA TakeTypes ==
  ASSUME SchedulerTypeOK, NEW a \in Actors, NEW j \in Ids \cup {NoJob}, NEW rec \in Job,
         NEW next \in PCs, Take(a, j, rec, next),
         next \in {"save", "claim", "execute", "saveRun", "unclaim"} => j \in Ids
  PROVE  Held'
  BY DEF SchedulerTypeOK, Held, Take, Goto, AtJob

LEMMA ReturnTypes ==
  ASSUME SchedulerTypeOK, NEW a \in Actors, Return(a)
  PROVE  Held'
<1>. DEFINE next == IF a = Loop THEN "pick" ELSE "done"
<1>1. next \in PCs /\ next \notin {"save", "claim", "execute", "saveRun", "unclaim"}
  BY DEF PCs
<1>2. Take(a, NoJob, Absent, next)
  BY DEF Return
<1>. HIDE DEF next
<1>. QED BY <1>1, <1>2, AbsentIsJob, TakeTypes

\* An actor that goes on with the job it has.
LEMMA GotoTypes ==
  ASSUME SchedulerTypeOK, NEW a \in Actors, NEW next \in PCs, Goto(a, next), AtJob(a),
         UNCHANGED job, copy' \in [Actors -> Job]
  PROVE  Held'
  BY DEF SchedulerTypeOK, Held, Goto, AtJob

-----------------------------------------------------------------------------
(* Types.                                                                  *)

LEMMA InitTypes == Init => SchedulerTypeOK
  BY AbsentIsJob, SchedulerConstants
  DEF Init, SchedulerTypeOK, Kinds, PCs, Ids, NoJob

\* A save that writes the holder's copy, or fails, leaves jobs.json well typed.
LEMMA StoreTypes ==
  ASSUME SchedulerTypeOK, NEW a \in Actors, AtJob(a), Store(a) \/ StoreFails
  PROVE  /\ jobs' \in [Ids -> Job]
         /\ faults' \in 0..MaxFaults
         /\ restarts' \in 0..MaxRestarts
  BY SchedulerConstants DEF SchedulerTypeOK, AtJob, Store, StoreFails, boundVars

LEMMA AddTypes ==
  ASSUME SchedulerTypeOK, NEW c \in Commands, Add(c)
  PROVE  SchedulerTypeOK'
<1>. USE DEF executionVars, boundVars
<1>1. c \in Actors
  BY DEF Actors
<1>2. issued' \in 0..MaxJobs
  BY SchedulerConstants DEF SchedulerTypeOK, Add
<1>3. Base'
  BY <1>2 DEF SchedulerTypeOK, Base, Add
<1>4. PICK n \in Names :
        \/ Return(c)
        \/ /\ issued < MaxJobs /\ issued' = issued + 1
           /\ \E s \in NextRun(clock) :
                 Take(c, issued', [name |-> n, status |-> "active", next |-> s], "save")
  BY DEF Add
<1>5. CASE Return(c)
  BY <1>1, <1>3, <1>5, ReturnTypes, TypeParts
<1>6. CASE /\ issued < MaxJobs /\ issued' = issued + 1
           /\ \E s \in NextRun(clock) :
                 Take(c, issued', [name |-> n, status |-> "active", next |-> s], "save")
  <2>1. PICK s \in NextRun(clock) :
          Take(c, issued', [name |-> n, status |-> "active", next |-> s], "save")
    BY <1>6
  <2>2. [name |-> n, status |-> "active", next |-> s] \in Job
    BY NextRunIsSlot DEF Job, Statuses
  <2>3. issued' \in Ids
    BY <1>2, <1>6, SchedulerConstants DEF SchedulerTypeOK, Ids
  <2>4. "save" \in PCs
    BY DEF PCs
  <2>5. Held'
    BY <1>1, <2>1, <2>2, <2>3, <2>4, TakeTypes
  <2>. QED BY <1>3, <2>5, TypeParts
<1>. QED BY <1>4, <1>5, <1>6

LEMMA ResolveTypes ==
  ASSUME SchedulerTypeOK, NEW c \in Commands, Resolve(c)
  PROVE  SchedulerTypeOK'
<1>. USE DEF executionVars, boundVars
<1>1. c \in Actors
  BY DEF Actors
<1>. DEFINE found(j, k) == IF Exists(j) THEN Changed(jobs[j], k) ELSE {}
<1>2. PICK k \in Kinds \ {"add"}, j \in Ids :
        \/ Return(c) /\ UNCHANGED kind
        \/ \E rec \in found(j, k) :
              /\ kind' = [kind EXCEPT ![c] = k]
              /\ Take(c, j, rec, IF k = "run" THEN "claim" ELSE "save")
  BY DEF Resolve
<1>3. found(j, k) \subseteq Job
  BY ChangedIsJob DEF SchedulerTypeOK
<1>4. Base'
  BY <1>2 DEF SchedulerTypeOK, Base, Resolve
<1>. HIDE DEF found
<1>5. CASE Return(c)
  BY <1>1, <1>4, <1>5, ReturnTypes, TypeParts
<1>6. CASE \E rec \in found(j, k) : Take(c, j, rec, IF k = "run" THEN "claim" ELSE "save")
  <2>1. PICK rec \in Job : Take(c, j, rec, IF k = "run" THEN "claim" ELSE "save")
    BY <1>3, <1>6
  <2>2. (IF k = "run" THEN "claim" ELSE "save") \in PCs
    BY DEF PCs
  <2>3. Held'
    BY <1>1, <2>1, <2>2, TakeTypes
  <2>. QED BY <1>4, <2>3, TypeParts
<1>. QED BY <1>2, <1>5, <1>6

LEMMA SaveCommandTypes ==
  ASSUME SchedulerTypeOK, NEW c \in Commands, SaveCommand(c)
  PROVE  SchedulerTypeOK'
<1>1. c \in Actors /\ AtJob(c)
  BY DEF Actors, SaveCommand, AtJob
<1>2. Held'
  BY <1>1, ReturnTypes DEF SaveCommand
<1>3. /\ jobs' \in [Ids -> Job]
      /\ faults' \in 0..MaxFaults
      /\ restarts' \in 0..MaxRestarts
  BY <1>1, StoreTypes DEF SaveCommand
<1>4. Base'
  BY <1>3 DEF SchedulerTypeOK, Base, SaveCommand, Kinds
<1>. QED BY <1>2, <1>4, TypeParts

LEMMA ExecuteStepTypes ==
  ASSUME SchedulerTypeOK, NEW a \in Actors, ExecuteStep(a)
  PROVE  SchedulerTypeOK'
<1>. USE DEF executionVars, boundVars
<1>1. AtJob(a)
  BY DEF ExecuteStep, Claim, TaskEnds, SaveRun, Unclaim, AtJob
<1>2. job[a] \in Ids /\ copy[a] \in Job
  BY <1>1 DEF SchedulerTypeOK, AtJob
<1>3. CASE Claim(a)
  <2>1. Base'
    <3>1. copy[a].next \in Slots
      BY <1>2 DEF Job
    <3>. QED BY <1>2, <1>3, <3>1 DEF SchedulerTypeOK, Base, Claim, Start
  <2>2. Held'
    <3>1. CASE Return(a)
      BY <3>1, ReturnTypes
    <3>2. CASE Start(a)
      <4>1. "execute" \in PCs
        BY DEF PCs
      <4>. QED BY <1>1, <3>2, <4>1, GotoTypes DEF Start, SchedulerTypeOK
    <3>. QED BY <1>3, <3>1, <3>2 DEF Claim
  <2>. QED BY <2>1, <2>2, TypeParts
<1>4. CASE TaskEnds(a)
  <2>1. Base'
    BY <1>4 DEF SchedulerTypeOK, Base, TaskEnds
  <2>2. copy' \in [Actors -> Job]
    <3>1. \A s \in NextRun(clock) : [copy EXCEPT ![a].next = s] \in [Actors -> Job]
      BY <1>2, NextRunIsSlot DEF SchedulerTypeOK, Job
    <3>. QED BY <1>4, <3>1 DEF TaskEnds, SchedulerTypeOK
  <2>3. "saveRun" \in PCs
    BY DEF PCs
  <2>4. Held'
    BY <1>1, <1>4, <2>2, <2>3, GotoTypes DEF TaskEnds
  <2>. QED BY <2>1, <2>4, TypeParts
<1>5. CASE SaveRun(a)
  <2>1. Base'
    BY <1>1, <1>5, StoreTypes DEF SchedulerTypeOK, Base, SaveRun
  <2>2. "unclaim" \in PCs
    BY DEF PCs
  <2>3. Held'
    BY <1>1, <1>5, <2>2, GotoTypes DEF SaveRun, SchedulerTypeOK
  <2>. QED BY <2>1, <2>3, TypeParts
<1>6. CASE Unclaim(a)
  <2>1. Base'
    BY <1>6 DEF SchedulerTypeOK, Base, Unclaim
  <2>2. Held'
    BY <1>6, ReturnTypes DEF Unclaim
  <2>. QED BY <2>1, <2>2, TypeParts
<1>. QED BY <1>3, <1>4, <1>5, <1>6 DEF ExecuteStep

LEMMA LoopTypes ==
  ASSUME SchedulerTypeOK, List \/ Pick
  PROVE  SchedulerTypeOK'
<1>. USE DEF executionVars, boundVars
<1>1. Loop \in Actors
  BY DEF Actors
<1>2. CASE List
  <2>1. Base'
    BY <1>2 DEF SchedulerTypeOK, Base, List
  <2>2. Held'
    BY <1>1, <1>2 DEF SchedulerTypeOK, Held, List, Goto, PCs, AtJob
  <2>. QED BY <2>1, <2>2, TypeParts
<1>3. CASE Pick
  <2>1. Base'
    BY <1>3 DEF SchedulerTypeOK, Base, Pick
  <2>2. CASE Goto(Loop, "idle") /\ UNCHANGED <<job, copy>>
    <3>1. Held'
      BY <1>1, <2>2 DEF SchedulerTypeOK, Held, Goto, PCs, AtJob
    <3>. QED BY <2>1, <3>1, TypeParts
  <2>3. CASE \E d \in todo : Take(Loop, d[1], d[2], "claim")
    <3>1. PICK d \in todo : Take(Loop, d[1], d[2], "claim")
      BY <2>3
    <3>2. d[1] \in Ids /\ d[2] \in Job /\ "claim" \in PCs
      BY DEF SchedulerTypeOK, PCs
    <3>3. Held'
      BY <1>1, <3>1, <3>2, TakeTypes
    <3>. QED BY <2>1, <3>3, TypeParts
  <2>. QED BY <1>3, <2>2, <2>3 DEF Pick
<1>. QED BY <1>2, <1>3

LEMMA RestartTypes ==
  ASSUME SchedulerTypeOK, Restart
  PROVE  SchedulerTypeOK'
<1>1. Base'
  BY SchedulerConstants DEF SchedulerTypeOK, Base, Restart, Kinds
<1>2. pc' \in [Actors -> PCs] /\ \A a \in Actors : ~AtJob(a)'
  BY DEF Restart, PCs, AtJob
<1>3. Held'
  BY <1>2, AbsentIsJob DEF Held, Restart
<1>. QED BY <1>1, <1>3, TypeParts

\* The scheduler's state keeps its types: what the store holds, what actors
\* hold of it, and the jobs they have claimed.
THEOREM SchedulerTypes == Spec => []SchedulerTypeOK
<1>1. SchedulerTypeOK /\ [Next]_vars => SchedulerTypeOK'
  <2>. SUFFICES ASSUME SchedulerTypeOK, [Next]_vars PROVE SchedulerTypeOK'
    OBVIOUS
  <2>1. ASSUME NEW c \in Commands, Add(c) \/ Resolve(c) \/ CommandStep(c)
        PROVE  SchedulerTypeOK'
    <3>1. c \in Actors
      BY DEF Actors
    <3>. QED BY <2>1, <3>1, AddTypes, ResolveTypes, SaveCommandTypes, ExecuteStepTypes
         DEF CommandStep
  <2>2. CASE LoopStep
    <3>1. Loop \in Actors
      BY DEF Actors
    <3>. QED BY <2>2, <3>1, LoopTypes, ExecuteStepTypes DEF LoopStep
  <2>3. CASE Advance
    BY <2>3, SchedulerConstants
    DEF SchedulerTypeOK, Advance, executionVars, actorVars, boundVars
  <2>4. CASE Restart
    BY <2>4, RestartTypes
  <2>5. CASE UNCHANGED vars
    BY <2>5 DEF SchedulerTypeOK, vars, executionVars, actorVars, boundVars
  <2>. QED BY <2>1, <2>2, <2>3, <2>4, <2>5 DEF Next
<1>. QED BY <1>1, InitTypes, PTL DEF Spec

-----------------------------------------------------------------------------
(* One execution at a time.  OneRun is inductive together with: a job that *)
(* is being executed is in Service.running, until Unclaim takes it out.    *)

Claimed == \A a \in Actors : InRun(a) => job[a] \in running

RunInv == OneRun /\ Claimed

\* A step in which no execution starts and no claim is given up.
LEMMA NoneStarts ==
  ASSUME RunInv, running' = running,
         \A b \in Actors : InRun(b)' => InRun(b) /\ job'[b] = job[b]
  PROVE  RunInv'
<1>1. \A b \in Actors : InRun(b)' => job'[b] \in running'
  BY DEF RunInv, Claimed
<1>2. \A a, b \in Actors : InRun(a)' /\ InRun(b)' /\ job'[a] = job'[b] => a = b
  BY DEF RunInv, OneRun
<1>. QED BY <1>1, <1>2 DEF RunInv, OneRun, Claimed, InRun

\* An actor that goes to a step outside an execution takes no part in one.
LEMMA LeavesRun ==
  ASSUME SchedulerTypeOK, NEW a \in Actors, NEW next, next \notin {"execute", "saveRun", "unclaim"},
         Goto(a, next), \A b \in Actors \ {a} : job'[b] = job[b]
  PROVE  /\ ~InRun(a)'
         /\ \A b \in Actors : InRun(b)' => InRun(b) /\ job'[b] = job[b]
  BY DEF SchedulerTypeOK, Goto, InRun

LEMMA TakeLeavesRun ==
  ASSUME SchedulerTypeOK, NEW a \in Actors, NEW j, NEW rec,
         NEW next, next \notin {"execute", "saveRun", "unclaim"}, Take(a, j, rec, next)
  PROVE  /\ ~InRun(a)'
         /\ \A b \in Actors : InRun(b)' => InRun(b) /\ job'[b] = job[b]
<1>1. Goto(a, next) /\ \A b \in Actors \ {a} : job'[b] = job[b]
  BY DEF Take, SchedulerTypeOK
<1>. QED BY <1>1, LeavesRun

LEMMA ReturnLeavesRun ==
  ASSUME SchedulerTypeOK, NEW a \in Actors, Return(a)
  PROVE  /\ ~InRun(a)'
         /\ \A b \in Actors : InRun(b)' => InRun(b) /\ job'[b] = job[b]
<1>. DEFINE next == IF a = Loop THEN "pick" ELSE "done"
<1>1. next \notin {"execute", "saveRun", "unclaim"} /\ Take(a, NoJob, Absent, next)
  BY DEF Return
<1>. HIDE DEF next
<1>. QED BY <1>1, TakeLeavesRun

\* Add, Resolve and SaveCommand touch no execution.
LEMMA CommandKeepsRuns ==
  ASSUME SchedulerTypeOK, RunInv, NEW c \in Commands,
         Add(c) \/ Resolve(c) \/ SaveCommand(c)
  PROVE  RunInv'
<1>1. c \in Actors /\ running' = running
  BY DEF Actors, Add, Resolve, SaveCommand, executionVars
<1>2. \/ Return(c)
      \/ \E j, rec : \E next \in {"save", "claim"} : Take(c, j, rec, next)
  BY DEF Add, Resolve, SaveCommand
<1>3. CASE Return(c)
  BY <1>1, <1>3, ReturnLeavesRun, NoneStarts
<1>4. CASE \E j, rec : \E next \in {"save", "claim"} : Take(c, j, rec, next)
  <2>1. PICK j, rec : \E next \in {"save", "claim"} : Take(c, j, rec, next)
    BY <1>4
  <2>2. PICK next \in {"save", "claim"} : Take(c, j, rec, next)
    BY <2>1
  <2>. QED BY <1>1, <2>2, TakeLeavesRun, NoneStarts
<1>. QED BY <1>2, <1>3, <1>4

\* Claim starts an execution of a job that has none; Unclaim ends the one the
\* job has.
LEMMA ExecuteKeepsRuns ==
  ASSUME SchedulerTypeOK, RunInv, NEW a \in Actors, ExecuteStep(a)
  PROVE  RunInv'
<1>1. CASE Claim(a)
  <2>1. CASE Return(a) /\ UNCHANGED executionVars
    BY <2>1, ReturnLeavesRun, NoneStarts DEF executionVars
  <2>2. CASE job[a] \notin running /\ Start(a)
    <3>1. \A b \in Actors : InRun(b)' => b = a \/ InRun(b)
      BY <2>2 DEF Start, Goto, InRun, SchedulerTypeOK
    <3>2. \A b \in Actors : InRun(b) => job[b] \in running /\ job[b] # job[a]
      BY <2>2 DEF RunInv, Claimed
    <3>3. job' = job /\ running' = running \cup {job[a]}
      BY <2>2 DEF Start
    <3>4. \A b \in Actors : InRun(b)' => job'[b] \in running'
      BY <3>1, <3>2, <3>3
    <3>5. \A b, d \in Actors : InRun(b)' /\ InRun(d)' /\ job'[b] = job'[d] => b = d
      BY <3>1, <3>2, <3>3 DEF RunInv, OneRun
    <3>. QED BY <3>4, <3>5 DEF RunInv, OneRun, Claimed, InRun
  <2>. QED BY <1>1, <2>1, <2>2 DEF Claim
<1>2. CASE TaskEnds(a) \/ SaveRun(a)
  <2>1. running' = running /\ job' = job
    BY <1>2 DEF TaskEnds, SaveRun, executionVars
  <2>2. \A b \in Actors : InRun(b)' => InRun(b)
    BY <1>2 DEF TaskEnds, SaveRun, Goto, InRun, SchedulerTypeOK
  <2>. QED BY <2>1, <2>2, NoneStarts
<1>3. CASE Unclaim(a)
  <2>1. InRun(a) /\ running' = running \ {job[a]}
    BY <1>3 DEF Unclaim, InRun
  <2>2. \A b \in Actors : InRun(b)' => b # a /\ InRun(b) /\ job'[b] = job[b]
    BY <1>3, ReturnLeavesRun DEF Unclaim, InRun
  <2>3. \A b \in Actors : InRun(b)' => job'[b] \in running'
    BY <2>1, <2>2 DEF RunInv, OneRun, Claimed
  <2>4. \A b, d \in Actors : InRun(b)' /\ InRun(d)' /\ job'[b] = job'[d] => b = d
    BY <2>2 DEF RunInv, OneRun
  <2>. QED BY <2>3, <2>4 DEF RunInv, OneRun, Claimed, InRun
<1>. QED BY <1>1, <1>2, <1>3 DEF ExecuteStep

\* A tick and a restart start no execution; a restart ends all of them.
LEMMA OthersKeepRuns ==
  ASSUME SchedulerTypeOK, RunInv, List \/ Pick \/ Advance \/ Restart \/ UNCHANGED vars
  PROVE  RunInv'
<1>1. Loop \in Actors
  BY DEF Actors
<1>2. CASE List
  <2>1. running' = running /\ job' = job /\ Goto(Loop, "pick")
    BY <1>2 DEF List, executionVars
  <2>. QED BY <1>1, <2>1, LeavesRun, NoneStarts
<1>3. CASE Pick
  <2>1. running' = running
    BY <1>3 DEF Pick, executionVars
  <2>2. CASE Goto(Loop, "idle") /\ UNCHANGED job
    BY <1>1, <2>1, <2>2, LeavesRun, NoneStarts
  <2>3. CASE \E d \in todo : Take(Loop, d[1], d[2], "claim")
    BY <1>1, <2>1, <2>3, TakeLeavesRun, NoneStarts
  <2>. QED BY <1>3, <2>2, <2>3 DEF Pick
<1>4. CASE Advance \/ UNCHANGED vars
  <2>1. running' = running /\ job' = job /\ pc' = pc
    BY <1>4 DEF Advance, vars, executionVars, actorVars
  <2>. QED BY <2>1, NoneStarts DEF InRun
<1>5. CASE Restart
  <2>1. \A b \in Actors : ~InRun(b)'
    BY <1>5 DEF Restart, InRun
  <2>. QED BY <2>1 DEF RunInv, OneRun, Claimed, InRun
<1>. QED BY <1>2, <1>3, <1>4, <1>5

LEMMA RunInvKept == SchedulerTypeOK /\ RunInv /\ [Next]_vars => RunInv'
<1>. SUFFICES ASSUME SchedulerTypeOK, RunInv, [Next]_vars PROVE RunInv'
  OBVIOUS
<1>1. ASSUME NEW c \in Commands, Add(c) \/ Resolve(c) \/ CommandStep(c)
      PROVE  RunInv'
  <2>1. c \in Actors
    BY DEF Actors
  <2>. QED BY <1>1, <2>1, CommandKeepsRuns, ExecuteKeepsRuns DEF CommandStep
<1>2. CASE LoopStep
  <2>1. Loop \in Actors
    BY DEF Actors
  <2>. QED BY <1>2, <2>1, OthersKeepRuns, ExecuteKeepsRuns DEF LoopStep
<1>3. CASE Advance \/ Restart \/ UNCHANGED vars
  BY <1>3, OthersKeepRuns
<1>. QED BY <1>1, <1>2, <1>3 DEF Next

LEMMA RunsAreClaimed == Spec => []RunInv
<1>1. Init => RunInv
  BY DEF Init, RunInv, OneRun, Claimed, InRun
<1>. QED BY <1>1, RunInvKept, SchedulerTypes, PTL DEF Spec

\* A job has at most one active execution, of the loop and of /schedule run
\* together, for any number of commands, failed saves and restarts (FR-011).
THEOREM OneRunAtATime == Spec => []OneRun
<1>1. RunInv => OneRun
  BY DEF RunInv
<1>. QED BY <1>1, RunsAreClaimed, PTL

-----------------------------------------------------------------------------
(* Once per slot.  While nothing failed and ClawX did not restart, an      *)
(* active job of the file is set to a slot it has not been started for,    *)
(* except while the loop still has to save its next one.  That a copy      *)
(* saved late keeps this rests on what each actor has in its hand.         *)

Adds(a) == a \in Commands /\ pc[a] = "save" /\ kind[a] = "add"

SlotOf(a) == <<job[a], copy[a].next>>

\* Ids are given once; what was started or found due is in the file.
Filed ==
    /\ \A j \in Ids : Exists(j) => j <= issued
    /\ \A x \in fired : Exists(x[1]) /\ x[2] <= clock
    /\ \A d \in todo : Exists(d[1]) /\ Due(d[2])

\* What an actor holds: a job of the file, unless it is about to add it.
HandOf(a) ==
    /\ AtJob(a) => /\ job[a] <= issued /\ copy[a].status # "none"
                   /\ Exists(job[a]) <=> ~Adds(a)
    /\ a = Loop /\ pc[a] = "claim" => copy[a].next <= clock
    /\ a \in Commands /\ pc[a] = "new" => kind[a] = "add"
    /\ a \in Commands /\ pc[a] = "save" => kind[a] \in {"add", "resume"} \/ copy[a].status # "active"
    /\ Adds(a) => \A b \in Actors \ {a} : Adds(b) => job[b] # job[a]

Known == Filed /\ \A a \in Actors : HandOf(a)

\* No slot that is still to be served was served.
Fresh ==
    /\ \A j \in Ids : jobs[j].status = "active" /\ <<j, jobs[j].next>> \in fired =>
          pc[Loop] \in {"execute", "saveRun"} /\ job[Loop] = j
    /\ \A d \in todo : <<d[1], d[2].next>> \notin fired /\ (AtJob(Loop) => d[1] # job[Loop])
    /\ \A d, e \in todo : d[1] = e[1] => d = e
    /\ pc[Loop] = "claim" => SlotOf(Loop) \notin fired
    /\ \A a \in Actors : pc[a] = "saveRun" => SlotOf(a) \notin fired

Quiet == faults = 0 /\ restarts = 0

\* The schedules name a next run at any time: nextRunFromExpr has no error.
Recurring == \A t \in 0..MaxTime : NextRun(t) # {}

\* What changes is in one actor's hand.
OnlyHand(a) ==
    \A b \in Actors \ {a} : /\ pc'[b] = pc[b] /\ job'[b] = job[b] /\ copy'[b] = copy[b]
                            /\ b \in Commands => kind'[b] = kind[b]

LEMMA HandsKnown ==
  ASSUME SchedulerTypeOK, Known, NEW a \in Actors, OnlyHand(a),
         issued' \in Nat, issued <= issued', clock' = clock,
         \A b \in Actors \ {a} : AtJob(b) => (Exists(job[b])' <=> Exists(job[b])),
         HandOf(a)'
  PROVE  \A b \in Actors : HandOf(b)'
<1>. SUFFICES ASSUME NEW b \in Actors \ {a} PROVE HandOf(b)'
  OBVIOUS
<1>1. /\ pc'[b] = pc[b] /\ job'[b] = job[b] /\ copy'[b] = copy[b]
      /\ b \in Commands => kind'[b] = kind[b]
  BY DEF OnlyHand
<1>2. Adds(b)' <=> Adds(b)
  BY <1>1 DEF Adds
<1>3. AtJob(b)' <=> AtJob(b)
  BY <1>1 DEF AtJob
<1>4. HandOf(b) /\ (Adds(b) => AtJob(b))
  BY DEF Known, Adds, AtJob
<1>5. AtJob(b) => job[b] \in Nat /\ issued \in Nat
  BY DEF SchedulerTypeOK, AtJob, Ids
<1>6. AtJob(b)' => /\ job'[b] <= issued' /\ copy'[b].status # "none"
                   /\ Exists(job[b])' <=> ~Adds(b)'
  BY <1>1, <1>2, <1>3, <1>4, <1>5 DEF HandOf
<1>7. Adds(b)' => \A d \in Actors \ {b} : Adds(d)' => job'[d] # job'[b]
  <2>. SUFFICES ASSUME Adds(b)', NEW d \in Actors \ {b}, Adds(d)' PROVE job'[d] # job'[b]
    OBVIOUS
  <2>1. CASE d = a
    BY <2>1 DEF HandOf
  <2>2. CASE d # a
    <3>1. /\ pc'[d] = pc[d] /\ job'[d] = job[d]
          /\ d \in Commands => kind'[d] = kind[d]
      BY <2>2 DEF OnlyHand
    <3>. QED BY <1>1, <1>2, <1>4, <3>1 DEF HandOf, Adds
  <2>. QED BY <2>1, <2>2
<1>. QED BY <1>1, <1>4, <1>6, <1>7 DEF HandOf

\* An actor that is answered has nothing in its hand.
LEMMA EmptyHand ==
  ASSUME SchedulerTypeOK, NEW a \in Actors, Return(a)
  PROVE  HandOf(a)' /\ ~AtJob(a)' /\ pc'[a] \notin {"new", "save", "saveRun", "claim"}
  BY DEF SchedulerTypeOK, Return, Take, Goto, HandOf, AtJob, Adds

LEMMA ReturnHands ==
  ASSUME SchedulerTypeOK, NEW a \in Actors, Return(a), \A c \in Commands \ {a} : kind'[c] = kind[c]
  PROVE  OnlyHand(a)
  BY DEF SchedulerTypeOK, Return, Take, Goto, OnlyHand

LEMMA AddKnows ==
  ASSUME SchedulerTypeOK, Known, NEW c \in Commands, Add(c)
  PROVE  Known'
<1>. USE DEF executionVars, boundVars
<1>1. c \in Actors /\ issued \in Nat /\ clock' = clock /\ kind' = kind /\ jobs' = jobs
  BY DEF Actors, Add, SchedulerTypeOK
<1>2. issued' \in Nat /\ issued <= issued'
  BY <1>1 DEF Add
<1>3. Filed'
  BY <1>1, <1>2 DEF Known, Filed, Add, Exists, Due, SchedulerTypeOK, Ids
<1>4. \A j : Exists(j)' <=> Exists(j)
  BY <1>1 DEF Exists
<1>5. PICK n \in Names :
        \/ Return(c)
        \/ /\ issued < MaxJobs /\ issued' = issued + 1
           /\ \E s \in NextRun(clock) :
                 Take(c, issued', [name |-> n, status |-> "active", next |-> s], "save")
  BY DEF Add
<1>6. HandOf(c)' /\ OnlyHand(c)
  <2>1. CASE Return(c)
    BY <1>1, <2>1, EmptyHand, ReturnHands
  <2>2. CASE /\ issued < MaxJobs /\ issued' = issued + 1
             /\ \E s \in NextRun(clock) :
                   Take(c, issued', [name |-> n, status |-> "active", next |-> s], "save")
    <3>1. PICK s : Take(c, issued', [name |-> n, status |-> "active", next |-> s], "save")
      BY <2>2
    <3>2. /\ pc' = [pc EXCEPT ![c] = "save"] /\ job' = [job EXCEPT ![c] = issued + 1]
          /\ copy' = [copy EXCEPT ![c] = [name |-> n, status |-> "active", next |-> s]]
      BY <2>2, <3>1 DEF Take, Goto
    <3>3. OnlyHand(c)
      BY <1>1, <3>2 DEF OnlyHand, SchedulerTypeOK
    <3>4. pc'[c] = "save" /\ job'[c] = issued + 1 /\ copy'[c].status = "active"
      BY <1>1, <3>2 DEF SchedulerTypeOK
    <3>5. kind[c] = "add" /\ c # Loop
      BY <1>1, SchedulerConstants DEF Add, Known, HandOf
    <3>6. issued + 1 \in Ids
      BY <1>1, <1>5, <2>2, SchedulerConstants DEF Ids, SchedulerTypeOK
    <3>7. ~Exists(issued + 1)
      BY <1>1, <3>6 DEF Known, Filed
    <3>8. \A b \in Actors \ {c} : Adds(b)' => job'[b] # issued + 1
      <4>. SUFFICES ASSUME NEW b \in Actors \ {c}, Adds(b)' PROVE job'[b] # issued + 1
        OBVIOUS
      <4>1. Adds(b) /\ job'[b] = job[b]
        BY <1>1, <3>3 DEF OnlyHand, Adds
      <4>2. AtJob(b) /\ job[b] \in Nat
        BY <4>1 DEF Adds, AtJob, SchedulerTypeOK, Ids
      <4>3. job[b] <= issued
        BY <4>2 DEF Known, HandOf
      <4>. QED BY <1>1, <4>1, <4>2, <4>3
    <3>9. Adds(c)' /\ AtJob(c)'
      BY <1>1, <3>4, <3>5 DEF Adds, AtJob
    <3>10. ~Exists(job[c])'
      BY <1>4, <3>4, <3>7 DEF Exists
    <3>11. HandOf(c)'
      BY <1>1, <2>2, <3>4, <3>5, <3>8, <3>9, <3>10 DEF HandOf
    <3>. QED BY <3>3, <3>11
  <2>. QED BY <1>5, <2>1, <2>2
<1>7. \A b \in Actors \ {c} : Exists(job[b])' <=> Exists(job[b])
  BY <1>1, <1>6 DEF OnlyHand, Exists
<1>. QED BY <1>1, <1>2, <1>3, <1>6, <1>7, HandsKnown DEF Known

\* A copy a command makes of a job of the file is not absent, and active only
\* if it resumes or runs the job.
LEMMA ChangedCopies ==
  ASSUME NEW rec \in Job, rec.status # "none", NEW k \in Kinds \ {"add"}, NEW new \in Changed(rec, k)
  PROVE  /\ new.status # "none"
         /\ k \in {"pause", "remove"} => new.status # "active"
<1>1. CASE k \in {"pause", "remove"}
  <2>1. new = [rec EXCEPT !.status = IF k = "pause" THEN "paused" ELSE "removed"]
    BY <1>1 DEF Changed
  <2>. QED BY <1>1, <2>1 DEF Job
<1>2. CASE k = "resume"
  <2>1. PICK s \in NextRun(clock) : new = [rec EXCEPT !.status = "active", !.next = s]
    BY <1>2 DEF Changed
  <2>. QED BY <1>2, <2>1 DEF Job
<1>3. CASE k = "run"
  BY <1>3 DEF Changed
<1>. QED BY <1>1, <1>2, <1>3 DEF Kinds

LEMMA ResolveKnows ==
  ASSUME SchedulerTypeOK, Known, NEW c \in Commands, Resolve(c)
  PROVE  Known'
<1>. USE DEF executionVars, boundVars
<1>1. /\ c \in Actors /\ issued \in Nat /\ issued' = issued /\ clock' = clock /\ jobs' = jobs
      /\ fired' = fired /\ todo' = todo
  BY DEF Actors, Resolve, SchedulerTypeOK
<1>2. Filed'
  BY <1>1 DEF Known, Filed, Exists, Due
<1>3. PICK k \in Kinds \ {"add"}, j \in Ids :
        LET found == IF Exists(j) THEN Changed(jobs[j], k) ELSE {}
        IN  \/ found = {} /\ Return(c) /\ UNCHANGED kind
            \/ \E rec \in found :
                  /\ kind' = [kind EXCEPT ![c] = k]
                  /\ Take(c, j, rec, IF k = "run" THEN "claim" ELSE "save")
  BY DEF Resolve
<1>4. HandOf(c)' /\ OnlyHand(c)
  <2>1. CASE Return(c) /\ UNCHANGED kind
    BY <1>1, <2>1, EmptyHand, ReturnHands
  <2>2. CASE /\ Exists(j)
             /\ \E rec \in Changed(jobs[j], k) :
                   /\ kind' = [kind EXCEPT ![c] = k]
                   /\ Take(c, j, rec, IF k = "run" THEN "claim" ELSE "save")
    <3>. DEFINE next == IF k = "run" THEN "claim" ELSE "save"
    <3>1. PICK rec \in Changed(jobs[j], k) : kind' = [kind EXCEPT ![c] = k] /\ Take(c, j, rec, next)
      BY <2>2
    <3>2. /\ pc' = [pc EXCEPT ![c] = next] /\ job' = [job EXCEPT ![c] = j]
          /\ copy' = [copy EXCEPT ![c] = rec]
      BY <3>1 DEF Take, Goto
    <3>. HIDE DEF next
    <3>3. OnlyHand(c)
      BY <1>1, <3>1, <3>2 DEF OnlyHand, SchedulerTypeOK
    <3>4. pc'[c] = next /\ job'[c] = j /\ copy'[c] = rec /\ kind'[c] = k
      BY <1>1, <3>1, <3>2 DEF SchedulerTypeOK
    <3>5. /\ rec.status # "none"
          /\ k \in {"pause", "remove"} => rec.status # "active"
      <4>1. jobs[j] \in Job /\ jobs[j].status # "none"
        BY <2>2 DEF SchedulerTypeOK, Exists
      <4>. QED BY <4>1, ChangedCopies
    <3>6. j <= issued /\ c # Loop
      BY <2>2, SchedulerConstants DEF Known, Filed
    <3>7. Exists(job[c])'
      BY <1>1, <2>2, <3>4 DEF Exists
    <3>8. ~Adds(c)'
      BY <3>4 DEF Adds
    <3>9. next # "new" /\ (next = "save" => k \in {"pause", "remove", "resume"})
      BY DEF next, Kinds
    <3>. QED BY <1>1, <3>3, <3>4, <3>5, <3>6, <3>7, <3>8, <3>9 DEF HandOf
  <2>. QED BY <1>3, <2>1, <2>2
<1>5. \A b \in Actors \ {c} : Exists(job[b])' <=> Exists(job[b])
  BY <1>1, <1>4 DEF OnlyHand, Exists
<1>. QED BY <1>1, <1>2, <1>4, <1>5, HandsKnown DEF Known

\* A save changes whether a job is in the file only for the command that adds it.
LEMMA StoreExists ==
  ASSUME SchedulerTypeOK, Known, NEW a \in Actors, AtJob(a), Store(a) \/ jobs' = jobs
  PROVE  /\ \A j \in Ids : Exists(j) => Exists(j)'
         /\ \A j \in Ids : Exists(j)' => j <= issued
         /\ ~Adds(a) => \A j \in Ids : Exists(j)' => Exists(j)
         /\ \A j \in Ids \ {job[a]} : jobs'[j] = jobs[j]
<1>1. job[a] \in Ids /\ copy[a].status # "none" /\ job[a] <= issued /\ (Exists(job[a]) <=> ~Adds(a))
  BY DEF SchedulerTypeOK, AtJob, Known, HandOf
<1>2. \A j \in Ids : jobs'[j] = jobs[j] \/ (j = job[a] /\ jobs'[j] = copy[a])
  BY <1>1 DEF Store, SchedulerTypeOK
<1>. QED BY <1>1, <1>2 DEF Exists, Known, Filed

LEMMA SaveCommandKnows ==
  ASSUME SchedulerTypeOK, Known, NEW c \in Commands, SaveCommand(c)
  PROVE  Known'
<1>1. /\ c \in Actors /\ AtJob(c) /\ issued \in Nat /\ issued' = issued /\ clock' = clock /\ todo' = todo
      /\ fired' \subseteq fired
  BY DEF Actors, AtJob, SaveCommand, SchedulerTypeOK
<1>2. Store(c) \/ jobs' = jobs
  BY DEF SaveCommand, StoreFails
<1>3. /\ \A j \in Ids : Exists(j) => Exists(j)'
      /\ \A j \in Ids : Exists(j)' => j <= issued
      /\ \A j \in Ids \ {job[c]} : jobs'[j] = jobs[j]
  BY <1>1, <1>2, StoreExists
<1>4. Filed'
  BY <1>1, <1>3 DEF Known, Filed, Due, SchedulerTypeOK
<1>5. HandOf(c)' /\ OnlyHand(c)
  <2>1. Return(c) /\ \A b \in Commands \ {c} : kind'[b] = kind[b]
    BY DEF SaveCommand, SchedulerTypeOK
  <2>. QED BY <1>1, <2>1, EmptyHand, ReturnHands
<1>6. \A b \in Actors \ {c} : AtJob(b) => (Exists(job[b])' <=> Exists(job[b]))
  <2>. SUFFICES ASSUME NEW b \in Actors \ {c}, AtJob(b) PROVE Exists(job[b])' <=> Exists(job[b])
    OBVIOUS
  <2>1. job'[b] = job[b] /\ job[b] \in Ids
    BY <1>5 DEF OnlyHand, SchedulerTypeOK, AtJob
  <2>2. CASE job[b] # job[c]
    BY <1>3, <2>1, <2>2 DEF Exists
  <2>3. CASE job[b] = job[c]
    <3>1. ~Adds(b) \/ ~Adds(c)
      BY <1>1, <2>3 DEF Known, HandOf
    <3>2. Exists(job[b])
      BY <1>1, <2>3, <3>1 DEF Known, HandOf
    <3>. QED BY <1>3, <2>1, <3>2 DEF Exists
  <2>. QED BY <2>2, <2>3
<1>. QED BY <1>1, <1>4, <1>5, <1>6, HandsKnown DEF Known

\* An actor that goes on with its job, other than to a save or a claim.
LEMMA GoesOn ==
  ASSUME SchedulerTypeOK, Known, NEW a \in Actors, AtJob(a), ~Adds(a),
         NEW next \in {"execute", "saveRun", "unclaim"}, Goto(a, next),
         job' = job, kind' = kind, issued' = issued, clock' = clock, todo' = todo,
         \A b \in Actors \ {a} : copy'[b] = copy[b], copy'[a].status = copy[a].status,
         \A j \in Ids : Exists(j)' <=> Exists(j),
         \A x \in fired' \ fired : x[1] \in Ids /\ Exists(x[1]) /\ x[2] <= clock
  PROVE  Known'
<1>1. /\ \A b \in Actors : job[b] \in Ids \cup {NoJob}
      /\ job[a] \in Ids /\ issued \in Nat
      /\ pc'[a] = next
  BY DEF SchedulerTypeOK, AtJob, Goto
<1>2. OnlyHand(a)
  BY DEF OnlyHand, Goto, SchedulerTypeOK
<1>3. Exists(job[a])' /\ Exists(job[a])
  <2>1. Exists(job[a])
    BY DEF Known, HandOf
  <2>. QED BY <1>1, <2>1 DEF Exists
<1>4. HandOf(a)'
  BY <1>1, <1>3 DEF Known, HandOf, Adds
<1>5. \A b \in Actors : AtJob(b) => (Exists(job[b])' <=> Exists(job[b]))
  BY DEF AtJob, SchedulerTypeOK, Exists
<1>6. Filed'
  <2>1. \A x \in fired : Exists(x[1])' /\ x[2] <= clock'
    BY DEF Known, Filed, SchedulerTypeOK
  <2>2. \A x \in fired' : Exists(x[1])' /\ x[2] <= clock'
    BY <2>1
  <2>3. \A d \in todo' : Exists(d[1])' /\ Due(d[2])'
    BY DEF Known, Filed, SchedulerTypeOK, Due
  <2>4. \A j \in Ids : Exists(j)' => j <= issued'
    BY DEF Known, Filed
  <2>. QED BY <2>2, <2>3, <2>4 DEF Filed
<1>. QED BY <1>1, <1>2, <1>4, <1>5, <1>6, HandsKnown DEF Known

LEMMA ExecuteKnows ==
  ASSUME SchedulerTypeOK, Known, NEW a \in Actors, ExecuteStep(a)
  PROVE  Known'
<1>. USE DEF executionVars, boundVars
<1>1. AtJob(a) /\ ~Adds(a)
  BY DEF ExecuteStep, Claim, TaskEnds, SaveRun, Unclaim, AtJob, Adds
<1>2. job[a] \in Ids /\ copy[a] \in Job /\ copy[a].status # "none" /\ Exists(job[a])
  BY <1>1 DEF SchedulerTypeOK, AtJob, Known, HandOf
<1>3. kind' = kind /\ issued' = issued /\ clock' = clock /\ todo' = todo /\ issued \in Nat
  BY DEF ExecuteStep, Claim, TaskEnds, SaveRun, Unclaim, SchedulerTypeOK
<1>4. ASSUME Return(a), jobs' = jobs, fired' = fired PROVE Known'
  <2>1. Filed'
    BY <1>3, <1>4 DEF Known, Filed, Exists, Due
  <2>2. HandOf(a)' /\ OnlyHand(a)
    BY <1>3, <1>4, EmptyHand, ReturnHands
  <2>3. \A b \in Actors \ {a} : Exists(job[b])' <=> Exists(job[b])
    BY <1>4, <2>2 DEF OnlyHand, Exists
  <2>. QED BY <1>3, <2>1, <2>2, <2>3, HandsKnown DEF Known
<1>5. CASE Claim(a)
  <2>1. CASE Start(a)
    <3>1. \A x \in fired' \ fired : a = Loop /\ x = SlotOf(Loop)
      BY <2>1 DEF Start, SlotOf
    <3>2. a = Loop => copy[Loop].next <= clock
      BY <1>5 DEF Claim, Known, HandOf
    <3>3. \A x \in fired' \ fired : x[1] \in Ids /\ Exists(x[1]) /\ x[2] <= clock
      BY <1>2, <3>1, <3>2 DEF SlotOf
    <3>4. Goto(a, "execute") /\ job' = job /\ copy' = copy /\ jobs' = jobs
      BY <1>5, <2>1 DEF Claim, Start
    <3>. QED BY <1>1, <1>3, <3>3, <3>4, GoesOn DEF Exists
  <2>. QED BY <1>4, <1>5, <2>1 DEF Claim
<1>6. CASE TaskEnds(a)
  <2>1. /\ \A b \in Actors \ {a} : copy'[b] = copy[b]
        /\ copy'[a].status = copy[a].status
    BY <1>6 DEF TaskEnds, SchedulerTypeOK, Job
  <2>. QED BY <1>1, <1>3, <1>6, <2>1, GoesOn DEF TaskEnds, Exists
<1>7. CASE SaveRun(a)
  <2>1. Store(a) \/ jobs' = jobs
    BY <1>7 DEF SaveRun, StoreFails
  <2>2. \A j \in Ids : Exists(j)' <=> Exists(j)
    BY <1>1, <2>1, StoreExists
  <2>. QED BY <1>1, <1>3, <1>7, <2>2, GoesOn DEF SaveRun
<1>8. CASE Unclaim(a)
  BY <1>4, <1>8 DEF Unclaim
<1>. QED BY <1>5, <1>6, <1>7, <1>8 DEF ExecuteStep

LEMMA LoopKnows ==
  ASSUME SchedulerTypeOK, Known, List \/ Pick
  PROVE  Known'
<1>. USE DEF executionVars, boundVars
<1>1. /\ Loop \in Actors /\ Loop \notin Commands /\ issued \in Nat
      /\ issued' = issued /\ clock' = clock /\ jobs' = jobs /\ fired' = fired /\ kind' = kind
  BY SchedulerConstants DEF Actors, List, Pick, SchedulerTypeOK
<1>2. \A j \in Ids : Exists(j)' <=> Exists(j)
  BY <1>1 DEF Exists
<1>3. Filed'
  <2>1. \A d \in todo' : Exists(d[1]) /\ Due(d[2])
    <3>1. CASE List
      BY <3>1 DEF List, Due, Exists
    <3>2. CASE Pick
      BY <3>2 DEF Pick, Known, Filed
    <3>. QED BY <3>1, <3>2
  <2>. QED BY <1>1, <2>1 DEF Known, Filed, Exists, Due
<1>4. HandOf(Loop)' /\ OnlyHand(Loop)
  <2>1. CASE \E next \in {"pick", "idle"} : Goto(Loop, next) /\ job' = job /\ copy' = copy
    BY <1>1, <2>1 DEF Goto, HandOf, AtJob, Adds, OnlyHand, SchedulerTypeOK
  <2>2. CASE \E d \in todo : Take(Loop, d[1], d[2], "claim")
    <3>1. PICK d \in todo : Take(Loop, d[1], d[2], "claim")
      BY <2>2
    <3>2. /\ pc' = [pc EXCEPT ![Loop] = "claim"] /\ job' = [job EXCEPT ![Loop] = d[1]]
          /\ copy' = [copy EXCEPT ![Loop] = d[2]]
      BY <3>1 DEF Take, Goto
    <3>3. pc'[Loop] = "claim" /\ job'[Loop] = d[1] /\ copy'[Loop] = d[2]
      BY <1>1, <3>2 DEF SchedulerTypeOK
    <3>4. OnlyHand(Loop)
      BY <1>1, <3>2 DEF OnlyHand, SchedulerTypeOK
    <3>5. Exists(d[1]) /\ Due(d[2]) /\ d[1] \in Ids
      BY DEF Known, Filed, SchedulerTypeOK
    <3>6. d[1] <= issued
      BY <3>5 DEF Known, Filed
    <3>7. Exists(job[Loop])' /\ ~Adds(Loop)'
      BY <1>1, <3>3, <3>5 DEF Exists, Adds
    <3>. QED BY <1>1, <3>3, <3>4, <3>5, <3>6, <3>7 DEF HandOf, Due
  <2>. QED BY <2>1, <2>2 DEF List, Pick
<1>5. \A b \in Actors \ {Loop} : Exists(job[b])' <=> Exists(job[b])
  BY <1>1, <1>4 DEF OnlyHand, Exists
<1>. QED BY <1>1, <1>3, <1>4, <1>5, HandsKnown DEF Known

LEMMA OthersKnow ==
  ASSUME SchedulerTypeOK, Known, Advance \/ Restart \/ UNCHANGED vars
  PROVE  Known'
<1>. USE DEF executionVars, boundVars, actorVars
<1>1. /\ jobs' = jobs /\ issued' = issued /\ fired' = fired /\ todo' \subseteq todo
      /\ clock' \in Nat /\ clock \in Nat /\ clock <= clock'
  BY DEF Advance, Restart, vars, SchedulerTypeOK
<1>2. Filed'
  <2>1. \A x \in fired : x[2] \in Nat
    BY SchedulerConstants DEF SchedulerTypeOK
  <2>2. \A d \in todo : d[2].next \in Nat
    BY SchedulerConstants DEF SchedulerTypeOK, Job
  <2>. QED BY <1>1, <2>1, <2>2 DEF Known, Filed, Exists, Due
<1>3. ASSUME NEW a \in Actors PROVE HandOf(a)'
  <2>1. CASE Restart
    BY <2>1 DEF Restart, HandOf, AtJob, Adds
  <2>2. CASE Advance \/ UNCHANGED vars
    <3>1. pc' = pc /\ kind' = kind /\ job' = job /\ copy' = copy
      BY <2>2 DEF Advance, vars
    <3>2. copy[a].next \in Nat
      BY SchedulerConstants DEF SchedulerTypeOK, Job
    <3>. QED BY <1>1, <3>1, <3>2 DEF Known, HandOf, AtJob, Adds, Exists
  <2>. QED BY <2>1, <2>2
<1>. QED BY <1>2, <1>3 DEF Known

LEMMA InitKnows == Init => Known
<1>. SUFFICES ASSUME Init PROVE Known
  OBVIOUS
<1>1. \A j \in Ids : Exists(j) => j <= issued
  <2>1. Absent.status = "none"
    <3>1. PICK n \in Names, s \in Slots : TRUE
      BY SchedulerConstants
    <3>2. [name |-> n, status |-> "none", next |-> s] \in {rec \in Job : rec.status = "none"}
      BY <3>1 DEF Job, Statuses
    <3>. QED BY <3>2 DEF Absent
  <2>. QED BY <2>1 DEF Init, Exists
<1>2. \A a \in Actors : pc[a] \in {"idle", "new"} /\ (a \in Commands => kind[a] = "add")
  BY DEF Init
<1>. QED BY <1>1, <1>2 DEF Init, Known, Filed, HandOf, AtJob, Adds

\* A step that starts nothing, saves nothing and leaves the loop where it is.
LEMMA StaysFresh ==
  ASSUME Fresh, jobs' = jobs, fired' \subseteq fired, todo' \subseteq todo,
         pc'[Loop] = pc[Loop], job'[Loop] = job[Loop], copy'[Loop] = copy[Loop],
         \A a \in Actors : pc'[a] = "saveRun" =>
             pc[a] = "saveRun" /\ job'[a] = job[a] /\ copy'[a] = copy[a]
  PROVE  Fresh'
<1>1. AtJob(Loop)' <=> AtJob(Loop)
  BY DEF AtJob
<1>2. \A j \in Ids : jobs'[j].status = "active" /\ <<j, jobs'[j].next>> \in fired' =>
          pc'[Loop] \in {"execute", "saveRun"} /\ job'[Loop] = j
  BY DEF Fresh
<1>3. \A d \in todo' : <<d[1], d[2].next>> \notin fired' /\ (AtJob(Loop)' => d[1] # job'[Loop])
  BY <1>1 DEF Fresh
<1>4. \A a \in Actors : pc'[a] = "saveRun" => SlotOf(a)' \notin fired'
  BY DEF Fresh, SlotOf
<1>5. pc'[Loop] = "claim" => SlotOf(Loop)' \notin fired'
  BY DEF Fresh, SlotOf
<1>6. \A d, e \in todo' : d[1] = e[1] => d = e
  BY DEF Fresh
<1>. QED BY <1>2, <1>3, <1>4, <1>5, <1>6 DEF Fresh

LEMMA SaveCommandFresh ==
  ASSUME SchedulerTypeOK, Known, Fresh, NEW c \in Commands, SaveCommand(c), Store(c),
         fired' = fired \ Rearmed(c)
  PROVE  Fresh'
<1>1. /\ c \in Actors /\ c # Loop /\ AtJob(c) /\ todo' = todo
      /\ jobs' = [jobs EXCEPT ![job[c]] = copy[c]] /\ Return(c)
  BY SchedulerConstants DEF Actors, AtJob, SaveCommand, Store
<1>2. /\ pc'[Loop] = pc[Loop] /\ job'[Loop] = job[Loop] /\ copy'[Loop] = copy[Loop]
      /\ \A a \in Actors : pc'[a] = "saveRun" =>
             pc[a] = "saveRun" /\ job'[a] = job[a] /\ copy'[a] = copy[a]
  BY <1>1 DEF Return, Take, Goto, SchedulerTypeOK
<1>3. copy[c].status = "active" => <<job[c], copy[c].next>> \notin fired'
  <2>1. CASE kind[c] = "resume"
    BY <2>1 DEF Rearmed
  <2>2. CASE kind[c] = "add"
    <3>1. ~Exists(job[c])
      BY <1>1, <2>2 DEF Known, HandOf, Adds, SaveCommand
    <3>. QED BY <3>1 DEF Known, Filed
  <2>. QED BY <1>1, <2>1, <2>2 DEF Known, HandOf, SaveCommand
<1>4. \A j \in Ids : jobs'[j] = jobs[j] \/ (j = job[c] /\ jobs'[j] = copy[c])
  BY <1>1 DEF SchedulerTypeOK
<1>5. \A j \in Ids : jobs'[j].status = "active" /\ <<j, jobs'[j].next>> \in fired' =>
          pc'[Loop] \in {"execute", "saveRun"} /\ job'[Loop] = j
  BY <1>2, <1>3, <1>4 DEF Fresh
<1>6. AtJob(Loop)' <=> AtJob(Loop)
  BY <1>2 DEF AtJob
<1>7. \A d \in todo' : <<d[1], d[2].next>> \notin fired' /\ (AtJob(Loop)' => d[1] # job'[Loop])
  BY <1>1, <1>2, <1>6 DEF Fresh
<1>8. \A a \in Actors : pc'[a] = "saveRun" => SlotOf(a)' \notin fired'
  BY <1>2 DEF Fresh, SlotOf
<1>9. pc'[Loop] = "claim" => SlotOf(Loop)' \notin fired'
  BY <1>2 DEF Fresh, SlotOf
<1>. QED BY <1>1, <1>5, <1>7, <1>8, <1>9 DEF Fresh

\* A start of a job is that of a slot it has not been started for, and no
\* other execution of the job is there to save an earlier one.
LEMMA StartFresh ==
  ASSUME SchedulerTypeOK, RunInv, Fresh, NEW a \in Actors, Claim(a), Start(a), job[a] \notin running
  PROVE  Fresh'
<1>1. /\ jobs' = jobs /\ todo' = todo /\ job' = job /\ copy' = copy
      /\ pc[a] = "claim" /\ pc' = [pc EXCEPT ![a] = "execute"]
      /\ fired' = IF a = Loop THEN fired \cup {SlotOf(a)} ELSE fired
  BY DEF Claim, Start, Goto, SlotOf
<1>2. \A b \in Actors \ {a} : pc'[b] = pc[b]
  BY <1>1 DEF SchedulerTypeOK
<1>3. pc'[a] = "execute" /\ Loop \in Actors
  BY <1>1 DEF SchedulerTypeOK, Actors
<1>4. CASE a # Loop
  BY <1>1, <1>2, <1>3, <1>4, StaysFresh
<1>5. CASE a = Loop
  <2>1. \A b \in Actors : pc'[b] = "saveRun" => SlotOf(b)' \notin fired'
    <3>. SUFFICES ASSUME NEW b \in Actors, pc'[b] = "saveRun" PROVE SlotOf(b)' \notin fired'
      OBVIOUS
    <3>1. b # a /\ pc[b] = "saveRun" /\ SlotOf(b)' = SlotOf(b)
      BY <1>1, <1>2, <1>3 DEF SlotOf
    <3>2. job[b] # job[a]
      BY <3>1 DEF RunInv, Claimed, InRun
    <3>. QED BY <1>1, <3>1, <3>2 DEF Fresh, SlotOf
  <2>2. AtJob(Loop) /\ AtJob(Loop)'
    BY <1>1, <1>3, <1>5 DEF AtJob
  <2>3. \A d \in todo' : <<d[1], d[2].next>> \notin fired' /\ (AtJob(Loop)' => d[1] # job'[Loop])
    BY <1>1, <1>5, <2>2 DEF Fresh, SlotOf
  <2>4. \A j \in Ids : jobs'[j].status = "active" /\ <<j, jobs'[j].next>> \in fired' =>
            pc'[Loop] \in {"execute", "saveRun"} /\ job'[Loop] = j
    BY <1>1, <1>3, <1>5 DEF Fresh, SlotOf
  <2>. QED BY <1>1, <1>3, <1>5, <2>1, <2>3, <2>4 DEF Fresh
<1>. QED BY <1>4, <1>5

LEMMA TaskEndsFresh ==
  ASSUME Recurring, SchedulerTypeOK, Known, Fresh, NEW a \in Actors, TaskEnds(a)
  PROVE  Fresh'
<1>1. PICK s \in NextRun(clock) : copy' = [copy EXCEPT ![a].next = s]
  BY DEF TaskEnds, Recurring, SchedulerTypeOK
<1>2. s \in Nat /\ s > clock /\ clock \in Nat
  BY SchedulerConstants DEF NextRun, Earliest, Following, SchedulerTypeOK
<1>3. /\ jobs' = jobs /\ fired' = fired /\ todo' = todo /\ job' = job
      /\ pc[a] = "execute" /\ pc' = [pc EXCEPT ![a] = "saveRun"]
  BY DEF TaskEnds, Goto, executionVars
<1>4. /\ \A b \in Actors \ {a} : pc'[b] = pc[b] /\ copy'[b] = copy[b]
      /\ pc'[a] = "saveRun" /\ copy'[a].next = s
  BY <1>1, <1>3 DEF SchedulerTypeOK, Job
<1>5. <<job[a], s>> \notin fired
  BY <1>2 DEF Known, Filed
<1>6. \A b \in Actors : pc'[b] = "saveRun" => SlotOf(b)' \notin fired'
  BY <1>3, <1>4, <1>5 DEF Fresh, SlotOf
<1>7. Loop \in Actors
  BY DEF Actors
<1>8. /\ AtJob(Loop)' <=> AtJob(Loop)
      /\ pc'[Loop] = "claim" => SlotOf(Loop)' = SlotOf(Loop) /\ pc[Loop] = "claim"
      /\ pc[Loop] \in {"execute", "saveRun"} => pc'[Loop] \in {"execute", "saveRun"}
  BY <1>3, <1>4, <1>7 DEF AtJob, SlotOf
<1>. QED BY <1>3, <1>6, <1>8 DEF Fresh

LEMMA SaveRunFresh ==
  ASSUME SchedulerTypeOK, Fresh, NEW a \in Actors, SaveRun(a), Store(a)
  PROVE  Fresh'
<1>1. /\ fired' = fired /\ todo' = todo /\ job' = job /\ copy' = copy
      /\ pc[a] = "saveRun" /\ pc' = [pc EXCEPT ![a] = "unclaim"]
      /\ jobs' = [jobs EXCEPT ![job[a]] = copy[a]]
  BY DEF SaveRun, Store, Goto, executionVars
<1>2. /\ \A b \in Actors \ {a} : pc'[b] = pc[b]
      /\ pc'[a] = "unclaim" /\ Loop \in Actors
  BY <1>1 DEF SchedulerTypeOK, Actors
<1>3. \A j \in Ids : jobs'[j] = jobs[j] \/ (j = job[a] /\ jobs'[j] = copy[a])
  BY <1>1 DEF SchedulerTypeOK
<1>4. SlotOf(a) \notin fired /\ jobs'[job[a]] = copy[a]
  BY <1>1 DEF Fresh, SchedulerTypeOK
<1>5. \A j \in Ids : jobs'[j].status = "active" /\ <<j, jobs'[j].next>> \in fired' =>
          pc'[Loop] \in {"execute", "saveRun"} /\ job'[Loop] = j
  <2>. SUFFICES ASSUME NEW j \in Ids, jobs'[j].status = "active", <<j, jobs'[j].next>> \in fired'
                PROVE  pc'[Loop] \in {"execute", "saveRun"} /\ job'[Loop] = j
    OBVIOUS
  <2>1. j # job[a] /\ jobs'[j] = jobs[j]
    BY <1>1, <1>3, <1>4 DEF SlotOf
  <2>2. pc[Loop] \in {"execute", "saveRun"} /\ job[Loop] = j
    BY <1>1, <2>1 DEF Fresh
  <2>3. a # Loop
    BY <2>1, <2>2
  <2>. QED BY <1>1, <1>2, <2>2, <2>3
<1>6. /\ AtJob(Loop)' <=> AtJob(Loop)
      /\ pc'[Loop] = "claim" => pc[Loop] = "claim"
  BY <1>1, <1>2 DEF AtJob
<1>7. \A b \in Actors : pc'[b] = "saveRun" => SlotOf(b)' \notin fired'
  BY <1>1, <1>2 DEF Fresh, SlotOf
<1>8. pc'[Loop] = "claim" => SlotOf(Loop)' \notin fired'
  BY <1>1, <1>6 DEF Fresh, SlotOf
<1>. QED BY <1>1, <1>5, <1>6, <1>7, <1>8 DEF Fresh

\* The loop lets go of a job that it has not started, or whose next slot it
\* has saved.
LEMMA LetsGoFresh ==
  ASSUME SchedulerTypeOK, Fresh, NEW a \in Actors, Claim(a) \/ Unclaim(a), Return(a),
         fired' = fired
  PROVE  Fresh'
<1>1. /\ jobs' = jobs /\ todo' = todo /\ pc[a] \in {"claim", "unclaim"}
  BY DEF Claim, Unclaim
<1>2. /\ \A b \in Actors \ {a} : pc'[b] = pc[b] /\ job'[b] = job[b] /\ copy'[b] = copy[b]
      /\ pc'[a] = IF a = Loop THEN "pick" ELSE "done"
  BY DEF Return, Take, Goto, SchedulerTypeOK
<1>3. CASE a # Loop
  BY <1>1, <1>2, <1>3, StaysFresh DEF Actors
<1>4. CASE a = Loop
  <2>1. ~AtJob(Loop)'
    BY <1>2, <1>4 DEF AtJob
  <2>2. \A b \in Actors : pc'[b] = "saveRun" => SlotOf(b)' \notin fired'
    BY <1>2, <1>4 DEF Fresh, SlotOf
  <2>3. \A j \in Ids : ~(jobs'[j].status = "active" /\ <<j, jobs'[j].next>> \in fired')
    BY <1>1, <1>4 DEF Fresh
  <2>4. pc'[Loop] # "claim"
    BY <1>2, <1>4
  <2>. QED BY <1>1, <2>1, <2>2, <2>3, <2>4 DEF Fresh
<1>. QED BY <1>3, <1>4

LEMMA TickFresh ==
  ASSUME SchedulerTypeOK, Fresh, List \/ Pick
  PROVE  Fresh'
<1>1. /\ jobs' = jobs /\ fired' = fired /\ pc[Loop] \in {"idle", "pick"} /\ Loop \in Actors
  BY DEF List, Pick, executionVars, Actors
<1>2. \A j \in Ids : ~(jobs'[j].status = "active" /\ <<j, jobs'[j].next>> \in fired')
  BY <1>1 DEF Fresh
<1>3. CASE List
  <2>1. /\ pc' = [pc EXCEPT ![Loop] = "pick"] /\ job' = job /\ copy' = copy
        /\ todo' = {<<j, jobs[j]>> : j \in {i \in Ids : Due(jobs[i])}}
    BY <1>3 DEF List, Goto
  <2>2. /\ \A b \in Actors \ {Loop} : pc'[b] = pc[b]
        /\ pc'[Loop] = "pick"
    BY <1>1, <2>1 DEF SchedulerTypeOK
  <2>3. \A b \in Actors : pc'[b] = "saveRun" => SlotOf(b)' \notin fired'
    BY <1>1, <2>1, <2>2 DEF Fresh, SlotOf
  <2>4. /\ \A d \in todo' : <<d[1], d[2].next>> \notin fired'
        /\ \A d, e \in todo' : d[1] = e[1] => d = e
    BY <1>1, <1>2, <2>1 DEF Due
  <2>5. ~AtJob(Loop)'
    BY <2>2 DEF AtJob
  <2>. QED BY <1>2, <2>2, <2>3, <2>4, <2>5 DEF Fresh
<1>4. CASE todo = {} /\ Goto(Loop, "idle") /\ UNCHANGED <<job, copy, todo>>
  <2>1. pc' = [pc EXCEPT ![Loop] = "idle"] /\ todo' = {} /\ job' = job /\ copy' = copy
    BY <1>4 DEF Goto
  <2>2. /\ \A b \in Actors \ {Loop} : pc'[b] = pc[b]
        /\ pc'[Loop] = "idle"
    BY <1>1, <2>1 DEF SchedulerTypeOK
  <2>3. \A b \in Actors : pc'[b] = "saveRun" => SlotOf(b)' \notin fired'
    BY <1>1, <2>1, <2>2 DEF Fresh, SlotOf
  <2>. QED BY <1>2, <2>1, <2>2, <2>3 DEF Fresh
<1>5. CASE \E d \in todo : todo' = todo \ {d} /\ Take(Loop, d[1], d[2], "claim")
  <2>1. PICK d \in todo : todo' = todo \ {d} /\ Take(Loop, d[1], d[2], "claim")
    BY <1>5
  <2>2. /\ pc' = [pc EXCEPT ![Loop] = "claim"] /\ job' = [job EXCEPT ![Loop] = d[1]]
        /\ copy' = [copy EXCEPT ![Loop] = d[2]]
    BY <2>1 DEF Take, Goto
  <2>3. /\ \A b \in Actors \ {Loop} : pc'[b] = pc[b] /\ job'[b] = job[b] /\ copy'[b] = copy[b]
        /\ pc'[Loop] = "claim" /\ job'[Loop] = d[1] /\ copy'[Loop] = d[2]
    BY <1>1, <2>2 DEF SchedulerTypeOK
  <2>4. \A b \in Actors : pc'[b] = "saveRun" => SlotOf(b)' \notin fired'
    BY <1>1, <2>3 DEF Fresh, SlotOf
  <2>5. SlotOf(Loop)' \notin fired'
    BY <1>1, <2>3 DEF Fresh, SlotOf
  <2>6. \A e \in todo' : <<e[1], e[2].next>> \notin fired' /\ e[1] # job'[Loop]
    <3>1. todo' = todo \ {d} /\ \A e \in todo : e[1] = d[1] => e = d
      BY <2>1 DEF Fresh
    <3>. QED BY <1>1, <2>3, <3>1 DEF Fresh
  <2>7. \A e, f \in todo' : e[1] = f[1] => e = f
    BY <2>1 DEF Fresh
  <2>. QED BY <1>2, <2>4, <2>5, <2>6, <2>7 DEF Fresh
<1>. QED BY <1>3, <1>4, <1>5 DEF Pick

LEMMA NextFresh ==
  ASSUME Recurring, SchedulerTypeOK, RunInv, Known, Fresh, Quiet', [Next]_vars
  PROVE  Fresh'
<1>. USE DEF executionVars, boundVars
<1>1. faults \in Nat /\ restarts \in Nat /\ Loop \notin Commands
  BY SchedulerConstants DEF SchedulerTypeOK
<1>2. ~StoreFails /\ ~Restart
  BY <1>1 DEF StoreFails, Restart, Quiet
<1>3. ASSUME NEW c \in Commands, Add(c) \/ Resolve(c) PROVE Fresh'
  <2>1. jobs' = jobs /\ fired' = fired /\ todo' = todo
    BY <1>3 DEF Add, Resolve
  <2>2. \/ Return(c)
        \/ \E j, rec : \E next \in {"save", "claim"} : Take(c, j, rec, next)
    BY <1>3 DEF Add, Resolve
  <2>3. \E j, rec : \E next \in {"save", "claim", "done"} : Take(c, j, rec, next)
    <3>1. CASE Return(c)
      BY <1>1, <3>1 DEF Return
    <3>. QED BY <2>2, <3>1
  <2>4. /\ pc'[Loop] = pc[Loop] /\ job'[Loop] = job[Loop] /\ copy'[Loop] = copy[Loop]
        /\ \A a \in Actors : pc'[a] = "saveRun" =>
               pc[a] = "saveRun" /\ job'[a] = job[a] /\ copy'[a] = copy[a]
    BY <1>1, <2>3 DEF Take, Goto, SchedulerTypeOK, Actors
  <2>. QED BY <2>1, <2>4, StaysFresh
<1>4. ASSUME NEW a \in Actors, ExecuteStep(a) PROVE Fresh'
  <2>1. CASE Claim(a)
    BY <2>1, StartFresh, LetsGoFresh DEF Claim
  <2>2. CASE TaskEnds(a)
    BY <2>2, TaskEndsFresh
  <2>3. CASE SaveRun(a)
    BY <1>2, <2>3, SaveRunFresh DEF SaveRun
  <2>4. CASE Unclaim(a)
    BY <2>4, LetsGoFresh DEF Unclaim
  <2>. QED BY <1>4, <2>1, <2>2, <2>3, <2>4 DEF ExecuteStep
<1>5. ASSUME NEW c \in Commands, SaveCommand(c) PROVE Fresh'
  BY <1>2, <1>5, SaveCommandFresh DEF SaveCommand
<1>6. CASE LoopStep
  BY <1>4, <1>6, TickFresh DEF LoopStep, Actors
<1>7. CASE Advance \/ UNCHANGED vars
  BY <1>7, StaysFresh DEF Advance, vars, actorVars
<1>. QED BY <1>2, <1>3, <1>4, <1>5, <1>6, <1>7 DEF Next, CommandStep, Actors

LEMMA InitFresh == Init => Fresh
  BY DEF Init, Fresh, AtJob

\* Nothing that failed or restarted is undone, so what is quiet was quiet.
LEMMA StaysQuiet ==
  ASSUME SchedulerTypeOK, [Next]_vars, Quiet'
  PROVE  Quiet
<1>1. faults \in Nat /\ restarts \in Nat
  BY SchedulerConstants DEF SchedulerTypeOK
<1>2. faults <= faults' /\ restarts <= restarts'
  BY <1>1 DEF Next, Add, Resolve, CommandStep, SaveCommand, ExecuteStep, Claim, TaskEnds, SaveRun,
              Unclaim, Store, StoreFails, LoopStep, List, Pick, Advance, Restart, vars, boundVars
<1>. QED BY <1>1, <1>2 DEF Quiet

LEMMA NextKnows ==
  ASSUME SchedulerTypeOK, Known, [Next]_vars
  PROVE  Known'
<1>1. Commands \subseteq Actors /\ Loop \in Actors
  BY DEF Actors
<1>. QED BY <1>1, AddKnows, ResolveKnows, SaveCommandKnows, ExecuteKnows, LoopKnows, OthersKnow
         DEF Next, CommandStep, LoopStep

\* If schedules always name a next run, the loop starts a job once for a slot,
\* however many commands change the job on copies of their own, unless a save
\* failed or ClawX restarted.
THEOREM SlotsAreServedOnce ==
  ASSUME Recurring
  PROVE  Spec => OncePerSlot
<1>. DEFINE FreshInv == Quiet => Fresh
<1>1. SchedulerTypeOK /\ Known /\ [Next]_vars => Known'
  BY NextKnows
<1>2. SchedulerTypeOK /\ RunInv /\ Known /\ FreshInv /\ [Next]_vars => FreshInv'
  BY Recurring, NextFresh, StaysQuiet
<1>3. Init => FreshInv
  BY InitFresh
<1>4. FreshInv =>
        (pc[Loop] = "claim" /\ pc'[Loop] = "execute" /\ faults = 0 /\ restarts = 0
           => <<job[Loop], copy[Loop].next>> \notin fired)
  BY DEF Quiet, Fresh, SlotOf
<1>. HIDE DEF FreshInv
<1>. QED BY <1>1, <1>2, <1>3, <1>4, InitKnows, SchedulerTypes, RunsAreClaimed, PTL DEF Spec, OncePerSlot

=============================================================================
