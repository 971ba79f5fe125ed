----------------------------- MODULE Scheduler -----------------------------
(***************************************************************************)
(* The scheduler: the jobs of one scope in jobs.json, chat commands that   *)
(* add, pause, resume, remove and run them, and LoopRunner, which runs the *)
(* jobs that are due.  Service.running keeps a job from running twice.     *)
(*                                                                         *)
(* A store call is one step (SchedulerFileStore's mutex); what a command   *)
(* or the loop holds between two calls is a copy of the job.  A job's      *)
(* schedule is the set Slots of times, of which nextRunFromExpr finds those *)
(* up to Horizon (366 days) away; ids are given in the order of creation,  *)
(* which is also the order of the file.                                    *)
(***************************************************************************)
EXTENDS Naturals

CONSTANTS
    Names,
    Commands,     \* inbound /schedule commands, each handled by a goroutine
    Loop,         \* the goroutine of LoopRunner.Run
    Slots,        \* the times the jobs' cron expressions name
    Horizon,      \* how far nextRunFromExpr looks for the next of them
    MaxJobs, MaxTime, MaxFaults, MaxRestarts   \* bounds

ASSUME SchedulerConstants ==
    /\ Names # {}
    /\ Loop \notin Commands
    /\ MaxJobs \in Nat /\ MaxTime \in Nat /\ MaxFaults \in Nat /\ MaxRestarts \in Nat
    /\ Slots \subseteq Nat /\ Slots # {} /\ Horizon \in Nat

VARIABLES
    jobs,       \* jobs.json: job id -> job
    issued,     \* number of ids given
    running,    \* Service.running
    clock,
    pc,         \* next step of a command or of the loop
    kind,       \* what a command does
    job,        \* the id a command or the loop works on, while it does
    copy,       \* the job as it was read, changed since by its holder only
    todo,       \* the jobs this tick found due and has not come to: <<id, copy>>
    fired,      \* history: <<id, slot>> the loop has started
    faults, restarts

executionVars == <<running, fired>>
actorVars == <<pc, kind, job, copy>>
boundVars == <<faults, restarts>>
vars == <<jobs, issued, clock, executionVars, actorVars, todo, boundVars>>

Ids == 1..MaxJobs
NoJob == 0
Actors == Commands \cup {Loop}
Statuses == {"none", "active", "paused", "removed"}   \* "none": not in the file
Job == [name : Names, status : Statuses, next : Slots]
Absent == CHOOSE rec \in Job : rec.status = "none"
Kinds == {"add", "pause", "resume", "remove", "run"}

-----------------------------------------------------------------------------
\* nextRunFromExpr: {} is its error "no next run found for cron".
Following(t) == {s \in Slots : s > t /\ s <= t + Horizon}
Earliest(S) == {s \in S : \A u \in S : s <= u}

\* Faults: the slot of a job that has just run is found again; any minute is one.
NextSameMinute(t) == Earliest(Following(t) \cup (Slots \cap {t}))
NextMinute(t) == {t + 1}
NextRun(t) == Earliest(Following(t))

Exists(j) == jobs[j].status # "none"

\* SchedulerFileStore.GetByName finds the first job of the name, removed or not.
FirstNamed(n) == {j \in Ids : /\ Exists(j) /\ jobs[j].name = n
                              /\ \A i \in 1..(j - 1) : ~(Exists(i) /\ jobs[i].name = n)}

Taken(n) == \E j \in FirstNamed(n) : jobs[j].status # "removed"

\* What Pause, Resume, Remove and RunNow make of the job they have read: {} is
\* an error, of RunNow for a removed job and of Resume without a next run.
Changed(rec, k) ==
    CASE k = "pause"  -> {[rec EXCEPT !.status = "paused"]}
      [] k = "resume" -> {[rec EXCEPT !.status = "active", !.next = s] : s \in NextRun(clock)}
      [] k = "remove" -> {[rec EXCEPT !.status = "removed"]}
      [] k = "run"    -> {rec} \ {[rec EXCEPT !.status = "removed"]}

Due(rec) == rec.status = "active" /\ rec.next <= clock

\* jobs.json as an earlier process may have left it.
Init ==
    /\ issued \in 0..MaxJobs
    /\ jobs \in {f \in [Ids -> Job] :
                   \A j \in Ids : IF j <= issued THEN f[j].status # "none" ELSE f[j] = Absent}
    /\ running = {}
    /\ clock = 0
    /\ pc = [a \in Actors |-> IF a = Loop THEN "idle" ELSE "new"]
    /\ kind = [c \in Commands |-> "add"]
    /\ job = [a \in Actors |-> NoJob]
    /\ copy = [a \in Actors |-> Absent]
    /\ todo = {}
    /\ fired = {}
    /\ faults = 0 /\ restarts = 0

Goto(a, next) == pc' = [pc EXCEPT ![a] = next]

Take(a, j, rec, next) ==
    /\ job' = [job EXCEPT ![a] = j]
    /\ copy' = [copy EXCEPT ![a] = rec]
    /\ Goto(a, next)

\* A command that is answered and an execution that returns: the copy goes.
Return(a) == Take(a, NoJob, Absent, IF a = Loop THEN "pick" ELSE "done")

-----------------------------------------------------------------------------
(* Commands.                                                               *)

\* Add: the look-up of the name and, with a time of its own, the new job.
Add(c) ==
    /\ pc[c] = "new"
    /\ \E n \in Names :
          \/ /\ Taken(n) \/ NextRun(clock) = {}
             /\ Return(c)
             /\ UNCHANGED issued
          \/ /\ ~Taken(n) /\ issued < MaxJobs
             /\ issued' = issued + 1
             /\ \E s \in NextRun(clock) :
                   Take(c, issued', [name |-> n, status |-> "active", next |-> s], "save")
    /\ UNCHANGED <<jobs, clock, executionVars, kind, todo, boundVars>>

\* resolveJob, then what the command changes in its copy.  A job is named by
\* its id, so any job of the file may be meant, also one that was removed.
Resolve(c) ==
    /\ pc[c] = "new"
    /\ \E k \in Kinds \ {"add"}, j \in Ids :
          LET found == IF Exists(j) THEN Changed(jobs[j], k) ELSE {}
          IN  \/ found = {} /\ Return(c) /\ UNCHANGED kind
              \/ \E rec \in found :
                    /\ kind' = [kind EXCEPT ![c] = k]
                    /\ Take(c, j, rec, IF k = "run" THEN "claim" ELSE "save")
    /\ UNCHANGED <<jobs, issued, clock, executionVars, todo, boundVars>>

\* A resumed job waits for its slot once more.
Rearmed(c) == IF kind[c] = "resume" THEN {<<job[c], copy[c].next>>} ELSE {}

\* SchedulerFileStore.Save replaces the file or, when it fails, leaves it.
Store(a) == jobs' = [jobs EXCEPT ![job[a]] = copy[a]] /\ UNCHANGED boundVars

StoreFails ==
    /\ faults < MaxFaults
    /\ faults' = faults + 1
    /\ UNCHANGED <<jobs, restarts>>

SaveCommand(c) ==
    /\ pc[c] = "save"
    /\ \/ Store(c) /\ fired' = fired \ Rearmed(c)
       \/ StoreFails /\ UNCHANGED fired
    /\ kind' = [kind EXCEPT ![c] = "add"]
    /\ Return(c)
    /\ UNCHANGED <<issued, clock, running, todo>>

-----------------------------------------------------------------------------
(* executeJob, of the loop and of /schedule run.                           *)

Start(a) ==
    /\ running' = running \cup {job[a]}
    /\ fired' = IF a = Loop THEN fired \cup {<<job[a], copy[a].next>>} ELSE fired
    /\ Goto(a, "execute")
    /\ UNCHANGED <<job, copy>>

\* Fault: an execution that should be refused starts all the same.
ClaimAlways(a) ==
    /\ pc[a] = "claim"
    /\ Start(a)
    /\ UNCHANGED <<jobs, issued, clock, kind, todo, boundVars>>

Claim(a) ==
    /\ pc[a] = "claim"
    /\ \/ job[a] \in running /\ Return(a) /\ UNCHANGED executionVars
       \/ job[a] \notin running /\ Start(a)
    /\ UNCHANGED <<jobs, issued, clock, kind, todo, boundVars>>

\* The task ends, well or not; its run record is appended and the next slot set
\* if one is found.
TaskEnds(a) ==
    /\ pc[a] = "execute"
    /\ \/ \E s \in NextRun(clock) : copy' = [copy EXCEPT ![a].next = s]
       \/ NextRun(clock) = {} /\ UNCHANGED copy
    /\ Goto(a, "saveRun")
    /\ UNCHANGED <<jobs, issued, clock, executionVars, kind, job, todo, boundVars>>

\* A save that fails is ignored.
SaveRun(a) ==
    /\ pc[a] = "saveRun"
    /\ Store(a) \/ StoreFails
    /\ Goto(a, "unclaim")
    /\ UNCHANGED <<issued, clock, executionVars, kind, job, copy, todo>>

\* Fault: the entry of running stays.
UnclaimNot(a) ==
    /\ pc[a] = "unclaim"
    /\ Return(a)
    /\ UNCHANGED <<jobs, issued, clock, executionVars, kind, todo, boundVars>>

Unclaim(a) ==
    /\ pc[a] = "unclaim"
    /\ running' = running \ {job[a]}
    /\ Return(a)
    /\ UNCHANGED <<jobs, issued, clock, fired, kind, todo, boundVars>>

ExecuteStep(a) == Claim(a) \/ TaskEnds(a) \/ SaveRun(a) \/ Unclaim(a)

CommandStep(c) == SaveCommand(c) \/ ExecuteStep(c)

-----------------------------------------------------------------------------
(* The loop.                                                               *)

\* Tick lists all jobs once; one time decides which of them are due.
List ==
    /\ pc[Loop] = "idle"
    /\ todo' = {<<j, jobs[j]>> : j \in {i \in Ids : Due(jobs[i])}}
    /\ Goto(Loop, "pick")
    /\ UNCHANGED <<jobs, issued, clock, executionVars, kind, job, copy, boundVars>>

\* The order, by name, is left open.
Pick ==
    /\ pc[Loop] = "pick"
    /\ \/ /\ todo = {}
          /\ Goto(Loop, "idle")
          /\ UNCHANGED <<job, copy, todo>>
       \/ \E d \in todo : todo' = todo \ {d} /\ Take(Loop, d[1], d[2], "claim")
    /\ UNCHANGED <<jobs, issued, clock, executionVars, kind, boundVars>>

LoopStep == List \/ Pick \/ ExecuteStep(Loop)

-----------------------------------------------------------------------------
Advance ==
    /\ clock < MaxTime
    /\ clock' = clock + 1
    /\ UNCHANGED <<jobs, issued, executionVars, actorVars, todo, boundVars>>

\* The process stops, on its own account or because a tick could not list the
\* jobs (which ends the process), and starts again with what jobs.json holds.
Restart ==
    /\ restarts < MaxRestarts
    /\ restarts' = restarts + 1
    /\ running' = {}
    /\ pc' = [a \in Actors |-> IF a = Loop THEN "idle"
                               ELSE IF pc[a] = "new" THEN "new" ELSE "done"]
    /\ kind' = [c \in Commands |-> "add"]
    /\ job' = [a \in Actors |-> NoJob]
    /\ copy' = [a \in Actors |-> Absent]
    /\ todo' = {}
    /\ UNCHANGED <<jobs, issued, clock, fired, faults>>

Next ==
    \/ \E c \in Commands : Add(c) \/ Resolve(c) \/ CommandStep(c)
    \/ LoopStep
    \/ Advance
    \/ Restart

\* The loop ticks for ever and a handler waits for nobody; the one task there
\* is, a scan of a directory, ends.  Commands and restarts need not come, and
\* time, which the model bounds, need not pass.
Fairness ==
    /\ WF_vars(LoopStep)
    /\ \A c \in Commands : WF_vars(CommandStep(c))

Spec == Init /\ [][Next]_vars /\ Fairness

-----------------------------------------------------------------------------
(* Properties.                                                             *)

PCs == {"new", "save", "claim", "execute", "saveRun", "unclaim",
        "done", "idle", "pick"}

\* The types of the scheduler's state.
SchedulerTypeOK ==
    /\ jobs \in [Ids -> Job]
    /\ issued \in 0..MaxJobs
    /\ running \subseteq Ids
    /\ clock \in 0..MaxTime
    /\ pc \in [Actors -> PCs]
    /\ kind \in [Commands -> Kinds]
    /\ job \in [Actors -> Ids \cup {NoJob}]
    /\ \A a \in Actors : pc[a] \in {"save", "claim", "execute", "saveRun", "unclaim"} => job[a] \in Ids
    /\ copy \in [Actors -> Job]
    /\ todo \subseteq (Ids \X Job)
    /\ fired \subseteq (Ids \X Slots)
    /\ faults \in 0..MaxFaults
    /\ restarts \in 0..MaxRestarts

InRun(a) == pc[a] \in {"execute", "saveRun", "unclaim"}

\* A job has at most one active execution (FR-011), counted up to the save of
\* its outcome, so that no execution overwrites what another one has saved.
OneRun ==
    \A a, b \in Actors : InRun(a) /\ InRun(b) /\ job[a] = job[b] => a = b

\* The loop starts a job once for a slot, whatever commands run, pause, resume
\* or remove meanwhile on copies of their own: only a resume, a lost save or a
\* restart brings the same slot back.
OncePerSlot ==
    [][pc[Loop] = "claim" /\ pc'[Loop] = "execute" /\ faults = 0 /\ restarts = 0
       => <<job[Loop], copy[Loop].next>> \notin fired]_vars

\* A due job does not stay due: it is run, or stopped by a command, whatever
\* fails and also after a restart (FR-010, FR-014).
DueIsServed == \A j \in Ids : Due(jobs[j]) ~> ~Due(jobs[j])
=============================================================================
