--------------------------- MODULE ManagedService ---------------------------
(***************************************************************************)
(* One managed service of one project and agent: /service start and stop   *)
(* commands, the processes they start, the goroutine that waits for each   *)
(* process, the map of running services and the record on disk.  The mutex *)
(* of Service covers one look at the map or one change of it; everything   *)
(* between two of them interleaves.                                        *)
(***************************************************************************)
EXTENDS Naturals, FiniteSets

CONSTANTS
    Starters,     \* inbound /service start commands; also names their processes
    Stoppers,     \* inbound /service stop commands
    None,         \* no process, no entry in the map
    MaxFaults, MaxRestarts   \* bounds: writes of the record that fail, restarts

ASSUME ServiceConstants ==
    /\ None \notin Starters
    /\ Starters \cap Stoppers = {}
    /\ MaxFaults \in Nat /\ MaxRestarts \in Nat

VARIABLES
    running,    \* Service.running of the service's key
    rec,        \* the record file
    proc,       \* the process of each start command
    pc,         \* next step of a start or stop command
    waiter,     \* next step of the goroutine that waits for a process
    handle,     \* the process a stop command found in the map
    copy,       \* the record a stop command has read
    loose,      \* history: starts have overlapped, or a process outlived ClawX
    faults, restarts

commandVars == <<pc, handle, copy>>
boundVars == <<faults, restarts>>
vars == <<running, rec, proc, waiter, loose, commandVars, boundVars>>

Commands == Starters \cup Stoppers
Handles == Starters \cup {None}
Record == [status : {"none", "running", "stopped", "failed"}, process : Handles]
NoRecord == [status |-> "none", process |-> None]   \* the file is not there

Alive(s) == proc[s] = "alive"
Ended(s) == proc[s] \in {"exited", "failed"}

\* A start command that has looked at the map and not yet changed it.
Starting(s) == pc[s] \in {"spawn", "write", "register"}

Init ==
    /\ running = None
    /\ rec \in {NoRecord} \cup [status : {"running", "stopped", "failed"}, process : {None}]
    /\ proc = [s \in Starters |-> "none"]
    /\ pc = [c \in Commands |-> "new"]
    /\ waiter = [s \in Starters |-> "none"]
    /\ handle = [k \in Stoppers |-> None]
    /\ copy = [k \in Stoppers |-> NoRecord]
    /\ loose = FALSE
    /\ faults = 0 /\ restarts = 0

Goto(c, next) == pc' = [pc EXCEPT ![c] = next]

\* writeRecord renames a complete file into place, or fails and leaves the old.
Write(r) == rec' = r /\ UNCHANGED faults

WriteFails ==
    /\ faults < MaxFaults
    /\ faults' = faults + 1
    /\ UNCHANGED rec

-----------------------------------------------------------------------------
(* Start.                                                                  *)

\* Fault: a start does not look whether the service runs.
StartUnchecked(s) ==
    /\ pc[s] = "new"
    /\ Goto(s, "spawn")
    /\ loose' = (loose \/ \E t \in Starters : Starting(t))
    /\ UNCHANGED <<running, rec, proc, waiter, handle, copy, boundVars>>

StartCheck(s) ==
    /\ pc[s] = "new"
    /\ \/ running # None /\ Goto(s, "refused") /\ UNCHANGED loose
       \/ /\ running = None
          /\ Goto(s, "spawn")
          /\ loose' = (loose \/ \E t \in Starters : Starting(t))
    /\ UNCHANGED <<running, rec, proc, waiter, handle, copy, boundVars>>

\* The directories, the log file and the process; any of them may fail.
Spawn(s) ==
    /\ pc[s] = "spawn"
    /\ \/ proc' = [proc EXCEPT ![s] = "alive"] /\ Goto(s, "write")
       \/ Goto(s, "refused") /\ UNCHANGED proc
    /\ UNCHANGED <<running, rec, waiter, handle, copy, loose, boundVars>>

Kill(s) == proc' = [proc EXCEPT ![s] = IF @ = "alive" THEN "failed" ELSE @]

\* Fault: a start that cannot write its record leaves the process alone.
WriteStartedOnly(s) ==
    /\ pc[s] = "write"
    /\ \/ Write([status |-> "running", process |-> s]) /\ Goto(s, "register")
       \/ WriteFails /\ Goto(s, "refused")
    /\ UNCHANGED <<running, proc, waiter, handle, copy, loose, restarts>>

WriteStarted(s) ==
    /\ pc[s] = "write"
    /\ \/ /\ Write([status |-> "running", process |-> s])
          /\ Goto(s, "register")
          /\ UNCHANGED proc
       \/ WriteFails /\ Kill(s) /\ Goto(s, "refused")
    /\ UNCHANGED <<running, waiter, handle, copy, loose, restarts>>

Register(s) ==
    /\ pc[s] = "register"
    /\ running' = s
    /\ waiter' = [waiter EXCEPT ![s] = "wait"]
    /\ Goto(s, "done")
    /\ UNCHANGED <<rec, proc, handle, copy, loose, boundVars>>

StartStep(s) == Spawn(s) \/ WriteStarted(s) \/ Register(s)

-----------------------------------------------------------------------------
(* The process and the goroutine that waits for it.                        *)

ProcessEnds(s) ==
    /\ Alive(s)
    /\ \E end \in {"exited", "failed"} : proc' = [proc EXCEPT ![s] = end]
    /\ UNCHANGED <<running, rec, waiter, loose, commandVars, boundVars>>

\* Fault: the entry of the map stays.
UnregisterNot(s) ==
    /\ waiter[s] = "wait" /\ Ended(s)
    /\ waiter' = [waiter EXCEPT ![s] = "write"]
    /\ UNCHANGED <<running, rec, proc, loose, commandVars, boundVars>>

\* Fault: the end of a process is not written.
UnregisterOnly(s) ==
    /\ waiter[s] = "wait" /\ Ended(s)
    /\ running' = None
    /\ waiter' = [waiter EXCEPT ![s] = "done"]
    /\ UNCHANGED <<rec, proc, loose, commandVars, boundVars>>

\* Wait returns; the key is deleted, whatever process it stands for by now.
Unregister(s) ==
    /\ waiter[s] = "wait" /\ Ended(s)
    /\ running' = None
    /\ waiter' = [waiter EXCEPT ![s] = "write"]
    /\ UNCHANGED <<rec, proc, loose, commandVars, boundVars>>

\* Fault: the record names the process's end, which is no status.
WriteEnd(s) ==
    /\ waiter[s] = "write"
    /\ Write([status |-> proc[s], process |-> s]) \/ WriteFails
    /\ waiter' = [waiter EXCEPT ![s] = "done"]
    /\ UNCHANGED <<running, proc, loose, commandVars, restarts>>

WriteEnded(s) ==
    /\ waiter[s] = "write"
    /\ \/ Write([status |-> IF proc[s] = "exited" THEN "stopped" ELSE "failed", process |-> s])
       \/ WriteFails
    /\ waiter' = [waiter EXCEPT ![s] = "done"]
    /\ UNCHANGED <<running, proc, loose, commandVars, restarts>>

WaiterStep(s) == Unregister(s) \/ WriteEnded(s)

-----------------------------------------------------------------------------
(* Stop.                                                                   *)

StopLook(k) ==
    /\ pc[k] = "new"
    /\ handle' = [handle EXCEPT ![k] = running]
    /\ Goto(k, IF running = None THEN "read" ELSE "signal")
    /\ UNCHANGED <<running, rec, proc, waiter, copy, loose, boundVars>>

\* The process may heed the interrupt, in any way.
Signal(k) ==
    /\ pc[k] = "signal"
    /\ \/ UNCHANGED proc
       \/ /\ Alive(handle[k])
          /\ \E end \in {"exited", "failed"} : proc' = [proc EXCEPT ![handle[k]] = end]
    /\ Goto(k, "kill")
    /\ UNCHANGED <<running, rec, waiter, handle, copy, loose, boundVars>>

\* After 1.5 seconds, or when the command's context ends.
StopKill(k) ==
    /\ pc[k] = "kill"
    /\ Kill(handle[k])
    /\ Goto(k, "read")
    /\ UNCHANGED <<running, rec, waiter, handle, copy, loose, boundVars>>

\* A command that found no process changes a record that says running only.
StopRead(k) ==
    /\ pc[k] = "read"
    /\ LET changes == IF handle[k] = None THEN {"running"} ELSE {"running", "stopped", "failed"}
       IN  \/ /\ rec.status \in changes
              /\ copy' = [copy EXCEPT ![k] = rec]
              /\ Goto(k, "write")
           \/ /\ rec.status \notin changes
              /\ Goto(k, "done")
              /\ UNCHANGED copy
    /\ UNCHANGED <<running, rec, proc, waiter, handle, loose, boundVars>>

\* A write that fails is ignored.
StopWrite(k) ==
    /\ pc[k] = "write" /\ k \in Stoppers
    /\ Write([copy[k] EXCEPT !.status = "stopped"]) \/ WriteFails
    /\ Goto(k, "done")
    /\ copy' = [copy EXCEPT ![k] = NoRecord]
    /\ UNCHANGED <<running, proc, waiter, handle, loose, restarts>>

StopStep(k) == Signal(k) \/ StopKill(k) \/ StopRead(k) \/ StopWrite(k)

-----------------------------------------------------------------------------
\* ClawX ends and starts again with an empty map.  Its commands are lost; the
\* processes are not, and nobody waits for them any more.
Restart ==
    /\ restarts < MaxRestarts
    /\ restarts' = restarts + 1
    /\ running' = None
    /\ waiter' = [s \in Starters |-> "none"]
    /\ pc' = [c \in Commands |-> IF pc[c] \in {"new", "refused"} THEN pc[c] ELSE "lost"]
    /\ handle' = [k \in Stoppers |-> None]
    /\ copy' = [k \in Stoppers |-> NoRecord]
    /\ loose' = (loose \/ \E s \in Starters : Alive(s))
    /\ UNCHANGED <<rec, proc, faults>>

Next ==
    \/ \E s \in Starters : StartCheck(s) \/ StartStep(s) \/ ProcessEnds(s) \/ WaiterStep(s)
    \/ \E k \in Stoppers : StopLook(k) \/ StopStep(k)
    \/ Restart

\* Commands that have begun and the waiting goroutines go on: they wait for
\* nothing but the process, a timer and the mutex.  Processes need not end.
Fairness ==
    /\ \A s \in Starters : WF_vars(StartStep(s)) /\ WF_vars(WaiterStep(s))
    /\ \A k \in Stoppers : WF_vars(StopStep(k))

Spec == Init /\ [][Next]_vars /\ Fairness

-----------------------------------------------------------------------------
(* Properties.                                                             *)

\* The types of the service's state.
ServiceTypeOK ==
    /\ running \in Handles
    /\ rec \in Record
    /\ proc \in [Starters -> {"none", "alive", "exited", "failed"}]
    /\ pc \in [Commands -> {"new", "spawn", "write", "register", "signal", "kill",
                            "read", "done", "refused", "lost"}]
    /\ waiter \in [Starters -> {"none", "wait", "write", "done"}]
    /\ handle \in [Stoppers -> Handles]
    /\ copy \in [Stoppers -> Record]
    /\ loose \in BOOLEAN
    /\ faults \in 0..MaxFaults
    /\ restarts \in 0..MaxRestarts

\* A service has one process, as long as no two starts overlapped and no
\* process outlived a restart of ClawX: the check of the map at the start then
\* suffices, also against waiters and stops of an earlier process.
OneProcess == ~loose => Cardinality({s \in Starters : Alive(s)}) <= 1

\* What /service status says of the service: the map first, then the record.
Reported ==
    IF running # None THEN "running"
    ELSE IF rec.status = "running" THEN "stopped" ELSE rec.status

\* A process whose start was answered is reported as running until it ends,
\* as long as starts did not overlap and none outlived a restart: the goroutine
\* of an earlier process must not take its entry away.
LiveIsReported ==
    ~loose => \A s \in Starters : pc[s] = "done" /\ Alive(s) => Reported = "running" /\ running = s

\* A start that is refused leaves no process behind, whatever failed.
RefusedLeavesNone == \A s \in Starters : pc[s] = "refused" => ~Alive(s)

\* A process that has ended does not stay in the map, where it would be
\* reported as running and refuse every start.
EndedIsForgotten == \A s \in Starters : (Ended(s) /\ running = s) ~> running # s

\* Between operations a record that says running tells the truth: without a
\* failed write or a restart, its process runs or its end is about to be written.
RecordIsTrue ==
    faults = 0 /\ restarts = 0 /\ rec.status = "running" /\ rec.process # None
        => \/ Alive(rec.process)
           \/ pc[rec.process] = "register"
           \/ waiter[rec.process] \in {"wait", "write"}
=============================================================================
