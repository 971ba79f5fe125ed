--------------------------- MODULE SessionRecord ---------------------------
(***************************************************************************)
(* session.Record and its methods (src/internal/domain/session/session.go) *)
(* as values and operators: what every session repository stores and what  *)
(* every caller of the session manager copies, changes and writes back.    *)
(*                                                                         *)
(* Abstractions.  A lock token is the name of the request that acquired    *)
(* it: tokens are unique and a request acquires at most one.  A backend    *)
(* session (BackendSessionID) is the directory it was started in, which is *)
(* all the code's own rule about it speaks of.  A home is the conversation *)
(* and the project a session was created in, NoHome where the repository   *)
(* has no such session.  Window, agent, backend name and time stamp of a   *)
(* record decide nothing here.                                             *)
(***************************************************************************)
CONSTANTS
    Requests,   \* inbound messages, each handled by a goroutine of its own
    Dirs,       \* working directories
    NoLock,     \* the empty LockToken
    NoThread,   \* the empty BackendSessionID
    Homes,      \* conversations with their projects
    NoHome

ASSUME RecordConstants ==
    /\ NoLock \notin Requests
    /\ NoThread \notin Dirs
    /\ Dirs # {}
    /\ NoHome \notin Homes

Status == {"idle", "running", "error"}

Record == [status : Status,
           lock   : Requests \cup {NoLock},
           cwd    : Dirs,
           thread : Dirs \cup {NoThread},
           home   : Homes \cup {NoHome}]

\* The zero value of a local copy, and what stands for no session.
Blank == [status |-> "idle", lock |-> NoLock,
          cwd |-> CHOOSE d \in Dirs : TRUE, thread |-> NoThread,
          home |-> NoHome]

\* Record.Validate: only a running record may carry a lock token.
Valid(rec) == rec.status = "running" \/ rec.lock = NoLock

IsRunning(rec) == rec.status = "running"

\* Record.StartExecution and Record.FinishExecution, past their status check.
Settled(rec, status, token) ==
    [status |-> status, lock |-> token,
     cwd |-> rec.cwd, thread |-> rec.thread, home |-> rec.home]

Started(rec, token) == Settled(rec, "running", token)

Finished(rec, next) == Settled(rec, next, NoLock)

\* Fault: the arguments of Settled are swapped.
WithLockSwapped(rec, token) == Settled(rec, token, rec.status)

\* What Locker.Acquire and Locker.Release write: the token and nothing else.
WithLock(rec, token) == Settled(rec, rec.status, token)

\* Fault: a running record reaches the disk as running.
SanitizedRunning(rec) == WithLock(rec, NoLock)

\* sanitizePersistentRecord: what reaches the disk is never running or locked.
Sanitized(rec) == Finished(rec, IF IsRunning(rec) THEN "idle" ELSE rec.status)

\* Fault: the backend session is kept in another directory.
InDirKeepsThread(rec, dir) ==
    [status |-> rec.status, lock |-> rec.lock, cwd |-> dir,
     thread |-> rec.thread, home |-> rec.home]

\* HandleSessionFlow: a request in another directory gives up the backend
\* session, which is bound to the directory it was started in.
InDir(rec, dir) ==
    [status |-> rec.status, lock |-> rec.lock, cwd |-> dir,
     thread |-> IF rec.cwd = dir THEN rec.thread ELSE NoThread,
     home |-> rec.home]

\* Fault: the backend is started in the default directory.
WithThreadElsewhere(rec) ==
    [rec EXCEPT !.thread = IF rec.thread = NoThread THEN Blank.cwd ELSE rec.thread]

\* DirectRunner.Execute returns the backend session it continued, or the one
\* it has just started in the record's directory.
WithThread(rec) ==
    [rec EXCEPT !.thread = IF rec.thread = NoThread THEN rec.cwd ELSE rec.thread]

\* Fault: the directory and the home are swapped.
FreshSwapped(dir, home) ==
    [status |-> "idle", lock |-> NoLock, cwd |-> home, thread |-> NoThread, home |-> dir]

\* What CreateSession stores.
Fresh(dir, home) ==
    [status |-> "idle", lock |-> NoLock, cwd |-> dir, thread |-> NoThread, home |-> home]

\* A session as the service finds it when it starts.
Persisted(rec) ==
    /\ rec.home # NoHome
    /\ rec.lock = NoLock /\ ~IsRunning(rec)
    /\ rec.thread \in {rec.cwd, NoThread}
=============================================================================
