---------------------------- MODULE SessionLock ----------------------------
(***************************************************************************)
(* One execution per session: SessionManager's lock protocol over a        *)
(* session repository, and the DirectRunner it drives.                     *)
(*                                                                         *)
(* A request is the part of Router.HandleSessionFlow from AcquireExecution *)
(* on; a canceller is one call of SessionManager.CancelExecution.  A       *)
(* repository call is one atomic step (it runs under the repository's      *)
(* mutex), and everything a caller holds between two calls is a copy.      *)
(* SessionFlow.tla adds how a request finds its session.                   *)
(***************************************************************************)
EXTENDS SessionRecord, Naturals

CONSTANTS
    Sessions,
    Cancellers,   \* inbound /cancel commands
    NoSession,
    Backing,      \* "file" (sessions.json under the state directory) or "postgres"
    MaxFaults     \* bound on the failed writes of a behaviour

ASSUME LockConstants ==
    /\ NoSession \notin Sessions
    /\ Backing \in {"file", "postgres"}
    /\ MaxFaults \in Nat
    /\ Backing = "postgres" => MaxFaults = 0   \* failing queries are not modelled

VARIABLES
    store,     \* byID of the repository, or the table of sessions
    disk,      \* the records of sessions.json
    pc,        \* per request: its next step
    sess,      \* per request: the session it runs in
    want,      \* per request: the directory the command asks for
    copy,      \* per request: its copy of the record (lockedSession)
    result,    \* per request: what the backend answered
    cancels,   \* DirectRunner.cancels: session -> the registered execution
    stopped,   \* requests whose execution context was cancelled
    cpc,       \* per canceller: its next step
    csess,     \* per canceller: the session
    ctoken,    \* per canceller: the lock token CancelExecution read
    ccopy,     \* per canceller: its copy of the record
    faults     \* failed writes so far

requestVars == <<pc, sess, want, copy, result>>
cancelVars  == <<cpc, csess, ctoken, ccopy>>
storeVars   == <<store, disk, faults>>
runnerVars  == <<cancels, stopped>>
vars == <<requestVars, cancelVars, storeVars, runnerVars>>

RunPCs == {"register", "executing", "saveResult"}
SettlePCs == {"finishLoad", "markLoad", "settleSave", "settleRelease"}
EndPCs == {"rejected", "failed", "answered", "lost"}
LockPCs == {"new", "check", "acquire", "reload", "start", "unlock"}
             \cup RunPCs \cup SettlePCs \cup EndPCs

CancelEnds == {"noop", "failed", "cancelled", "lost"}
CancelPCs == {"new", "read", "signal", "releaseLoad", "releaseSave", "releaseUnlock"}
               \cup CancelEnds

Results == {"none", "success", "failed", "error"}

-----------------------------------------------------------------------------
(* The repository.                                                         *)

\* Fault: the file repository validates what it reads, too.
ReadableValid(s) == Valid(store[s])

\* scanSessionRecord of the PostgreSQL repository validates what it reads.
Readable(s) == Backing = "file" \/ Valid(store[s])

Stored(s, rec) == [store EXCEPT ![s] = rec]

Snapshot(records) == [s \in Sessions |-> Sanitized(records[s])]

SaveSucceeds(s, rec) ==
    /\ store' = Stored(s, rec)
    /\ disk' = Snapshot(store')
    /\ UNCHANGED faults

\* The file repository changes its map before it writes the index and then
\* the transcript, either of which may fail.
SaveFails(s, rec) ==
    /\ faults < MaxFaults
    /\ faults' = faults + 1
    /\ store' = Stored(s, rec)
    /\ disk' \in {disk, Snapshot(store')}

\* Fault: Acquire looks at the status.
LockHeldRunning(s) == IsRunning(store[s])

\* Locker.Acquire refuses on the token alone, whatever the status.
LockHeld(s) == store[s].lock # NoLock

\* Fault: Release does not compare the token.
ReleaseAnyToken(s, token) ==
    /\ store' = Stored(s, WithLock(store[s], NoLock))
    /\ UNCHANGED <<disk, faults>>

\* Locker.Release: only the holder's token frees the lock, in memory only.
Release(s, token) ==
    /\ store' = IF store[s].lock = token
                THEN Stored(s, WithLock(store[s], NoLock)) ELSE store
    /\ UNCHANGED <<disk, faults>>

ReleaseRefused(s, token) == store[s].lock \notin {token, NoLock}

-----------------------------------------------------------------------------
(* A request: AcquireExecution, Execute, Save, FinishExecution or MarkError. *)

InitWith(records) ==
    /\ store \in [Sessions -> records]
    /\ disk = store
    /\ pc = [r \in Requests |-> "new"]
    /\ sess = [r \in Requests |-> NoSession]
    /\ want = [r \in Requests |-> Blank.cwd]
    /\ copy = [r \in Requests |-> Blank]
    /\ result = [r \in Requests |-> "none"]
    /\ cancels = [s \in Sessions |-> NoLock]
    /\ stopped = {}
    /\ cpc = [c \in Cancellers |-> "new"]
    /\ csess = [c \in Cancellers |-> NoSession]
    /\ ctoken = [c \in Cancellers |-> NoLock]
    /\ ccopy = [c \in Cancellers |-> Blank]
    /\ faults = 0

Init == InitWith({rec \in Record : Persisted(rec)})

Goto(r, next) == pc' = [pc EXCEPT ![r] = next] /\ UNCHANGED copy

Keep(r, rec, next) ==
    /\ copy' = [copy EXCEPT ![r] = rec]
    /\ pc' = [pc EXCEPT ![r] = next]

\* The handler returns; its copy of the record goes out of scope.
Return(r, end) == Keep(r, Blank, end)

\* A message whose session is known, with the directory of its project.
Begin(r) ==
    /\ pc[r] = "new"
    /\ \E s \in Sessions, d \in Dirs :
          /\ sess' = [sess EXCEPT ![r] = s]
          /\ want' = [want EXCEPT ![r] = d]
    /\ Goto(r, "check")
    /\ UNCHANGED <<result, cancelVars, storeVars, runnerVars>>

CheckIdle(r) ==
    /\ pc[r] = "check"
    /\ IF Readable(sess[r]) /\ ~IsRunning(store[sess[r]])
       THEN Goto(r, "acquire")
       ELSE Return(r, "rejected")
    /\ UNCHANGED <<sess, want, result, cancelVars, storeVars, runnerVars>>

Acquire(r) ==
    /\ pc[r] = "acquire"
    /\ \/ /\ ~LockHeld(sess[r])
          /\ store' = Stored(sess[r], WithLock(store[sess[r]], r))
          /\ Goto(r, "reload")
       \/ /\ LockHeld(sess[r])   \* ErrLockHeldByAnotherProcess
          /\ Return(r, "rejected")
          /\ UNCHANGED store
    /\ UNCHANGED <<sess, want, result, disk, faults, cancelVars, runnerVars>>

Reload(r) ==
    /\ pc[r] = "reload"
    /\ IF Readable(sess[r])
       THEN Keep(r, store[sess[r]], "start")
       ELSE Goto(r, "unlock")
    /\ UNCHANGED <<sess, want, result, cancelVars, storeVars, runnerVars>>

StartExecution(r) ==
    /\ pc[r] = "start"
    /\ LET locked == Started(copy[r], r) IN
       \/ /\ IsRunning(copy[r])             \* ErrSessionBusy
          /\ Goto(r, "unlock")
          /\ UNCHANGED storeVars
       \/ /\ ~IsRunning(copy[r])
          /\ SaveSucceeds(sess[r], locked)
          /\ Keep(r, InDir(locked, want[r]), "register")
       \/ /\ ~IsRunning(copy[r])
          /\ SaveFails(sess[r], locked)
          /\ Goto(r, "unlock")
    /\ UNCHANGED <<sess, want, result, cancelVars, runnerVars>>

\* Fault: a request that cannot start keeps the lock.
ReleaseUnstartedNot(r) ==
    /\ pc[r] = "unlock"
    /\ Return(r, "rejected")
    /\ UNCHANGED <<sess, want, result, cancelVars, storeVars, runnerVars>>

ReleaseUnstarted(r) ==
    /\ pc[r] = "unlock"
    /\ Release(sess[r], r)
    /\ Return(r, "rejected")
    /\ UNCHANGED <<sess, want, result, cancelVars, runnerVars>>

RegisterCancel(r) ==
    /\ pc[r] = "register"
    /\ cancels' = [cancels EXCEPT ![sess[r]] = r]
    /\ Goto(r, "executing")
    /\ UNCHANGED <<sess, want, result, stopped, cancelVars, storeVars>>

\* The command ends, in time or cut off by its deadline or by a cancel, and
\* Execute's deferred clearCancel deletes whatever is registered.  With an
\* error the result is dropped, without one its backend session is bound.
BackendReturns(r) ==
    /\ pc[r] = "executing"
    /\ cancels' = [cancels EXCEPT ![sess[r]] = NoLock]
    /\ \/ /\ result' = [result EXCEPT ![r] = "error"]
          /\ Goto(r, "markLoad")
       \/ /\ \E res \in {"success", "failed"} : result' = [result EXCEPT ![r] = res]
          /\ Keep(r, WithThread(copy[r]), "saveResult")
    /\ UNCHANGED <<sess, want, stopped, cancelVars, storeVars>>

\* Fault: a result that cannot be saved is computed once more.
SaveResultRetry(r) ==
    /\ pc[r] = "saveResult"
    /\ \/ SaveSucceeds(sess[r], copy[r]) /\ Goto(r, "finishLoad")
       \/ SaveFails(sess[r], copy[r]) /\ Goto(r, "register")
    /\ UNCHANGED <<sess, want, result, cancelVars, runnerVars>>

\* The router saves the copy it made when it acquired the lock.
SaveResult(r) ==
    /\ pc[r] = "saveResult"
    /\ \/ /\ SaveSucceeds(sess[r], copy[r])
          /\ Goto(r, "finishLoad")
          /\ UNCHANGED result
       \/ /\ SaveFails(sess[r], copy[r])
          /\ Goto(r, "markLoad")
          /\ result' = [result EXCEPT ![r] = "error"]
    /\ UNCHANGED <<sess, want, cancelVars, runnerVars>>

HoldsToken(r) == Readable(sess[r]) /\ store[sess[r]].lock = r

FinishLoad(r) ==
    /\ pc[r] = "finishLoad"
    /\ IF HoldsToken(r) /\ IsRunning(store[sess[r]])
       THEN Keep(r, Finished(store[sess[r]], IF result[r] = "success" THEN "idle" ELSE "error"),
                 "settleSave")
       ELSE Return(r, "failed")             \* ErrInvalidLock, ErrSessionNotBusy
    /\ UNCHANGED <<sess, want, result, cancelVars, storeVars, runnerVars>>

\* MarkError tolerates a record that is not running; Save may then refuse it.
MarkLoad(r) ==
    /\ pc[r] = "markLoad"
    /\ LET rec == store[sess[r]] IN
       IF HoldsToken(r)
       THEN Keep(r, IF IsRunning(rec) THEN Finished(rec, "error") ELSE rec, "settleSave")
       ELSE Return(r, "failed")
    /\ UNCHANGED <<sess, want, result, cancelVars, storeVars, runnerVars>>

SettleSave(r) ==
    /\ pc[r] = "settleSave"
    /\ \/ /\ Valid(copy[r])
          /\ SaveSucceeds(sess[r], copy[r])
          /\ Goto(r, "settleRelease")
       \/ /\ IF Valid(copy[r]) THEN SaveFails(sess[r], copy[r]) ELSE UNCHANGED storeVars
          /\ Return(r, "failed")
    /\ UNCHANGED <<sess, want, result, cancelVars, runnerVars>>

\* The last call of FinishExecution and of MarkError.
SettleRelease(r) ==
    /\ pc[r] = "settleRelease"
    /\ Release(sess[r], r)
    /\ IF result[r] = "error" \/ ReleaseRefused(sess[r], r)
       THEN Return(r, "failed")
       ELSE Return(r, "answered")
    /\ UNCHANGED <<sess, want, result, cancelVars, runnerVars>>

RequestStep(r) ==
    \/ CheckIdle(r) \/ Acquire(r) \/ Reload(r) \/ StartExecution(r)
    \/ ReleaseUnstarted(r) \/ RegisterCancel(r) \/ BackendReturns(r)
    \/ SaveResult(r) \/ FinishLoad(r) \/ MarkLoad(r)
    \/ SettleSave(r) \/ SettleRelease(r)

-----------------------------------------------------------------------------
(* A canceller: CancelExecution and the ForceRelease it calls.             *)

CGoto(c, next) == cpc' = [cpc EXCEPT ![c] = next]

CancelBegin(c) ==
    /\ cpc[c] = "new"
    /\ \E s \in Sessions : csess' = [csess EXCEPT ![c] = s]
    /\ CGoto(c, "read")
    /\ UNCHANGED <<ctoken, ccopy, requestVars, storeVars, runnerVars>>

CancelRead(c) ==
    /\ cpc[c] = "read"
    /\ LET s == csess[c] IN
       \/ /\ Readable(s) /\ IsRunning(store[s])
          /\ ctoken' = [ctoken EXCEPT ![c] = store[s].lock]
          /\ CGoto(c, "signal")
       \/ /\ ~(Readable(s) /\ IsRunning(store[s]))
          /\ CGoto(c, IF Readable(s) THEN "noop" ELSE "failed")
          /\ UNCHANGED ctoken
    /\ UNCHANGED <<csess, ccopy, requestVars, storeVars, runnerVars>>

\* DirectRunner.Cancel: a session without a registered execution is no error.
CancelSignal(c) ==
    /\ cpc[c] = "signal"
    /\ stopped' = stopped \cup ({cancels[csess[c]]} \ {NoLock})
    /\ CGoto(c, "releaseLoad")
    /\ UNCHANGED <<cancels, csess, ctoken, ccopy, requestVars, storeVars>>

\* ForceRelease refuses a lock that is not the one CancelExecution read.
ForceRefused(c) ==
    LET held == store[csess[c]].lock IN
    ~Readable(csess[c]) \/ (held # NoLock /\ ctoken[c] \notin {NoLock, held})

CancelReleaseLoad(c) ==
    /\ cpc[c] = "releaseLoad"
    /\ LET rec == store[csess[c]] IN
       \/ /\ ForceRefused(c)
          /\ CGoto(c, "failed")
          /\ UNCHANGED <<ctoken, ccopy>>
       \/ /\ ~ForceRefused(c) /\ rec.lock = NoLock
          /\ CGoto(c, "cancelled")
          /\ UNCHANGED <<ctoken, ccopy>>
       \/ /\ ~ForceRefused(c) /\ rec.lock # NoLock
          /\ ctoken' = [ctoken EXCEPT ![c] = rec.lock]
          /\ ccopy' = [ccopy EXCEPT ![c] = Finished(rec, "idle")]
          /\ CGoto(c, "releaseSave")
    /\ UNCHANGED <<csess, requestVars, storeVars, runnerVars>>

CancelReleaseSave(c) ==
    /\ cpc[c] = "releaseSave"
    /\ \/ SaveSucceeds(csess[c], ccopy[c]) /\ CGoto(c, "releaseUnlock")
       \/ SaveFails(csess[c], ccopy[c]) /\ CGoto(c, "failed")
    /\ UNCHANGED <<csess, ctoken, ccopy, requestVars, runnerVars>>

CancelReleaseUnlock(c) ==
    /\ cpc[c] = "releaseUnlock"
    /\ Release(csess[c], ctoken[c])
    /\ CGoto(c, IF ReleaseRefused(csess[c], ctoken[c]) THEN "failed" ELSE "cancelled")
    /\ UNCHANGED <<csess, ctoken, ccopy, requestVars, runnerVars>>

CancelStep(c) ==
    \/ CancelRead(c) \/ CancelSignal(c) \/ CancelReleaseLoad(c)
    \/ CancelReleaseSave(c) \/ CancelReleaseUnlock(c)

-----------------------------------------------------------------------------
\* The process stops between any two steps and starts again: the handlers in
\* flight are gone and the file repository reloads its index.
Reloaded ==
    /\ store' = IF Backing = "file" THEN disk ELSE store
    /\ copy' = [r \in Requests |-> Blank]
    /\ cpc' = [c \in Cancellers |-> IF cpc[c] \in {"new"} \cup CancelEnds THEN cpc[c] ELSE "lost"]
    /\ cancels' = [s \in Sessions |-> NoLock]
    /\ stopped' = {}
    /\ UNCHANGED <<sess, want, result, disk, faults, csess, ctoken, ccopy>>

LosesAllBut(safe) ==
    pc' = [r \in Requests |-> IF pc[r] \in safe THEN pc[r] ELSE "lost"]

Restart == Reloaded /\ LosesAllBut({"new"} \cup EndPCs)

Next ==
    \/ \E r \in Requests : Begin(r) \/ RequestStep(r)
    \/ \E c \in Cancellers : CancelBegin(c) \/ CancelStep(c)
    \/ Restart

\* A handler is a goroutine that never waits for another one, and the only
\* long step, the backend's command, runs under context.WithTimeout.  Messages
\* need not come and the process need not restart.
Fairness ==
    /\ \A r \in Requests : WF_vars(RequestStep(r))
    /\ \A c \in Cancellers : WF_vars(CancelStep(c))

Spec == Init /\ [][Next]_vars /\ Fairness

-----------------------------------------------------------------------------
(* Properties.                                                             *)

\* The types of the protocol's state.
TypeOK ==
    /\ store \in [Sessions -> Record]
    /\ disk \in [Sessions -> Record]
    /\ pc \in [Requests -> LockPCs]
    /\ sess \in [Requests -> Sessions \cup {NoSession}]
    /\ \A r \in Requests : pc[r] # "new" => sess[r] \in Sessions
    /\ want \in [Requests -> Dirs]
    /\ copy \in [Requests -> Record]
    /\ result \in [Requests -> Results]
    /\ cancels \in [Sessions -> Requests \cup {NoLock}]
    /\ stopped \subseteq Requests
    /\ cpc \in [Cancellers -> CancelPCs]
    /\ csess \in [Cancellers -> Sessions \cup {NoSession}]
    /\ \A c \in Cancellers : cpc[c] # "new" => csess[c] \in Sessions
    /\ ctoken \in [Cancellers -> Requests \cup {NoLock}]
    /\ ccopy \in [Cancellers -> Record]
    /\ faults \in 0..MaxFaults

Executing(r, s) == pc[r] = "executing" /\ sess[r] = s

\* One execution per session at a time: the backend never runs two requests
\* of a session at once (FR-006), whatever handlers, crashes and failed writes
\* come between AcquireExecution and FinishExecution.
Exclusive ==
    \A s \in Sessions : \A r, q \in Requests :
        Executing(r, s) /\ Executing(q, s) => r = q

\* Between Acquire and the save of FinishExecution or MarkError a request's
\* token is the one in the record: nothing but /cancel takes it away.  With
\* it a request's own write puts its own token back, never another one's.
Holding == {"reload", "start", "finishLoad", "markLoad", "settleSave"} \cup RunPCs

TokenHeld ==
    /\ \A r \in Requests : pc[r] \in Holding => store[sess[r]].lock = r
    /\ \A r \in Requests : pc[r] \in RunPCs => copy[r].lock = r

\* The slots of ExecutionSlot, read off the requests: who executes in a
\* session, and who has been there or will never be.
SlotOf(s) ==
    IF \E r \in Requests : Executing(r, s)
    THEN CHOOSE r \in Requests : Executing(r, s) ELSE NoLock

Closed == {r \in Requests :
             pc[r] \notin {"new", "check", "acquire", "reload", "start", "unlock", "register"}}

Slot == INSTANCE ExecutionSlot WITH
            Free <- NoLock,
            slot <- [s \in Sessions |-> SlotOf(s)],
            closed <- Closed

\* The lock protocol implements the slot.
ImplementsSlot == Slot!Spec

\* A record that says running has a request that is still to settle it, so
\* no session stays busy once its handlers have returned, unless a write failed.
RunningHasOwner ==
    faults = 0 =>
        \A s \in Sessions : IsRunning(store[s]) =>
            \E r \in Requests : sess[r] = s /\ pc[r] \in RunPCs \cup SettlePCs

\* Backend sessions never drift across workspaces: the one a record carries
\* was started in the record's own directory, in memory, on disk and in the
\* copy an execution is about to use, however handlers overwrite each other.
ThreadInItsDir ==
    /\ \A s \in Sessions : /\ store[s].thread \in {store[s].cwd, NoThread}
                           /\ disk[s].thread \in {disk[s].cwd, NoThread}
    /\ \A r \in Requests : pc[r] \in RunPCs => copy[r].thread \in {copy[r].cwd, NoThread}

\* A request that has its session to itself is not turned away: it is only
\* rejected because of another handler of the session, or a failed write.
LoneRequestRuns ==
    \A r \in Requests : pc[r] = "rejected" =>
        \/ faults > 0
        \/ \E q \in Requests \ {r} : sess[q] = sess[r]
        \/ \E c \in Cancellers : csess[c] = sess[r]

\* When /cancel reports a cancelled execution and no request is in flight,
\* the session is not running any more (FR-005).
CancelFreesSession ==
    [][\A c \in Cancellers :
         /\ cpc[c] # "cancelled" /\ cpc'[c] = "cancelled"
         /\ \A r \in Requests : pc[r] \in {"new"} \cup EndPCs
         => ~IsRunning(store'[csess[c]])]_vars

\* A lock that was taken is given back: no sequence of steps leaves a session
\* locked for ever while its handlers run on.
LockGivenBack ==
    \A s \in Sessions : store[s].lock # NoLock ~> store[s].lock = NoLock
=============================================================================
