------------------------- MODULE SessionLockProofs -------------------------
(***************************************************************************)
(* Theorems of SessionLock for every set of sessions, requests, cancellers *)
(* and directories, and any number of failed writes and restarts.          *)
(***************************************************************************)
EXTENDS SessionLock, TLAPS

-----------------------------------------------------------------------------
(* The operators on records.                                               *)

LEMMA BlankIsRecord == Blank \in Record
<1>1. (CHOOSE d \in Dirs : TRUE) \in Dirs
  BY RecordConstants
<1>2. QED
  BY <1>1 DEF Blank, Record, Status

\* Settled and the operators built from it stay within the records.
LEMMA SettledOps ==
    ASSUME NEW rec \in Record
    PROVE  /\ \A r \in Requests : Started(rec, r) \in Record /\ Started(rec, r).lock = r
           /\ \A next \in {"idle", "error"} : /\ Finished(rec, next) \in Record
                                              /\ Finished(rec, next).lock = NoLock
           /\ \A token \in Requests \cup {NoLock} : /\ WithLock(rec, token) \in Record
                                                    /\ WithLock(rec, token).lock = token
           /\ Sanitized(rec) \in Record
<1>1. ASSUME NEW status \in Status, NEW token \in Requests \cup {NoLock}
      PROVE  /\ Settled(rec, status, token) \in Record
             /\ Settled(rec, status, token).lock = token
  BY DEF Settled, Record
<1>2. rec.status \in Status
  BY DEF Record
<1>3. (IF IsRunning(rec) THEN "idle" ELSE rec.status) \in Status
  BY <1>2 DEF Status
<1>4. QED
  BY <1>1, <1>2, <1>3 DEF Started, Finished, WithLock, Sanitized, Status

LEMMA ThreadOps ==
    ASSUME NEW rec \in Record
    PROVE  /\ \A d \in Dirs : InDir(rec, d) \in Record /\ InDir(rec, d).lock = rec.lock
           /\ WithThread(rec) \in Record /\ WithThread(rec).lock = rec.lock
<1>1. ASSUME NEW d \in Dirs
      PROVE  InDir(rec, d) \in Record /\ InDir(rec, d).lock = rec.lock
  BY DEF InDir, Record
<1>2. WithThread(rec) \in Record /\ WithThread(rec).lock = rec.lock
  BY DEF WithThread, Record
<1>3. QED
  BY <1>1, <1>2

-----------------------------------------------------------------------------
(* The repository's writes keep its records records.                       *)

StoreTyped == /\ store \in [Sessions -> Record]
              /\ disk \in [Sessions -> Record]
              /\ faults \in 0..MaxFaults

LEMMA StoredTyped ==
    ASSUME StoreTyped, NEW s \in Sessions, NEW rec \in Record
    PROVE  Stored(s, rec) \in [Sessions -> Record]
  BY DEF Stored, StoreTyped

LEMMA SnapshotTyped ==
    ASSUME NEW f \in [Sessions -> Record]
    PROVE  Snapshot(f) \in [Sessions -> Record]
  BY SettledOps DEF Snapshot

LEMMA SaveSucceedsTyped ==
    ASSUME StoreTyped, NEW s \in Sessions, NEW rec \in Record, SaveSucceeds(s, rec)
    PROVE  StoreTyped'
  BY StoredTyped, SnapshotTyped DEF SaveSucceeds, StoreTyped

LEMMA SaveFailsTyped ==
    ASSUME StoreTyped, NEW s \in Sessions, NEW rec \in Record, SaveFails(s, rec)
    PROVE  StoreTyped'
<1>1. store' \in [Sessions -> Record]
  BY StoredTyped DEF SaveFails, StoreTyped
<1>2. disk' \in [Sessions -> Record]
  BY <1>1, SnapshotTyped DEF SaveFails, StoreTyped
<1>3. faults' \in 0..MaxFaults
  BY LockConstants DEF SaveFails, StoreTyped
<1>4. QED
  BY <1>1, <1>2, <1>3 DEF StoreTyped

LEMMA ReleaseTyped ==
    ASSUME StoreTyped, NEW s \in Sessions, NEW token, Release(s, token)
    PROVE  StoreTyped'
<1>1. WithLock(store[s], NoLock) \in Record
  BY SettledOps DEF StoreTyped
<1>2. QED
  BY <1>1, StoredTyped DEF Release, StoreTyped

-----------------------------------------------------------------------------
(* Type correctness: one step per action.                                  *)

LEMMA InitTyped == Init => TypeOK
<1>1. {rec \in Record : Persisted(rec)} \subseteq Record
  OBVIOUS
<1>2. Blank.cwd \in Dirs
  BY BlankIsRecord DEF Record
<1>3. QED
  BY <1>1, <1>2, BlankIsRecord, LockConstants
     DEF Init, InitWith, TypeOK, LockPCs, Results, CancelPCs

LEMMA BeginTyped ==
    ASSUME TypeOK, NEW r \in Requests, Begin(r)
    PROVE  TypeOK'
  BY DEF TypeOK, Begin, Goto, LockPCs, cancelVars, storeVars, runnerVars

LEMMA CheckIdleTyped ==
    ASSUME TypeOK, NEW r \in Requests, CheckIdle(r)
    PROVE  TypeOK'
  BY BlankIsRecord DEF TypeOK, CheckIdle, Goto, Return, Keep, LockPCs, EndPCs, cancelVars, storeVars, runnerVars

LEMMA AcquireTyped ==
    ASSUME TypeOK, NEW r \in Requests, Acquire(r)
    PROVE  TypeOK'
<1>1. sess[r] \in Sessions
  BY DEF TypeOK, Acquire
<1>2. Stored(sess[r], WithLock(store[sess[r]], r)) \in [Sessions -> Record]
  BY <1>1, SettledOps, StoredTyped DEF TypeOK, StoreTyped
<1>3. QED
  BY <1>2, BlankIsRecord DEF TypeOK, Acquire, Goto, Return, Keep, LockPCs, EndPCs, cancelVars, runnerVars

LEMMA ReloadTyped ==
    ASSUME TypeOK, NEW r \in Requests, Reload(r)
    PROVE  TypeOK'
<1>1. store[sess[r]] \in Record
  BY DEF TypeOK, Reload
<1>2. QED
  BY <1>1 DEF TypeOK, Reload, Goto, Keep, LockPCs, cancelVars, storeVars, runnerVars

LEMMA StartExecutionTyped ==
    ASSUME TypeOK, NEW r \in Requests, StartExecution(r)
    PROVE  TypeOK'
<1> DEFINE locked == Started(copy[r], r)
<1>1. sess[r] \in Sessions /\ copy[r] \in Record /\ want[r] \in Dirs /\ StoreTyped
  BY DEF TypeOK, StartExecution, StoreTyped
<1>2. locked \in Record
  BY <1>1, SettledOps
<1>3. InDir(locked, want[r]) \in Record
  BY <1>1, <1>2, ThreadOps
<1>4. StoreTyped'
  <2>1. CASE UNCHANGED storeVars
    BY <1>1, <2>1 DEF storeVars, StoreTyped
  <2>2. CASE SaveSucceeds(sess[r], locked)
    BY <1>1, <1>2, <2>2, SaveSucceedsTyped
  <2>3. CASE SaveFails(sess[r], locked)
    BY <1>1, <1>2, <2>3, SaveFailsTyped
  <2>4. QED
    BY <2>1, <2>2, <2>3 DEF StartExecution
<1>5. copy' \in [Requests -> Record] /\ pc' \in [Requests -> LockPCs]
      /\ \A q \in Requests : pc[q] = "new" => pc'[q] = "new"
  BY <1>3 DEF TypeOK, StartExecution, Goto, Keep, LockPCs, RunPCs
<1>6. UNCHANGED <<sess, want, result, cancelVars, runnerVars>>
  BY DEF StartExecution
<1>7. QED
  BY <1>4, <1>5, <1>6 DEF TypeOK, StoreTyped, cancelVars, runnerVars

LEMMA ReleaseUnstartedTyped ==
    ASSUME TypeOK, NEW r \in Requests, ReleaseUnstarted(r)
    PROVE  TypeOK'
<1>1. StoreTyped'
  BY ReleaseTyped DEF TypeOK, ReleaseUnstarted, StoreTyped
<1>2. QED
  BY <1>1, BlankIsRecord
     DEF TypeOK, StoreTyped, ReleaseUnstarted, Return, Keep, LockPCs, EndPCs, cancelVars, runnerVars

LEMMA RegisterCancelTyped ==
    ASSUME TypeOK, NEW r \in Requests, RegisterCancel(r)
    PROVE  TypeOK'
  BY DEF TypeOK, RegisterCancel, Goto, LockPCs, RunPCs, cancelVars, storeVars

LEMMA BackendReturnsTyped ==
    ASSUME TypeOK, NEW r \in Requests, BackendReturns(r)
    PROVE  TypeOK'
<1>1. WithThread(copy[r]) \in Record
  BY ThreadOps DEF TypeOK
<1>2. result' \in [Requests -> Results]
  BY DEF TypeOK, BackendReturns, Results
<1>3. copy' \in [Requests -> Record] /\ pc' \in [Requests -> LockPCs]
      /\ \A q \in Requests : pc[q] = "new" => pc'[q] = "new"
  BY <1>1 DEF TypeOK, BackendReturns, Goto, Keep, LockPCs, RunPCs, SettlePCs
<1>4. cancels' \in [Sessions -> Requests \cup {NoLock}]
  BY DEF TypeOK, BackendReturns
<1>5. UNCHANGED <<sess, want, stopped, cancelVars, storeVars>>
  BY DEF BackendReturns
<1>6. QED
  BY <1>2, <1>3, <1>4, <1>5 DEF TypeOK, cancelVars, storeVars

LEMMA SaveResultTyped ==
    ASSUME TypeOK, NEW r \in Requests, SaveResult(r)
    PROVE  TypeOK'
<1>1. sess[r] \in Sessions /\ copy[r] \in Record /\ StoreTyped
  BY DEF TypeOK, SaveResult, StoreTyped
<1>2. StoreTyped'
  BY <1>1, SaveSucceedsTyped, SaveFailsTyped DEF SaveResult
<1>3. QED
  BY <1>2 DEF TypeOK, StoreTyped, SaveResult, Goto, LockPCs, SettlePCs, Results, cancelVars, runnerVars

LEMMA FinishLoadTyped ==
    ASSUME TypeOK, NEW r \in Requests, FinishLoad(r)
    PROVE  TypeOK'
<1>1. \A next \in {"idle", "error"} : Finished(store[sess[r]], next) \in Record
  BY SettledOps DEF TypeOK, FinishLoad
<1>2. QED
  BY <1>1, BlankIsRecord
     DEF TypeOK, FinishLoad, Return, Keep, LockPCs, SettlePCs, EndPCs, cancelVars, storeVars, runnerVars

LEMMA MarkLoadTyped ==
    ASSUME TypeOK, NEW r \in Requests, MarkLoad(r)
    PROVE  TypeOK'
<1>1. store[sess[r]] \in Record /\ Finished(store[sess[r]], "error") \in Record
  BY SettledOps DEF TypeOK, MarkLoad
<1>2. QED
  BY <1>1, BlankIsRecord
     DEF TypeOK, MarkLoad, Return, Keep, LockPCs, SettlePCs, EndPCs, cancelVars, storeVars, runnerVars

LEMMA SettleSaveTyped ==
    ASSUME TypeOK, NEW r \in Requests, SettleSave(r)
    PROVE  TypeOK'
<1>1. sess[r] \in Sessions /\ copy[r] \in Record /\ StoreTyped
  BY DEF TypeOK, SettleSave, StoreTyped
<1>2. StoreTyped'
  <2>1. CASE UNCHANGED storeVars
    BY <1>1, <2>1 DEF storeVars, StoreTyped
  <2>2. CASE SaveSucceeds(sess[r], copy[r])
    BY <1>1, <2>2, SaveSucceedsTyped
  <2>3. CASE SaveFails(sess[r], copy[r])
    BY <1>1, <2>3, SaveFailsTyped
  <2>4. QED
    BY <2>1, <2>2, <2>3 DEF SettleSave
<1>3. QED
  BY <1>2, BlankIsRecord
     DEF TypeOK, StoreTyped, SettleSave, Goto, Return, Keep, LockPCs, SettlePCs, EndPCs, cancelVars, runnerVars

LEMMA SettleReleaseTyped ==
    ASSUME TypeOK, NEW r \in Requests, SettleRelease(r)
    PROVE  TypeOK'
<1>1. StoreTyped'
  BY ReleaseTyped DEF TypeOK, SettleRelease, StoreTyped
<1>2. QED
  BY <1>1, BlankIsRecord
     DEF TypeOK, StoreTyped, SettleRelease, Return, Keep, LockPCs, EndPCs, cancelVars, runnerVars

LEMMA CancelBeginTyped ==
    ASSUME TypeOK, NEW c \in Cancellers, CancelBegin(c)
    PROVE  TypeOK'
  BY DEF TypeOK, CancelBegin, CGoto, CancelPCs, requestVars, storeVars, runnerVars

LEMMA CancelReadTyped ==
    ASSUME TypeOK, NEW c \in Cancellers, CancelRead(c)
    PROVE  TypeOK'
<1>1. store[csess[c]].lock \in Requests \cup {NoLock}
  BY DEF TypeOK, CancelRead, Record
<1>2. QED
  BY <1>1 DEF TypeOK, CancelRead, CGoto, CancelPCs, CancelEnds, requestVars, storeVars, runnerVars

LEMMA CancelSignalTyped ==
    ASSUME TypeOK, NEW c \in Cancellers, CancelSignal(c)
    PROVE  TypeOK'
<1>1. stopped' \subseteq Requests
  BY DEF TypeOK, CancelSignal
<1>2. QED
  BY <1>1 DEF TypeOK, CancelSignal, CGoto, CancelPCs, requestVars, storeVars

LEMMA CancelReleaseLoadTyped ==
    ASSUME TypeOK, NEW c \in Cancellers, CancelReleaseLoad(c)
    PROVE  TypeOK'
<1>1. store[csess[c]] \in Record
  BY DEF TypeOK, CancelReleaseLoad
<1>2. /\ store[csess[c]].lock \in Requests \cup {NoLock}
      /\ Finished(store[csess[c]], "idle") \in Record
  BY <1>1, SettledOps DEF Record
<1>3. QED
  BY <1>2 DEF TypeOK, CancelReleaseLoad, CGoto, CancelPCs, CancelEnds, requestVars, storeVars, runnerVars

LEMMA CancelReleaseSaveTyped ==
    ASSUME TypeOK, NEW c \in Cancellers, CancelReleaseSave(c)
    PROVE  TypeOK'
<1>1. csess[c] \in Sessions /\ ccopy[c] \in Record /\ StoreTyped
  BY DEF TypeOK, CancelReleaseSave, StoreTyped
<1>2. StoreTyped'
  BY <1>1, SaveSucceedsTyped, SaveFailsTyped DEF CancelReleaseSave
<1>3. QED
  BY <1>2
     DEF TypeOK, StoreTyped, CancelReleaseSave, CGoto, CancelPCs, CancelEnds, requestVars, runnerVars

LEMMA CancelReleaseUnlockTyped ==
    ASSUME TypeOK, NEW c \in Cancellers, CancelReleaseUnlock(c)
    PROVE  TypeOK'
<1>1. StoreTyped'
  BY ReleaseTyped DEF TypeOK, CancelReleaseUnlock, StoreTyped
<1>2. QED
  BY <1>1
     DEF TypeOK, StoreTyped, CancelReleaseUnlock, CGoto, CancelPCs, CancelEnds, requestVars, runnerVars

LEMMA RestartTyped ==
    ASSUME TypeOK, Restart
    PROVE  TypeOK'
<1>1. store' \in [Sessions -> Record]
  BY DEF TypeOK, Restart, Reloaded, LosesAllBut
<1>2. pc' \in [Requests -> LockPCs]
      /\ \A r \in Requests : pc[r] = "new" => pc'[r] = "new"
  BY DEF TypeOK, Restart, Reloaded, LosesAllBut, LockPCs, EndPCs
<1>3. cpc' \in [Cancellers -> CancelPCs]
      /\ \A c \in Cancellers : cpc[c] = "new" => cpc'[c] = "new"
  BY DEF TypeOK, Restart, Reloaded, LosesAllBut, CancelPCs, CancelEnds
<1>4. copy' \in [Requests -> Record]
  BY BlankIsRecord DEF Restart, Reloaded, LosesAllBut
<1>5. QED
  BY <1>1, <1>2, <1>3, <1>4 DEF TypeOK, Restart, Reloaded, LosesAllBut

LEMMA NextTyped == TypeOK /\ [Next]_vars => TypeOK'
<1> SUFFICES ASSUME TypeOK, [Next]_vars
             PROVE  TypeOK'
  OBVIOUS
<1>1. ASSUME NEW r \in Requests, Begin(r) \/ RequestStep(r)
      PROVE  TypeOK'
  BY <1>1, BeginTyped, CheckIdleTyped, AcquireTyped, ReloadTyped, StartExecutionTyped,
     ReleaseUnstartedTyped, RegisterCancelTyped, BackendReturnsTyped, SaveResultTyped,
     FinishLoadTyped, MarkLoadTyped, SettleSaveTyped, SettleReleaseTyped
     DEF RequestStep
<1>2. ASSUME NEW c \in Cancellers, CancelBegin(c) \/ CancelStep(c)
      PROVE  TypeOK'
  BY <1>2, CancelBeginTyped, CancelReadTyped, CancelSignalTyped, CancelReleaseLoadTyped,
     CancelReleaseSaveTyped, CancelReleaseUnlockTyped
     DEF CancelStep
<1>3. CASE UNCHANGED vars
  BY <1>3 DEF TypeOK, vars, requestVars, cancelVars, storeVars, runnerVars
<1>4. QED
  BY <1>1, <1>2, <1>3, RestartTyped DEF Next

\* Type correctness: whatever requests, /cancel commands, failed writes and
\* restarts do to a session, its record in memory and on disk stays a record,
\* and a handler past its first step works on a session of the repository.
THEOREM TypeCorrect == Spec => []TypeOK
<1>1. QED
  BY InitTyped, NextTyped, PTL DEF Spec

-----------------------------------------------------------------------------
(* The lock.  TokenHeld is inductive together with the types as long as no *)
(* /cancel comes; the runs exhibit what /cancel does to it.                *)

\* What a step of request r does to the store of its own session only.
LEMMA OthersUntouched ==
    ASSUME TypeOK, NEW r \in Requests, pc[r] # "new", RequestStep(r)
    PROVE  \A s \in Sessions \ {sess[r]} : store'[s] = store[s]
<1>1. sess[r] \in Sessions /\ store \in [Sessions -> Record]
  BY DEF TypeOK
<1>2. \A rec : \A s \in Sessions \ {sess[r]} : Stored(sess[r], rec)[s] = store[s]
  BY <1>1 DEF Stored
<1>3. \A rec : SaveSucceeds(sess[r], rec) \/ SaveFails(sess[r], rec)
        => store' = store \/ store' = Stored(sess[r], rec)
  BY DEF SaveSucceeds, SaveFails
<1>4. Release(sess[r], r)
        => store' = store \/ store' = Stored(sess[r], WithLock(store[sess[r]], NoLock))
  BY DEF Release
<1>5. store' = store \/ \E rec : store' = Stored(sess[r], rec)
  <2>1. CASE CheckIdle(r) \/ Reload(r) \/ RegisterCancel(r) \/ BackendReturns(r)
             \/ FinishLoad(r) \/ MarkLoad(r)
    BY <2>1 DEF CheckIdle, Reload, RegisterCancel, BackendReturns, FinishLoad, MarkLoad, storeVars
  <2>2. CASE Acquire(r)
    BY <2>2 DEF Acquire
  <2>3. CASE StartExecution(r) \/ SaveResult(r) \/ SettleSave(r)
    BY <1>3, <2>3 DEF StartExecution, SaveResult, SettleSave, storeVars
  <2>4. CASE ReleaseUnstarted(r) \/ SettleRelease(r)
    BY <1>4, <2>4 DEF ReleaseUnstarted, SettleRelease
  <2>5. QED
    BY <2>1, <2>2, <2>3, <2>4 DEF RequestStep
<1>6. QED
  BY <1>2, <1>5

\* A request changes its own program counter and copy only.
LEMMA OwnStep ==
    ASSUME TypeOK, NEW r \in Requests, RequestStep(r)
    PROVE  /\ sess' = sess
           /\ \A q \in Requests \ {r} : pc'[q] = pc[q] /\ copy'[q] = copy[q]
  BY DEF TypeOK, RequestStep, Goto, Keep, Return, CheckIdle, Acquire, Reload, StartExecution,
         ReleaseUnstarted, RegisterCancel, BackendReturns, SaveResult, FinishLoad, MarkLoad,
         SettleSave, SettleRelease

\* A step of a request keeps or obtains its own token.
LEMMA OwnToken ==
    ASSUME TypeOK, TokenHeld, NEW r \in Requests, RequestStep(r)
    PROVE  /\ pc'[r] \in Holding => store'[sess[r]].lock = r
           /\ pc'[r] \in RunPCs => copy'[r].lock = r
<1> USE DEF Holding, RunPCs
<1> DEFINE s == sess[r]
<1>1. /\ s \in Sessions \/ pc[r] = "new"
      /\ store \in [Sessions -> Record]
      /\ copy[r] \in Record /\ want[r] \in Dirs
      /\ pc \in [Requests -> LockPCs] /\ copy \in [Requests -> Record]
  BY DEF TypeOK
<1>2. CASE CheckIdle(r)
  BY <1>1, <1>2 DEF CheckIdle, Goto, Keep, Return
<1>3. CASE Acquire(r)
  <2>1. s \in Sessions /\ WithLock(store[s], r).lock = r
    BY <1>1, <1>3, SettledOps DEF Acquire
  <2>2. QED
    BY <1>1, <1>3, <2>1 DEF Acquire, Goto, Keep, Return, Stored
<1>4. CASE Reload(r)
  BY <1>1, <1>4 DEF Reload, Goto, Keep, TokenHeld, storeVars
<1>5. CASE StartExecution(r)
  <2> DEFINE locked == Started(copy[r], r)
  <2>1. s \in Sessions /\ locked \in Record /\ locked.lock = r
    BY <1>1, <1>5, SettledOps DEF StartExecution
  <2>2. InDir(locked, want[r]).lock = r
    BY <1>1, <2>1, ThreadOps
  <2>3. CASE pc'[r] = "unlock"
    BY <2>3
  <2>4. CASE SaveSucceeds(s, locked) /\ Keep(r, InDir(locked, want[r]), "register")
    <3>1. store'[s] = locked
      BY <1>1, <2>1, <2>4 DEF SaveSucceeds, Stored
    <3>2. copy'[r] = InDir(locked, want[r])
      BY <1>1, <2>4 DEF Keep
    <3>3. QED
      BY <2>1, <2>2, <3>1, <3>2
  <2>5. QED
    BY <1>1, <1>5, <2>3, <2>4 DEF StartExecution, Goto
<1>6. CASE ReleaseUnstarted(r)
  BY <1>1, <1>6 DEF ReleaseUnstarted, Keep, Return
<1>7. CASE RegisterCancel(r)
  BY <1>1, <1>7 DEF RegisterCancel, Goto, TokenHeld, storeVars
<1>8. CASE BackendReturns(r)
  <2>1. store[s].lock = r /\ copy[r].lock = r /\ store' = store
    BY <1>8 DEF BackendReturns, TokenHeld, storeVars
  <2>2. WithThread(copy[r]).lock = r
    BY <1>1, <2>1, ThreadOps
  <2>3. copy'[r] \in {copy[r], WithThread(copy[r])}
    BY <1>1, <1>8 DEF BackendReturns, Goto, Keep
  <2>4. QED
    BY <2>1, <2>2, <2>3
<1>9. CASE SaveResult(r)
  <2>1. s \in Sessions /\ store[s].lock = r /\ copy[r].lock = r
    BY <1>1, <1>9 DEF SaveResult, TokenHeld
  <2>2. store'[s].lock = r
    BY <1>1, <1>9, <2>1 DEF SaveResult, SaveSucceeds, SaveFails, Stored
  <2>3. pc'[r] \in {"finishLoad", "markLoad"}
    BY <1>1, <1>9 DEF SaveResult, Goto
  <2>4. QED
    BY <2>2, <2>3
<1>10. CASE FinishLoad(r)
  <2>1. store[s].lock = r /\ store' = store
    BY <1>10 DEF FinishLoad, TokenHeld, storeVars
  <2>2. pc'[r] \in {"settleSave", "failed"}
    BY <1>1, <1>10 DEF FinishLoad, Keep, Return
  <2>3. QED
    BY <2>1, <2>2
<1>11. CASE MarkLoad(r)
  <2>1. store[s].lock = r /\ store' = store
    BY <1>11 DEF MarkLoad, TokenHeld, storeVars
  <2>2. pc'[r] \in {"settleSave", "failed"}
    BY <1>1, <1>11 DEF MarkLoad, Keep, Return
  <2>3. QED
    BY <2>1, <2>2
<1>12. CASE SettleSave(r)
  BY <1>1, <1>12 DEF SettleSave, Goto, Keep, Return
<1>13. CASE SettleRelease(r)
  BY <1>1, <1>13 DEF SettleRelease, Keep, Return
<1>14. QED
  BY <1>2, <1>3, <1>4, <1>5, <1>6, <1>7, <1>8, <1>9, <1>10, <1>11, <1>12, <1>13 DEF RequestStep

\* The session of a request that holds its lock is not written by another one.
LEMMA HeldUntouched ==
    ASSUME TypeOK, TokenHeld, NEW r \in Requests, RequestStep(r),
           NEW q \in Requests \ {r}, pc[q] \in Holding
    PROVE  store'[sess[q]] = store[sess[q]]
<1> DEFINE s == sess[q]
<1>1. store[s].lock = q /\ s \in Sessions /\ q # NoLock
  BY RecordConstants DEF TokenHeld, TypeOK, Holding, RunPCs
<1>2. pc[r] # "new"
  BY DEF RequestStep, CheckIdle, Acquire, Reload, StartExecution, ReleaseUnstarted, RegisterCancel,
         BackendReturns, SaveResult, FinishLoad, MarkLoad, SettleSave, SettleRelease
<1>3. CASE sess[r] # s
  BY <1>1, <1>2, <1>3, OthersUntouched
<1>4. CASE sess[r] = s
  <2>1. pc[r] \notin Holding
    BY <1>1, <1>4 DEF TokenHeld
  <2>2. CheckIdle(r) \/ Acquire(r) \/ ReleaseUnstarted(r) \/ SettleRelease(r)
    BY <2>1 DEF RequestStep, Holding, RunPCs, Reload, StartExecution, RegisterCancel,
                BackendReturns, SaveResult, FinishLoad, MarkLoad, SettleSave
  <2>3. QED
    BY <1>1, <1>4, <2>2 DEF CheckIdle, Acquire, ReleaseUnstarted, SettleRelease, LockHeld, Release, storeVars
<1>5. QED
  BY <1>3, <1>4

LEMMA InitHeld == Init => TokenHeld
  BY DEF Init, InitWith, TokenHeld, Holding, RunPCs

LEMMA NextHeld ==
    ASSUME Cancellers = {}
    PROVE  TypeOK /\ TokenHeld /\ [Next]_vars => TokenHeld'
<1> SUFFICES ASSUME TypeOK, TokenHeld, [Next]_vars
             PROVE  TokenHeld'
  OBVIOUS
<1>1. ASSUME NEW r \in Requests, Begin(r)
      PROVE  TokenHeld'
  <2>1. /\ store' = store /\ copy' = copy
        /\ pc'[r] = "check"
        /\ \A q \in Requests \ {r} : pc'[q] = pc[q] /\ sess'[q] = sess[q]
    BY <1>1 DEF Begin, Goto, TypeOK, storeVars
  <2>2. QED
    BY <2>1 DEF TokenHeld, Holding, RunPCs
<1>2. ASSUME NEW r \in Requests, RequestStep(r)
      PROVE  TokenHeld'
  <2>1. ASSUME NEW q \in Requests
        PROVE  /\ pc'[q] \in Holding => store'[sess'[q]].lock = q
               /\ pc'[q] \in RunPCs => copy'[q].lock = q
    <3>1. CASE q = r
      BY <1>2, <3>1, OwnStep, OwnToken
    <3>2. CASE q # r
      BY <1>2, <3>2, OwnStep, HeldUntouched DEF TokenHeld, Holding, RunPCs
    <3>3. QED
      BY <3>1, <3>2
  <2>2. QED
    BY <2>1 DEF TokenHeld, Holding, RunPCs
<1>3. CASE Restart
  <2>1. \A r \in Requests : pc'[r] \in {"new", "lost"} \cup EndPCs
    BY <1>3 DEF Restart, Reloaded, LosesAllBut
  <2>2. QED
    BY <2>1 DEF TokenHeld, Holding, RunPCs, EndPCs
<1>4. CASE UNCHANGED vars
  BY <1>4 DEF TokenHeld, Holding, RunPCs, vars, requestVars, storeVars
<1>5. QED
  BY <1>1, <1>2, <1>3, <1>4 DEF Next

LEMMA HeldIsExclusive == TokenHeld => Exclusive
  BY DEF TokenHeld, Exclusive, Executing, Holding, RunPCs

\* Without /cancel commands the token in the record is the executing request's
\* from Acquire to the save that settles the execution.
THEOREM TokenIsHeld ==
    ASSUME Cancellers = {}
    PROVE  Spec => []TokenHeld
<1>1. TypeOK /\ TokenHeld /\ [Next]_vars => TokenHeld'
  BY NextHeld
<1>2. QED
  BY <1>1, InitHeld, TypeCorrect, PTL DEF Spec

\* One execution per session at a time (FR-006), for every number of requests
\* and sessions, every interleaving of their handlers, any failed writes and
\* restarts, as long as no /cancel command comes.
THEOREM OneExecution ==
    ASSUME Cancellers = {}
    PROVE  Spec => []Exclusive
<1>1. TokenHeld => Exclusive
  BY HeldIsExclusive
<1>2. QED
  BY <1>1, TokenIsHeld, PTL

-----------------------------------------------------------------------------
(* Backend sessions and directories.  The store is written with copies, so  *)
(* the invariant speaks of the copies in every handler as well.            *)

ThreadKept(rec) == rec.thread \in {rec.cwd, NoThread}

StoreKept == \A s \in Sessions : ThreadKept(store[s]) /\ ThreadKept(disk[s])

CopiesKept == /\ \A r \in Requests : ThreadKept(copy[r])
              /\ \A c \in Cancellers : ThreadKept(ccopy[c])

LEMMA KeptOps ==
    ASSUME NEW rec \in Record, ThreadKept(rec)
    PROVE  /\ \A r : ThreadKept(Started(rec, r))
           /\ \A next : ThreadKept(Finished(rec, next))
           /\ \A token : ThreadKept(WithLock(rec, token))
           /\ ThreadKept(Sanitized(rec))
           /\ \A d \in Dirs : ThreadKept(InDir(rec, d))
           /\ ThreadKept(WithThread(rec))
<1>1. \A status, token : ThreadKept(Settled(rec, status, token))
  BY DEF ThreadKept, Settled
<1>2. \A d \in Dirs : ThreadKept(InDir(rec, d))
  BY DEF ThreadKept, InDir
<1>3. ThreadKept(WithThread(rec))
  BY DEF ThreadKept, WithThread, Record
<1>4. QED
  BY <1>1, <1>2, <1>3 DEF Started, Finished, WithLock, Sanitized

LEMMA BlankKept == ThreadKept(Blank)
  BY DEF ThreadKept, Blank

LEMMA SaveKept ==
    ASSUME StoreTyped, StoreKept, NEW s \in Sessions, NEW rec \in Record, ThreadKept(rec),
           SaveSucceeds(s, rec) \/ SaveFails(s, rec)
    PROVE  StoreKept'
<1>1. store' = Stored(s, rec) /\ (disk' = disk \/ disk' = Snapshot(store'))
  BY DEF SaveSucceeds, SaveFails
<1>2. \A t \in Sessions : store'[t] \in Record /\ ThreadKept(store'[t])
  BY <1>1 DEF Stored, StoreTyped, StoreKept
<1>3. \A t \in Sessions : ThreadKept(Snapshot(store')[t])
  BY <1>2, KeptOps DEF Snapshot
<1>4. QED
  BY <1>1, <1>2, <1>3 DEF StoreKept

LEMMA ReleaseKept ==
    ASSUME StoreTyped, StoreKept, NEW s \in Sessions, NEW token, Release(s, token)
    PROVE  StoreKept'
<1>1. ThreadKept(WithLock(store[s], NoLock))
  BY KeptOps DEF StoreTyped, StoreKept
<1>2. \A t \in Sessions : ThreadKept(store'[t])
  BY <1>1 DEF Release, Stored, StoreTyped, StoreKept
<1>3. QED
  BY <1>2 DEF Release, StoreKept

LEMMA RequestKept ==
    ASSUME TypeOK, StoreKept, CopiesKept, NEW r \in Requests, RequestStep(r)
    PROVE  StoreKept' /\ ThreadKept(copy'[r])
<1> DEFINE s == sess[r]
<1>1. /\ StoreTyped /\ copy[r] \in Record /\ ThreadKept(copy[r]) /\ want[r] \in Dirs
      /\ copy \in [Requests -> Record]
      /\ pc[r] # "new" => s \in Sessions
  BY DEF TypeOK, StoreTyped, CopiesKept
<1>2. s \in Sessions => store[s] \in Record /\ ThreadKept(store[s])
  BY DEF TypeOK, StoreKept
<1>3. CASE CheckIdle(r)
  BY <1>1, <1>3, BlankKept DEF CheckIdle, Goto, Keep, Return, storeVars, StoreKept
<1>4. CASE Acquire(r)
  <2>1. s \in Sessions /\ ThreadKept(WithLock(store[s], r))
    BY <1>1, <1>2, <1>4, KeptOps DEF Acquire
  <2>2. StoreKept'
    BY <1>1, <1>4, <2>1 DEF Acquire, Stored, StoreKept, StoreTyped
  <2>3. QED
    BY <1>1, <1>4, <2>2, BlankKept DEF Acquire, Goto, Keep, Return
<1>5. CASE Reload(r)
  BY <1>1, <1>2, <1>5 DEF Reload, Goto, Keep, storeVars, StoreKept
<1>6. CASE StartExecution(r)
  <2> DEFINE locked == Started(copy[r], r)
  <2>1. s \in Sessions /\ locked \in Record /\ ThreadKept(locked)
    BY <1>1, <1>6, KeptOps, SettledOps DEF StartExecution
  <2>2. ThreadKept(InDir(locked, want[r]))
    BY <1>1, <2>1, KeptOps
  <2>3. UNCHANGED storeVars \/ SaveSucceeds(s, locked) \/ SaveFails(s, locked)
    BY <1>6 DEF StartExecution
  <2>4. StoreKept'
    BY <1>1, <2>1, <2>3, SaveKept DEF storeVars, StoreKept
  <2>5. copy'[r] = copy[r] \/ copy'[r] = InDir(locked, want[r])
    BY <1>1, <1>6 DEF StartExecution, Goto, Keep
  <2>6. QED
    BY <1>1, <2>2, <2>4, <2>5
<1>7. CASE ReleaseUnstarted(r)
  BY <1>1, <1>7, ReleaseKept, BlankKept DEF ReleaseUnstarted, Keep, Return
<1>8. CASE RegisterCancel(r)
  BY <1>1, <1>8 DEF RegisterCancel, Goto, storeVars, StoreKept
<1>9. CASE BackendReturns(r)
  <2>1. ThreadKept(WithThread(copy[r]))
    BY <1>1, KeptOps
  <2>2. copy'[r] \in {copy[r], WithThread(copy[r])}
    BY <1>1, <1>9 DEF BackendReturns, Goto, Keep
  <2>3. StoreKept'
    BY <1>9 DEF BackendReturns, storeVars, StoreKept
  <2>4. QED
    BY <1>1, <2>1, <2>2, <2>3
<1>10. CASE SaveResult(r)
  <2>1. StoreKept'
    BY <1>1, <1>10, SaveKept DEF SaveResult
  <2>2. QED
    BY <1>1, <1>10, <2>1 DEF SaveResult, Goto
<1>11. CASE FinishLoad(r)
  <2>1. s \in Sessions /\ \A next : ThreadKept(Finished(store[s], next))
    BY <1>1, <1>2, <1>11, KeptOps DEF FinishLoad
  <2>2. QED
    BY <1>1, <1>11, <2>1, BlankKept DEF FinishLoad, Keep, Return, storeVars, StoreKept
<1>12. CASE MarkLoad(r)
  <2>1. s \in Sessions /\ \A next : ThreadKept(Finished(store[s], next))
    BY <1>1, <1>2, <1>12, KeptOps DEF MarkLoad
  <2>2. QED
    BY <1>1, <1>2, <1>12, <2>1, BlankKept DEF MarkLoad, Keep, Return, storeVars, StoreKept
<1>13. CASE SettleSave(r)
  <2>1. UNCHANGED storeVars \/ SaveSucceeds(s, copy[r]) \/ SaveFails(s, copy[r])
    BY <1>13 DEF SettleSave
  <2>2. s \in Sessions
    BY <1>1, <1>13 DEF SettleSave
  <2>3. StoreKept'
    BY <1>1, <2>1, <2>2, SaveKept DEF storeVars, StoreKept
  <2>4. copy'[r] \in {copy[r], Blank}
    BY <1>1, <1>13 DEF SettleSave, Goto, Keep, Return
  <2>5. QED
    BY <1>1, <2>3, <2>4, BlankKept
<1>14. CASE SettleRelease(r)
  BY <1>1, <1>14, ReleaseKept, BlankKept DEF SettleRelease, Keep, Return
<1>15. QED
  BY <1>3, <1>4, <1>5, <1>6, <1>7, <1>8, <1>9, <1>10, <1>11, <1>12, <1>13, <1>14 DEF RequestStep

LEMMA CancelKept ==
    ASSUME TypeOK, StoreKept, CopiesKept, NEW c \in Cancellers, CancelBegin(c) \/ CancelStep(c)
    PROVE  StoreKept' /\ CopiesKept'
<1> DEFINE s == csess[c]
<1>1. /\ StoreTyped /\ ccopy[c] \in Record /\ ThreadKept(ccopy[c])
      /\ ccopy \in [Cancellers -> Record]
      /\ cpc[c] # "new" => s \in Sessions
  BY DEF TypeOK, StoreTyped, CopiesKept
<1>2. CASE CancelBegin(c) \/ CancelRead(c) \/ CancelSignal(c)
  BY <1>2 DEF CancelBegin, CancelRead, CancelSignal, requestVars, storeVars, StoreKept, CopiesKept
<1>3. CASE CancelReleaseLoad(c)
  <2>1. ThreadKept(Finished(store[s], "idle"))
    BY <1>1, <1>3, KeptOps DEF CancelReleaseLoad, StoreKept, StoreTyped
  <2>2. QED
    BY <1>1, <1>3, <2>1 DEF CancelReleaseLoad, requestVars, storeVars, StoreKept, CopiesKept
<1>4. CASE CancelReleaseSave(c)
  <2>1. StoreKept'
    BY <1>1, <1>4, SaveKept DEF CancelReleaseSave
  <2>2. QED
    BY <1>4, <2>1 DEF CancelReleaseSave, requestVars, CopiesKept
<1>5. CASE CancelReleaseUnlock(c)
  <2>1. StoreKept'
    BY <1>1, <1>5, ReleaseKept DEF CancelReleaseUnlock
  <2>2. QED
    BY <1>5, <2>1 DEF CancelReleaseUnlock, requestVars, CopiesKept
<1>6. QED
  BY <1>2, <1>3, <1>4, <1>5 DEF CancelStep

LEMMA NextKept == TypeOK /\ StoreKept /\ CopiesKept /\ [Next]_vars => StoreKept' /\ CopiesKept'
<1> SUFFICES ASSUME TypeOK, StoreKept, CopiesKept, [Next]_vars
             PROVE  StoreKept' /\ CopiesKept'
  OBVIOUS
<1>1. ASSUME NEW r \in Requests, Begin(r)
      PROVE  StoreKept' /\ CopiesKept'
  BY <1>1 DEF Begin, Goto, cancelVars, storeVars, StoreKept, CopiesKept
<1>2. ASSUME NEW r \in Requests, RequestStep(r)
      PROVE  StoreKept' /\ CopiesKept'
  <2>1. ccopy' = ccopy
    BY <1>2 DEF RequestStep, CheckIdle, Acquire, Reload, StartExecution, ReleaseUnstarted, RegisterCancel,
                BackendReturns, SaveResult, FinishLoad, MarkLoad, SettleSave, SettleRelease, cancelVars
  <2>2. QED
    BY <1>2, <2>1, RequestKept, OwnStep DEF CopiesKept
<1>3. CASE Restart
  <2>1. CopiesKept'
    BY <1>3, BlankKept DEF Restart, Reloaded, CopiesKept
  <2>2. StoreKept'
    BY <1>3 DEF Restart, Reloaded, StoreKept
  <2>3. QED
    BY <2>1, <2>2
<1>4. CASE UNCHANGED vars
  BY <1>4 DEF vars, requestVars, cancelVars, storeVars, StoreKept, CopiesKept
<1>5. QED
  BY <1>1, <1>2, <1>3, <1>4, CancelKept DEF Next

\* Backend sessions never drift across workspaces: whatever requests, /cancel
\* commands, failed writes and restarts do, a record carries a backend session
\* that was started in the record's own directory.
THEOREM ThreadsStay == Spec => []ThreadInItsDir
<1>1. Init => StoreKept /\ CopiesKept
  BY BlankKept DEF Init, InitWith, Persisted, StoreKept, CopiesKept, ThreadKept
<1>2. StoreKept /\ CopiesKept => ThreadInItsDir
  BY DEF StoreKept, CopiesKept, ThreadKept, ThreadInItsDir
<1>3. QED
  BY <1>1, <1>2, NextKept, TypeCorrect, PTL DEF Spec

-----------------------------------------------------------------------------
(* SessionLock implements ExecutionSlot, without /cancel commands.          *)

Starting == {"new", "check", "acquire", "reload", "start", "unlock", "register"}

slots == [s \in Sessions |-> SlotOf(s)]

LEMMA SlotIs ==
    ASSUME TypeOK, Exclusive, NEW s \in Sessions
    PROVE  /\ \A r \in Requests : Executing(r, s) => SlotOf(s) = r
           /\ (\A r \in Requests : ~Executing(r, s)) => SlotOf(s) = NoLock
  BY DEF SlotOf, Exclusive

\* As long as nobody begins or ends to execute, the slots stay as they are.
LEMMA SlotsKept ==
    ASSUME \A r \in Requests, s \in Sessions : Executing(r, s)' <=> Executing(r, s)
    PROVE  slots' = slots
<1>1. \A s \in Sessions : SlotOf(s)' = SlotOf(s)
  BY DEF SlotOf
<1>2. QED
  BY <1>1 DEF slots

\* A request that is turned away, or that moves on without executing.
LEMMA OtherStep ==
    ASSUME TypeOK, NEW r \in Requests, sess' = sess \/ pc[r] = "new",
           \A q \in Requests \ {r} : pc'[q] = pc[q] /\ sess'[q] = sess[q],
           pc[r] # "executing", pc'[r] # "executing",
           pc[r] \notin Starting => pc'[r] \notin Starting
    PROVE  slots' = slots /\ (Closed' = Closed \/ Closed' = Closed \cup {r})
<1>1. slots' = slots
  BY SlotsKept DEF Executing
<1>2. Closed' = Closed \/ Closed' = Closed \cup {r}
  BY DEF Closed, Starting
<1>3. QED
  BY <1>1, <1>2

LEMMA StepImplements ==
    ASSUME Cancellers = {}, TypeOK, TypeOK', TokenHeld, TokenHeld', [Next]_vars
    PROVE  [Slot!Next]_<<slots, Closed>>
<1>1. Exclusive /\ Exclusive'
  BY HeldIsExclusive DEF TokenHeld, Exclusive, Executing, Holding, RunPCs
<1>2. ASSUME NEW r \in Requests, slots' = slots /\ (Closed' = Closed \/ Closed' = Closed \cup {r})
      PROVE  [Slot!Next]_<<slots, Closed>>
  BY <1>2 DEF Slot!Next, Slot!TurnAway, slots
<1>3. ASSUME NEW r \in Requests, Begin(r)
      PROVE  [Slot!Next]_<<slots, Closed>>
  <2>1. /\ pc[r] = "new" /\ pc'[r] = "check"
        /\ \A q \in Requests \ {r} : pc'[q] = pc[q] /\ sess'[q] = sess[q]
    BY <1>3 DEF Begin, Goto, TypeOK
  <2>2. QED
    BY <1>2, <2>1, OtherStep DEF Starting
<1>4. ASSUME NEW r \in Requests, RegisterCancel(r)
      PROVE  [Slot!Next]_<<slots, Closed>>
  <2> DEFINE s == sess[r]
  <2>1. /\ pc[r] = "register" /\ pc'[r] = "executing" /\ s \in Sessions /\ sess' = sess
        /\ \A q \in Requests \ {r} : pc'[q] = pc[q]
    BY <1>4 DEF RegisterCancel, Goto, TypeOK
  <2>2. \A q \in Requests : ~Executing(q, s)
    BY <2>1 DEF TokenHeld, Executing, Holding, RunPCs
  <2>3. SlotOf(s) = NoLock
    BY <1>1, <2>1, <2>2, SlotIs
  <2>4. SlotOf(s)' = r
    BY <1>1, <2>1 DEF SlotOf, Executing, Exclusive
  <2>5. \A t \in Sessions \ {s} : SlotOf(t)' = SlotOf(t)
    <3>1. \A t \in Sessions \ {s}, q \in Requests : Executing(q, t)' <=> Executing(q, t)
      BY <2>1 DEF Executing
    <3>2. QED
      BY <3>1 DEF SlotOf
  <2>6. slots' = [slots EXCEPT ![s] = r]
    BY <2>1, <2>4, <2>5 DEF slots
  <2>7. r \notin Closed /\ Closed' = Closed \cup {r}
    BY <2>1 DEF Closed
  <2>8. Slot!Start(r, s)
    BY <2>1, <2>3, <2>6, <2>7 DEF Slot!Start, slots
  <2>9. QED
    BY <2>1, <2>8 DEF Slot!Next
<1>5. ASSUME NEW r \in Requests, BackendReturns(r)
      PROVE  [Slot!Next]_<<slots, Closed>>
  <2> DEFINE s == sess[r]
  <2>1. /\ pc[r] = "executing" /\ pc'[r] \in {"markLoad", "saveResult"}
        /\ s \in Sessions /\ sess' = sess
        /\ \A q \in Requests \ {r} : pc'[q] = pc[q]
    BY <1>5 DEF BackendReturns, Goto, Keep, TypeOK
  <2>2. SlotOf(s) = r /\ r # NoLock
    BY <1>1, <2>1, SlotIs, RecordConstants DEF Executing
  <2>3. \A q \in Requests : ~Executing(q, s)'
    BY <1>1, <2>1 DEF Exclusive, Executing
  <2>4. SlotOf(s)' = NoLock
    BY <2>3 DEF SlotOf
  <2>5. \A t \in Sessions \ {s} : SlotOf(t)' = SlotOf(t)
    <3>1. \A t \in Sessions \ {s}, q \in Requests : Executing(q, t)' <=> Executing(q, t)
      BY <2>1 DEF Executing
    <3>2. QED
      BY <3>1 DEF SlotOf
  <2>6. slots' = [slots EXCEPT ![s] = NoLock]
    BY <2>1, <2>4, <2>5 DEF slots
  <2>7. Closed' = Closed
    BY <2>1 DEF Closed
  <2>8. Slot!Stop(s)
    BY <2>1, <2>2, <2>6, <2>7 DEF Slot!Stop, slots
  <2>9. QED
    BY <2>1, <2>8 DEF Slot!Next
<1>6. ASSUME NEW r \in Requests, RequestStep(r), ~RegisterCancel(r), ~BackendReturns(r)
      PROVE  [Slot!Next]_<<slots, Closed>>
  <2>1. sess' = sess /\ \A q \in Requests \ {r} : pc'[q] = pc[q]
    BY <1>6, OwnStep
  <2>2. /\ pc[r] # "executing" /\ pc'[r] # "executing"
        /\ pc[r] \notin Starting => pc'[r] \notin Starting
    BY <1>6 DEF RequestStep, CheckIdle, Acquire, Reload, StartExecution, ReleaseUnstarted, SaveResult,
                FinishLoad, MarkLoad, SettleSave, SettleRelease, Goto, Keep, Return, TypeOK, Starting
  <2>3. QED
    BY <1>2, <2>1, <2>2, OtherStep
<1>7. CASE Restart
  <2>1. \A r \in Requests : ~Executing(r, sess[r])' /\ pc'[r] # "executing"
    BY <1>7 DEF Restart, LosesAllBut, EndPCs, Executing
  <2>2. slots' = [s \in Sessions |-> NoLock]
    BY <2>1 DEF slots, SlotOf, Executing
  <2>3. Closed' \subseteq Requests /\ Closed \subseteq Closed'
    BY <1>7 DEF Restart, LosesAllBut, EndPCs, Closed, Starting
  <2>4. Closed' = Closed \cup Closed' /\ Closed' \in SUBSET Requests
    BY <2>3
  <2>5. Slot!Crash
    BY <2>2, <2>4 DEF Slot!Crash, slots
  <2>6. QED
    BY <2>5 DEF Slot!Next
<1>8. CASE UNCHANGED vars
  <2>1. slots' = slots
    BY <1>8, SlotsKept DEF Executing, vars, requestVars
  <2>2. Closed' = Closed
    BY <1>8 DEF Closed, vars, requestVars
  <2>3. QED
    BY <2>1, <2>2
<1>9. QED
  BY <1>3, <1>4, <1>5, <1>6, <1>7, <1>8 DEF Next

\* The lock protocol implements the slot: a session has room for one execution
\* and a request occupies it at most once, as long as no /cancel comes.
THEOREM LockImplementsSlot ==
    ASSUME Cancellers = {}
    PROVE  Spec => ImplementsSlot
<1>1. Init => Slot!Init
  BY DEF Init, InitWith, Slot!Init, SlotOf, Executing, Closed
<1>2. TypeOK /\ TypeOK' /\ TokenHeld /\ TokenHeld' /\ [Next]_vars
        => [Slot!Next]_<<[s \in Sessions |-> SlotOf(s)], Closed>>
  BY StepImplements DEF slots
<1>3. QED
  BY <1>1, <1>2, TypeCorrect, TokenIsHeld, PTL DEF Spec, ImplementsSlot, Slot!Spec
-----------------------------------------------------------------------------
(* Who a running record belongs to, without /cancel commands and with the  *)
(* file repository.  (A PostgreSQL record stays running over a restart.)   *)

Free(rec) == ~IsRunning(rec) /\ rec.lock = NoLock

\* No record in the file is running or locked.
DiskFree == \A s \in Sessions : Free(disk[s])

LEMMA SnapshotFree ==
    ASSUME NEW f
    PROVE  \A s \in Sessions : Free(Snapshot(f)[s])
  BY DEF Snapshot, Free, Sanitized, Finished, Settled, IsRunning

\* A record in the file is free, whoever writes it.
LEMMA NextDiskFree == DiskFree /\ [Next]_vars => DiskFree'
<1> SUFFICES ASSUME DiskFree, [Next]_vars
             PROVE  DiskFree'
  OBVIOUS
<1>1. ASSUME disk' = disk \/ disk' = Snapshot(store')
      PROVE  DiskFree'
  BY <1>1, SnapshotFree DEF DiskFree
<1>2. ASSUME NEW r \in Requests, Begin(r) \/ RequestStep(r)
      PROVE  disk' = disk \/ disk' = Snapshot(store')
  BY <1>2 DEF RequestStep, Begin, CheckIdle, Acquire, Reload, StartExecution, ReleaseUnstarted,
              RegisterCancel, BackendReturns, SaveResult, FinishLoad, MarkLoad, SettleSave, SettleRelease,
              SaveSucceeds, SaveFails, Release, storeVars
<1>3. ASSUME NEW c \in Cancellers, CancelBegin(c) \/ CancelStep(c)
      PROVE  disk' = disk \/ disk' = Snapshot(store')
  BY <1>3 DEF CancelStep, CancelBegin, CancelRead, CancelSignal, CancelReleaseLoad, CancelReleaseSave,
              CancelReleaseUnlock, SaveSucceeds, SaveFails, Release, storeVars
<1>4. Restart \/ UNCHANGED vars => disk' = disk
  BY DEF Restart, Reloaded, vars, storeVars
<1>5. QED
  BY <1>1, <1>2, <1>3, <1>4 DEF Next

\* The steps at which a request's record says running because of it.
Owning == RunPCs \cup {"finishLoad", "markLoad"}

Owner(r, s) ==
    /\ sess[r] = s /\ store[s].lock = r
    /\ pc[r] \in Owning \cup {"settleSave"}

OwnsRecord(r) ==
    /\ pc[r] \in RunPCs => IsRunning(copy[r])
    /\ pc[r] \in Owning => IsRunning(store[sess[r]])
    /\ pc[r] = "settleSave" => Free(copy[r])

RunningIsOwned == faults = 0 =>
    \A s \in Sessions : IsRunning(store[s]) => \E r \in Requests : Owner(r, s)

\* What a request's own step does to its own record.
LEMMA OwnStepOwns ==
    ASSUME TypeOK, TokenHeld, NEW r \in Requests, OwnsRecord(r), RequestStep(r)
    PROVE  OwnsRecord(r)'
<1> USE DEF Owning, RunPCs
<1>1. /\ pc \in [Requests -> LockPCs] /\ copy \in [Requests -> Record]
      /\ store \in [Sessions -> Record] /\ sess' = sess
      /\ pc[r] # "new" => sess[r] \in Sessions
  BY OwnStep DEF TypeOK
<1>2. CASE CheckIdle(r) \/ Acquire(r) \/ Reload(r) \/ ReleaseUnstarted(r) \/ SettleSave(r)
           \/ SettleRelease(r)
  <2>1. pc'[r] \notin Owning \cup {"settleSave"}
    BY <1>1, <1>2 DEF CheckIdle, Acquire, Reload, ReleaseUnstarted, SettleSave, SettleRelease,
                      Goto, Keep, Return
  <2>2. QED
    BY <2>1 DEF OwnsRecord
<1>3. CASE StartExecution(r)
  <2> DEFINE locked == Started(copy[r], r)
  <2>1. CASE Goto(r, "unlock")
    BY <1>1, <2>1 DEF Goto, OwnsRecord
  <2>2. CASE SaveSucceeds(sess[r], locked) /\ Keep(r, InDir(locked, want[r]), "register")
    <3>1. IsRunning(locked) /\ IsRunning(InDir(locked, want[r]))
      BY DEF Started, Settled, InDir, IsRunning
    <3>2. /\ store'[sess[r]] = locked
          /\ pc'[r] = "register" /\ copy'[r] = InDir(locked, want[r])
      <4>1. sess[r] \in Sessions
        BY <1>1, <1>3 DEF StartExecution
      <4>2. QED
        BY <1>1, <2>2, <4>1 DEF SaveSucceeds, Stored, Keep
    <3>3. QED
      BY <1>1, <3>1, <3>2 DEF OwnsRecord
  <2>3. QED
    BY <1>3, <2>1, <2>2 DEF StartExecution
<1>4. CASE RegisterCancel(r)
  BY <1>1, <1>4 DEF RegisterCancel, Goto, OwnsRecord, storeVars
<1>5. CASE BackendReturns(r)
  <2>1. IsRunning(copy[r]) => IsRunning(WithThread(copy[r]))
    BY <1>1 DEF WithThread, IsRunning, Record
  <2>2. /\ copy'[r] \in {copy[r], WithThread(copy[r])}
        /\ pc'[r] \in {"markLoad", "saveResult"} /\ store' = store
    BY <1>1, <1>5 DEF BackendReturns, Goto, Keep, storeVars
  <2>3. QED
    BY <1>1, <1>5, <2>1, <2>2 DEF BackendReturns, OwnsRecord
<1>6. CASE SaveResult(r)
  <2>1. store'[sess[r]] = copy[r] /\ pc'[r] \in {"finishLoad", "markLoad"}
    <3>1. sess[r] \in Sessions /\ (SaveSucceeds(sess[r], copy[r]) \/ SaveFails(sess[r], copy[r]))
      BY <1>1, <1>6 DEF SaveResult
    <3>2. store'[sess[r]] = copy[r]
      BY <1>1, <3>1 DEF SaveSucceeds, SaveFails, Stored
    <3>3. QED
      BY <1>1, <1>6, <3>2 DEF SaveResult, Goto
  <2>2. QED
    BY <1>1, <1>6, <2>1 DEF SaveResult, OwnsRecord
<1>7. CASE FinishLoad(r) \/ MarkLoad(r)
  <2>1. IsRunning(store[sess[r]]) /\ store' = store
    BY <1>7 DEF FinishLoad, MarkLoad, OwnsRecord, storeVars
  <2>2. \A next \in {"idle", "error"} : Free(Finished(store[sess[r]], next))
    BY DEF Free, Finished, Settled, IsRunning
  <2>3. \/ pc'[r] = "failed"
        \/ /\ pc'[r] = "settleSave"
           /\ \E next \in {"idle", "error"} : copy'[r] = Finished(store[sess[r]], next)
    BY <1>1, <1>7, <2>1 DEF FinishLoad, MarkLoad, Keep, Return
  <2>4. QED
    BY <2>2, <2>3 DEF OwnsRecord
<1>8. QED
  BY <1>2, <1>3, <1>4, <1>5, <1>6, <1>7 DEF RequestStep

LEMMA OthersOwn ==
    ASSUME TypeOK, TokenHeld, NEW r \in Requests, RequestStep(r),
           NEW q \in Requests \ {r}
    PROVE  /\ OwnsRecord(q) => OwnsRecord(q)'
           /\ \A s : Owner(q, s) => Owner(q, s)'
<1>1. pc'[q] = pc[q] /\ copy'[q] = copy[q] /\ sess' = sess
  BY OwnStep
<1>2. pc[q] \in Owning \cup {"settleSave"} => store'[sess[q]] = store[sess[q]]
  BY HeldUntouched DEF Owning, Holding
<1>3. QED
  BY <1>1, <1>2 DEF OwnsRecord, Owner, Owning

\* The owner's own steps either keep the record running and its own, or settle it.
LEMMA OwnStepOwned ==
    ASSUME Backing = "file", TypeOK, TokenHeld, NEW r \in Requests, OwnsRecord(r), RequestStep(r),
           faults' = 0, NEW s \in Sessions, s = sess[r], IsRunning(store'[s]),
           IsRunning(store[s]) => \E q \in Requests : Owner(q, s)
    PROVE  \E q \in Requests : Owner(q, s)'
<1>1. /\ pc \in [Requests -> LockPCs] /\ copy \in [Requests -> Record]
      /\ store \in [Sessions -> Record] /\ sess' = sess /\ r # NoLock
      /\ faults \in Nat
  BY OwnStep, RecordConstants DEF TypeOK
<1>2. \A q \in Requests \ {r} : Owner(q, s) => Owner(q, s)'
  BY OthersOwn
<1>3. ASSUME store'[s] = store[s], Owner(r, s) => Owner(r, s)'
      PROVE  \E q \in Requests : Owner(q, s)'
  BY <1>2, <1>3
<1>4. CASE CheckIdle(r) \/ Reload(r)
  BY <1>3, <1>4 DEF CheckIdle, Reload, Owner, Owning, RunPCs, storeVars
<1>5. CASE RegisterCancel(r) \/ BackendReturns(r)
  BY <1>1, <1>3, <1>5 DEF RegisterCancel, BackendReturns, Goto, Keep, Owner, Owning, RunPCs, storeVars
<1>6. CASE FinishLoad(r) \/ MarkLoad(r)
  <2>1. HoldsToken(r) /\ IsRunning(store[s]) /\ store' = store
    BY <1>6 DEF FinishLoad, MarkLoad, HoldsToken, Readable, TokenHeld, Holding, OwnsRecord, Owning, storeVars
  <2>2. pc'[r] = "settleSave"
    BY <1>1, <1>6, <2>1 DEF FinishLoad, MarkLoad, Keep
  <2>3. QED
    BY <1>1, <1>3, <2>1, <2>2 DEF Owner
<1>7. CASE Acquire(r)
  <2>1. CASE LockHeld(s)
    BY <1>3, <1>7, <2>1 DEF Acquire, Owner, Owning, RunPCs
  <2>2. CASE ~LockHeld(s)
    <3>1. ~IsRunning(store[s])
      BY <2>2, RecordConstants DEF LockHeld, Owner
    <3>2. store'[s] = WithLock(store[s], r)
      BY <1>1, <1>7, <2>2 DEF Acquire, Stored
    <3>3. QED
      BY <3>1, <3>2 DEF WithLock, Settled, IsRunning
  <2>3. QED
    BY <2>1, <2>2
<1>8. CASE StartExecution(r)
  <2>1. CASE UNCHANGED storeVars
    BY <1>3, <1>8, <2>1 DEF StartExecution, Owner, Owning, RunPCs, storeVars
  <2>2. CASE SaveSucceeds(s, Started(copy[r], r)) /\ Keep(r, InDir(Started(copy[r], r), want[r]), "register")
    <3>1. store'[s] = Started(copy[r], r) /\ pc'[r] = "register"
      BY <1>1, <2>2 DEF SaveSucceeds, Stored, Keep
    <3>2. store'[s].lock = r
      BY <3>1 DEF Started, Settled
    <3>3. QED
      BY <1>1, <3>1, <3>2 DEF Owner, Owning, RunPCs
  <2>3. CASE SaveFails(s, Started(copy[r], r))
    BY <1>1, <2>3 DEF SaveFails
  <2>4. QED
    BY <1>8, <2>1, <2>2, <2>3 DEF StartExecution
<1>9. CASE ReleaseUnstarted(r) \/ SettleRelease(r)
  <2>1. Release(s, r) /\ ~Owner(r, s)
    BY <1>9 DEF ReleaseUnstarted, SettleRelease, Owner, Owning, RunPCs
  <2>2. IsRunning(store[s])
    BY <1>1, <2>1 DEF Release, Stored, WithLock, Settled, IsRunning
  <2>3. store[s].lock # r
    BY <2>1, <2>2 DEF Owner
  <2>4. QED
    BY <1>3, <2>1, <2>3 DEF Release
<1>10. CASE SaveResult(r)
  <2>1. CASE SaveSucceeds(s, copy[r]) /\ Goto(r, "finishLoad")
    <3>1. store'[s] = copy[r] /\ pc'[r] = "finishLoad" /\ copy[r].lock = r
      BY <1>1, <1>10, <2>1 DEF SaveResult, SaveSucceeds, Stored, Goto, TokenHeld, RunPCs
    <3>2. QED
      BY <1>1, <3>1 DEF Owner, Owning
  <2>2. CASE SaveFails(s, copy[r])
    BY <1>1, <2>2 DEF SaveFails
  <2>3. QED
    BY <1>10, <2>1, <2>2 DEF SaveResult
<1>11. CASE SettleSave(r)
  <2>1. Free(copy[r])
    BY <1>11 DEF SettleSave, OwnsRecord
  <2>2. Valid(copy[r])
    BY <2>1 DEF Free, Valid
  <2>3. SaveSucceeds(s, copy[r]) \/ SaveFails(s, copy[r])
    BY <1>11, <2>2 DEF SettleSave
  <2>4. store'[s] = copy[r]
    BY <1>1, <2>3 DEF SaveSucceeds, SaveFails, Stored
  <2>5. QED
    BY <2>1, <2>4 DEF Free
<1>12. QED
  BY <1>4, <1>5, <1>6, <1>7, <1>8, <1>9, <1>10, <1>11 DEF RequestStep

OwnerIInv ==
    /\ DiskFree
    /\ \A r \in Requests : OwnsRecord(r)
    /\ RunningIsOwned

LEMMA NextOwned ==
    ASSUME Cancellers = {}, Backing = "file"
    PROVE  TypeOK /\ TokenHeld /\ OwnerIInv /\ [Next]_vars => OwnerIInv'
<1> SUFFICES ASSUME TypeOK, TokenHeld, OwnerIInv, [Next]_vars
             PROVE  OwnerIInv'
  OBVIOUS
<1>1. DiskFree'
  BY NextDiskFree DEF OwnerIInv
<1>2. ASSUME NEW r \in Requests, Begin(r)
      PROVE  OwnerIInv'
  <2>1. /\ store' = store /\ copy' = copy /\ faults' = faults
        /\ pc[r] = "new" /\ pc'[r] = "check"
        /\ \A q \in Requests \ {r} : pc'[q] = pc[q] /\ sess'[q] = sess[q]
    BY <1>2 DEF Begin, Goto, TypeOK, storeVars
  <2>2. \A q \in Requests : OwnsRecord(q)'
    BY <2>1 DEF OwnerIInv, OwnsRecord, Owning, RunPCs
  <2>3. \A q \in Requests, s \in Sessions : Owner(q, s) => Owner(q, s)'
    BY <2>1 DEF Owner, Owning, RunPCs
  <2>4. QED
    BY <1>1, <2>1, <2>2, <2>3 DEF OwnerIInv, RunningIsOwned
<1>3. ASSUME NEW r \in Requests, RequestStep(r)
      PROVE  OwnerIInv'
  <2>1. \A q \in Requests : OwnsRecord(q)'
    BY <1>3, OwnStepOwns, OthersOwn DEF OwnerIInv
  <2>2. pc[r] # "new" /\ sess[r] \in Sessions
    BY <1>3 DEF RequestStep, CheckIdle, Acquire, Reload, StartExecution, ReleaseUnstarted, RegisterCancel,
                BackendReturns, SaveResult, FinishLoad, MarkLoad, SettleSave, SettleRelease, TypeOK
  <2>3. faults' = 0 => faults = 0
    BY <1>3 DEF RequestStep, CheckIdle, Acquire, Reload, StartExecution, ReleaseUnstarted, RegisterCancel,
                BackendReturns, SaveResult, FinishLoad, MarkLoad, SettleSave, SettleRelease, TypeOK,
                SaveSucceeds, SaveFails, Release, storeVars
  <2>4. ASSUME faults' = 0, NEW s \in Sessions, IsRunning(store'[s])
        PROVE  \E q \in Requests : Owner(q, s)'
    <3>1. IsRunning(store[s]) => \E q \in Requests : Owner(q, s)
      BY <2>3, <2>4 DEF OwnerIInv, RunningIsOwned
    <3>2. CASE s = sess[r]
      BY <1>3, <2>4, <3>1, <3>2, OwnStepOwned DEF OwnerIInv
    <3>3. CASE s # sess[r]
      <4>1. store'[s] = store[s]
        BY <1>3, <2>2, <3>3, OthersUntouched
      <4>2. PICK q \in Requests : Owner(q, s)
        BY <2>4, <3>1, <4>1
      <4>3. q # r
        BY <3>3, <4>2 DEF Owner
      <4>4. QED
        BY <1>3, <4>2, <4>3, OthersOwn
    <3>4. QED
      BY <3>2, <3>3
  <2>5. QED
    BY <1>1, <2>1, <2>4 DEF OwnerIInv, RunningIsOwned
<1>4. CASE Restart
  <2>1. \A r \in Requests : pc'[r] \in {"new", "lost"} \cup EndPCs
    BY <1>4 DEF Restart, Reloaded, LosesAllBut
  <2>2. \A r \in Requests : OwnsRecord(r)'
    BY <2>1 DEF OwnsRecord, Owning, RunPCs, EndPCs
  <2>3. \A s \in Sessions : ~IsRunning(store'[s])
    BY <1>4 DEF Restart, Reloaded, OwnerIInv, DiskFree, Free
  <2>4. QED
    BY <1>1, <2>2, <2>3 DEF OwnerIInv, RunningIsOwned
<1>5. CASE UNCHANGED vars
  BY <1>5 DEF OwnerIInv, DiskFree, OwnsRecord, RunningIsOwned, Owner, vars, requestVars, storeVars
<1>6. QED
  BY <1>2, <1>3, <1>4, <1>5 DEF Next

LEMMA InitFree == Init => \A s \in Sessions : Free(store[s]) /\ Free(disk[s])
  BY DEF Init, InitWith, Persisted, Free

LEMMA InitOwned == Init => OwnerIInv
<1>1. Init => \A r \in Requests : OwnsRecord(r)
  BY DEF Init, InitWith, OwnsRecord, Owning, RunPCs
<1>2. QED
  BY <1>1, InitFree DEF OwnerIInv, DiskFree, RunningIsOwned, Free

\* A record of the file repository that says running has a request that is
\* still to settle it: unless a write failed, no session stays busy once its
\* handlers have returned, over restarts too, as long as no /cancel comes.
THEOREM RunningIsSettled ==
    ASSUME Cancellers = {}, Backing = "file"
    PROVE  Spec => []RunningHasOwner
<1>1. TypeOK /\ TokenHeld /\ OwnerIInv /\ [Next]_vars => OwnerIInv'
  BY NextOwned
<1>2. OwnerIInv => RunningHasOwner
  BY DEF OwnerIInv, RunningIsOwned, RunningHasOwner, Owner, Owning, SettlePCs
<1>3. Spec => []TokenHeld
  BY TokenIsHeld
<1>4. QED
  BY <1>1, <1>2, <1>3, InitOwned, TypeCorrect, PTL DEF Spec

-----------------------------------------------------------------------------
(* A request that has its session to itself, with the file repository, and *)
(* whatever /cancel commands come for other sessions.                      *)

Untouched(s) == /\ \A r \in Requests : sess[r] # s
                /\ \A c \in Cancellers : csess[c] # s

Lone(r) == /\ \A q \in Requests \ {r} : sess[q] # sess[r]
           /\ \A c \in Cancellers : csess[c] # sess[r]

\* What such a request finds as long as no write has failed.
Unhindered(r) ==
    /\ pc[r] \in {"check", "acquire"} => Free(store[sess[r]])
    /\ pc[r] = "reload" => ~IsRunning(store[sess[r]])
    /\ pc[r] = "start" => ~IsRunning(copy[r])
    /\ pc[r] \notin {"unlock", "rejected"}

LoneIInv ==
    /\ DiskFree
    /\ \A s \in Sessions : Untouched(s) => Free(store[s])
    /\ \A r \in Requests : pc[r] = "new" => sess[r] = NoSession
    /\ \A c \in Cancellers : cpc[c] = "new" => csess[c] = NoSession
    /\ \A r \in Requests : faults = 0 /\ Lone(r) => Unhindered(r)

\* A canceller writes the session it was called for, and no other.
LEMMA CancelsOwn ==
    ASSUME TypeOK, NEW c \in Cancellers, CancelStep(c)
    PROVE  /\ \A s \in Sessions \ {csess[c]} : store'[s] = store[s]
           /\ UNCHANGED <<requestVars, csess>>
           /\ cpc'[c] # "new" /\ \A d \in Cancellers \ {c} : cpc'[d] = cpc[d]
           /\ faults' = 0 => faults = 0
<1>1. csess[c] \in Sessions /\ store \in [Sessions -> Record] /\ faults \in 0..MaxFaults
  BY DEF TypeOK, CancelStep, CancelRead, CancelSignal, CancelReleaseLoad, CancelReleaseSave,
         CancelReleaseUnlock
<1>2. store' = store \/ \E rec : store' = Stored(csess[c], rec)
  BY DEF CancelStep, CancelRead, CancelSignal, CancelReleaseLoad, CancelReleaseSave,
         CancelReleaseUnlock, SaveSucceeds, SaveFails, Release, storeVars
<1>3. \A s \in Sessions \ {csess[c]} : store'[s] = store[s]
  BY <1>1, <1>2 DEF Stored
<1>4. /\ UNCHANGED <<requestVars, csess>>
      /\ cpc'[c] # "new" /\ \A d \in Cancellers \ {c} : cpc'[d] = cpc[d]
  BY DEF TypeOK, CancelStep, CancelRead, CancelSignal, CancelReleaseLoad, CancelReleaseSave,
         CancelReleaseUnlock, CGoto
<1>5. faults' = 0 => faults = 0
  BY <1>1, LockConstants
     DEF CancelStep, CancelRead, CancelSignal, CancelReleaseLoad, CancelReleaseSave,
         CancelReleaseUnlock, SaveSucceeds, SaveFails, Release, storeVars
<1>6. QED
  BY <1>3, <1>4, <1>5

\* The handler's own steps find nothing in their way.
LEMMA LoneStep ==
    ASSUME Backing = "file", TypeOK, NEW r \in Requests, Unhindered(r), RequestStep(r),
           faults = 0, faults' = 0
    PROVE  Unhindered(r)'
<1>1. /\ pc \in [Requests -> LockPCs] /\ copy \in [Requests -> Record]
      /\ store \in [Sessions -> Record] /\ sess' = sess
      /\ pc[r] # "new" => sess[r] \in Sessions
  BY OwnStep DEF TypeOK
<1>2. CASE CheckIdle(r)
  <2>1. pc'[r] = "acquire" /\ store' = store /\ Free(store[sess[r]])
    BY <1>1, <1>2 DEF CheckIdle, Goto, Unhindered, Free, Readable, storeVars
  <2>2. QED
    BY <1>1, <2>1 DEF Unhindered
<1>3. CASE Acquire(r)
  <2>1. sess[r] \in Sessions /\ Free(store[sess[r]])
    BY <1>1, <1>3 DEF Acquire, Unhindered
  <2>2. store'[sess[r]] = WithLock(store[sess[r]], r) /\ pc'[r] = "reload"
    BY <1>1, <1>3, <2>1 DEF Acquire, LockHeld, Free, Stored, Goto
  <2>3. ~IsRunning(store'[sess[r]])
    BY <2>1, <2>2 DEF Free, WithLock, Settled, IsRunning
  <2>4. QED
    BY <1>1, <2>2, <2>3 DEF Unhindered
<1>4. CASE Reload(r)
  <2>1. pc'[r] = "start" /\ copy'[r] = store[sess[r]]
    BY <1>1, <1>4 DEF Reload, Keep, Readable
  <2>2. QED
    BY <1>4, <2>1 DEF Reload, Unhindered
<1>5. CASE StartExecution(r)
  <2>1. ~IsRunning(copy[r]) /\ ~SaveFails(sess[r], Started(copy[r], r))
    BY <1>5 DEF StartExecution, Unhindered, SaveFails
  <2>2. pc'[r] = "register"
    BY <1>1, <1>5, <2>1 DEF StartExecution, Keep
  <2>3. QED
    BY <2>2 DEF Unhindered
<1>6. CASE RegisterCancel(r) \/ BackendReturns(r) \/ SaveResult(r) \/ FinishLoad(r) \/ MarkLoad(r)
           \/ SettleSave(r) \/ SettleRelease(r) \/ ReleaseUnstarted(r)
  <2>1. pc'[r] \in RunPCs \cup SettlePCs \cup {"failed", "answered"}
    BY <1>1, <1>6 DEF RegisterCancel, BackendReturns, SaveResult, FinishLoad, MarkLoad, SettleSave,
                      SettleRelease, ReleaseUnstarted, Unhindered, Goto, Keep, Return, RunPCs, SettlePCs
  <2>2. QED
    BY <2>1 DEF Unhindered, RunPCs, SettlePCs
<1>7. QED
  BY <1>2, <1>3, <1>4, <1>5, <1>6 DEF RequestStep

\* A step elsewhere.
LEMMA LoneStays ==
    ASSUME TypeOK, NEW r \in Requests, Unhindered(r),
           pc'[r] = pc[r], sess'[r] = sess[r], copy'[r] = copy[r],
           sess[r] \in Sessions => store'[sess[r]] = store[sess[r]]
    PROVE  Unhindered(r)'
<1>1. pc[r] # "new" => sess[r] \in Sessions
  BY DEF TypeOK
<1>2. QED
  BY <1>1 DEF Unhindered

LEMMA NextLone ==
    ASSUME Backing = "file"
    PROVE  TypeOK /\ LoneIInv /\ [Next]_vars => LoneIInv'
<1> SUFFICES ASSUME TypeOK, LoneIInv, [Next]_vars
             PROVE  LoneIInv'
  OBVIOUS
<1>1. DiskFree'
  BY NextDiskFree DEF LoneIInv
<1>2. ASSUME NEW r \in Requests, Begin(r)
      PROVE  LoneIInv'
  <2>1. PICK s \in Sessions : sess' = [sess EXCEPT ![r] = s]
    BY <1>2 DEF Begin
  <2>2. /\ pc[r] = "new" /\ pc'[r] = "check" /\ sess[r] = NoSession /\ sess'[r] = s
        /\ \A q \in Requests \ {r} : pc'[q] = pc[q] /\ sess'[q] = sess[q]
        /\ UNCHANGED <<store, copy, faults, cpc, csess>>
    BY <1>2, <2>1 DEF Begin, Goto, TypeOK, LoneIInv, cancelVars, storeVars
  <2>3. \A t \in Sessions : Untouched(t)' => Untouched(t)
    BY <2>2, LockConstants DEF Untouched
  <2>4. Lone(r)' => Untouched(s)
    BY <2>2, LockConstants DEF Lone, Untouched
  <2>5. ASSUME faults' = 0, Lone(r)'
        PROVE  Unhindered(r)'
    BY <2>2, <2>4, <2>5 DEF LoneIInv, Unhindered
  <2>6. ASSUME NEW q \in Requests \ {r}, faults' = 0, Lone(q)'
        PROVE  Unhindered(q)'
    <3>1. CASE sess[q] = NoSession
      <4>1. pc[q] = "new"
        BY <3>1, LockConstants DEF TypeOK
      <4>2. QED
        BY <2>2, <4>1 DEF Unhindered
    <3>2. CASE sess[q] # NoSession
      <4>1. Lone(q)
        BY <2>2, <2>6, <3>2 DEF Lone
      <4>2. QED
        BY <2>2, <2>6, <4>1, LoneStays DEF LoneIInv
    <3>3. QED
      BY <3>1, <3>2
  <2>7. QED
    BY <1>1, <2>2, <2>3, <2>5, <2>6 DEF LoneIInv
<1>3. ASSUME NEW r \in Requests, RequestStep(r)
      PROVE  LoneIInv'
  <2>1. /\ UNCHANGED <<sess, cpc, csess>>
        /\ \A q \in Requests \ {r} : pc'[q] = pc[q] /\ copy'[q] = copy[q]
    BY <1>3, OwnStep
       DEF RequestStep, CheckIdle, Acquire, Reload, StartExecution, ReleaseUnstarted, RegisterCancel,
           BackendReturns, SaveResult, FinishLoad, MarkLoad, SettleSave, SettleRelease, cancelVars
  <2>2. pc[r] # "new" /\ sess[r] \in Sessions
    BY <1>3 DEF RequestStep, CheckIdle, Acquire, Reload, StartExecution, ReleaseUnstarted, RegisterCancel,
                BackendReturns, SaveResult, FinishLoad, MarkLoad, SettleSave, SettleRelease, TypeOK
  <2>3. pc'[r] # "new"
    BY <1>3 DEF RequestStep, CheckIdle, Acquire, Reload, StartExecution, ReleaseUnstarted, RegisterCancel,
                BackendReturns, SaveResult, FinishLoad, MarkLoad, SettleSave, SettleRelease, TypeOK,
                Goto, Keep, Return
  <2>4. faults' = 0 => faults = 0
    BY <1>3, LockConstants
       DEF RequestStep, CheckIdle, Acquire, Reload, StartExecution, ReleaseUnstarted, RegisterCancel,
           BackendReturns, SaveResult, FinishLoad, MarkLoad, SettleSave, SettleRelease, TypeOK,
           SaveSucceeds, SaveFails, Release, storeVars
  <2>5. \A s \in Sessions \ {sess[r]} : store'[s] = store[s]
    BY <1>3, <2>2, OthersUntouched
  <2>6. ASSUME NEW s \in Sessions, Untouched(s)'
        PROVE  Free(store'[s])
    <3>1. Untouched(s) /\ s # sess[r]
      BY <2>1, <2>6 DEF Untouched
    <3>2. QED
      BY <2>5, <3>1 DEF LoneIInv
  <2>7. ASSUME NEW q \in Requests, faults' = 0, Lone(q)'
        PROVE  Unhindered(q)'
    <3>1. faults = 0 /\ Lone(q) /\ Unhindered(q)
      BY <2>1, <2>4, <2>7 DEF Lone, LoneIInv
    <3>2. CASE q = r
      BY <1>3, <2>7, <3>1, <3>2, LoneStep
    <3>3. CASE q # r
      <4>1. sess[r] # sess[q]
        BY <3>1, <3>3 DEF Lone
      <4>2. QED
        BY <2>1, <2>5, <3>1, <3>3, <4>1, LoneStays
    <3>4. QED
      BY <3>2, <3>3
  <2>8. QED
    BY <1>1, <2>1, <2>3, <2>6, <2>7 DEF LoneIInv
<1>4. ASSUME NEW c \in Cancellers, CancelBegin(c)
      PROVE  LoneIInv'
  <2>1. /\ UNCHANGED <<store, faults, pc, sess, copy>>
        /\ cpc'[c] # "new" /\ csess[c] = NoSession
        /\ \A d \in Cancellers \ {c} : cpc'[d] = cpc[d] /\ csess'[d] = csess[d]
    BY <1>4 DEF CancelBegin, CGoto, TypeOK, LoneIInv, requestVars, storeVars
  <2>2. \A s \in Sessions : Untouched(s)' => Untouched(s)
    BY <2>1, LockConstants DEF Untouched
  <2>3. ASSUME NEW r \in Requests, faults' = 0, Lone(r)'
        PROVE  Unhindered(r)'
    <3>1. CASE sess[r] = NoSession
      <4>1. pc[r] = "new"
        BY <3>1, LockConstants DEF TypeOK
      <4>2. QED
        BY <2>1, <4>1 DEF Unhindered
    <3>2. CASE sess[r] # NoSession
      <4>1. Lone(r)
        BY <2>1, <2>3, <3>2 DEF Lone
      <4>2. QED
        BY <2>1, <2>3, <4>1, LoneStays DEF LoneIInv
    <3>3. QED
      BY <3>1, <3>2
  <2>4. QED
    BY <1>1, <2>1, <2>2, <2>3 DEF LoneIInv
<1>5. ASSUME NEW c \in Cancellers, CancelStep(c)
      PROVE  LoneIInv'
  <2>1. /\ \A s \in Sessions \ {csess[c]} : store'[s] = store[s]
        /\ UNCHANGED <<pc, sess, copy, csess>>
        /\ cpc'[c] # "new" /\ \A d \in Cancellers \ {c} : cpc'[d] = cpc[d]
        /\ faults' = 0 => faults = 0
    BY <1>5, CancelsOwn DEF requestVars
  <2>2. \A s \in Sessions : Untouched(s)' => Untouched(s) /\ s # csess[c]
    BY <2>1 DEF Untouched
  <2>3. ASSUME NEW r \in Requests, faults' = 0, Lone(r)'
        PROVE  Unhindered(r)'
    <3>1. Lone(r) /\ Unhindered(r) /\ sess[r] # csess[c]
      BY <2>1, <2>3 DEF Lone, LoneIInv
    <3>2. QED
      BY <2>1, <3>1, LoneStays
  <2>4. QED
    BY <1>1, <2>1, <2>2, <2>3 DEF LoneIInv
<1>6. CASE Restart
  <2>1. /\ store' = disk /\ UNCHANGED <<sess, csess, faults>>
        /\ \A r \in Requests : pc'[r] \in {pc[r], "lost"} /\ pc'[r] \in {"new", "lost"} \cup EndPCs
        /\ \A c \in Cancellers : cpc'[c] \in {cpc[c], "lost"}
    BY <1>6 DEF Restart, Reloaded, LosesAllBut
  <2>2. \A r \in Requests : Lone(r)' => Lone(r)
    BY <2>1 DEF Lone
  <2>3. ASSUME NEW r \in Requests, faults' = 0, Lone(r)'
        PROVE  Unhindered(r)'
    BY <2>1, <2>2, <2>3 DEF LoneIInv, Unhindered, EndPCs
  <2>4. QED
    BY <1>1, <2>1, <2>3 DEF LoneIInv, DiskFree
<1>7. CASE UNCHANGED vars
  BY <1>7 DEF LoneIInv, DiskFree, Untouched, Lone, Unhindered, vars, requestVars, cancelVars, storeVars
<1>8. QED
  BY <1>2, <1>3, <1>4, <1>5, <1>6, <1>7 DEF Next

\* With the file repository a request that has its session to itself is never
\* turned away as busy or locked, unless a write failed: neither the records an
\* earlier run of the service left behind nor the requests, the /cancel commands
\* and the restarts of other sessions stand in its way.
THEOREM LoneRequestsRun ==
    ASSUME Backing = "file"
    PROVE  Spec => []LoneRequestRuns
<1>1. Init => LoneIInv
  <2>1. Init => /\ \A r \in Requests : pc[r] = "new" /\ sess[r] = NoSession
                /\ \A c \in Cancellers : csess[c] = NoSession
    BY DEF Init, InitWith
  <2>2. QED
    BY <2>1, InitFree DEF LoneIInv, DiskFree, Unhindered
<1>2. TypeOK /\ LoneIInv /\ [Next]_vars => LoneIInv'
  BY NextLone
<1>3. TypeOK /\ LoneIInv => LoneRequestRuns
  BY DEF TypeOK, LoneIInv, Lone, Unhindered, LoneRequestRuns
<1>4. QED
  BY <1>1, <1>2, <1>3, TypeCorrect, PTL DEF Spec

=============================================================================
