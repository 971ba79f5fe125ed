------------------------- MODULE SessionFlowProofs -------------------------
(***************************************************************************)
(* Theorems of SessionFlow: where a window's messages are executed, for    *)
(* every set of windows, homes, sessions, requests, cancellers and         *)
(* directories, and any number of failed writes and restarts.              *)
(*                                                                         *)
(* The invariant is about homes.  A session gets its home when it is       *)
(* created and keeps it: whoever writes a record writes a copy, and every  *)
(* copy a handler may still write has the home of the record it will       *)
(* overwrite.  Only a restart may lose a home, and then it loses the       *)
(* handlers as well, and no file names a session whose home was not saved. *)
(***************************************************************************)
EXTENDS SessionFlow, SessionLockProofs

\* The steps at which a request relies on its session: on its home in memory,
\* and, except before its first save, in the file; those at which it may still
\* write its copy, or use it.
Placed == {"resolveSave", "bind", "check", "acquire", "reload", "start", "unlock", "answered"}
            \cup RunPCs \cup SettlePCs
Filed == Placed \ {"resolveSave"}
Copying == {"resolveSave", "start", "settleSave"} \cup RunPCs

\* The steps of a /cancel that has found its session.
Cancelling == {"read", "signal", "releaseLoad", "releaseSave", "releaseUnlock"}

FlowPCs == LockPCs \cup ResolvePCs \cup FlowEnds

FlowTyped ==
    /\ FlowTypeOK
    /\ sess \in [Requests -> Sessions \cup {NoSession}]
    /\ want \in [Requests -> Dirs]
    /\ csess \in [Cancellers -> Sessions \cup {NoSession}]
    /\ ccopy \in [Cancellers -> Record]
    /\ faults \in 0..MaxFaults

Sound(rec) == rec \in Record /\ ThreadKept(rec)

\* A home is on disk as in memory, or not yet.
StoreSound ==
    /\ StoreTyped
    /\ \A s \in Sessions : /\ Sound(store[s]) /\ Sound(disk[s])
                           /\ disk[s].home \in {store[s].home, NoHome}

RequestSound(r) ==
    /\ Sound(copy[r])
    /\ pc[r] \in Placed \cup {"bound"} => sess[r] \in Sessions
    /\ pc[r] \in Placed => store[sess[r]].home = HomeOf[win[r]]
    /\ pc[r] \in Filed => disk[sess[r]].home = HomeOf[win[r]]
    /\ pc[r] \in Copying => copy[r].home = HomeOf[win[r]]

CancelSound(c) ==
    /\ Sound(ccopy[c])
    /\ cpc[c] \in Cancelling \cup {"current"} => csess[c] \in Sessions
    /\ cpc[c] \in Cancelling => Exists(csess[c])
    /\ cpc[c] = "releaseSave" => ccopy[c].home = store[csess[c]].home

FlowIInv ==
    /\ FlowTyped
    /\ StoreSound
    /\ \A r \in Requests : RequestSound(r)
    /\ \A c \in Cancellers : CancelSound(c)
    /\ BindingsResolve
-----------------------------------------------------------------------------
(* Records: every operator of a handler keeps a record sound and at home.  *)

LEMMA SoundOps ==
    ASSUME NEW rec, Sound(rec)
    PROVE  /\ \A r \in Requests : /\ Sound(Started(rec, r))
                                  /\ Started(rec, r).home = rec.home
           /\ \A next \in {"idle", "error"} : /\ Sound(Finished(rec, next))
                                              /\ Finished(rec, next).home = rec.home
           /\ \A token \in Requests \cup {NoLock} : /\ Sound(WithLock(rec, token))
                                                    /\ WithLock(rec, token).home = rec.home
           /\ Sound(Sanitized(rec)) /\ Sanitized(rec).home = rec.home
           /\ \A d \in Dirs : Sound(InDir(rec, d)) /\ InDir(rec, d).home = rec.home
           /\ Sound(WithThread(rec)) /\ WithThread(rec).home = rec.home
<1>1. \A status, token : Settled(rec, status, token).home = rec.home
  BY DEF Settled
<1>2. /\ \A d \in Dirs : InDir(rec, d).home = rec.home
      /\ WithThread(rec).home = rec.home
  BY DEF InDir, WithThread, Sound, Record
<1>3. rec \in Record /\ ThreadKept(rec)
  BY DEF Sound
<1>4. /\ \A r \in Requests : Sound(Started(rec, r))
      /\ \A next \in {"idle", "error"} : Sound(Finished(rec, next))
      /\ \A token \in Requests \cup {NoLock} : Sound(WithLock(rec, token))
      /\ Sound(Sanitized(rec))
  BY <1>3, SettledOps, KeptOps DEF Sound
<1>5. /\ \A d \in Dirs : Sound(InDir(rec, d))
      /\ Sound(WithThread(rec))
  BY <1>3, ThreadOps, KeptOps DEF Sound
<1>6. QED
  BY <1>1, <1>2, <1>4, <1>5 DEF Started, Finished, WithLock, Sanitized

LEMMA BlankSound == Sound(Blank)
  BY BlankIsRecord, BlankKept DEF Sound

LEMMA FreshSound ==
    ASSUME NEW d \in Dirs, NEW h \in Homes
    PROVE  Sound(Fresh(d, h)) /\ Fresh(d, h).home = h
  BY DEF Sound, Fresh, ThreadKept, Record, Status

-----------------------------------------------------------------------------
(* The repository: a write that comes from the right home moves no session. *)

\* No session loses or changes its home, in memory or in the file.
HomesKept ==
    \A s \in Sessions : /\ store[s].home # NoHome => store'[s].home = store[s].home
                        /\ disk[s].home # NoHome => disk'[s].home = disk[s].home

\* What holds across a restart as well: a home in the file is final.
HomesStay ==
    \A s \in Sessions : disk[s].home # NoHome =>
        store'[s].home = disk[s].home /\ disk'[s].home = disk[s].home

LEMMA QuietHomes ==
    ASSUME StoreSound, UNCHANGED storeVars
    PROVE  StoreSound' /\ HomesKept
  BY DEF StoreSound, StoreTyped, HomesKept, storeVars

LEMMA SaveHomes ==
    ASSUME StoreSound, NEW s \in Sessions, NEW rec, Sound(rec),
           store[s].home # NoHome => rec.home = store[s].home,
           SaveSucceeds(s, rec) \/ SaveFails(s, rec)
    PROVE  /\ StoreSound' /\ HomesKept
           /\ store'[s].home = rec.home
           /\ SaveSucceeds(s, rec) => disk'[s].home = rec.home
<1>1. /\ store' = Stored(s, rec)
      /\ disk' = disk \/ disk' = Snapshot(store')
      /\ SaveSucceeds(s, rec) => disk' = Snapshot(store')
  BY DEF SaveSucceeds, SaveFails
<1>2. StoreTyped'
  BY SaveSucceedsTyped, SaveFailsTyped DEF StoreSound, Sound
<1>3. /\ store'[s] = rec
      /\ \A t \in Sessions \ {s} : store'[t] = store[t]
  BY <1>1 DEF Stored, StoreSound, StoreTyped
<1>4. \A t \in Sessions : Sound(store'[t])
  BY <1>3 DEF StoreSound
<1>5. \A t \in Sessions : /\ Sound(Snapshot(store')[t])
                          /\ Snapshot(store')[t].home = store'[t].home
  BY <1>4, SoundOps DEF Snapshot
<1>6. \A t \in Sessions : store[t].home # NoHome => store'[t].home = store[t].home
  BY <1>3
<1>7. \A t \in Sessions :
        /\ disk[t].home # NoHome => disk'[t].home = disk[t].home
        /\ Sound(disk'[t])
        /\ disk'[t].home \in {store'[t].home, NoHome}
  BY <1>1, <1>5, <1>6 DEF StoreSound
<1>8. QED
  BY <1>1, <1>2, <1>3, <1>4, <1>5, <1>6, <1>7 DEF StoreSound, HomesKept

LEMMA LockHomes ==
    ASSUME StoreSound, NEW s \in Sessions, NEW token \in Requests \cup {NoLock},
           store' = store \/ store' = Stored(s, WithLock(store[s], token)),
           UNCHANGED <<disk, faults>>
    PROVE  StoreSound' /\ HomesKept
<1>1. Sound(store[s])
  BY DEF StoreSound
<1>2. Sound(WithLock(store[s], token)) /\ WithLock(store[s], token).home = store[s].home
  BY <1>1, SoundOps
<1>3. store' \in [Sessions -> Record]
      /\ \A t \in Sessions : Sound(store'[t]) /\ store'[t].home = store[t].home
  BY <1>2 DEF StoreSound, StoreTyped, Stored, Sound
<1>4. QED
  BY <1>3 DEF StoreSound, StoreTyped, HomesKept

LEMMA ReleaseHomes ==
    ASSUME StoreSound, NEW s \in Sessions, NEW token, Release(s, token)
    PROVE  StoreSound' /\ HomesKept
  BY LockHomes DEF Release

\* A window's home is one.
LEMMA WindowHome ==
    ASSUME NEW w \in Windows
    PROVE  HomeOf[w] \in Homes /\ HomeOf[w] # NoHome
  BY FlowConstants, RecordConstants

-----------------------------------------------------------------------------
(* What the steps of one handler leave of the others.                      *)

\* While no session moves, a handler that does nothing stays where it is.
LEMMA OthersStay ==
    ASSUME FlowIInv, HomesKept, UNCHANGED win,
           NEW q \in Requests, pc'[q] = pc[q], sess'[q] = sess[q], copy'[q] = copy[q]
    PROVE  RequestSound(q)'
<1>1. win[q] \in Windows /\ RequestSound(q)
  BY DEF FlowIInv, FlowTyped, FlowTypeOK
<1>2. QED
  BY <1>1, WindowHome DEF HomesKept, RequestSound, Placed, Filed

LEMMA CancellersStay ==
    ASSUME FlowIInv, HomesKept,
           NEW c \in Cancellers, cpc'[c] = cpc[c], csess'[c] = csess[c], ccopy'[c] = ccopy[c]
    PROVE  CancelSound(c)'
<1>1. CancelSound(c)
  BY DEF FlowIInv
<1>2. QED
  BY <1>1 DEF HomesKept, CancelSound, Exists, Cancelling

LEMMA BindingsStay ==
    ASSUME FlowIInv, HomesKept, UNCHANGED bindingVars
    PROVE  BindingsResolve'
<1>1. \A w \in Windows : {binding[w], bindingDisk[w]} \ {NoSession} \subseteq Sessions
  BY DEF FlowIInv, FlowTyped, FlowTypeOK
<1>2. QED
  BY <1>1, WindowHome DEF FlowIInv, BindingsResolve, HomesKept, bindingVars

-----------------------------------------------------------------------------
(* A step of a request.                                                    *)

\* Request r goes to next, with the copy rec, in session s.
Moves(r, next, rec, s) ==
    /\ pc' = [pc EXCEPT ![r] = next]
    /\ copy' = [copy EXCEPT ![r] = rec]
    /\ sess' = [sess EXCEPT ![r] = s]

\* What it takes to go there.
Fits(r, next, rec, s) ==
    /\ next \in FlowPCs
    /\ Sound(rec)
    /\ s \in Sessions \cup {NoSession}
    /\ next \in Placed \cup {"bound"} => s \in Sessions
    /\ next \in Placed => store'[s].home = HomeOf[win[r]]
    /\ next \in Filed => disk'[s].home = HomeOf[win[r]]
    /\ next \in Copying => rec.home = HomeOf[win[r]]

LEMMA Moved ==
    ASSUME FlowIInv, NEW r \in Requests, NEW next, NEW rec, NEW s,
           Moves(r, next, rec, s), Fits(r, next, rec, s),
           StoreSound', HomesKept, BindingsResolve',
           want' \in [Requests -> Dirs], mode' \in [Requests -> Modes],
           binding' \in [Windows -> Sessions \cup {NoSession}],
           bindingDisk' \in [Windows -> Sessions \cup {NoSession}],
           UNCHANGED <<win, cwin, cancelVars>>
    PROVE  FlowIInv' /\ HomesKept
<1>1. FlowTyped
  BY DEF FlowIInv
<1>2. FlowTyped'
  BY <1>1 DEF FlowTyped, FlowTypeOK, Moves, Fits, Sound, StoreSound, StoreTyped, FlowPCs, cancelVars
<1>3. ASSUME NEW q \in Requests
      PROVE  RequestSound(q)'
  <2>1. CASE q = r
    <3>1. pc'[r] = next /\ copy'[r] = rec /\ sess'[r] = s /\ win' = win
      BY <1>1 DEF FlowTyped, FlowTypeOK, Moves
    <3>2. QED
      BY <2>1, <3>1 DEF RequestSound, Fits
  <2>2. CASE q # r
    <3>1. pc'[q] = pc[q] /\ copy'[q] = copy[q] /\ sess'[q] = sess[q]
      BY <1>1, <2>2 DEF FlowTyped, FlowTypeOK, Moves
    <3>2. QED
      BY <3>1, OthersStay
  <2>3. QED
    BY <2>1, <2>2
<1>4. \A c \in Cancellers : CancelSound(c)'
  BY CancellersStay DEF cancelVars
<1>5. QED
  BY <1>2, <1>3, <1>4 DEF FlowIInv

\* The same for a step that asks for nothing new and binds nothing.
LEMMA MovedOn ==
    ASSUME FlowIInv, NEW r \in Requests, NEW next, NEW rec, NEW s,
           Moves(r, next, rec, s), Fits(r, next, rec, s),
           StoreSound', HomesKept, UNCHANGED <<want, flowVars, cancelVars>>
    PROVE  FlowIInv' /\ HomesKept
<1>1. BindingsResolve'
  BY BindingsStay DEF flowVars
<1>2. QED
  BY <1>1, Moved DEF FlowIInv, FlowTyped, FlowTypeOK, flowVars, windowVars, bindingVars

\* A step within the session of the request.
LEMMA GotoMoves ==
    ASSUME FlowIInv, NEW r \in Requests, NEW next, UNCHANGED sess
    PROVE  /\ Goto(r, next) => Moves(r, next, copy[r], sess[r])
           /\ \A rec : Keep(r, rec, next) => Moves(r, next, rec, sess[r])
           /\ Return(r, next) => Moves(r, next, Blank, sess[r])
  BY DEF FlowIInv, FlowTyped, FlowTypeOK, Goto, Keep, Return, Moves

\* What a request's place says of its session.
LEMMA AtPlace ==
    ASSUME FlowIInv, NEW r \in Requests
    PROVE  /\ StoreSound /\ RequestSound(r) /\ Sound(copy[r])
           /\ win[r] \in Windows /\ want[r] \in Dirs
           /\ sess[r] \in Sessions \cup {NoSession}
           /\ HomeOf[win[r]] \in Homes /\ HomeOf[win[r]] # NoHome
           /\ pc[r] \in Placed \cup {"bound"} =>
                 sess[r] \in Sessions /\ Sound(store[sess[r]])
  BY WindowHome DEF FlowIInv, FlowTyped, FlowTypeOK, RequestSound, StoreSound

\* A handler may end anywhere.
LEMMA EndFits ==
    ASSUME FlowIInv, NEW r \in Requests, NEW s \in Sessions \cup {NoSession},
           NEW next \in {"rejected", "failed", "resolved"}
    PROVE  Fits(r, next, Blank, s)
  BY BlankSound DEF Fits, FlowPCs, Placed, Filed, Copying, LockPCs, EndPCs, FlowEnds, RunPCs, SettlePCs

-----------------------------------------------------------------------------
(* Resolving the session.                                                  *)

LEMMA ArriveSound ==
    ASSUME FlowIInv, NEW r \in Requests, Arrive(r)
    PROVE  FlowIInv' /\ HomesKept
<1>1. PICK m \in Modes, d \in Dirs :
        /\ mode' = [mode EXCEPT ![r] = m]
        /\ want' = [want EXCEPT ![r] = d]
        /\ Goto(r, CASE m = "message" -> "binding"
                     [] m = "new" -> "create"
                     [] m = "resume" -> "target")
  BY DEF Arrive
<1>2. PICK next \in {"binding", "create", "target"} : Goto(r, next)
  BY <1>1 DEF Modes
<1>3. /\ UNCHANGED <<sess, storeVars, win, cwin, cancelVars, bindingVars>>
      /\ want' \in [Requests -> Dirs] /\ mode' \in [Requests -> Modes]
  BY <1>1 DEF Arrive, FlowIInv, FlowTyped, FlowTypeOK
<1>4. Moves(r, next, copy[r], sess[r])
  BY <1>2, <1>3, GotoMoves
<1>5. Fits(r, next, copy[r], sess[r])
  BY AtPlace DEF Fits, FlowPCs, ResolvePCs, Placed, Filed, Copying, RunPCs, SettlePCs
<1>6. StoreSound' /\ HomesKept /\ BindingsResolve'
  BY <1>3, AtPlace, QuietHomes, BindingsStay
<1>7. QED
  BY <1>3, <1>4, <1>5, <1>6, Moved DEF FlowIInv, FlowTyped, FlowTypeOK, bindingVars

LEMMA ReadBindingSound ==
    ASSUME FlowIInv, NEW r \in Requests, ReadBinding(r)
    PROVE  FlowIInv' /\ HomesKept
<1>1. StoreSound' /\ HomesKept
  BY AtPlace, QuietHomes DEF ReadBinding
<1>2. binding[win[r]] \in Sessions \cup {NoSession}
  BY AtPlace DEF FlowIInv, FlowTyped, FlowTypeOK
<1>3. \/ Moves(r, "latest", copy[r], sess[r])
      \/ Moves(r, "bound", copy[r], binding[win[r]]) /\ binding[win[r]] \in Sessions
  BY <1>2 DEF ReadBinding, Goto, Moves, FlowIInv, FlowTyped, FlowTypeOK
<1>4. /\ Fits(r, "latest", copy[r], sess[r])
      /\ binding[win[r]] \in Sessions => Fits(r, "bound", copy[r], binding[win[r]])
  BY AtPlace DEF Fits, FlowPCs, ResolvePCs, Placed, Filed, Copying, RunPCs, SettlePCs
<1>5. QED
  BY <1>1, <1>3, <1>4, MovedOn DEF ReadBinding

\* A session of the window's home may be read and stamped.
LEMMA AtHomeFits ==
    ASSUME FlowIInv, NEW r \in Requests, NEW s \in Sessions, AtHome(s, win[r]),
           UNCHANGED store
    PROVE  Fits(r, "resolveSave", store[s], s)
  BY AtPlace DEF Fits, AtHome, StoreSound, FlowPCs, ResolvePCs, Placed, Filed, Copying, RunPCs, SettlePCs

LEMMA LoadBoundSound ==
    ASSUME FlowIInv, NEW r \in Requests, LoadBound(r)
    PROVE  FlowIInv' /\ HomesKept
<1>1. StoreSound' /\ HomesKept /\ sess[r] \in Sessions
  BY AtPlace, QuietHomes DEF LoadBound
<1>2. \/ AtHome(sess[r], win[r]) /\ Keep(r, store[sess[r]], "resolveSave")
      \/ Return(r, "rejected")
      \/ Goto(r, "latest")
  BY DEF LoadBound
<1>3. Fits(r, "latest", copy[r], sess[r])
  BY AtPlace DEF Fits, FlowPCs, ResolvePCs, Placed, Filed, Copying, RunPCs, SettlePCs
<1>4. PICK next, rec : Moves(r, next, rec, sess[r]) /\ Fits(r, next, rec, sess[r])
  BY <1>1, <1>2, <1>3, GotoMoves, AtHomeFits, EndFits DEF LoadBound, storeVars
<1>5. QED
  BY <1>1, <1>4, MovedOn DEF LoadBound

LEMMA FindLatestSound ==
    ASSUME FlowIInv, NEW r \in Requests, FindLatest(r)
    PROVE  FlowIInv' /\ HomesKept
<1>1. StoreSound' /\ HomesKept /\ store' = store
  BY AtPlace, QuietHomes DEF FindLatest, storeVars
<1>2. CASE UNCHANGED sess /\ (Goto(r, "create") \/ Return(r, "rejected"))
  <2>1. Fits(r, "create", copy[r], sess[r]) /\ Fits(r, "rejected", Blank, sess[r])
    BY AtPlace, EndFits DEF Fits, FlowPCs, ResolvePCs, Placed, Filed, Copying, RunPCs, SettlePCs
  <2>2. QED
    BY <1>1, <1>2, <2>1, GotoMoves, MovedOn DEF FindLatest
<1>3. ASSUME NEW s \in Candidates(win[r]),
             sess' = [sess EXCEPT ![r] = s] /\ Keep(r, store[s], "resolveSave")
      PROVE  FlowIInv' /\ HomesKept
  <2>1. s \in Sessions /\ AtHome(s, win[r])
    BY DEF Candidates
  <2>2. Moves(r, "resolveSave", store[s], s)
    BY <1>3 DEF Keep, Moves
  <2>3. QED
    BY <1>1, <2>1, <2>2, AtHomeFits, MovedOn DEF FindLatest
<1>4. QED
  BY <1>2, <1>3 DEF FindLatest

LEMMA LoadTargetSound ==
    ASSUME FlowIInv, NEW r \in Requests, LoadTarget(r)
    PROVE  FlowIInv' /\ HomesKept
<1>1. StoreSound' /\ HomesKept /\ store' = store
  BY AtPlace, QuietHomes DEF LoadTarget, storeVars
<1>2. PICK s \in Sessions :
        /\ sess' = [sess EXCEPT ![r] = s]
        /\ \/ AtHome(s, win[r]) /\ Keep(r, store[s], "resolveSave")
           \/ Return(r, "rejected")
  BY DEF LoadTarget
<1>3. PICK next, rec : Moves(r, next, rec, s) /\ Fits(r, next, rec, s)
  BY <1>1, <1>2, AtHomeFits, EndFits DEF Keep, Return, Moves
<1>4. QED
  BY <1>1, <1>3, MovedOn DEF LoadTarget

\* A request writes its copy: of its own home, which its session keeps.
LEMMA OwnSave ==
    ASSUME FlowIInv, NEW r \in Requests, pc[r] \in Placed, NEW rec, Sound(rec),
           rec.home = HomeOf[win[r]],
           SaveSucceeds(sess[r], rec) \/ SaveFails(sess[r], rec)
    PROVE  /\ StoreSound' /\ HomesKept
           /\ store'[sess[r]].home = HomeOf[win[r]]
           /\ SaveSucceeds(sess[r], rec) => disk'[sess[r]].home = HomeOf[win[r]]
<1>1. StoreSound /\ sess[r] \in Sessions /\ store[sess[r]].home = HomeOf[win[r]]
  BY AtPlace DEF RequestSound
<1>2. QED
  BY <1>1, SaveHomes

LEMMA SaveResolvedSound ==
    ASSUME FlowIInv, NEW r \in Requests, SaveResolved(r)
    PROVE  FlowIInv' /\ HomesKept
<1>1. /\ pc[r] \in Placed /\ sess[r] \in Sessions
      /\ Sound(copy[r]) /\ copy[r].home = HomeOf[win[r]]
  BY AtPlace DEF SaveResolved, RequestSound, Placed, Copying
<1>2. CASE SaveSucceeds(sess[r], copy[r]) /\ Goto(r, "bind")
  <2>1. /\ StoreSound' /\ HomesKept
        /\ store'[sess[r]].home = HomeOf[win[r]] /\ disk'[sess[r]].home = HomeOf[win[r]]
    BY <1>1, <1>2, OwnSave
  <2>2. Fits(r, "bind", copy[r], sess[r])
    BY <1>1, <2>1 DEF Fits, FlowPCs, ResolvePCs, Copying, RunPCs
  <2>3. QED
    BY <1>2, <2>1, <2>2, GotoMoves, MovedOn DEF SaveResolved
<1>3. CASE (SaveFails(sess[r], copy[r]) \/ UNCHANGED storeVars) /\ Return(r, "rejected")
  <2>1. StoreSound' /\ HomesKept
    BY <1>1, <1>3, OwnSave, QuietHomes, AtPlace
  <2>2. QED
    BY <1>1, <1>3, <2>1, EndFits, GotoMoves, MovedOn DEF SaveResolved
<1>4. QED
  BY <1>2, <1>3 DEF SaveResolved

LEMMA CreateSound ==
    ASSUME FlowIInv, NEW r \in Requests, Create(r)
    PROVE  FlowIInv' /\ HomesKept
<1> DEFINE rec == Fresh(want[r], HomeOf[win[r]])
<1>1. PICK s \in Sessions :
        /\ ~Exists(s) /\ sess' = [sess EXCEPT ![r] = s]
        /\ \/ SaveSucceeds(s, rec) /\ Goto(r, "bind")
           \/ SaveFails(s, rec) /\ Return(r, "rejected")
  BY DEF Create
<1>2. Sound(rec) /\ rec.home = HomeOf[win[r]]
  BY AtPlace, FreshSound
<1>3. /\ StoreSound' /\ HomesKept /\ store'[s].home = HomeOf[win[r]]
      /\ SaveSucceeds(s, rec) => disk'[s].home = HomeOf[win[r]]
  BY <1>1, <1>2, AtPlace, SaveHomes DEF Exists
<1>4. CASE SaveSucceeds(s, rec) /\ Goto(r, "bind")
  <2>1. Moves(r, "bind", copy[r], s)
    BY <1>1, <1>4 DEF Goto, Moves, FlowIInv, FlowTyped, FlowTypeOK
  <2>2. Fits(r, "bind", copy[r], s)
    BY <1>3, <1>4, AtPlace DEF Fits, FlowPCs, ResolvePCs, Copying, RunPCs
  <2>3. QED
    BY <1>3, <2>1, <2>2, MovedOn DEF Create
<1>5. CASE SaveFails(s, rec) /\ Return(r, "rejected")
  <2>1. Moves(r, "rejected", Blank, s)
    BY <1>1, <1>5 DEF Return, Keep, Moves
  <2>2. QED
    BY <1>3, <2>1, EndFits, MovedOn DEF Create
<1>6. QED
  BY <1>1, <1>4, <1>5

\* A window is bound to a session of its home that the file knows.
LEMMA BoundResolves ==
    ASSUME FlowIInv, NEW r \in Requests, pc[r] \in Filed,
           BindSucceeds(win[r], sess[r]) \/ BindFails(win[r], sess[r]),
           UNCHANGED <<store, disk>>
    PROVE  /\ StoreSound' /\ HomesKept /\ BindingsResolve'
           /\ binding' \in [Windows -> Sessions \cup {NoSession}]
           /\ bindingDisk' \in [Windows -> Sessions \cup {NoSession}]
<1>1. /\ win[r] \in Windows /\ sess[r] \in Sessions
      /\ store[sess[r]].home = HomeOf[win[r]] /\ disk[sess[r]].home = HomeOf[win[r]]
  BY AtPlace DEF RequestSound, Filed
<1>2. /\ binding \in [Windows -> Sessions \cup {NoSession}]
      /\ bindingDisk \in [Windows -> Sessions \cup {NoSession}]
      /\ BindingsResolve
  BY DEF FlowIInv, FlowTyped, FlowTypeOK
<1>3. /\ binding' = [binding EXCEPT ![win[r]] = sess[r]]
      /\ bindingDisk' \in {bindingDisk, binding'}
  BY DEF BindSucceeds, BindFails
<1>4. \A w \in Windows : /\ binding'[w] \in {binding[w], sess[r]}
                         /\ binding'[w] # binding[w] => w = win[r]
  BY <1>1, <1>2, <1>3
<1>5. \A w \in Windows : binding'[w] # NoSession =>
        store[binding'[w]].home = HomeOf[w] /\ disk[binding'[w]].home = HomeOf[w]
  BY <1>1, <1>2, <1>4 DEF BindingsResolve
<1>6. BindingsResolve'
  BY <1>2, <1>3, <1>5 DEF BindingsResolve
<1>7. faults' \in 0..MaxFaults
  BY LockConstants DEF FlowIInv, FlowTyped, BindSucceeds, BindFails
<1>8. StoreSound' /\ HomesKept
  BY <1>7 DEF FlowIInv, StoreSound, StoreTyped, HomesKept
<1>9. QED
  BY <1>1, <1>2, <1>3, <1>6, <1>8

LEMMA BindWindowSound ==
    ASSUME FlowIInv, NEW r \in Requests, BindWindow(r)
    PROVE  FlowIInv' /\ HomesKept
<1>1. pc[r] \in Filed /\ (BindSucceeds(win[r], sess[r]) \/ BindFails(win[r], sess[r]))
  BY DEF BindWindow, Filed, Placed
<1>2. Fits(r, "check", Blank, sess[r])
  BY <1>1, AtPlace, BlankSound
     DEF BindWindow, Fits, RequestSound, Filed, FlowPCs, LockPCs, Copying, RunPCs
<1>3. PICK next : Moves(r, next, Blank, sess[r]) /\ Fits(r, next, Blank, sess[r])
  BY <1>2, AtPlace, EndFits, GotoMoves DEF BindWindow
<1>4. QED
  BY <1>1, <1>3, BoundResolves, Moved
     DEF BindWindow, FlowIInv, FlowTyped, FlowTypeOK, windowVars

LEMMA RebindSound ==
    ASSUME FlowIInv, NEW r \in Requests, Rebind(r)
    PROVE  FlowIInv' /\ HomesKept
<1>1. pc[r] \in Filed /\ (BindSucceeds(win[r], sess[r]) \/ BindFails(win[r], sess[r]))
  BY DEF Rebind, Rebinding, Filed, Placed
<1>2. PICK next \in {"replied", "failed"} : Goto(r, next)
  BY DEF Rebind
<1>3. Fits(r, next, copy[r], sess[r])
  BY AtPlace DEF Fits, FlowPCs, LockPCs, FlowEnds, EndPCs, Filed, Placed, Copying, RunPCs, SettlePCs
<1>4. QED
  BY <1>1, <1>2, <1>3, BoundResolves, GotoMoves, Moved
     DEF Rebind, FlowIInv, FlowTyped, FlowTypeOK, windowVars

-----------------------------------------------------------------------------
(* Executing in the session: the steps of SessionLock.                     *)

\* A request that keeps its session, whose home stays.
LEMMA StayFits ==
    ASSUME FlowIInv, NEW r \in Requests, pc[r] \in Filed, StoreSound', HomesKept,
           NEW next \in Filed \cap FlowPCs, NEW rec, Sound(rec),
           next \in Copying => rec.home = HomeOf[win[r]]
    PROVE  Fits(r, next, rec, sess[r])
<1>1. /\ sess[r] \in Sessions /\ HomeOf[win[r]] # NoHome
      /\ store[sess[r]].home = HomeOf[win[r]] /\ disk[sess[r]].home = HomeOf[win[r]]
  BY AtPlace DEF RequestSound, Filed
<1>2. store'[sess[r]].home = HomeOf[win[r]] /\ disk'[sess[r]].home = HomeOf[win[r]]
  BY <1>1 DEF HomesKept
<1>3. QED
  BY <1>1, <1>2 DEF Fits

LEMMA FiledPCs == /\ Filed \subseteq FlowPCs
                  /\ RunPCs \cup SettlePCs \subseteq Filed
                  /\ RunPCs \subseteq Copying
  BY DEF Filed, Placed, FlowPCs, LockPCs, EndPCs, ResolvePCs, Copying, RunPCs, SettlePCs

LEMMA LookingSound ==
    ASSUME FlowIInv, NEW r \in Requests, UNCHANGED flowVars,
           CheckIdle(r) \/ Reload(r) \/ RegisterCancel(r) \/ BackendReturns(r)
    PROVE  FlowIInv' /\ HomesKept
<1>1. /\ pc[r] \in Filed /\ StoreSound' /\ HomesKept
      /\ UNCHANGED <<sess, want, store, cancelVars>>
  BY AtPlace, QuietHomes
     DEF CheckIdle, Reload, RegisterCancel, BackendReturns, Filed, Placed, RunPCs, storeVars
<1>2. /\ Sound(copy[r]) /\ Sound(WithThread(copy[r]))
      /\ WithThread(copy[r]).home = copy[r].home
      /\ sess[r] \in Sessions /\ Sound(store[sess[r]]) /\ store[sess[r]].home = HomeOf[win[r]]
      /\ pc[r] \in Copying => copy[r].home = HomeOf[win[r]]
  BY <1>1, AtPlace, SoundOps DEF Filed, RequestSound
<1>3. CASE CheckIdle(r)
  <2>1. Fits(r, "acquire", copy[r], sess[r])
    BY <1>1, <1>2, StayFits, FiledPCs DEF Filed, Placed, Copying, RunPCs
  <2>2. QED
    BY <1>1, <1>2, <1>3, <2>1, EndFits, GotoMoves, MovedOn DEF CheckIdle
<1>4. CASE Reload(r)
  <2>1. Fits(r, "start", store[sess[r]], sess[r]) /\ Fits(r, "unlock", copy[r], sess[r])
    BY <1>1, <1>2, StayFits, FiledPCs DEF Filed, Placed, Copying, RunPCs
  <2>2. QED
    BY <1>1, <1>4, <2>1, GotoMoves, MovedOn DEF Reload
<1>5. CASE RegisterCancel(r)
  <2>1. Fits(r, "executing", copy[r], sess[r])
    BY <1>1, <1>2, <1>5, StayFits, FiledPCs DEF RegisterCancel, RunPCs
  <2>2. QED
    BY <1>1, <1>5, <2>1, GotoMoves, MovedOn DEF RegisterCancel
<1>6. CASE BackendReturns(r)
  <2>1. copy[r].home = HomeOf[win[r]]
    BY <1>2, <1>6, FiledPCs DEF BackendReturns, RunPCs
  <2>2. Fits(r, "markLoad", copy[r], sess[r]) /\ Fits(r, "saveResult", WithThread(copy[r]), sess[r])
    BY <1>1, <1>2, <2>1, StayFits, FiledPCs DEF RunPCs, SettlePCs
  <2>3. Goto(r, "markLoad") \/ Keep(r, WithThread(copy[r]), "saveResult")
    BY <1>6 DEF BackendReturns
  <2>4. QED
    BY <1>1, <2>2, <2>3, GotoMoves, MovedOn
<1>7. QED
  BY <1>3, <1>4, <1>5, <1>6

LEMMA LockingSound ==
    ASSUME FlowIInv, NEW r \in Requests, UNCHANGED flowVars,
           Acquire(r) \/ ReleaseUnstarted(r) \/ SettleRelease(r)
    PROVE  FlowIInv' /\ HomesKept
<1>1. pc[r] \in Filed /\ UNCHANGED <<sess, want, cancelVars>>
  BY DEF Acquire, ReleaseUnstarted, SettleRelease, Filed, Placed, RunPCs, SettlePCs
<1>2. sess[r] \in Sessions /\ StoreSound /\ Sound(copy[r])
  BY <1>1, AtPlace DEF Filed
<1>3. StoreSound' /\ HomesKept
  BY <1>2, LockHomes, ReleaseHomes DEF Acquire, ReleaseUnstarted, SettleRelease
<1>4. Fits(r, "reload", copy[r], sess[r]) /\ Fits(r, "answered", Blank, sess[r])
  BY <1>1, <1>2, <1>3, StayFits, FiledPCs, BlankSound DEF Filed, Placed, Copying, RunPCs
<1>5. Goto(r, "reload") \/ Return(r, "rejected") \/ Return(r, "failed") \/ Return(r, "answered")
  BY DEF Acquire, ReleaseUnstarted, SettleRelease
<1>6. QED
  BY <1>1, <1>2, <1>3, <1>4, <1>5, EndFits, GotoMoves, MovedOn

LEMMA StartSound ==
    ASSUME FlowIInv, NEW r \in Requests, UNCHANGED flowVars, StartExecution(r)
    PROVE  FlowIInv' /\ HomesKept
<1> DEFINE locked == Started(copy[r], r)
<1>1. /\ pc[r] \in Filed /\ UNCHANGED <<sess, want, cancelVars>>
      /\ UNCHANGED storeVars \/ SaveSucceeds(sess[r], locked) \/ SaveFails(sess[r], locked)
  BY DEF StartExecution, Filed, Placed
<1>2. Sound(copy[r]) /\ copy[r].home = HomeOf[win[r]]
  BY AtPlace DEF StartExecution, RequestSound, Copying
<1>3. Sound(locked) /\ locked.home = HomeOf[win[r]]
  BY <1>2, SoundOps
<1>4. Sound(InDir(locked, want[r])) /\ InDir(locked, want[r]).home = HomeOf[win[r]]
  BY <1>3, SoundOps, AtPlace
<1>5. StoreSound' /\ HomesKept
  BY <1>1, <1>3, OwnSave, QuietHomes, AtPlace DEF Filed
<1>6. Fits(r, "unlock", copy[r], sess[r]) /\ Fits(r, "register", InDir(locked, want[r]), sess[r])
  BY <1>1, <1>2, <1>4, <1>5, StayFits, FiledPCs DEF Filed, Placed, RunPCs
<1>7. Goto(r, "unlock") \/ Keep(r, InDir(locked, want[r]), "register")
  BY DEF StartExecution
<1>8. QED
  BY <1>1, <1>5, <1>6, <1>7, GotoMoves, MovedOn

LEMMA SaveResultSound ==
    ASSUME FlowIInv, NEW r \in Requests, UNCHANGED flowVars, SaveResult(r)
    PROVE  FlowIInv' /\ HomesKept
<1>1. /\ pc[r] \in Filed /\ UNCHANGED <<sess, want, cancelVars>>
      /\ Sound(copy[r]) /\ copy[r].home = HomeOf[win[r]]
  BY AtPlace, FiledPCs DEF SaveResult, RequestSound, RunPCs
<1>2. StoreSound' /\ HomesKept
  BY <1>1, OwnSave DEF SaveResult, Filed
<1>3. Fits(r, "finishLoad", copy[r], sess[r]) /\ Fits(r, "markLoad", copy[r], sess[r])
  BY <1>1, <1>2, StayFits, FiledPCs DEF SettlePCs
<1>4. QED
  BY <1>1, <1>2, <1>3, GotoMoves, MovedOn DEF SaveResult

LEMMA SettleLoadSound ==
    ASSUME FlowIInv, NEW r \in Requests, UNCHANGED flowVars, FinishLoad(r) \/ MarkLoad(r)
    PROVE  FlowIInv' /\ HomesKept
<1> DEFINE rec == store[sess[r]]
<1>1. pc[r] \in Filed /\ StoreSound' /\ HomesKept /\ UNCHANGED <<sess, want, cancelVars>>
  BY AtPlace, QuietHomes, FiledPCs DEF FinishLoad, MarkLoad, SettlePCs
<1>2. sess[r] \in Sessions /\ Sound(rec) /\ rec.home = HomeOf[win[r]]
  BY <1>1, AtPlace DEF Filed, RequestSound
<1>3. \A next \in {"idle", "error"} : /\ Sound(Finished(rec, next))
                                      /\ Finished(rec, next).home = HomeOf[win[r]]
  BY <1>2, SoundOps
<1>4. PICK saved \in {rec} \cup {Finished(rec, next) : next \in {"idle", "error"}} :
        Keep(r, saved, "settleSave") \/ Return(r, "failed")
  BY DEF FinishLoad, MarkLoad
<1>5. Fits(r, "settleSave", saved, sess[r])
  BY <1>1, <1>2, <1>3, <1>4, StayFits, FiledPCs DEF SettlePCs
<1>6. QED
  BY <1>1, <1>2, <1>4, <1>5, EndFits, GotoMoves, MovedOn

LEMMA SettleSaveSound ==
    ASSUME FlowIInv, NEW r \in Requests, UNCHANGED flowVars, SettleSave(r)
    PROVE  FlowIInv' /\ HomesKept
<1>1. /\ pc[r] \in Filed /\ sess[r] \in Sessions /\ UNCHANGED <<sess, want, cancelVars>>
      /\ Sound(copy[r]) /\ copy[r].home = HomeOf[win[r]]
  BY AtPlace, FiledPCs DEF SettleSave, RequestSound, Copying, SettlePCs, Filed
<1>2. UNCHANGED storeVars \/ SaveSucceeds(sess[r], copy[r]) \/ SaveFails(sess[r], copy[r])
  BY DEF SettleSave
<1>3. StoreSound' /\ HomesKept
  BY <1>1, <1>2, OwnSave, QuietHomes, AtPlace DEF Filed
<1>4. Fits(r, "settleRelease", copy[r], sess[r])
  BY <1>1, <1>3, StayFits, FiledPCs DEF SettlePCs, Copying, RunPCs
<1>5. Goto(r, "settleRelease") \/ Return(r, "failed")
  BY DEF SettleSave
<1>6. QED
  BY <1>1, <1>3, <1>4, <1>5, EndFits, GotoMoves, MovedOn

LEMMA FlowStepSound ==
    ASSUME FlowIInv, NEW r \in Requests, Arrive(r) \/ FlowStep(r)
    PROVE  FlowIInv' /\ HomesKept
<1>1. ASSUME ResolveStep(r)
      PROVE  FlowIInv' /\ HomesKept
  BY <1>1, ReadBindingSound, LoadBoundSound, FindLatestSound, LoadTargetSound, SaveResolvedSound,
     CreateSound, BindWindowSound, RebindSound
     DEF ResolveStep
<1>2. ASSUME RequestStep(r), UNCHANGED flowVars
      PROVE  FlowIInv' /\ HomesKept
  BY <1>2, LookingSound, LockingSound, StartSound, SaveResultSound, SettleLoadSound, SettleSaveSound
     DEF RequestStep
<1>3. QED
  BY <1>1, <1>2, ArriveSound DEF FlowStep

-----------------------------------------------------------------------------
(* /cancel commands, and the end of the process.                           *)

\* A step of canceller c that leaves the requests and the bindings alone.
LEMMA CancelMoved ==
    ASSUME FlowIInv, NEW c \in Cancellers, NEW next \in CancelPCs \cup {"current"},
           cpc' = [cpc EXCEPT ![c] = next],
           csess' \in [Cancellers -> Sessions \cup {NoSession}],
           ccopy' \in [Cancellers -> Record],
           \A d \in Cancellers \ {c} : csess'[d] = csess[d] /\ ccopy'[d] = ccopy[d],
           StoreSound', HomesKept, UNCHANGED <<requestVars, flowVars>>,
           CancelSound(c)'
    PROVE  FlowIInv' /\ HomesKept
<1>1. FlowTyped
  BY DEF FlowIInv
<1>2. FlowTyped'
  BY <1>1 DEF FlowTyped, FlowTypeOK, StoreSound, StoreTyped, requestVars, flowVars, windowVars, bindingVars
<1>3. \A r \in Requests : RequestSound(r)'
  BY OthersStay DEF requestVars, flowVars, windowVars
<1>4. BindingsResolve'
  BY BindingsStay DEF flowVars
<1>5. ASSUME NEW d \in Cancellers \ {c}
      PROVE  CancelSound(d)'
  BY <1>1, CancellersStay DEF FlowTyped, FlowTypeOK
<1>6. QED
  BY <1>2, <1>3, <1>4, <1>5 DEF FlowIInv

\* What a canceller's place says of its session.
LEMMA AtCancel ==
    ASSUME FlowIInv, NEW c \in Cancellers
    PROVE  /\ StoreSound /\ CancelSound(c)
           /\ cpc \in [Cancellers -> CancelPCs \cup {"current"}]
           /\ csess \in [Cancellers -> Sessions \cup {NoSession}]
           /\ ccopy \in [Cancellers -> Record]
  BY DEF FlowIInv, FlowTyped, FlowTypeOK

LEMMA CancelFindSound ==
    ASSUME FlowIInv, NEW c \in Cancellers, CancelFind(c)
    PROVE  FlowIInv' /\ HomesKept
<1>1. StoreSound' /\ HomesKept
  BY AtCancel, QuietHomes DEF CancelFind
<1>2. binding[cwin[c]] \in Sessions \cup {NoSession}
  BY DEF FlowIInv, FlowTyped, FlowTypeOK
<1>3. PICK next \in {"failed", "current"} : CGoto(c, next)
  BY DEF CancelFind
<1>4. /\ csess' \in [Cancellers -> Sessions \cup {NoSession}] /\ ccopy' = ccopy
      /\ \A d \in Cancellers \ {c} : csess'[d] = csess[d]
      /\ next = "current" => csess'[c] \in Sessions
  BY <1>2, <1>3, AtCancel DEF CancelFind, CGoto
<1>5. CancelSound(c)'
  BY <1>3, <1>4, AtCancel DEF CGoto, CancelSound, Cancelling
<1>6. QED
  BY <1>1, <1>3, <1>4, <1>5, AtCancel, CancelMoved
     DEF CancelFind, CGoto, CancelPCs, CancelEnds

\* The steps of a /cancel that write nothing.
LEMMA CancelLooksSound ==
    ASSUME FlowIInv, NEW c \in Cancellers, UNCHANGED flowVars,
           CancelLook(c) \/ CancelRead(c) \/ CancelSignal(c) \/ CancelReleaseLoad(c)
    PROVE  FlowIInv' /\ HomesKept
<1>1. /\ StoreSound' /\ HomesKept /\ UNCHANGED <<csess, requestVars, store>>
      /\ cpc[c] \in Cancelling \cup {"current"} /\ csess[c] \in Sessions
      /\ Sound(ccopy[c]) /\ Sound(store[csess[c]])
  BY AtCancel, QuietHomes
     DEF CancelLook, CancelRead, CancelSignal, CancelReleaseLoad, storeVars, CancelSound, StoreSound,
         Cancelling
<1>2. PICK next \in CancelEnds \cup {"read", "signal", "releaseLoad", "releaseSave"} :
        CGoto(c, next) /\ (next \notin CancelEnds => Exists(csess[c]))
  <2>1. CASE CancelLook(c)
    <3>1. CGoto(c, IF ~AtHome(csess[c], cwin[c]) \/ ~Readable(csess[c]) THEN "failed"
                   ELSE IF IsRunning(store[csess[c]]) THEN "read" ELSE "noop")
      BY <2>1 DEF CancelLook
    <3>2. QED
      BY <3>1 DEF AtHome, CancelEnds
  <2>2. CASE CancelRead(c) \/ CancelSignal(c) \/ CancelReleaseLoad(c)
    <3>1. Exists(csess[c])
      BY <2>2, AtCancel DEF CancelRead, CancelSignal, CancelReleaseLoad, CancelSound, Cancelling
    <3>2. QED
      BY <2>2, <3>1 DEF CancelRead, CancelSignal, CancelReleaseLoad, CancelEnds
  <2>3. QED
    BY <2>1, <2>2
<1>3. \/ ccopy' = ccopy /\ next # "releaseSave"
      \/ ccopy' = [ccopy EXCEPT ![c] = Finished(store[csess[c]], "idle")]
  BY <1>1, <1>2, AtCancel DEF CancelLook, CancelRead, CancelSignal, CancelReleaseLoad, CGoto, CancelEnds
<1>4. /\ Sound(Finished(store[csess[c]], "idle"))
      /\ Finished(store[csess[c]], "idle").home = store[csess[c]].home
  BY <1>1, SoundOps
<1>5. /\ ccopy' \in [Cancellers -> Record]
      /\ \A d \in Cancellers \ {c} : ccopy'[d] = ccopy[d]
      /\ Sound(ccopy'[c])
      /\ next = "releaseSave" => ccopy'[c].home = store[csess[c]].home
  BY <1>1, <1>3, <1>4, AtCancel DEF Sound
<1>6. cpc'[c] = next
  BY <1>2, AtCancel DEF CGoto
<1>7. CancelSound(c)'
  BY <1>1, <1>2, <1>5, <1>6 DEF CancelSound, Exists, Cancelling, CancelEnds
<1>8. QED
  BY <1>1, <1>2, <1>5, <1>7, AtCancel, CancelMoved DEF CGoto, CancelPCs, CancelEnds

\* ForceRelease writes the copy it has read and then frees the lock.
LEMMA CancelWritesSound ==
    ASSUME FlowIInv, NEW c \in Cancellers, UNCHANGED flowVars,
           CancelReleaseSave(c) \/ CancelReleaseUnlock(c)
    PROVE  FlowIInv' /\ HomesKept
<1>1. /\ csess[c] \in Sessions /\ Exists(csess[c]) /\ Sound(ccopy[c])
      /\ UNCHANGED <<csess, ccopy, requestVars>>
  BY AtCancel DEF CancelReleaseSave, CancelReleaseUnlock, CancelSound, Cancelling
<1>2. StoreSound' /\ HomesKept
  <2>1. CASE CancelReleaseSave(c)
    <3>1. ccopy[c].home = store[csess[c]].home
      BY <2>1, AtCancel DEF CancelReleaseSave, CancelSound
    <3>2. QED
      BY <1>1, <2>1, <3>1, AtCancel, SaveHomes DEF CancelReleaseSave
  <2>2. CASE CancelReleaseUnlock(c)
    BY <1>1, <2>2, AtCancel, ReleaseHomes DEF CancelReleaseUnlock
  <2>3. QED
    BY <2>1, <2>2
<1>3. PICK next \in {"releaseUnlock"} \cup CancelEnds : CGoto(c, next)
  BY DEF CancelReleaseSave, CancelReleaseUnlock, CancelEnds
<1>4. cpc'[c] = next
  BY <1>3, AtCancel DEF CGoto
<1>5. Exists(csess[c])'
  BY <1>1, <1>2 DEF Exists, HomesKept
<1>6. CancelSound(c)'
  BY <1>1, <1>3, <1>4, <1>5 DEF CancelSound, Cancelling, CancelEnds
<1>7. QED
  BY <1>1, <1>2, <1>3, <1>6, AtCancel, CancelMoved DEF CGoto, CancelPCs, CancelEnds

\* A restart takes the store from the file: only sessions whose home was not
\* saved lose it, and no handler that knew one is left.
LEMMA FlowRestartSound ==
    ASSUME FlowIInv, FlowRestart
    PROVE  FlowIInv'
<1>1. /\ store' \in {store, disk} /\ disk' = disk /\ binding' = bindingDisk
      /\ copy' = [r \in Requests |-> Blank]
      /\ UNCHANGED <<sess, want, csess, ccopy, faults, windowVars, bindingDisk>>
  BY DEF FlowRestart, Reloaded
<1>2. StoreSound'
  BY <1>1 DEF FlowIInv, StoreSound, StoreTyped
<1>3. BindingsResolve'
  BY <1>1 DEF FlowIInv, BindingsResolve
<1>4. \A r \in Requests : pc'[r] \in {pc[r], "lost"} /\ pc'[r] \in {"new"} \cup FlowEnds
  BY DEF FlowRestart, FlowEnds, EndPCs
<1>5. \A c \in Cancellers : cpc'[c] \in {"new"} \cup CancelEnds /\ cpc'[c] \in {cpc[c], "lost"}
  BY DEF FlowRestart, Reloaded, CancelEnds
<1>6. FlowTyped'
  <2>1. pc' \in [Requests -> FlowPCs]
    BY <1>4 DEF FlowRestart, FlowPCs, LockPCs
  <2>2. cpc' \in [Cancellers -> CancelPCs \cup {"current"}]
    BY <1>5 DEF FlowRestart, Reloaded, CancelPCs
  <2>3. QED
    BY <1>1, <1>2, <2>1, <2>2, BlankIsRecord
       DEF FlowIInv, FlowTyped, FlowTypeOK, StoreSound, StoreTyped, FlowPCs, windowVars
<1>7. ASSUME NEW r \in Requests
      PROVE  RequestSound(r)'
  <2>1. copy'[r] = Blank /\ Sound(Blank)
    BY <1>1, BlankSound
  <2>2. CASE pc'[r] = "answered"
    <3>1. pc[r] = "answered" /\ RequestSound(r)
      BY <1>4, <2>2 DEF FlowIInv
    <3>2. /\ sess[r] \in Sessions
          /\ store[sess[r]].home = HomeOf[win[r]] /\ disk[sess[r]].home = HomeOf[win[r]]
      BY <3>1 DEF RequestSound, Placed, Filed
    <3>3. QED
      BY <1>1, <2>1, <2>2, <3>2 DEF RequestSound, Copying, RunPCs, windowVars
  <2>3. CASE pc'[r] # "answered"
    <3>1. pc'[r] \notin Placed \cup {"bound"} \cup Filed \cup Copying
      BY <1>4, <2>3 DEF FlowEnds, EndPCs, Placed, Filed, Copying, RunPCs, SettlePCs
    <3>2. QED
      BY <2>1, <3>1 DEF RequestSound
  <2>4. QED
    BY <2>2, <2>3
<1>8. ASSUME NEW c \in Cancellers
      PROVE  CancelSound(c)'
  BY <1>1, <1>5 DEF FlowIInv, CancelSound, Cancelling, CancelEnds
<1>9. QED
  BY <1>2, <1>3, <1>6, <1>7, <1>8 DEF FlowIInv

-----------------------------------------------------------------------------
(* The invariant and what it says.                                         *)

LEMMA FlowInitSound == FlowInit => FlowIInv
<1> SUFFICES ASSUME FlowInit
             PROVE  FlowIInv
  OBVIOUS
<1>1. \A s \in Sessions : Sound(store[s]) /\ disk[s] = store[s]
  BY BlankSound DEF FlowInit, InitWith, Persisted, Sound, ThreadKept
<1>2. /\ store \in [Sessions -> Record] /\ disk = store /\ faults = 0
      /\ pc = [r \in Requests |-> "new"] /\ copy = [r \in Requests |-> Blank]
      /\ cpc = [c \in Cancellers |-> "new"] /\ ccopy = [c \in Cancellers |-> Blank]
  BY <1>1, BlankIsRecord DEF FlowInit, InitWith
<1>3. StoreSound
  BY <1>1, <1>2, LockConstants DEF StoreSound, StoreTyped
<1>4. FlowTyped
  <2>1. Blank.cwd \in Dirs
    BY BlankIsRecord DEF Record
  <2>2. QED
    BY <1>2, <2>1, BlankIsRecord, LockConstants
       DEF FlowInit, InitWith, FlowTyped, FlowTypeOK, LockPCs, CancelPCs, Modes
<1>5. \A r \in Requests : RequestSound(r)
  BY <1>2, BlankSound DEF RequestSound, Placed, Filed, Copying, RunPCs, SettlePCs
<1>6. \A c \in Cancellers : CancelSound(c)
  BY <1>2, BlankSound DEF CancelSound, Cancelling
<1>7. BindingsResolve
  BY <1>1, <1>4 DEF FlowInit, AtHome, BindingsResolve, FlowTyped, FlowTypeOK
<1>8. QED
  BY <1>3, <1>4, <1>5, <1>6, <1>7 DEF FlowIInv

LEMMA FlowNextSound == FlowIInv /\ [FlowNext]_allVars => FlowIInv'
<1> SUFFICES ASSUME FlowIInv, [FlowNext]_allVars
             PROVE  FlowIInv'
  OBVIOUS
<1>1. ASSUME NEW c \in Cancellers, CancelFind(c) \/ FlowCancelStep(c)
      PROVE  FlowIInv'
  BY <1>1, CancelFindSound, CancelLooksSound, CancelWritesSound
     DEF FlowCancelStep, CancelStep, CancelLook
<1>2. CASE UNCHANGED allVars
  BY <1>2 DEF FlowIInv, FlowTyped, FlowTypeOK, StoreSound, StoreTyped, RequestSound, CancelSound, Exists,
              BindingsResolve, allVars, vars, requestVars, cancelVars, storeVars, flowVars, windowVars,
              bindingVars
<1>3. QED
  BY <1>1, <1>2, FlowStepSound, FlowRestartSound DEF FlowNext

LEMMA FlowStepKeepsHomes == FlowIInv /\ [FlowNext]_allVars => [HomesStay]_allVars
<1> SUFFICES ASSUME FlowIInv, FlowNext
             PROVE  HomesStay
  OBVIOUS
<1>1. CASE FlowRestart
  BY <1>1 DEF FlowRestart, Reloaded, FlowIInv, StoreSound, HomesStay
<1>2. CASE ~FlowRestart
  <2>1. HomesKept
    BY <1>2, FlowStepSound, CancelFindSound, CancelLooksSound, CancelWritesSound
       DEF FlowNext, FlowCancelStep, CancelStep, CancelLook
  <2>2. QED
    BY <2>1 DEF HomesKept, FlowIInv, StoreSound, HomesStay
<1>3. QED
  BY <1>1, <1>2

LEMMA FlowInvariant == FlowSpec => []FlowIInv
  BY FlowInitSound, FlowNextSound, PTL DEF FlowSpec

\* Type correctness of the flow, whatever messages, commands, /cancels, failed
\* writes and restarts come.
THEOREM FlowTypeCorrect == FlowSpec => []FlowTypeOK
<1>1. FlowIInv => FlowTypeOK
  BY DEF FlowIInv, FlowTyped
<1>2. QED
  BY <1>1, FlowInvariant, PTL

\* The session a window is bound to exists and is of the window's conversation
\* and project, in memory and in the files, so that a restart at any moment
\* finds a binding that resolves.
THEOREM WindowsResolve == FlowSpec => []BindingsResolve
<1>1. FlowIInv => BindingsResolve
  BY DEF FlowIInv
<1>2. QED
  BY <1>1, FlowInvariant, PTL

\* Every message is executed in a session of the conversation and the project
\* it came from, however long ago that session was chosen.
THEOREM MessagesRunAtHome == FlowSpec => []RunsAtHome
<1>1. FlowIInv => RunsAtHome
  BY FiledPCs DEF FlowIInv, RequestSound, RunsAtHome, Filed
<1>2. QED
  BY <1>1, FlowInvariant, PTL

\* With sessions found through windows, created, resumed and stamped as well,
\* a backend session is still continued in the directory it was started in.
THEOREM FlowThreadsStay == FlowSpec => []ThreadInItsDir
<1>1. FlowIInv => ThreadInItsDir
  BY DEF FlowIInv, StoreSound, RequestSound, Sound, ThreadKept, ThreadInItsDir
<1>2. QED
  BY <1>1, FlowInvariant, PTL

\* A session never moves: once its conversation and project are in the file,
\* no handler's late write, no /cancel and no restart changes them, in memory
\* or in the file.
THEOREM SessionsNeverMove == FlowSpec => [][HomesStay]_allVars
<1>1. QED
  BY FlowStepKeepsHomes, FlowInvariant, PTL DEF FlowSpec

=============================================================================
