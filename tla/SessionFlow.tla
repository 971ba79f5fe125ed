---------------------------- MODULE SessionFlow ----------------------------
(***************************************************************************)
(* How an inbound message finds its session: Router.HandleSessionFlow with *)
(* SessionManager's Continue-, Resume-, Switch- and CreateSession and the  *)
(* bindings of windows to sessions, around the lock of SessionLock.        *)
(*                                                                         *)
(* A chat message continues the session of its window; /new, /resume and   *)
(* /switch only move the window; /cancel stops what the window's session   *)
(* executes.  A window belongs to a conversation and a project (the suffix *)
(* buildSessionScopeWindowID appends), which makes its home.               *)
(***************************************************************************)
EXTENDS SessionLock

CONSTANTS
    Windows,
    HomeOf      \* the home of each window

ASSUME FlowConstants == HomeOf \in [Windows -> Homes]

VARIABLES
    mode,          \* per request: "message", or the command it is
    win,           \* per request: its window
    cwin,          \* per canceller: its window
    binding,       \* byWindow of the repository: window -> session
    bindingDisk    \* window_bindings.json

windowVars == <<mode, win, cwin>>
bindingVars == <<binding, bindingDisk>>
flowVars == <<windowVars, bindingVars>>
allVars == <<vars, flowVars>>

Modes == {"message", "new", "resume"}
ResolvePCs == {"binding", "bound", "latest", "target", "resolveSave", "create", "bind"}
FlowEnds == EndPCs \cup {"resolved", "replied"}

Exists(s) == store[s].home # NoHome

\* Fault: every session will do.
AtHomeAny(s, w) == Exists(s)

\* The sessions a request of window w may use: sessionBelongsToProject and the
\* comparison of conversations.
AtHome(s, w) == Exists(s) /\ store[s].home = HomeOf[w]

-----------------------------------------------------------------------------
\* The service may have run before: sessions.json and window_bindings.json hold
\* sessions and bindings of windows to sessions of their home.
FlowInit ==
    /\ InitWith({Blank} \cup {rec \in Record : Persisted(rec)})
    /\ mode = [r \in Requests |-> "message"]
    /\ win \in [Requests -> Windows]
    /\ cwin \in [Cancellers -> Windows]
    /\ binding \in [Windows -> Sessions \cup {NoSession}]
    /\ \A w \in Windows : binding[w] # NoSession => AtHome(binding[w], w)
    /\ bindingDisk = binding

\* repository.SetWindowBinding changes its map, then writes the file.
BindSucceeds(w, s) ==
    /\ binding' = [binding EXCEPT ![w] = s]
    /\ bindingDisk' = binding'
    /\ UNCHANGED faults

BindFails(w, s) ==
    /\ faults < MaxFaults
    /\ faults' = faults + 1
    /\ binding' = [binding EXCEPT ![w] = s]
    /\ UNCHANGED bindingDisk

-----------------------------------------------------------------------------
(* Resolving the session of a message or a command.                        *)

Arrive(r) ==
    /\ pc[r] = "new"
    /\ \E m \in Modes, d \in Dirs :
          /\ mode' = [mode EXCEPT ![r] = m]
          /\ want' = [want EXCEPT ![r] = d]
          /\ Goto(r, CASE m = "message" -> "binding"
                       [] m = "new" -> "create"
                       [] m = "resume" -> "target")
    /\ UNCHANGED <<sess, result, cancelVars, storeVars, runnerVars, win, cwin, bindingVars>>

\* continueByWindowBinding and GetWindowBinding.
ReadBinding(r) ==
    /\ pc[r] = "binding"
    /\ IF binding[win[r]] = NoSession
       THEN Goto(r, "latest") /\ UNCHANGED sess
       ELSE Goto(r, "bound") /\ sess' = [sess EXCEPT ![r] = binding[win[r]]]
    /\ UNCHANGED <<want, result, cancelVars, storeVars, runnerVars, flowVars>>

LoadBound(r) ==
    /\ pc[r] = "bound"
    /\ LET s == sess[r] IN
       CASE AtHome(s, win[r]) /\ Readable(s) -> Keep(r, store[s], "resolveSave")
         [] ~Readable(s)                     -> Return(r, "rejected")
         [] OTHER                            -> Goto(r, "latest")
    /\ UNCHANGED <<sess, want, result, cancelVars, storeVars, runnerVars, flowVars>>

\* Fault: findLatestSessionForProject takes sessions of other projects.
CandidatesAny(w) == {s \in Sessions : Exists(s)}

Candidates(w) == {s \in Sessions : AtHome(s, w)}

\* findLatestSessionForProject.  Time stamps are abstracted: any session of
\* the home may be the one used last.
FindLatest(r) ==
    /\ pc[r] = "latest"
    /\ LET found == Candidates(win[r]) IN
       CASE found = {} -> Goto(r, "create") /\ UNCHANGED sess
         [] \E s \in found : ~Readable(s) -> Return(r, "rejected") /\ UNCHANGED sess
         [] OTHER -> \E s \in found : /\ sess' = [sess EXCEPT ![r] = s]
                                      /\ Keep(r, store[s], "resolveSave")
    /\ UNCHANGED <<want, result, cancelVars, storeVars, runnerVars, flowVars>>

\* ResumeSession and SwitchSession: the user names the session.
LoadTarget(r) ==
    /\ pc[r] = "target"
    /\ \E s \in Sessions :
          /\ sess' = [sess EXCEPT ![r] = s]
          /\ IF AtHome(s, win[r]) /\ Readable(s)
             THEN Keep(r, store[s], "resolveSave")
             ELSE Return(r, "rejected")
    /\ UNCHANGED <<want, result, cancelVars, storeVars, runnerVars, flowVars>>

\* Continue, Resume and Switch save the record they have read to stamp it with
\* the window and the time; Save validates it.
SaveResolved(r) ==
    /\ pc[r] = "resolveSave"
    /\ \/ /\ Valid(copy[r])
          /\ SaveSucceeds(sess[r], copy[r])
          /\ Goto(r, "bind")
       \/ /\ IF Valid(copy[r]) THEN SaveFails(sess[r], copy[r]) ELSE UNCHANGED storeVars
          /\ Return(r, "rejected")
    /\ UNCHANGED <<sess, want, result, cancelVars, runnerVars, flowVars>>

\* nextSessionID is a time stamp: the id is one that no session has.
Create(r) ==
    /\ pc[r] = "create"
    /\ \E s \in {s \in Sessions : ~Exists(s)} :
          LET rec == Fresh(want[r], HomeOf[win[r]]) IN
          /\ sess' = [sess EXCEPT ![r] = s]
          /\ \/ SaveSucceeds(s, rec) /\ Goto(r, "bind")
             \/ SaveFails(s, rec) /\ Return(r, "rejected")
    /\ UNCHANGED <<want, result, cancelVars, runnerVars, flowVars>>

\* BindWindowToSession ends the resolution; only a message goes on to execute.
BindWindow(r) ==
    /\ pc[r] = "bind"
    /\ \/ /\ BindSucceeds(win[r], sess[r])
          /\ IF mode[r] = "message" THEN Keep(r, Blank, "check") ELSE Return(r, "resolved")
       \/ /\ BindFails(win[r], sess[r])
          /\ Return(r, "rejected")
    /\ UNCHANGED <<sess, want, result, store, disk, cancelVars, runnerVars, windowVars>>

\* After FinishExecution a successful execution binds its window once more.
Rebinding(r) == pc[r] = "answered" /\ result[r] = "success"

Rebind(r) ==
    /\ Rebinding(r)
    /\ \/ BindSucceeds(win[r], sess[r]) /\ Goto(r, "replied")
       \/ BindFails(win[r], sess[r]) /\ Goto(r, "failed")
    /\ UNCHANGED <<sess, want, result, store, disk, cancelVars, runnerVars, windowVars>>

ResolveStep(r) ==
    \/ ReadBinding(r) \/ LoadBound(r) \/ FindLatest(r) \/ LoadTarget(r)
    \/ SaveResolved(r) \/ Create(r) \/ BindWindow(r) \/ Rebind(r)

FlowStep(r) ==
    \/ ResolveStep(r)
    \/ RequestStep(r) /\ UNCHANGED flowVars

-----------------------------------------------------------------------------
(* /cancel: GetCurrentSessionByWindow, a look at its status, and then       *)
(* CancelExecution.                                                        *)

CancelFind(c) ==
    /\ cpc[c] = "new"
    /\ LET s == binding[cwin[c]] IN
       IF s = NoSession
       THEN CGoto(c, "failed") /\ UNCHANGED csess
       ELSE CGoto(c, "current") /\ csess' = [csess EXCEPT ![c] = s]
    /\ UNCHANGED <<ctoken, ccopy, requestVars, storeVars, runnerVars, flowVars>>

CancelLook(c) ==
    /\ cpc[c] = "current"
    /\ LET s == csess[c] IN
       CGoto(c, IF ~AtHome(s, cwin[c]) \/ ~Readable(s) THEN "failed"
                ELSE IF IsRunning(store[s]) THEN "read" ELSE "noop")
    /\ UNCHANGED <<csess, ctoken, ccopy, requestVars, storeVars, runnerVars, flowVars>>

FlowCancelStep(c) ==
    \/ CancelLook(c)
    \/ CancelStep(c) /\ UNCHANGED flowVars

\* A restart loses the request that has finished but not rebound its window.
FlowRestart ==
    /\ Reloaded
    /\ pc' = [r \in Requests |->
                IF pc[r] \in {"new"} \cup FlowEnds /\ ~Rebinding(r) THEN pc[r] ELSE "lost"]
    /\ binding' = bindingDisk
    /\ UNCHANGED <<windowVars, bindingDisk>>

FlowNext ==
    \/ \E r \in Requests : Arrive(r) \/ FlowStep(r)
    \/ \E c \in Cancellers : CancelFind(c) \/ FlowCancelStep(c)
    \/ FlowRestart

\* As in SessionLock: a handler waits for no other handler.
FlowFairness ==
    /\ \A r \in Requests : WF_allVars(FlowStep(r))
    /\ \A c \in Cancellers : WF_allVars(FlowCancelStep(c))

FlowSpec == FlowInit /\ [][FlowNext]_allVars /\ FlowFairness

-----------------------------------------------------------------------------
(* Properties.                                                             *)

\* The types of the flow's own state; store, copy and the rest are typed as in
\* SessionLock, whose program counters grow.
FlowTypeOK ==
    /\ store \in [Sessions -> Record]
    /\ disk \in [Sessions -> Record]
    /\ pc \in [Requests -> LockPCs \cup ResolvePCs \cup FlowEnds]
    /\ copy \in [Requests -> Record]
    /\ cpc \in [Cancellers -> CancelPCs \cup {"current"}]
    /\ mode \in [Requests -> Modes]
    /\ win \in [Requests -> Windows]
    /\ cwin \in [Cancellers -> Windows]
    /\ binding \in [Windows -> Sessions \cup {NoSession}]
    /\ bindingDisk \in [Windows -> Sessions \cup {NoSession}]

\* current_session_id refers to a session that exists, of the window's own
\* conversation and project, in memory and in the two files, so also after a
\* stop between the write of sessions.json and that of window_bindings.json.
BindingsResolve ==
    \A w \in Windows : \A s \in {binding[w], bindingDisk[w]} \ {NoSession} :
        store[s].home = HomeOf[w] /\ disk[s].home = HomeOf[w]

\* What a window sends is executed in a session of its own conversation and
\* project, although the session was chosen several repository calls earlier.
RunsAtHome ==
    \A r \in Requests : pc[r] \in RunPCs =>
        /\ copy[r].home = HomeOf[win[r]]
        /\ store[sess[r]].home = HomeOf[win[r]]
=============================================================================
