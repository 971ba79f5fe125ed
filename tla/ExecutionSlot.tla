--------------------------- MODULE ExecutionSlot ---------------------------
(***************************************************************************)
(* What the session lock promises (FR-006 of the phase 1 specification): a *)
(* session is a slot with room for one execution, and a request occupies a *)
(* slot at most once.  SessionLock implements it; nothing here knows about *)
(* records, tokens or copies.                                              *)
(***************************************************************************)
CONSTANTS
    Requests,
    Sessions,
    Free      \* no request: an empty slot

VARIABLES
    slot,     \* the request that executes in a session, or Free
    closed    \* requests that will not start any more

Init ==
    /\ slot = [s \in Sessions |-> Free]
    /\ closed = {}

Start(r, s) ==
    /\ r \notin closed
    /\ slot[s] = Free
    /\ slot' = [slot EXCEPT ![s] = r]
    /\ closed' = closed \cup {r}

Stop(s) ==
    /\ slot[s] # Free
    /\ slot' = [slot EXCEPT ![s] = Free]
    /\ UNCHANGED closed

TurnAway(r) ==
    /\ closed' = closed \cup {r}
    /\ UNCHANGED slot

\* The process stops: nothing executes, and the requests in flight are lost.
Crash ==
    /\ slot' = [s \in Sessions |-> Free]
    /\ closed' \in {closed \cup gone : gone \in SUBSET Requests}

Next ==
    \/ \E r \in Requests, s \in Sessions : Start(r, s)
    \/ \E s \in Sessions : Stop(s)
    \/ \E r \in Requests : TurnAway(r)
    \/ Crash

Spec == Init /\ [][Next]_<<slot, closed>>
=============================================================================
