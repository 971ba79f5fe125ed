------------------------------ MODULE Projects ------------------------------
(***************************************************************************)
(* The project service: /project commands and the resolution of a route to *)
(* a project, over three files (registry, bindings, proposals) and the     *)
(* workspace directories.  A store locks one read or one write of its      *)
(* file; a command reads, checks and writes in several of them, and other  *)
(* commands, a lost directory or a stop of ClawX come in between.          *)
(***************************************************************************)
EXTENDS Naturals, FiniteSets

CONSTANTS
    Ids,          \* project ids
    Default,      \* the configured default project
    Routes,       \* route keys
    Commands,     \* inbound commands; a suggestion also names its proposal
    Kinds,        \* the kinds of commands that are sent
    None,         \* no project, no route, no proposal
    MaxFaults, MaxLost, MaxStops   \* bounds: failing file operations, lost directories, stops

ASSUME ProjectConstants ==
    /\ Default \in Ids
    /\ Routes # {} /\ Kinds \subseteq {"create", "repair", "delete", "purge", "use", "unbind", "list",
                                       "resolve", "suggest", "confirm"}
    /\ None \notin Ids \cup Routes \cup Commands
    /\ MaxFaults \in Nat /\ MaxLost \in Nat /\ MaxStops \in Nat

VARIABLES
    registry,     \* projects.json: the status of each project
    bindings,     \* bindings.json: the project of each route
    proposals,    \* proposals.json
    dirs,         \* the workspace directories that exist
    op, pc,       \* the command and its next step
    copy,         \* the registry as the command has loaded and changed it
    todo,         \* routes a forced deletion has yet to unbind
    answer,       \* the project a route was resolved to
    overlapped,   \* history: commands that ran while another one did, or were cut off
    applied,      \* history: proposals whose switch was made
    faults, lost, stops

files == <<registry, bindings, proposals>>
histories == <<overlapped, applied>>
boundVars == <<faults, lost, stops>>
vars == <<files, dirs, op, pc, copy, todo, answer, histories, boundVars>>

AllKinds == {"create", "repair", "delete", "purge", "use", "unbind", "list",
             "resolve", "suggest", "propose", "confirm"}
Operation == [kind : AllKinds, project : Ids, route : Routes, proposal : Commands \cup {None}]
Registry == [Ids -> {"none", "active", "broken"}]
Proposal == [route : Routes \cup {None}, project : Ids \cup {None},
             status : {"none", "pending", "accepted", "expired"}, late : BOOLEAN]

NoRegistry == [p \in Ids |-> "none"]      \* also what a missing file is read as
AnyRoute == CHOOSE r \in Routes : TRUE   \* of a command that names none
NoProposal == [route |-> None, project |-> None, status |-> "none", late |-> FALSE]

Running(c) == pc[c] \notin {"new", "done", "refused", "failed", "lost"}

Init ==
    /\ registry = NoRegistry
    /\ bindings = [r \in Routes |-> None]
    /\ proposals = [q \in Commands |-> NoProposal]
    /\ dirs = {}
    /\ op \in [Commands -> [kind : {"list"}, project : {Default}, route : {AnyRoute}, proposal : {None}]]
    /\ pc = [c \in Commands |-> "new"]
    /\ copy = [c \in Commands |-> NoRegistry]
    /\ todo = [c \in Commands |-> {}]
    /\ answer = [c \in Commands |-> None]
    /\ overlapped = {} /\ applied = {}
    /\ faults = 0 /\ lost = 0 /\ stops = 0

Goto(c, next) == pc' = [pc EXCEPT ![c] = next]

\* A command that ends forgets what it has loaded.
End(c, how) ==
    /\ Goto(c, how)
    /\ copy' = [copy EXCEPT ![c] = NoRegistry]

Fault == faults < MaxFaults /\ faults' = faults + 1 /\ UNCHANGED <<lost, stops>>

-----------------------------------------------------------------------------
(* Commands arrive.                                                        *)

FirstStep == [k \in AllKinds |->
    CASE k = "create" -> "mkdir"
      [] k = "unbind" -> "unbind"
      [] k = "confirm" -> "get"
      [] OTHER -> "load"]

\* What the text of a command names.
Named(kind, kinds, values, other) == IF kind \in kinds THEN values ELSE {other}

Arrive(c) ==
    /\ pc[c] = "new"
    /\ \E k \in Kinds :
       \E p \in Named(k, {"create", "repair", "delete", "purge", "use", "suggest"}, Ids, Default),
          r \in Named(k, {"use", "unbind", "resolve", "suggest"}, Routes, AnyRoute),
          q \in Named(k, {"confirm"}, {d \in Commands : proposals[d].status # "none"}, None) :
        /\ op' = [op EXCEPT ![c] = [kind |-> k, project |-> p, route |-> r, proposal |-> q]]
        /\ Goto(c, FirstStep[k])
    /\ LET others == {d \in Commands : Running(d)}
       IN  overlapped' = overlapped \cup others \cup (IF others = {} THEN {} ELSE {c})
    /\ UNCHANGED <<files, dirs, copy, todo, answer, applied, boundVars>>

\* The workspace and its memory template; a failure ends the command.
MakeWorkspace(c) ==
    /\ pc[c] = "mkdir"
    /\ \/ dirs' = dirs \cup {op[c].project} /\ Goto(c, "load") /\ UNCHANGED <<copy, boundVars>>
       \/ Fault /\ End(c, "failed") /\ dirs' \in {dirs, dirs \cup {op[c].project}}
    /\ UNCHANGED <<files, op, todo, answer, histories>>

-----------------------------------------------------------------------------
(* loadAndEnsureRegistry: read, add the default project, mark the projects *)
(* whose workspace is gone, and save if anything changed.                  *)

Load(c) ==
    /\ pc[c] = "load"
    /\ copy' = [copy EXCEPT ![c] = registry]
    /\ Goto(c, "ensure")
    /\ UNCHANGED <<files, dirs, op, todo, answer, histories, boundVars>>

\* Fault: a project without a workspace is dropped.
EnsuredDropping(reg, present) ==
    [p \in Ids |-> IF reg[p] # "none" /\ p \notin present THEN "none"
                   ELSE IF p = Default /\ reg[p] = "none" THEN "active"
                   ELSE reg[p]]

Ensured(reg, present) ==
    [p \in Ids |-> IF reg[p] # "none" /\ p \notin present THEN "broken"
                   ELSE IF p = Default /\ reg[p] = "none" THEN "active"
                   ELSE reg[p]]

Ensure(c) ==
    /\ pc[c] = "ensure"
    /\ dirs' = dirs \cup (IF copy[c][Default] = "none" THEN {Default} ELSE {})
    /\ copy' = [copy EXCEPT ![c] = Ensured(copy[c], dirs')]
    /\ Goto(c, IF copy'[c] = copy[c] THEN "check" ELSE "save")
    /\ UNCHANGED <<files, op, todo, answer, histories, boundVars>>

\* A complete registry replaces the file, or the file stays as it was.
SaveRegistry(c, next) ==
    \/ registry' = copy[c] /\ Goto(c, next) /\ UNCHANGED <<copy, boundVars>>
    \/ Fault /\ End(c, "failed") /\ UNCHANGED registry

SaveEnsured(c) ==
    /\ pc[c] = "save"
    /\ SaveRegistry(c, "check")
    /\ UNCHANGED <<bindings, proposals, dirs, op, todo, answer, histories>>

-----------------------------------------------------------------------------
(* What each command does with the registry it has loaded.                 *)

Refuse(c) == End(c, "refused") /\ UNCHANGED dirs

Change(c, status) ==
    /\ copy' = [copy EXCEPT ![c][op[c].project] = status]
    /\ Goto(c, "commit")

CheckCreate(c) ==
    /\ op[c].kind = "create"
    /\ IF copy[c][op[c].project] # "none" THEN Refuse(c)
       ELSE Change(c, "active") /\ UNCHANGED dirs

CheckRepair(c) ==
    /\ op[c].kind = "repair"
    /\ IF copy[c][op[c].project] = "none" THEN Refuse(c)
       ELSE Change(c, "active") /\ dirs' = dirs \cup {op[c].project}

\* Only a forced deletion goes on without a look at the bindings.
CheckDelete(c) ==
    /\ op[c].kind \in {"delete", "purge"}
    /\ UNCHANGED dirs
    /\ IF copy[c][op[c].project] = "none" \/ op[c].project = Default THEN End(c, "refused")
       ELSE \/ op[c].kind = "delete" /\ Goto(c, "inuse") /\ UNCHANGED copy
            \/ op[c].kind = "purge" /\ Change(c, "none")

CheckUse(c) ==
    /\ op[c].kind \in {"use", "confirm"}
    /\ IF copy[c][op[c].project] # "active" THEN Refuse(c)
       ELSE Goto(c, "bind") /\ UNCHANGED <<copy, dirs>>

CheckPropose(c) ==
    /\ op[c].kind = "propose"
    /\ IF copy[c][op[c].project] # "active" THEN Refuse(c)
       ELSE Goto(c, "propose") /\ UNCHANGED <<copy, dirs>>

\* /project list, audit and the look-up of one project only read.
CheckRead(c) ==
    /\ op[c].kind \in {"list", "resolve", "suggest"}
    /\ UNCHANGED dirs
    /\ IF op[c].kind = "list" THEN End(c, "done") ELSE Goto(c, "lookup") /\ UNCHANGED copy

Check(c) ==
    /\ pc[c] = "check"
    /\ \/ CheckCreate(c) \/ CheckRepair(c) \/ CheckDelete(c)
       \/ CheckUse(c) \/ CheckPropose(c) \/ CheckRead(c)
    /\ UNCHANGED <<files, op, todo, answer, histories, boundVars>>

\* Fault: the bindings of the project are not looked at.
InUseNever(c) ==
    /\ pc[c] = "inuse"
    /\ Change(c, "none")
    /\ UNCHANGED <<files, dirs, op, todo, answer, histories, boundVars>>

InUse(c) ==
    /\ pc[c] = "inuse"
    /\ IF \E r \in Routes : bindings[r] = op[c].project THEN End(c, "refused") ELSE Change(c, "none")
    /\ UNCHANGED <<files, dirs, op, todo, answer, histories, boundVars>>

\* Fault: a forced deletion leaves the bindings of the project.
CommitOnly(c) ==
    /\ pc[c] = "commit"
    /\ \/ registry' = copy[c] /\ End(c, "done") /\ UNCHANGED boundVars
       \/ Fault /\ End(c, "failed") /\ UNCHANGED registry
    /\ UNCHANGED <<bindings, proposals, dirs, op, todo, answer, histories>>

Commit(c) ==
    /\ pc[c] = "commit"
    /\ \/ /\ registry' = copy[c]
          /\ IF op[c].kind = "purge" THEN Goto(c, "bound") /\ UNCHANGED copy ELSE End(c, "done")
          /\ UNCHANGED boundVars
       \/ Fault /\ End(c, "failed") /\ UNCHANGED registry
    /\ UNCHANGED <<bindings, proposals, dirs, op, todo, answer, histories>>

-----------------------------------------------------------------------------
(* Bindings.                                                               *)

\* A forced deletion lists the routes of the project and unbinds each of them,
\* whatever it is bound to by then.
ListBound(c) ==
    /\ pc[c] = "bound"
    /\ todo' = [todo EXCEPT ![c] = {r \in Routes : bindings[r] = op[c].project}]
    /\ Goto(c, "purge")
    /\ UNCHANGED <<files, dirs, op, copy, answer, histories, boundVars>>

Purge(c) ==
    /\ pc[c] = "purge"
    /\ \/ /\ todo[c] = {}
          /\ End(c, "done")
          /\ UNCHANGED <<bindings, todo, boundVars>>
       \/ \E r \in todo[c] :
            \/ /\ bindings' = [bindings EXCEPT ![r] = None]
               /\ todo' = [todo EXCEPT ![c] = @ \ {r}]
               /\ UNCHANGED <<pc, copy, boundVars>>
            \/ Fault /\ End(c, "failed") /\ todo' = [todo EXCEPT ![c] = {}] /\ UNCHANGED bindings
    /\ UNCHANGED <<registry, proposals, dirs, op, answer, histories>>

Unbind(c) ==
    /\ pc[c] = "unbind"
    /\ \/ bindings' = [bindings EXCEPT ![op[c].route] = None] /\ End(c, "done") /\ UNCHANGED boundVars
       \/ Fault /\ End(c, "failed") /\ UNCHANGED bindings
    /\ UNCHANGED <<registry, proposals, dirs, op, todo, answer, histories>>

\* UseProject, also for a confirmed proposal, which is accepted next.
Bind(c) ==
    /\ pc[c] = "bind"
    /\ \/ /\ bindings' = [bindings EXCEPT ![op[c].route] = op[c].project]
          /\ IF op[c].kind = "confirm" THEN Goto(c, "accept") /\ UNCHANGED copy ELSE End(c, "done")
          /\ applied' = applied \cup ({op[c].proposal} \ {None})
          /\ UNCHANGED boundVars
       \/ Fault /\ End(c, "failed") /\ UNCHANGED <<bindings, applied>>
    /\ UNCHANGED <<registry, proposals, dirs, op, todo, answer, overlapped>>

\* ResolveProject: the bound project, or the default project as it is.
\* A suggestion goes on with the target's record unless it is the same project.
Lookup(c) ==
    /\ pc[c] = "lookup"
    /\ LET p == bindings[op[c].route]
       IN  IF p # None /\ copy[c][p] # "active" THEN End(c, "failed") /\ UNCHANGED <<op, answer>>
           ELSE /\ answer' = [answer EXCEPT ![c] = IF p = None THEN Default ELSE p]
                /\ IF op[c].kind = "resolve" THEN End(c, "done") /\ UNCHANGED op
                   ELSE IF answer'[c] = op[c].project THEN End(c, "refused") /\ UNCHANGED op
                   ELSE /\ Goto(c, "load")
                        /\ op' = [op EXCEPT ![c].kind = "propose"]
                        /\ UNCHANGED copy
    /\ UNCHANGED <<files, dirs, todo, histories, boundVars>>

-----------------------------------------------------------------------------
(* Proposals.                                                              *)

Propose(c) ==
    /\ pc[c] = "propose"
    /\ \/ /\ proposals' = [proposals EXCEPT ![c] = [route |-> op[c].route, project |-> op[c].project,
                                                    status |-> "pending", late |-> FALSE]]
          /\ End(c, "done")
          /\ UNCHANGED boundVars
       \/ Fault /\ End(c, "failed") /\ UNCHANGED proposals
    /\ UNCHANGED <<registry, bindings, dirs, op, todo, answer, histories>>

Settle(c, status) ==
    proposals' = [proposals EXCEPT ![op[c].proposal].status = status]

\* Fault: the proposal is accepted when it is read.
GetAccepting(c) ==
    /\ pc[c] = "get"
    /\ LET q == proposals[op[c].proposal]
       IN  /\ op' = [op EXCEPT ![c].project = q.project, ![c].route = q.route]
           /\ IF q.status = "pending" /\ ~q.late
              THEN Goto(c, "load") /\ Settle(c, "accepted") /\ UNCHANGED copy
              ELSE End(c, "refused") /\ UNCHANGED proposals
    /\ UNCHANGED <<registry, bindings, dirs, todo, answer, histories, boundVars>>

\* A confirmation reads the proposal; one that is too late expires it.
Get(c) ==
    /\ pc[c] = "get"
    /\ LET q == proposals[op[c].proposal]
       IN  /\ op' = [op EXCEPT ![c].project = q.project, ![c].route = q.route]
           /\ IF q.status # "pending" THEN End(c, "refused")
              ELSE IF q.late THEN Goto(c, "expire") /\ UNCHANGED copy
              ELSE Goto(c, "load") /\ UNCHANGED copy
    /\ UNCHANGED <<files, dirs, todo, answer, histories, boundVars>>

\* Fault: a late proposal gets a status that nothing asks for.
ExpireRejected(c) ==
    /\ pc[c] = "expire"
    /\ Settle(c, "rejected")
    /\ End(c, "refused")
    /\ UNCHANGED <<registry, bindings, dirs, op, todo, answer, histories, boundVars>>

Expire(c) ==
    /\ pc[c] = "expire"
    /\ \/ Settle(c, "expired") /\ UNCHANGED boundVars
       \/ Fault /\ UNCHANGED proposals
    /\ End(c, "refused")
    /\ UNCHANGED <<registry, bindings, dirs, op, todo, answer, histories>>

Accept(c) ==
    /\ pc[c] = "accept"
    /\ \/ Settle(c, "accepted") /\ End(c, "done") /\ UNCHANGED boundVars
       \/ Fault /\ End(c, "failed") /\ UNCHANGED proposals
    /\ UNCHANGED <<registry, bindings, dirs, op, todo, answer, histories>>

Step(c) ==
    \/ MakeWorkspace(c) \/ Load(c) \/ Ensure(c) \/ SaveEnsured(c) \/ Check(c)
    \/ InUse(c) \/ Commit(c) \/ ListBound(c) \/ Purge(c) \/ Unbind(c) \/ Bind(c)
    \/ Lookup(c) \/ Propose(c) \/ Get(c) \/ Expire(c) \/ Accept(c)

-----------------------------------------------------------------------------
(* The surroundings.                                                       *)

LoseWorkspace ==
    /\ lost < MaxLost
    /\ lost' = lost + 1
    /\ \E p \in dirs : dirs' = dirs \ {p}
    /\ UNCHANGED <<files, op, pc, copy, todo, answer, histories, faults, stops>>

\* Ten minutes pass for the proposals that are there.
TimePasses ==
    /\ \E q \in Commands : proposals[q].status # "none" /\ ~proposals[q].late
    /\ proposals' = [q \in Commands |-> [proposals[q] EXCEPT !.late = @ \/ proposals[q].status # "none"]]
    /\ UNCHANGED <<registry, bindings, dirs, op, pc, copy, todo, answer, histories, boundVars>>

\* ClawX stops and starts again: the files stay, the commands are lost.
Stop ==
    /\ stops < MaxStops
    /\ stops' = stops + 1
    /\ \E c \in Commands : Running(c)
    /\ pc' = [c \in Commands |-> IF Running(c) THEN "lost" ELSE pc[c]]
    /\ copy' = [c \in Commands |-> NoRegistry]
    /\ todo' = [c \in Commands |-> {}]
    /\ overlapped' = overlapped \cup {c \in Commands : Running(c)}
    /\ UNCHANGED <<files, dirs, op, answer, applied, faults, lost>>

Next ==
    \/ \E c \in Commands : Arrive(c) \/ Step(c)
    \/ LoseWorkspace \/ TimePasses \/ Stop

Spec == Init /\ [][Next]_vars

-----------------------------------------------------------------------------
(* Properties.                                                             *)

\* The types of the files and of the commands' state.
ProjectTypeOK ==
    /\ registry \in Registry
    /\ bindings \in [Routes -> Ids \cup {None}]
    /\ proposals \in [Commands -> Proposal]
    /\ dirs \subseteq Ids
    /\ \A c \in Commands : /\ op[c].kind \in AllKinds
                           /\ copy[c] \in Registry
                           /\ todo[c] \subseteq Routes
                           /\ answer[c] \in Ids \cup {None}
    /\ overlapped \subseteq Commands /\ applied \subseteq Commands

\* Every binding names a registered project, as long as commands come one at a
\* time and nothing fails or stops; a dangling binding makes every message of
\* its route an error.  A confirmed proposal counts as a command.
BindingsKnown ==
    overlapped = {} /\ faults = 0 =>
        \A r \in Routes : bindings[r] # None =>
            \/ registry[bindings[r]] # "none"
            \/ \E c \in Commands : op[c].kind = "purge" /\ pc[c] \in {"bound", "purge"}

\* A proposal that says accepted was carried out, whatever failed, stopped or
\* happened in between; the other way round a proposal may look pending still.
AcceptedWasApplied == \A q \in Commands : proposals[q].status = "accepted" => q \in applied

\* A forced deletion that no other command overlapped leaves neither the
\* project nor a binding of it when it answers.
DeleteIsComplete ==
    [][\A c \in Commands :
        pc[c] # "done" /\ pc'[c] = "done" /\ op[c].kind = "purge" /\ c \notin overlapped
            => /\ registry'[op[c].project] = "none"
               /\ \A r \in Routes : bindings'[r] # op[c].project]_vars

\* A save of the registry by a command that overlapped no other changes its own
\* project, adds the default project or marks a lost one, and nothing else.
LoneSaveIsLocal ==
    [][registry' # registry =>
        \E c \in Commands :
            /\ pc[c] \in {"save", "commit"}
            /\ c \notin overlapped => \A p \in Ids :
                \/ registry'[p] = registry[p]
                \/ p = op[c].project /\ pc[c] = "commit"
                \/ p = Default /\ registry[p] = "none"
                \/ registry[p] = "active" /\ registry'[p] = "broken"]_vars
=============================================================================
