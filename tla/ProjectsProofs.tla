--------------------------- MODULE ProjectsProofs ---------------------------
(***************************************************************************)
(* Theorems about Projects, for every set of projects, routes and commands *)
(* and any number of failures, lost directories and stops: its types, that *)
(* an accepted proposal was carried out, and what a command does to the    *)
(* files that no other command overlaps.                                   *)
(***************************************************************************)
EXTENDS Projects, TLAPS

Steps == {"new", "mkdir", "load", "ensure", "save", "check", "inuse", "commit", "bound", "purge",
          "unbind", "bind", "lookup", "propose", "get", "expire", "accept",
          "done", "refused", "failed", "lost"}

\* The kinds of commands that come to a step.
KindsAt(step) ==
    CASE step = "mkdir" -> {"create"}
      [] step = "inuse" -> {"delete"}
      [] step = "commit" -> {"create", "repair", "delete", "purge"}
      [] step \in {"bound", "purge"} -> {"purge"}
      [] step = "unbind" -> {"unbind"}
      [] step = "bind" -> {"use", "confirm"}
      [] step = "lookup" -> {"resolve", "suggest"}
      [] step = "propose" -> {"propose"}
      [] step \in {"get", "expire", "accept"} -> {"confirm"}
      [] OTHER -> AllKinds

Types ==
    /\ registry \in Registry
    /\ bindings \in [Routes -> Ids \cup {None}]
    /\ proposals \in [Commands -> Proposal]
    /\ dirs \subseteq Ids
    /\ op \in [Commands -> Operation]
    /\ pc \in [Commands -> Steps]
    /\ copy \in [Commands -> Registry]
    /\ todo \in [Commands -> SUBSET Routes]
    /\ answer \in [Commands -> Ids \cup {None}]
    /\ overlapped \subseteq Commands /\ applied \subseteq Commands
    /\ faults \in Nat

\* A proposal that is there names a project and a route; a confirmation is of
\* one that is there; what was accepted, or is about to be, was carried out.
Settled ==
    /\ \A q \in Commands :
        /\ proposals[q].status # "none" => proposals[q].project \in Ids /\ proposals[q].route \in Routes
        /\ proposals[q].status = "accepted" => q \in applied
    /\ \A c \in Commands :
        /\ op[c].kind = "confirm" => op[c].proposal \in Commands /\ proposals[op[c].proposal].status # "none"
        /\ pc[c] = "accept" => op[c].proposal \in applied

Stages == \A c \in Commands : op[c].kind \in KindsAt(pc[c])

\* Of two commands that run at once, both are marked.
Marked == \A c, d \in Commands : Running(c) /\ Running(d) /\ c # d => c \in overlapped

\* What a command that overlapped no other knows of the files, at a step.
Knows(c, step) ==
    CASE step = "ensure" -> copy[c] = registry
      [] step = "save" -> \E present \in SUBSET Ids : copy[c] = Ensured(registry, present)
      [] step \in {"check", "inuse", "lookup", "propose"} -> copy[c] = registry
      [] step = "bind" -> copy[c] = registry /\ registry[op[c].project] = "active"
      [] step = "commit" ->
            /\ \A p \in Ids \ {op[c].project} : copy[c][p] = registry[p]
            /\ op[c].kind \in {"create", "repair"} => copy[c][op[c].project] = "active"
            /\ op[c].kind \in {"delete", "purge"} => copy[c][op[c].project] = "none"
            /\ op[c].kind = "delete" => \A r \in Routes : bindings[r] # op[c].project
      [] step = "bound" -> registry[op[c].project] = "none"
      [] step = "purge" -> /\ registry[op[c].project] = "none"
                           /\ \A r \in Routes : bindings[r] = op[c].project => r \in todo[c]
      [] OTHER -> TRUE

Alone == \A c \in Commands \ overlapped : Knows(c, pc[c])

\* A binding that dangles is one that a forced deletion is about to delete.
Bound ==
    overlapped = {} /\ faults = 0 =>
        \A r \in Routes : bindings[r] # None =>
            \/ registry[bindings[r]] # "none"
            \/ \E c \in Commands : /\ pc[c] \in {"bound", "purge"}
                                   /\ op[c].kind = "purge" /\ op[c].project = bindings[r]

ProjectInv == Types /\ Settled /\ Stages /\ Marked /\ Alone /\ Bound

-----------------------------------------------------------------------------
LEMMA InitProjectInv == Init => ProjectInv
<1>. SUFFICES ASSUME Init PROVE ProjectInv
  OBVIOUS
<1>1. AnyRoute \in Routes
  BY ProjectConstants DEF AnyRoute
<1>2. NoRegistry \in Registry /\ NoProposal \in Proposal
  BY DEF NoRegistry, Registry, NoProposal, Proposal
<1>3. op \in [Commands -> Operation]
  <2>1. [kind : {"list"}, project : {Default}, route : {AnyRoute}, proposal : {None}] \subseteq Operation
    BY <1>1, ProjectConstants DEF Operation, AllKinds
  <2>. QED BY <2>1 DEF Init
<1>4. /\ proposals \in [Commands -> Proposal] /\ copy \in [Commands -> Registry] /\ registry \in Registry
  BY <1>2 DEF Init
<1>5. /\ bindings \in [Routes -> Ids \cup {None}] /\ answer \in [Commands -> Ids \cup {None}]
      /\ todo \in [Commands -> SUBSET Routes] /\ pc \in [Commands -> Steps]
  BY DEF Init, Steps
<1>6. Types
  BY <1>3, <1>4, <1>5 DEF Init, Types
<1>7. Settled /\ Stages /\ Marked /\ Bound
  BY <1>6 DEF Init, Settled, Stages, KindsAt, Marked, Running, Bound, NoProposal, Types, Operation
<1>8. Alone
  BY DEF Init, Alone, Knows
<1>. QED BY <1>6, <1>7, <1>8 DEF ProjectInv

LEMMA KindsTable ==
  /\ KindsAt("mkdir") = {"create"} /\ KindsAt("inuse") = {"delete"}
  /\ KindsAt("commit") = {"create", "repair", "delete", "purge"}
  /\ KindsAt("bound") = {"purge"} /\ KindsAt("purge") = {"purge"}
  /\ KindsAt("unbind") = {"unbind"} /\ KindsAt("bind") = {"use", "confirm"}
  /\ KindsAt("lookup") = {"resolve", "suggest"} /\ KindsAt("propose") = {"propose"}
  /\ KindsAt("get") = {"confirm"} /\ KindsAt("expire") = {"confirm"} /\ KindsAt("accept") = {"confirm"}
  /\ \A step \in {"new", "load", "ensure", "save", "check", "done", "refused", "failed", "lost"} :
        KindsAt(step) = AllKinds
  BY DEF KindsAt

\* A command arrives with an operation that fits its first step.
LEMMA Arrival ==
  ASSUME Types, NEW c \in Commands, Arrive(c)
  PROVE  \E o \in Operation :
            /\ op' = [op EXCEPT ![c] = o] /\ pc' = [pc EXCEPT ![c] = FirstStep[o.kind]]
            /\ pc[c] = "new"
            /\ FirstStep[o.kind] \in {"mkdir", "unbind", "get", "load"}
            /\ o.kind \in KindsAt(FirstStep[o.kind])
            /\ o.kind = "confirm" => o.proposal \in Commands /\ proposals[o.proposal].status # "none"
<1>1. AnyRoute \in Routes /\ Default \in Ids
  BY ProjectConstants DEF AnyRoute
<1>2. PICK k \in Kinds :
       \E p \in Named(k, {"create", "repair", "delete", "purge", "use", "suggest"}, Ids, Default),
          r \in Named(k, {"use", "unbind", "resolve", "suggest"}, Routes, AnyRoute),
          q \in Named(k, {"confirm"}, {d \in Commands : proposals[d].status # "none"}, None) :
        /\ op' = [op EXCEPT ![c] = [kind |-> k, project |-> p, route |-> r, proposal |-> q]]
        /\ Goto(c, FirstStep[k])
  BY DEF Arrive
<1>3. PICK p \in Ids, r \in Routes, q \in Commands \cup {None} :
        /\ op' = [op EXCEPT ![c] = [kind |-> k, project |-> p, route |-> r, proposal |-> q]]
        /\ Goto(c, FirstStep[k])
        /\ k = "confirm" => q \in Commands /\ proposals[q].status # "none"
  BY <1>1, <1>2 DEF Named
<1>. DEFINE o == [kind |-> k, project |-> p, route |-> r, proposal |-> q]
<1>4. k \in AllKinds
  BY ProjectConstants DEF AllKinds
<1>5. o \in Operation /\ o.kind = k /\ o.proposal = q
  BY <1>4 DEF Operation
<1>6. /\ FirstStep[k] \in {"mkdir", "unbind", "get", "load"}
      /\ k \in KindsAt(FirstStep[k])
  <2>1. /\ k = "create" => FirstStep[k] = "mkdir"
        /\ k = "unbind" => FirstStep[k] = "unbind"
        /\ k = "confirm" => FirstStep[k] = "get"
        /\ k \notin {"create", "unbind", "confirm"} => FirstStep[k] = "load"
    BY <1>4 DEF FirstStep
  <2>. QED BY <1>4, <2>1, KindsTable
<1>7. pc[c] = "new"
  BY DEF Arrive
<1>. HIDE DEF o
<1>8. op' = [op EXCEPT ![c] = o] /\ pc' = [pc EXCEPT ![c] = FirstStep[o.kind]]
  BY <1>3, <1>5 DEF Goto, o
<1>. QED BY <1>3, <1>5, <1>6, <1>7, <1>8

-----------------------------------------------------------------------------
(* Types.                                                                  *)

\* A registry with a changed or ensured project is a registry.
LEMMA RegistryTypes ==
  ASSUME NEW reg \in Registry
  PROVE  /\ \A present : Ensured(reg, present) \in Registry
         /\ \A p : \A status \in {"none", "active", "broken"} : [reg EXCEPT ![p] = status] \in Registry
  BY DEF Registry, Ensured

LEMMA CheckTypes ==
  ASSUME Types, NEW c \in Commands, Check(c)
  PROVE  Types'
<1>. USE DEF Types, Goto, End, Refuse, Change, files, histories, boundVars
<1>1. op[c].project \in Ids /\ copy[c] \in Registry /\ NoRegistry \in Registry
  BY DEF Operation, NoRegistry, Registry
<1>2. pc' \in [Commands -> Steps]
  BY DEF Check, CheckCreate, CheckRepair, CheckDelete, CheckUse, CheckPropose, CheckRead, Steps
<1>3. \E reg \in Registry : copy' = [copy EXCEPT ![c] = reg]
  <2>1. copy' = copy => copy' = [copy EXCEPT ![c] = copy[c]]
    OBVIOUS
  <2>2. \A status \in {"none", "active", "broken"} : [copy[c] EXCEPT ![op[c].project] = status] \in Registry
    BY <1>1, RegistryTypes
  <2>. QED BY <1>1, <2>1, <2>2 DEF Check, CheckCreate, CheckRepair, CheckDelete, CheckUse, CheckPropose, CheckRead
<1>4. dirs' \subseteq Ids
  BY <1>1 DEF Check, CheckCreate, CheckRepair, CheckDelete, CheckUse, CheckPropose, CheckRead
<1>5. copy' \in [Commands -> Registry]
  BY <1>3
<1>. QED BY <1>2, <1>4, <1>5 DEF Check

LEMMA RegistryStepTypes ==
  ASSUME Types, NEW c \in Commands,
         MakeWorkspace(c) \/ Load(c) \/ Ensure(c) \/ SaveEnsured(c) \/ InUse(c) \/ Commit(c)
  PROVE  Types'
<1>. USE DEF Types, Goto, End, Change, Fault, files, histories, boundVars
<1>1. op[c].project \in Ids /\ copy[c] \in Registry /\ NoRegistry \in Registry
  BY DEF Operation, NoRegistry, Registry
<1>2. CASE MakeWorkspace(c)
  <2>1. pc' \in [Commands -> Steps] /\ faults' \in Nat
    BY <1>2 DEF MakeWorkspace, Steps
  <2>2. copy' \in [Commands -> Registry] /\ dirs' \subseteq Ids
    BY <1>1, <1>2 DEF MakeWorkspace
  <2>. QED BY <1>2, <2>1, <2>2 DEF MakeWorkspace
<1>3. CASE Load(c)
  BY <1>3 DEF Load, Steps
<1>4. CASE Ensure(c)
  <2>1. copy' = [copy EXCEPT ![c] = Ensured(copy[c], dirs')]
    BY <1>4 DEF Ensure
  <2>. DEFINE reg == Ensured(copy[c], dirs')
  <2>2. copy' \in [Commands -> Registry]
    <3>1. reg \in Registry
      BY <1>1, RegistryTypes
    <3>. HIDE DEF reg
    <3>. QED BY <2>1, <3>1 DEF reg
  <2>3. pc' \in [Commands -> Steps] /\ dirs' \subseteq Ids
    BY <1>4, ProjectConstants DEF Ensure, Steps
  <2>. QED BY <1>4, <2>2, <2>3 DEF Ensure
<1>5. CASE SaveEnsured(c)
  <2>1. pc' \in [Commands -> Steps] /\ faults' \in Nat
    BY <1>5 DEF SaveEnsured, SaveRegistry, Steps
  <2>2. copy' \in [Commands -> Registry] /\ registry' \in Registry
    BY <1>1, <1>5 DEF SaveEnsured, SaveRegistry
  <2>. QED BY <1>5, <2>1, <2>2 DEF SaveEnsured
<1>6. CASE InUse(c)
  <2>1. [copy[c] EXCEPT ![op[c].project] = "none"] \in Registry
    BY <1>1, RegistryTypes
  <2>2. copy' \in [Commands -> Registry]
    BY <1>1, <1>6, <2>1 DEF InUse
  <2>3. pc' \in [Commands -> Steps]
    BY <1>6 DEF InUse, Steps
  <2>. QED BY <1>6, <2>2, <2>3 DEF InUse
<1>7. CASE Commit(c)
  <2>1. pc' \in [Commands -> Steps] /\ faults' \in Nat
    BY <1>7 DEF Commit, Steps
  <2>2. copy' \in [Commands -> Registry] /\ registry' \in Registry
    BY <1>1, <1>7 DEF Commit
  <2>. QED BY <1>7, <2>1, <2>2 DEF Commit
<1>. QED BY <1>2, <1>3, <1>4, <1>5, <1>6, <1>7

LEMMA BindingStepTypes ==
  ASSUME Types, NEW c \in Commands,
         ListBound(c) \/ Purge(c) \/ Unbind(c) \/ Bind(c) \/ Lookup(c)
  PROVE  Types'
<1>. USE DEF Types, Goto, End, Fault, files, histories, boundVars
<1>1. /\ op[c].project \in Ids /\ op[c].route \in Routes /\ op[c].proposal \in Commands \cup {None}
      /\ copy[c] \in Registry /\ NoRegistry \in Registry
  BY DEF Operation, NoRegistry, Registry
<1>2. CASE ListBound(c)
  BY <1>2 DEF ListBound, Steps
<1>3. CASE Purge(c)
  <2>1. pc' \in [Commands -> Steps] /\ faults' \in Nat
    BY <1>3 DEF Purge, Steps
  <2>2. copy' \in [Commands -> Registry] /\ bindings' \in [Routes -> Ids \cup {None}]
    BY <1>1, <1>3 DEF Purge
  <2>3. \E S \in SUBSET Routes : todo' = [todo EXCEPT ![c] = S]
    <3>1. todo[c] \in SUBSET Routes /\ todo = [todo EXCEPT ![c] = todo[c]]
      OBVIOUS
    <3>. QED BY <1>3, <3>1 DEF Purge
  <2>4. todo' \in [Commands -> SUBSET Routes]
    BY <2>3
  <2>. QED BY <1>3, <2>1, <2>2, <2>4 DEF Purge
<1>4. CASE Unbind(c)
  <2>1. pc' \in [Commands -> Steps] /\ faults' \in Nat
    BY <1>4 DEF Unbind, Steps
  <2>2. copy' \in [Commands -> Registry] /\ bindings' \in [Routes -> Ids \cup {None}]
    BY <1>1, <1>4 DEF Unbind
  <2>. QED BY <1>4, <2>1, <2>2 DEF Unbind
<1>5. CASE Bind(c)
  <2>1. pc' \in [Commands -> Steps] /\ faults' \in Nat
    BY <1>5 DEF Bind, Steps
  <2>2. copy' \in [Commands -> Registry] /\ bindings' \in [Routes -> Ids \cup {None}]
    BY <1>1, <1>5 DEF Bind
  <2>3. applied' \subseteq Commands
    BY <1>1, <1>5 DEF Bind
  <2>. QED BY <1>5, <2>1, <2>2, <2>3 DEF Bind
<1>6. CASE Lookup(c)
  <2>1. pc' \in [Commands -> Steps]
    BY <1>6 DEF Lookup, Steps
  <2>2. copy' \in [Commands -> Registry]
    BY <1>1, <1>6 DEF Lookup
  <2>3. bindings[op[c].route] \in Ids \cup {None} /\ Default \in Ids
    BY <1>1, ProjectConstants
  <2>4. answer' \in [Commands -> Ids \cup {None}]
    BY <1>6, <2>3 DEF Lookup
  <2>5. op' \in [Commands -> Operation]
    <3>1. [op[c] EXCEPT !.kind = "propose"] \in Operation
      BY DEF Operation, AllKinds
    <3>2. op' = op \/ op' = [op EXCEPT ![c].kind = "propose"]
      BY <1>6 DEF Lookup
    <3>. QED BY <3>1, <3>2
  <2>. QED BY <1>6, <2>1, <2>2, <2>4, <2>5 DEF Lookup
<1>. QED BY <1>2, <1>3, <1>4, <1>5, <1>6

\* A proposal whose status is settled keeps its project and route.
LEMMA SettleTypes ==
  ASSUME Types, NEW c \in Commands, NEW status \in {"accepted", "expired"}, Settle(c, status)
  PROVE  proposals' \in [Commands -> Proposal]
<1>1. \A q \in Commands : [proposals[q] EXCEPT !.status = status] \in Proposal
  BY DEF Types, Proposal
<1>2. proposals \in [Commands -> Proposal]
  BY DEF Types
<1>3. /\ proposals' = [proposals EXCEPT ![op[c].proposal] = [@ EXCEPT !.status = status]]
  BY DEF Settle
<1>. QED BY <1>1, <1>2, <1>3

LEMMA ProposalStepTypes ==
  ASSUME Types, Settled, Stages, NEW c \in Commands,
         Propose(c) \/ Get(c) \/ Expire(c) \/ Accept(c)
  PROVE  Types'
<1>1. /\ op[c].project \in Ids /\ op[c].route \in Routes
      /\ copy[c] \in Registry /\ NoRegistry \in Registry
  BY DEF Types, Operation, NoRegistry, Registry
<1>. DEFINE Kept == [copy EXCEPT ![c] = NoRegistry] \in [Commands -> Registry]
<1>2. Kept
  BY <1>1 DEF Types
<1>3. CASE Propose(c)
  <2>1. [route |-> op[c].route, project |-> op[c].project, status |-> "pending", late |-> FALSE] \in Proposal
    BY <1>1 DEF Proposal
  <2>2. proposals' \in [Commands -> Proposal]
    BY <1>3, <2>1 DEF Propose, Types
  <2>3. pc' \in [Commands -> Steps] /\ faults' \in Nat
    BY <1>3 DEF Propose, Types, Steps, Goto, End, Fault, boundVars
  <2>4. copy' \in [Commands -> Registry]
    BY <1>2, <1>3 DEF Propose, End
  <2>. QED BY <1>3, <2>2, <2>3, <2>4 DEF Propose, Types, histories
<1>4. CASE Get(c)
  <2>1. /\ op[c].proposal \in Commands
        /\ proposals[op[c].proposal].project \in Ids /\ proposals[op[c].proposal].route \in Routes
    BY <1>4, KindsTable DEF Get, Settled, Stages
  <2>2. op' \in [Commands -> Operation]
    <3>. DEFINE q == proposals[op[c].proposal]
    <3>1. [op[c] EXCEPT !.project = q.project, !.route = q.route] \in Operation
      <4>1. \A o \in Operation, p \in Ids, r \in Routes : [o EXCEPT !.project = p, !.route = r] \in Operation
        BY DEF Operation
      <4>. QED BY <2>1, <4>1 DEF Types
    <3>2. op' = [op EXCEPT ![c] = [op[c] EXCEPT !.project = q.project, !.route = q.route]]
      BY <1>4 DEF Get, Types
    <3>3. op \in [Commands -> Operation]
      BY DEF Types
    <3>. HIDE DEF q
    <3>. QED BY <3>1, <3>2, <3>3
  <2>3. pc' \in [Commands -> Steps]
    BY <1>4 DEF Get, Types, Steps, Goto, End
  <2>4. copy' \in [Commands -> Registry]
    BY <1>2, <1>4 DEF Get, End, Types
  <2>. QED BY <1>4, <2>2, <2>3, <2>4 DEF Get, Types, histories, files, boundVars
<1>5. CASE Expire(c)
  <2>1. proposals' \in [Commands -> Proposal]
    BY <1>5, SettleTypes DEF Expire, Types
  <2>2. pc' \in [Commands -> Steps] /\ faults' \in Nat
    BY <1>5 DEF Expire, Types, Steps, Goto, End, Fault, boundVars
  <2>3. copy' \in [Commands -> Registry]
    BY <1>2, <1>5 DEF Expire, End
  <2>. QED BY <1>5, <2>1, <2>2, <2>3 DEF Expire, Types, histories
<1>6. CASE Accept(c)
  <2>1. proposals' \in [Commands -> Proposal]
    BY <1>6, SettleTypes DEF Accept, Types
  <2>2. pc' \in [Commands -> Steps] /\ faults' \in Nat
    BY <1>6 DEF Accept, Types, Steps, Goto, End, Fault, boundVars
  <2>3. copy' \in [Commands -> Registry]
    BY <1>2, <1>6 DEF Accept, End
  <2>. QED BY <1>6, <2>1, <2>2, <2>3 DEF Accept, Types, histories
<1>. QED BY <1>3, <1>4, <1>5, <1>6

LEMMA NextTypes ==
  ASSUME Types, Settled, Stages, Next
  PROVE  Types'
<1>1. ASSUME NEW c \in Commands, Arrive(c) PROVE Types'
  <2>1. op' \in [Commands -> Operation] /\ pc' \in [Commands -> Steps]
    BY <1>1, Arrival DEF Types, Steps
  <2>2. overlapped' \subseteq Commands
    BY <1>1 DEF Arrive, Types
  <2>. QED BY <1>1, <2>1, <2>2 DEF Arrive, Types, files, boundVars
<1>2. ASSUME NEW c \in Commands, Step(c) PROVE Types'
  BY <1>2, RegistryStepTypes, CheckTypes, BindingStepTypes, ProposalStepTypes DEF Step
<1>3. CASE LoseWorkspace
  BY <1>3 DEF LoseWorkspace, Types, files, histories
<1>4. CASE TimePasses
  <2>1. \A q \in Commands : [proposals[q] EXCEPT !.late = @ \/ proposals[q].status # "none"] \in Proposal
    BY DEF Types, Proposal
  <2>. QED BY <1>4, <2>1 DEF TimePasses, Types, histories, boundVars
<1>5. CASE Stop
  <2>1. NoRegistry \in Registry
    BY DEF NoRegistry, Registry
  <2>2. pc' \in [Commands -> Steps] /\ overlapped' \subseteq Commands
    BY <1>5 DEF Stop, Types, Steps
  <2>. QED BY <1>5, <2>1, <2>2 DEF Stop, Types, files
<1>. QED BY <1>1, <1>2, <1>3, <1>4, <1>5 DEF Next

-----------------------------------------------------------------------------
(* Each step has the kinds of commands that come to it.                    *)

LEMMA StagesKept ==
  ASSUME Types, Stages, Next
  PROVE  Stages'
<1>1. ASSUME NEW c \in Commands, Arrive(c) PROVE Stages'
  BY <1>1, Arrival DEF Stages, Types
<1>2. ASSUME NEW c \in Commands, op' = op,
             NEW step, pc' = [pc EXCEPT ![c] = step], op[c].kind \in KindsAt(step)
      PROVE  Stages'
  BY <1>2 DEF Stages, Types
<1>3. \A c \in Commands : op[c].kind \in AllKinds /\ op[c].kind \in KindsAt(pc[c])
  BY DEF Stages, Types, Operation
<1>4. ASSUME NEW c \in Commands, op' = op,
             NEW step \in {"load", "ensure", "save", "check", "done", "refused", "failed"},
             pc' = [pc EXCEPT ![c] = step]
      PROVE  Stages'
  BY <1>2, <1>3, <1>4, KindsTable
<1>5. ASSUME NEW c \in Commands, MakeWorkspace(c) \/ Load(c) \/ Ensure(c) \/ SaveEnsured(c) PROVE Stages'
  BY <1>4, <1>5 DEF MakeWorkspace, Load, Ensure, SaveEnsured, SaveRegistry, Goto, End
<1>6. ASSUME NEW c \in Commands, Unbind(c) \/ Propose(c) \/ Expire(c) \/ Accept(c) PROVE Stages'
  BY <1>4, <1>6 DEF Unbind, Propose, Expire, Accept, Goto, End
<1>7. ASSUME NEW c \in Commands, Check(c) PROVE Stages'
  <2>1. op' = op
    BY <1>7 DEF Check
  <2>2. \E step \in Steps : pc' = [pc EXCEPT ![c] = step] /\ op[c].kind \in KindsAt(step)
    BY <1>3, <1>7, KindsTable DEF Check, CheckCreate, CheckRepair, CheckDelete, CheckUse, CheckPropose, CheckRead,
                                  Refuse, Change, Goto, End, Steps
  <2>. QED BY <1>2, <2>1, <2>2
<1>8. ASSUME NEW c \in Commands, InUse(c) \/ Commit(c) \/ ListBound(c) \/ Bind(c) PROVE Stages'
  <2>1. op' = op
    BY <1>8 DEF InUse, Commit, ListBound, Bind
  <2>2. \E step \in Steps : pc' = [pc EXCEPT ![c] = step] /\ op[c].kind \in KindsAt(step)
    BY <1>3, <1>8, KindsTable DEF InUse, Commit, ListBound, Bind, Change, Goto, End, Steps
  <2>. QED BY <1>2, <2>1, <2>2
<1>9. ASSUME NEW c \in Commands, Purge(c) PROVE Stages'
  <2>1. op' = op /\ (pc' = pc \/ \E step \in {"done", "failed"} : pc' = [pc EXCEPT ![c] = step])
    BY <1>9 DEF Purge, Goto, End
  <2>. QED BY <1>4, <2>1 DEF Stages
<1>10. ASSUME NEW c \in Commands, Lookup(c) PROVE Stages'
  <2>1. \/ op' = op
        \/ op' = [op EXCEPT ![c].kind = "propose"] /\ pc' = [pc EXCEPT ![c] = "load"]
    BY <1>10 DEF Lookup, Goto
  <2>2. op' = op => \E step \in {"done", "refused", "failed", "load"} : pc' = [pc EXCEPT ![c] = step]
    BY <1>10 DEF Lookup, Goto, End
  <2>3. CASE op' = [op EXCEPT ![c].kind = "propose"] /\ pc' = [pc EXCEPT ![c] = "load"]
    <3>1. op'[c].kind = "propose" /\ pc'[c] = "load"
      BY <2>3 DEF Types, Operation
    <3>2. \A d \in Commands \ {c} : op'[d] = op[d] /\ pc'[d] = pc[d]
      BY <2>3 DEF Types
    <3>. QED BY <1>3, <3>1, <3>2, KindsTable DEF Stages, AllKinds
  <2>. QED BY <1>4, <2>1, <2>2, <2>3
<1>11. ASSUME NEW c \in Commands, Get(c) PROVE Stages'
  <2>1. /\ op'[c].kind = op[c].kind
        /\ \A d \in Commands \ {c} : op'[d] = op[d] /\ pc'[d] = pc[d]
        /\ pc'[c] \in {"refused", "expire", "load"}
    BY <1>11 DEF Get, Goto, End, Types, Operation
  <2>2. op[c].kind = "confirm"
    BY <1>3, <1>11, KindsTable DEF Get
  <2>. QED BY <1>3, <2>1, <2>2, KindsTable DEF Stages, AllKinds
<1>12. CASE LoseWorkspace \/ TimePasses
  BY <1>12 DEF LoseWorkspace, TimePasses, Stages
<1>13. CASE Stop
  <2>1. op' = op /\ \A d \in Commands : pc'[d] \in {pc[d], "lost"}
    BY <1>13 DEF Stop
  <2>. QED BY <1>3, <2>1, KindsTable DEF Stages
<1>. QED BY <1>1, <1>5, <1>6, <1>7, <1>8, <1>9, <1>10, <1>11, <1>12, <1>13 DEF Next, Step

-----------------------------------------------------------------------------
(* Proposals.                                                              *)

\* Steps that leave the proposals alone, and bring no command to get or accept
\* but by its arrival or its binding.
LEMMA SettledKept ==
  ASSUME Types, Settled, Stages, Next
  PROVE  Settled'
<1>1. ASSUME NEW c \in Commands, Arrive(c) PROVE Settled'
  <2>1. PICK o \in Operation :
            /\ op' = [op EXCEPT ![c] = o] /\ pc' = [pc EXCEPT ![c] = FirstStep[o.kind]]
            /\ FirstStep[o.kind] \in {"mkdir", "unbind", "get", "load"}
            /\ o.kind = "confirm" => o.proposal \in Commands /\ proposals[o.proposal].status # "none"
    BY <1>1, Arrival
  <2>. QED BY <1>1, <2>1 DEF Arrive, Settled, Types, files
<1>2. ASSUME NEW c \in Commands,
             UNCHANGED <<proposals, op, applied>>,
             \E step \in Steps \ {"get", "accept"} : pc' = [pc EXCEPT ![c] = step]
      PROVE  Settled'
  BY <1>2 DEF Settled, Types
<1>3. ASSUME NEW c \in Commands,
             MakeWorkspace(c) \/ Load(c) \/ Ensure(c) \/ SaveEnsured(c) \/ InUse(c) \/ Commit(c)
      PROVE  Settled'
  BY <1>2, <1>3 DEF MakeWorkspace, Load, Ensure, SaveEnsured, SaveRegistry, InUse, Commit, Goto, End, Change, Steps,
                    files, histories
<1>4. ASSUME NEW c \in Commands, Check(c) PROVE Settled'
  BY <1>2, <1>4 DEF Check, CheckCreate, CheckRepair, CheckDelete, CheckUse, CheckPropose, CheckRead, Refuse,
                    Goto, End, Change, Steps, files, histories
<1>5. ASSUME NEW c \in Commands, ListBound(c) \/ Unbind(c) PROVE Settled'
  BY <1>2, <1>5 DEF ListBound, Unbind, Goto, End, Steps, files, histories
<1>6. ASSUME NEW c \in Commands, Purge(c) PROVE Settled'
  BY <1>6 DEF Purge, Goto, End, Settled, Types, histories
<1>7. ASSUME NEW c \in Commands, Bind(c) PROVE Settled'
  <2>1. op' = op /\ proposals' = proposals
    BY <1>7 DEF Bind
  <2>2. applied \subseteq applied'
    BY <1>7 DEF Bind
  <2>3. pc'[c] = "accept" => op[c].proposal \in applied'
    <3>1. op[c].kind = "confirm" => op[c].proposal \in Commands \ {None}
      BY ProjectConstants DEF Settled
    <3>. QED BY <1>7, <3>1 DEF Bind, Goto, End, Types
  <2>4. \A d \in Commands \ {c} : pc'[d] = pc[d]
    BY <1>7 DEF Bind, Goto, End, Types
  <2>. QED BY <2>1, <2>2, <2>3, <2>4 DEF Settled
<1>8. ASSUME NEW c \in Commands, Lookup(c) PROVE Settled'
  <2>1. UNCHANGED <<proposals, applied>>
    BY <1>8 DEF Lookup, files, histories
  <2>2. \A d \in Commands : /\ op'[d].proposal = op[d].proposal
                            /\ op'[d].kind = "confirm" => op[d].kind = "confirm"
    BY <1>8 DEF Lookup, Types, Operation
  <2>3. \A d \in Commands : pc'[d] \in {"get", "accept"} => pc'[d] = pc[d]
    BY <1>8 DEF Lookup, Goto, End, Types
  <2>. QED BY <2>1, <2>2, <2>3 DEF Settled
<1>9. ASSUME NEW c \in Commands, Propose(c) PROVE Settled'
  <2>1. op[c].project \in Ids /\ op[c].route \in Routes
    BY DEF Types, Operation
  <2>2. op' = op /\ applied' = applied
    BY <1>9 DEF Propose, histories
  <2>3. \A d \in Commands : pc'[d] \in {"get", "accept"} => pc'[d] = pc[d]
    BY <1>9 DEF Propose, Goto, End, Types
  <2>4. \A q \in Commands :
            \/ proposals'[q] = proposals[q]
            \/ proposals'[q].status = "pending" /\ proposals'[q].project \in Ids /\ proposals'[q].route \in Routes
    BY <1>9, <2>1 DEF Propose, Types
  <2>. QED BY <2>2, <2>3, <2>4 DEF Settled
<1>10. ASSUME NEW c \in Commands, Get(c) PROVE Settled'
  <2>1. UNCHANGED <<proposals, applied>>
    BY <1>10 DEF Get, files, histories
  <2>2. \A d \in Commands : /\ op'[d].proposal = op[d].proposal
                            /\ op'[d].kind = "confirm" => op[d].kind = "confirm"
    BY <1>10 DEF Get, Types, Operation
  <2>3. \A d \in Commands : pc'[d] \in {"get", "accept"} => pc'[d] = pc[d]
    BY <1>10 DEF Get, Goto, End, Types
  <2>. QED BY <2>1, <2>2, <2>3 DEF Settled
<1>11. ASSUME NEW c \in Commands, Expire(c) \/ Accept(c) PROVE Settled'
  <2>1. op' = op /\ applied' = applied
    BY <1>11 DEF Expire, Accept, histories
  <2>2. \A d \in Commands : pc'[d] \in {"get", "accept"} => pc'[d] = pc[d]
    BY <1>11 DEF Expire, Accept, Goto, End, Types
  <2>3. \A q \in Commands :
            \/ proposals'[q] = proposals[q]
            \/ \E status \in {"expired", "accepted"} :
                    /\ q = op[c].proposal /\ proposals'[q] = [proposals[q] EXCEPT !.status = status]
                    /\ status = "accepted" => pc[c] = "accept"
    BY <1>11 DEF Expire, Accept, Settle, Types
  <2>4. /\ op[c].proposal \in Commands /\ proposals[op[c].proposal].status # "none"
        /\ pc[c] = "accept" => op[c].proposal \in applied
    BY <1>11, KindsTable DEF Settled, Stages, Expire, Accept
  <2>5. ASSUME NEW q \in Commands
        PROVE  /\ proposals'[q].status # "none" => proposals'[q].project \in Ids /\ proposals'[q].route \in Routes
               /\ proposals'[q].status = "accepted" => q \in applied
               /\ proposals[q].status # "none" => proposals'[q].status # "none"
    <3>1. CASE proposals'[q] = proposals[q]
      BY <3>1 DEF Settled
    <3>2. ASSUME NEW status \in {"expired", "accepted"},
                 q = op[c].proposal, proposals'[q] = [proposals[q] EXCEPT !.status = status],
                 status = "accepted" => pc[c] = "accept"
          PROVE  <2>5!2
      <4>1. /\ proposals'[q].status = status
            /\ proposals'[q].project = proposals[q].project /\ proposals'[q].route = proposals[q].route
        BY <3>2 DEF Types, Proposal
      <4>. QED BY <2>4, <3>2, <4>1 DEF Settled
    <3>. QED BY <2>3, <3>1, <3>2
  <2>. QED BY <2>1, <2>2, <2>5 DEF Settled
<1>12. CASE TimePasses
  <2>1. \A q \in Commands : /\ proposals'[q].status = proposals[q].status
                            /\ proposals'[q].project = proposals[q].project
                            /\ proposals'[q].route = proposals[q].route
    BY <1>12 DEF TimePasses, Types, Proposal
  <2>. QED BY <1>12, <2>1 DEF TimePasses, Settled, histories
<1>13. CASE LoseWorkspace \/ Stop
  BY <1>13 DEF LoseWorkspace, Stop, Settled, Types, files, histories
<1>. QED BY <1>1, <1>3, <1>4, <1>5, <1>6, <1>7, <1>8, <1>9, <1>10, <1>11, <1>12, <1>13 DEF Next, Step

-----------------------------------------------------------------------------
(* A command that no other overlaps.                                       *)

\* What a step leaves to the other commands.
LEMMA StepFrame ==
  ASSUME Types, NEW c \in Commands, Step(c)
  PROVE  /\ Running(c) /\ overlapped' = overlapped /\ (faults' = 0 => faults = 0)
         /\ \A d \in Commands \ {c} : pc'[d] = pc[d] /\ op'[d] = op[d]
<1>1. \A n \in Nat : n + 1 # 0
  OBVIOUS
<1>. USE <1>1 DEF Types, Running, Goto, End, Fault, histories, boundVars
<1>2. CASE MakeWorkspace(c) \/ Load(c) \/ Ensure(c) \/ SaveEnsured(c)
  BY <1>2 DEF MakeWorkspace, Load, Ensure, SaveEnsured, SaveRegistry
<1>3. CASE Check(c)
  BY <1>3 DEF Check, CheckCreate, CheckRepair, CheckDelete, CheckUse, CheckPropose, CheckRead, Refuse, Change
<1>4. CASE InUse(c) \/ Commit(c)
  BY <1>4 DEF InUse, Commit, Change
<1>5. CASE ListBound(c) \/ Purge(c) \/ Unbind(c) \/ Bind(c)
  BY <1>5 DEF ListBound, Purge, Unbind, Bind
<1>6. CASE Lookup(c) \/ Get(c)
  BY <1>6 DEF Lookup, Get
<1>7. CASE Propose(c) \/ Expire(c) \/ Accept(c)
  BY <1>7 DEF Propose, Expire, Accept
<1>. QED BY <1>2, <1>3, <1>4, <1>5, <1>6, <1>7 DEF Step

\* Only an arrival makes a command run, and it marks all that run by then.
LEMMA MarkedKept ==
  ASSUME Types, Marked, Next
  PROVE  Marked'
<1>1. ASSUME NEW c \in Commands, Arrive(c) PROVE Marked'
  <2>1. \A d \in Commands \ {c} : pc'[d] = pc[d]
    BY <1>1 DEF Arrive, Goto, Types
  <2>2. /\ \A d \in Commands : Running(d) => d \in overlapped'
        /\ (\E d \in Commands : Running(d)) => c \in overlapped'
    BY <1>1 DEF Arrive
  <2>. QED BY <2>1, <2>2 DEF Marked, Running
<1>2. ASSUME NEW c \in Commands, Step(c) PROVE Marked'
  BY <1>2, StepFrame DEF Marked, Running
<1>3. CASE LoseWorkspace \/ TimePasses
  BY <1>3 DEF LoseWorkspace, TimePasses, Marked, Running, histories
<1>4. CASE Stop
  BY <1>4 DEF Stop, Marked, Running, Types
<1>. QED BY <1>1, <1>2, <1>3, <1>4 DEF Next

\* The steps at which a command has nothing to know.
Careless == {"new", "mkdir", "load", "unbind", "get", "expire", "accept", "done", "refused", "failed", "lost"}

LEMMA KnowsNothing ==
  ASSUME NEW c \in Commands
  PROVE  /\ pc[c] \in Careless => Knows(c, pc[c])
         /\ pc'[c] \in Careless => Knows(c, pc[c])'
  BY DEF Knows, Careless

\* The registry steps of a command alone, up to its check.
LEMMA AloneEnsures ==
  ASSUME Types, Types', NEW c \in Commands, Knows(c, pc[c]),
         MakeWorkspace(c) \/ Load(c) \/ Ensure(c) \/ SaveEnsured(c)
  PROVE  Knows(c, pc[c])'
<1>. USE DEF Goto, End
<1>1. CASE MakeWorkspace(c)
  BY <1>1, KnowsNothing DEF MakeWorkspace, Careless, Types
<1>2. CASE Load(c)
  <2>1. pc'[c] = "ensure" /\ copy'[c] = registry /\ registry' = registry
    BY <1>2 DEF Load, Types, files
  <2>. QED BY <2>1 DEF Knows
<1>3. CASE Ensure(c)
  <2>1. pc[c] = "ensure" /\ copy[c] = registry /\ registry' = registry
    BY <1>3 DEF Ensure, Knows, files
  <2>2. copy'[c] = Ensured(registry, dirs')
    BY <1>3, <2>1 DEF Ensure, Types
  <2>3. CASE copy'[c] = copy[c]
    <3>1. pc'[c] = "check"
      BY <1>3, <2>3 DEF Ensure, Types
    <3>. QED BY <2>1, <2>3, <3>1 DEF Knows
  <2>4. CASE copy'[c] # copy[c]
    <3>1. pc'[c] = "save"
      BY <1>3, <2>4 DEF Ensure, Types
    <3>2. dirs' \in SUBSET Ids
      BY DEF Types
    <3>. QED BY <2>1, <2>2, <3>1, <3>2 DEF Knows, Ensured
  <2>. QED BY <2>3, <2>4
<1>4. CASE SaveEnsured(c)
  <2>1. CASE registry' = copy[c] /\ Goto(c, "check") /\ UNCHANGED <<copy, boundVars>>
    <3>1. pc'[c] = "check" /\ copy'[c] = registry'
      BY <2>1 DEF Types
    <3>. QED BY <3>1 DEF Knows
  <2>2. CASE pc' = [pc EXCEPT ![c] = "failed"]
    BY <2>2, KnowsNothing DEF Careless, Types
  <2>. QED BY <1>4, <2>1, <2>2 DEF SaveEnsured, SaveRegistry
<1>. QED BY <1>1, <1>2, <1>3, <1>4

\* Its check, which leads to the change of its own project or to a refusal.
LEMMA AloneChecks ==
  ASSUME Types, NEW c \in Commands, Knows(c, pc[c]), Check(c)
  PROVE  Knows(c, pc[c])'
<1>1. /\ pc[c] = "check" /\ copy[c] = registry /\ registry' = registry /\ bindings' = bindings /\ op' = op
  BY DEF Check, Knows, files
<1>2. op[c].project \in Ids /\ registry \in Registry
  BY DEF Types, Operation
<1>3. ASSUME NEW status \in {"active", "none"}, Change(c, status),
             status = "active" <=> op[c].kind \in {"create", "repair"}, op[c].kind # "delete"
      PROVE  Knows(c, pc[c])'
  <2>1. pc'[c] = "commit"
    BY <1>3 DEF Change, Goto, Types
  <2>2. copy'[c] = [registry EXCEPT ![op[c].project] = status]
    BY <1>1, <1>3 DEF Change, Types
  <2>3. copy'[c][op[c].project] = status /\ \A p \in Ids \ {op[c].project} : copy'[c][p] = registry[p]
    BY <1>2, <2>2 DEF Registry
  <2>. QED BY <1>1, <1>3, <2>1, <2>3 DEF Knows
<1>4. ASSUME NEW how \in {"done", "refused"}, End(c, how) PROVE Knows(c, pc[c])'
  BY <1>4, KnowsNothing DEF End, Goto, Careless, Types
<1>5. ASSUME NEW step \in {"inuse", "lookup", "propose"}, Goto(c, step), copy' = copy PROVE Knows(c, pc[c])'
  <2>1. pc'[c] = step
    BY <1>5 DEF Goto, Types
  <2>. QED BY <1>1, <1>5, <2>1 DEF Knows
<1>6. CASE CheckCreate(c) \/ CheckRepair(c)
  BY <1>3, <1>4, <1>6 DEF CheckCreate, CheckRepair, Refuse
<1>7. CASE CheckDelete(c)
  BY <1>3, <1>4, <1>5, <1>7 DEF CheckDelete
<1>8. CASE CheckUse(c)
  <2>1. CASE Goto(c, "bind") /\ copy' = copy /\ copy[c][op[c].project] = "active"
    <3>1. pc'[c] = "bind"
      BY <2>1 DEF Goto, Types
    <3>. QED BY <1>1, <2>1, <3>1 DEF Knows
  <2>. QED BY <1>4, <1>8, <2>1 DEF CheckUse, Refuse
<1>9. CASE CheckPropose(c) \/ CheckRead(c)
  BY <1>4, <1>5, <1>9 DEF CheckPropose, CheckRead, Refuse
<1>. QED BY <1>6, <1>7, <1>8, <1>9 DEF Check

\* From there on: the change, and the bindings of a project deleted by force.
LEMMA AloneChanges ==
  ASSUME Types, Stages, NEW c \in Commands, Knows(c, pc[c]),
         InUse(c) \/ Commit(c) \/ ListBound(c) \/ Purge(c)
  PROVE  Knows(c, pc[c])'
<1>1. op' = op /\ op[c].project \in Ids
  BY DEF InUse, Commit, ListBound, Purge, Types, Operation
<1>2. ASSUME NEW how \in {"done", "refused", "failed"}, End(c, how) PROVE Knows(c, pc[c])'
  BY <1>2, KnowsNothing DEF End, Goto, Careless, Types
<1>3. CASE InUse(c)
  <2>1. op[c].kind = "delete" /\ copy[c] = registry /\ registry' = registry /\ bindings' = bindings
    BY <1>3, KindsTable DEF InUse, Stages, Knows, files
  <2>2. CASE Change(c, "none") /\ \A r \in Routes : bindings[r] # op[c].project
    <3>1. pc'[c] = "commit"
      BY <2>2 DEF Change, Goto, Types
    <3>2. copy'[c] = [registry EXCEPT ![op[c].project] = "none"]
      BY <2>1, <2>2 DEF Change, Types
    <3>3. copy'[c][op[c].project] = "none" /\ \A p \in Ids \ {op[c].project} : copy'[c][p] = registry[p]
      BY <1>1, <3>2 DEF Types, Registry
    <3>. QED BY <1>1, <2>1, <2>2, <3>1, <3>3 DEF Knows
  <2>. QED BY <1>2, <1>3, <2>2 DEF InUse
<1>4. CASE Commit(c)
  <2>1. CASE registry' = copy[c] /\ op[c].kind = "purge" /\ Goto(c, "bound")
    <3>1. pc'[c] = "bound"
      BY <2>1 DEF Goto, Types
    <3>2. copy[c][op[c].project] = "none"
      BY <1>4, <2>1 DEF Commit, Knows
    <3>. QED BY <1>1, <2>1, <3>1, <3>2 DEF Knows
  <2>. QED BY <1>2, <1>4, <2>1 DEF Commit
<1>5. CASE ListBound(c)
  <2>1. /\ pc'[c] = "purge" /\ todo'[c] = {r \in Routes : bindings[r] = op[c].project}
        /\ registry[op[c].project] = "none" /\ registry' = registry /\ bindings' = bindings
    BY <1>5 DEF ListBound, Goto, Knows, Types, files
  <2>. QED BY <1>1, <2>1 DEF Knows
<1>6. CASE Purge(c)
  <2>1. /\ pc[c] = "purge" /\ registry[op[c].project] = "none" /\ registry' = registry
        /\ \A r \in Routes : bindings[r] = op[c].project => r \in todo[c]
    BY <1>6 DEF Purge, Knows
  <2>2. ASSUME NEW r \in todo[c], bindings' = [bindings EXCEPT ![r] = None],
               todo' = [todo EXCEPT ![c] = @ \ {r}], pc' = pc
        PROVE  Knows(c, pc[c])'
    <3>1. todo'[c] = todo[c] \ {r} /\ r \in Routes
      BY <2>2 DEF Types
    <3>2. \A s \in Routes : bindings'[s] = op[c].project => s # r /\ bindings[s] = op[c].project
      BY <1>1, <2>2, <3>1, ProjectConstants DEF Types
    <3>. QED BY <1>1, <2>1, <2>2, <3>1, <3>2 DEF Knows
  <2>. QED BY <1>2, <1>6, <2>2 DEF Purge
<1>. QED BY <1>3, <1>4, <1>5, <1>6

LEMMA AloneKept ==
  ASSUME ProjectInv, Types', Next
  PROVE  Alone'
<1>. USE DEF ProjectInv
<1>1. ASSUME NEW c \in Commands, Arrive(c) PROVE Alone'
  <2>1. pc'[c] \in Careless /\ \A d \in Commands \ {c} : pc'[d] = pc[d]
    BY <1>1, Arrival DEF Types, Careless
  <2>2. \A d \in Commands : Running(d) => d \in overlapped'
    BY <1>1 DEF Arrive
  <2>3. \A d \in Commands \ overlapped' : pc'[d] \in Careless
    BY <2>1, <2>2 DEF Running, Careless
  <2>. QED BY <2>3, KnowsNothing DEF Alone
<1>2. ASSUME NEW c \in Commands, Step(c) PROVE Alone'
  <2>1. \A d \in Commands \ {c} : d \notin overlapped' => pc'[d] \in Careless
    BY <1>2, StepFrame DEF Marked, Running, Careless
  <2>2. \A d \in Commands \ {c} : d \notin overlapped' => Knows(d, pc[d])'
    BY <2>1, KnowsNothing
  <2>3. ASSUME c \notin overlapped' PROVE Knows(c, pc[c])'
    <3>1. Knows(c, pc[c])
      BY <1>2, <2>3, StepFrame DEF Alone
    <3>2. CASE Unbind(c) \/ Bind(c) \/ Lookup(c) \/ Propose(c) \/ Get(c) \/ Expire(c) \/ Accept(c)
      <4>1. pc'[c] \in Careless
        BY <3>2 DEF Unbind, Bind, Lookup, Propose, Get, Expire, Accept, Goto, End, Types, Careless
      <4>. QED BY <4>1, KnowsNothing
    <3>. QED BY <1>2, <3>1, <3>2, AloneEnsures, AloneChecks, AloneChanges DEF Step
  <2>. QED BY <2>2, <2>3 DEF Alone
<1>3. CASE LoseWorkspace \/ TimePasses
  BY <1>3 DEF LoseWorkspace, TimePasses, Alone, Knows, Ensured, files, histories
<1>4. CASE Stop
  <2>1. \A d \in Commands : pc'[d] \in Careless
    BY <1>4 DEF Stop, Running, Careless, Types
  <2>. QED BY <2>1, KnowsNothing DEF Alone
<1>. QED BY <1>1, <1>2, <1>3, <1>4 DEF Next

-----------------------------------------------------------------------------
(* Bindings.                                                               *)

\* What becomes of a dangling binding: it is kept or removed, and no command
\* that comes or goes takes the deletion it waits for away.
LEMMA BoundKept ==
  ASSUME ProjectInv, Types', Next
  PROVE  Bound'
<1>. USE DEF ProjectInv
<1>. DEFINE Deleting(r, c) == pc[c] \in {"bound", "purge"} /\ op[c].kind = "purge" /\ op[c].project = bindings[r]
<1>0. \A r \in Routes : bindings[r] # None => bindings[r] \in Ids
  BY DEF Types
<1>1. ASSUME overlapped = {}, faults = 0, bindings' = bindings,
             \A p \in Ids : registry[p] # "none" => registry'[p] # "none",
             \A c \in Commands : pc[c] \in {"bound", "purge"} =>
                  pc'[c] \in {"bound", "purge"} /\ op'[c] = op[c]
      PROVE  Bound'
  BY <1>0, <1>1 DEF Bound
<1>. SUFFICES ASSUME overlapped' = {}, faults' = 0 PROVE Bound'
  BY DEF Bound
<1>2. ASSUME NEW c \in Commands, Arrive(c) PROVE Bound'
  <2>1. overlapped = {} /\ faults = 0
    BY <1>2 DEF Arrive, boundVars
  <2>2. \A d \in Commands : pc[d] # "new" => pc'[d] = pc[d] /\ op'[d] = op[d]
    BY <1>2, Arrival DEF Types
  <2>. QED BY <1>1, <1>2, <2>1, <2>2 DEF Arrive, files
<1>3. ASSUME NEW c \in Commands, Step(c) PROVE Bound'
  <2>1. /\ overlapped = {} /\ faults = 0
        /\ \A d \in Commands \ {c} : pc'[d] = pc[d] /\ op'[d] = op[d]
    BY <1>3, StepFrame
  <2>2. Knows(c, pc[c])
    BY <2>1 DEF Alone
  <2>3. \A r \in Routes : bindings[r] # None =>
            registry[bindings[r]] # "none" \/ \E d \in Commands : Deleting(r, d)
    BY <2>1 DEF Bound
  <2>4. ASSUME pc[c] \notin {"bound", "purge"}, bindings' = bindings,
               \A p \in Ids : registry[p] # "none" => registry'[p] # "none"
        PROVE  Bound'
    BY <1>1, <2>1, <2>4
  <2>5. CASE MakeWorkspace(c) \/ Load(c) \/ Ensure(c) \/ Check(c) \/ InUse(c) \/ Lookup(c)
             \/ Propose(c) \/ Get(c) \/ Expire(c) \/ Accept(c)
    BY <2>4, <2>5 DEF MakeWorkspace, Load, Ensure, Check, InUse, Lookup, Propose, Get, Expire, Accept, files
  <2>6. CASE SaveEnsured(c)
    <3>1. PICK present \in SUBSET Ids : copy[c] = Ensured(registry, present)
      BY <2>2, <2>6 DEF SaveEnsured, Knows
    <3>2. \A p \in Ids : registry[p] # "none" => copy[c][p] # "none"
      BY <3>1 DEF Ensured
    <3>. QED BY <2>4, <2>6, <3>2 DEF SaveEnsured, SaveRegistry
  <2>7. CASE Commit(c)
    <3>1. /\ \A p \in Ids \ {op[c].project} : copy[c][p] = registry[p]
          /\ op[c].kind \in {"create", "repair"} => copy[c][op[c].project] = "active"
          /\ op[c].kind = "delete" => \A r \in Routes : bindings[r] # op[c].project
          /\ op[c].kind \in {"create", "repair", "delete", "purge"}
          /\ pc[c] = "commit" /\ bindings' = bindings /\ op' = op
      BY <2>2, <2>7, KindsTable DEF Commit, Knows, Stages
    <3>2. CASE registry' = registry
      BY <2>4, <3>1, <3>2
    <3>3. CASE registry' = copy[c] /\ (op[c].kind = "purge" => pc' = [pc EXCEPT ![c] = "bound"])
      <4>1. op[c].kind = "purge" => pc'[c] = "bound"
        BY <3>3 DEF Types
      <4>2. ASSUME NEW r \in Routes, bindings[r] # None, registry'[bindings[r]] = "none"
            PROVE  \E d \in Commands : Deleting(r, d)'
        <5>1. CASE bindings[r] = op[c].project
          <6>1. op[c].kind = "purge"
            BY <3>1, <3>3, <4>2, <5>1
          <6>. QED BY <3>1, <4>1, <5>1, <6>1
        <5>2. CASE bindings[r] # op[c].project
          <6>1. registry[bindings[r]] = "none"
            BY <1>0, <3>1, <3>3, <4>2, <5>2
          <6>. QED BY <2>1, <2>3, <3>1, <4>2, <6>1
        <5>. QED BY <5>1, <5>2
      <4>. QED BY <3>1, <4>2 DEF Bound
    <3>. QED BY <2>7, <3>2, <3>3 DEF Commit, Goto
  <2>8. CASE ListBound(c)
    <3>1. pc[c] = "bound" /\ pc'[c] = "purge" /\ op' = op /\ registry' = registry /\ bindings' = bindings
      BY <2>8 DEF ListBound, Goto, Types, files
    <3>. QED BY <1>1, <2>1, <3>1
  <2>9. CASE Purge(c)
    <3>1. /\ pc[c] = "purge" /\ op' = op /\ registry' = registry
          /\ \A r \in Routes : bindings[r] = op[c].project => r \in todo[c]
      BY <2>2, <2>9 DEF Purge, Knows
    <3>2. \A r \in Routes : bindings'[r] # None => bindings'[r] = bindings[r]
      BY <2>9 DEF Purge, Types
    <3>3. pc' = pc \/ todo[c] = {}
      BY <2>1, <2>9 DEF Purge, Fault
    <3>4. ASSUME NEW r \in Routes, bindings'[r] # None, registry'[bindings'[r]] = "none"
          PROVE  \E d \in Commands : Deleting(r, d)'
      <4>1. PICK d \in Commands : Deleting(r, d)
        BY <2>3, <3>1, <3>2, <3>4
      <4>2. d # c \/ pc' = pc
        BY <3>1, <3>3, <4>1
      <4>3. pc'[d] = pc[d] /\ op'[d] = op[d]
        BY <2>1, <3>1, <4>2
      <4>4. bindings'[r] = bindings[r]
        BY <3>2, <3>4
      <4>. QED BY <4>1, <4>3, <4>4
    <3>. QED BY <3>4 DEF Bound
  <2>10. CASE Unbind(c) \/ Bind(c)
    <3>1. /\ pc[c] \in {"unbind", "bind"} /\ op' = op /\ registry' = registry
          /\ pc[c] = "bind" => registry[op[c].project] = "active"
      BY <2>2, <2>10 DEF Unbind, Bind, Knows
    <3>2. \A r \in Routes :
            \/ bindings'[r] \in {bindings[r], None}
            \/ pc[c] = "bind" /\ bindings'[r] = op[c].project
      BY <2>10 DEF Unbind, Bind, Types
    <3>3. ASSUME NEW r \in Routes, bindings'[r] # None, registry'[bindings'[r]] = "none"
          PROVE  \E d \in Commands : Deleting(r, d)'
      <4>1. bindings'[r] = bindings[r]
        BY <3>1, <3>2, <3>3
      <4>2. PICK d \in Commands : Deleting(r, d)
        BY <2>3, <3>1, <3>3, <4>1
      <4>3. pc'[d] = pc[d] /\ op'[d] = op[d]
        BY <2>1, <3>1, <4>2
      <4>. QED BY <4>1, <4>2, <4>3
    <3>. QED BY <3>3 DEF Bound
  <2>. QED BY <1>3, <2>5, <2>6, <2>7, <2>8, <2>9, <2>10 DEF Step
<1>4. CASE LoseWorkspace \/ TimePasses
  BY <1>1, <1>4 DEF LoseWorkspace, TimePasses, files, histories, boundVars
<1>5. CASE Stop
  BY <1>5 DEF Stop, Types
<1>. QED BY <1>2, <1>3, <1>4, <1>5 DEF Next

-----------------------------------------------------------------------------
LEMMA ProjectInvKept == ProjectInv /\ [Next]_vars => ProjectInv'
<1>. SUFFICES ASSUME ProjectInv, [Next]_vars PROVE ProjectInv'
  OBVIOUS
<1>1. CASE Next
  <2>1. Types' /\ Settled' /\ Stages' /\ Marked'
    BY <1>1, NextTypes, SettledKept, StagesKept, MarkedKept DEF ProjectInv
  <2>. QED BY <1>1, <2>1, AloneKept, BoundKept DEF ProjectInv
<1>2. CASE UNCHANGED vars
  <2>1. /\ Types' = Types /\ Settled' = Settled /\ Stages' = Stages /\ Marked' = Marked /\ Bound' = Bound
    BY <1>2 DEF vars, files, histories, boundVars, Types, Settled, Stages, Marked, Running, Bound
  <2>2. Alone'
    BY <1>2 DEF vars, files, histories, boundVars, Alone, Knows, Ensured, ProjectInv
  <2>. QED BY <2>1, <2>2 DEF ProjectInv
<1>. QED BY <1>1, <1>2

LEMMA ProjectInvHolds == Spec => []ProjectInv
  BY InitProjectInv, ProjectInvKept, PTL DEF Spec

\* The files and the commands' state have their types, whatever is sent, fails
\* or stops.
THEOREM ProjectTypes == Spec => []ProjectTypeOK
<1>1. ProjectInv => ProjectTypeOK
  BY DEF ProjectInv, Types, ProjectTypeOK, Operation
<1>. QED BY <1>1, ProjectInvHolds, PTL

\* A proposal is marked accepted only after its switch was made, whatever
\* other command, failure or stop comes between the binding and the mark.
THEOREM AcceptedWasCarriedOut == Spec => []AcceptedWasApplied
<1>1. ProjectInv => AcceptedWasApplied
  BY DEF ProjectInv, Settled, AcceptedWasApplied
<1>. QED BY <1>1, ProjectInvHolds, PTL

\* Commands that come one at a time, with nothing failing, never leave a
\* binding to a project that is not registered.
THEOREM BindingsAreKnown == Spec => []BindingsKnown
<1>1. ProjectInv => BindingsKnown
  BY DEF ProjectInv, Bound, BindingsKnown
<1>. QED BY <1>1, ProjectInvHolds, PTL

\* A forced deletion that no other command overlapped has deleted the project
\* and every binding of it when it answers.
THEOREM DeletionIsComplete == Spec => DeleteIsComplete
<1>. DEFINE Complete == \A c \in Commands :
        pc[c] # "done" /\ pc'[c] = "done" /\ op[c].kind = "purge" /\ c \notin overlapped
            => /\ registry'[op[c].project] = "none"
               /\ \A r \in Routes : bindings'[r] # op[c].project
<1>1. ASSUME ProjectInv, Next, NEW c \in Commands,
             pc[c] # "done", pc'[c] = "done", op[c].kind = "purge", c \notin overlapped
      PROVE  /\ registry'[op[c].project] = "none"
             /\ \A r \in Routes : bindings'[r] # op[c].project
  <2>. USE DEF ProjectInv
  <2>1. Step(c)
    <3>1. \A d \in Commands : Arrive(d) => pc'[d] # "done" /\ (d # c => pc'[c] = pc[c])
      BY <1>1, Arrival DEF Types
    <3>2. \A d \in Commands \ {c} : Step(d) => pc'[c] = pc[c]
      BY <1>1, StepFrame
    <3>. QED BY <1>1, <3>1, <3>2 DEF Next, LoseWorkspace, TimePasses, Stop
  <2>2. op[c].kind \in KindsAt(pc[c]) /\ Knows(c, pc[c])
    BY <1>1 DEF Stages, Alone
  <2>3. Purge(c) /\ todo[c] = {}
    <3>1. ~MakeWorkspace(c) /\ ~Load(c) /\ ~Ensure(c) /\ ~SaveEnsured(c)
      BY <1>1 DEF MakeWorkspace, Load, Ensure, SaveEnsured, SaveRegistry, Goto, End, Types
    <3>2. ~Check(c) /\ ~InUse(c) /\ ~Commit(c) /\ ~ListBound(c)
      BY <1>1 DEF Check, CheckCreate, CheckRepair, CheckDelete, CheckUse, CheckPropose, CheckRead, Refuse, Change,
                  InUse, Commit, ListBound, Goto, End, Types
    <3>3. ~Unbind(c) /\ ~Bind(c) /\ ~Lookup(c) /\ ~Propose(c) /\ ~Get(c) /\ ~Expire(c) /\ ~Accept(c)
      BY <1>1, <2>2, KindsTable DEF Unbind, Bind, Lookup, Propose, Get, Expire, Accept
    <3>4. Purge(c)
      BY <2>1, <3>1, <3>2, <3>3 DEF Step
    <3>. QED BY <1>1, <3>4 DEF Purge, End, Goto, Types
  <2>4. bindings' = bindings /\ registry' = registry /\ registry[op[c].project] = "none"
    BY <1>1, <2>2, <2>3 DEF Purge, Knows
  <2>5. \A r \in Routes : bindings[r] # op[c].project
    BY <2>2, <2>3 DEF Purge, Knows
  <2>. QED BY <2>4, <2>5
<1>2. ProjectInv /\ [Next]_vars => [Complete]_vars
  BY <1>1
<1>. QED BY <1>2, ProjectInvHolds, PTL DEF Spec, DeleteIsComplete

\* Only the two saves change the registry file, and a save of a command that no
\* other overlapped changes its own project, adds the default or marks a loss.
THEOREM LoneSavesAreLocal == Spec => LoneSaveIsLocal
<1>. DEFINE Kept(c, p) ==
        \/ registry'[p] = registry[p]
        \/ p = op[c].project /\ pc[c] = "commit"
        \/ p = Default /\ registry[p] = "none"
        \/ registry[p] = "active" /\ registry'[p] = "broken"
<1>. DEFINE Local == registry' # registry =>
        \E c \in Commands : /\ pc[c] \in {"save", "commit"}
                            /\ c \notin overlapped => \A p \in Ids : Kept(c, p)
<1>1. ASSUME ProjectInv, Next, registry' # registry PROVE Local
  <2>1. PICK c \in Commands : SaveEnsured(c) \/ Commit(c)
    BY <1>1 DEF Next, Step, Arrive, MakeWorkspace, Load, Ensure, Check, InUse, ListBound, Purge, Unbind, Bind,
                Lookup, Propose, Get, Expire, Accept, LoseWorkspace, TimePasses, Stop, files
  <2>2. registry' = copy[c] /\ pc[c] \in {"save", "commit"}
    BY <1>1, <2>1 DEF SaveEnsured, SaveRegistry, Commit
  <2>3. ASSUME c \notin overlapped, NEW p \in Ids PROVE Kept(c, p)
    <3>1. Knows(c, pc[c])
      BY <1>1, <2>3 DEF ProjectInv, Alone
    <3>2. CASE pc[c] = "save"
      <4>1. PICK present \in SUBSET Ids : copy[c] = Ensured(registry, present)
        BY <3>1, <3>2 DEF Knows
      <4>2. registry[p] \in {"none", "active", "broken"}
        BY <1>1 DEF ProjectInv, Types, Registry
      <4>. QED BY <2>2, <4>1, <4>2 DEF Ensured
    <3>3. CASE pc[c] = "commit"
      <4>1. p # op[c].project => copy[c][p] = registry[p]
        BY <3>1, <3>3 DEF Knows
      <4>. QED BY <2>2, <3>3, <4>1
    <3>. QED BY <2>2, <3>2, <3>3
  <2>. QED BY <2>2, <2>3
<1>2. ProjectInv /\ [Next]_vars => [Local]_vars
  BY <1>1
<1>. QED BY <1>2, ProjectInvHolds, PTL DEF Spec, LoneSaveIsLocal
=============================================================================
