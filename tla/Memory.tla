------------------------------- MODULE Memory -------------------------------
(***************************************************************************)
(* The memory of one project: daily notes of each agent and of the         *)
(* project, the long-term MEMORY.md, /memory note and digest commands, the *)
(* template that seeds MEMORY.md, and the messages whose first execution   *)
(* loads what their chat may see.  MEMORY.md is read and written without a *)
(* lock; the digest jobs are the only guard between two digests, and their *)
(* store locks one read or one write.                                      *)
(***************************************************************************)
EXTENDS Naturals, Sequences, FiniteSets, FiniteSetsExt

CONSTANTS
    Commands,     \* /memory and /project commands; also names what they write
    Messages,     \* messages that are executed
    Agents,
    Chats,        \* where requests come from: [instance, direct, user]
    Owners,       \* memory.owner_allowlist
    Budget,       \* the token budget of a load
    Seed,         \* the text of the template
    None,         \* no user
    MaxFaults, MaxStops   \* bounds: failing file operations, stops of ClawX

ASSUME MemoryConstants ==
    /\ None \notin Owners /\ "channel" \notin Owners /\ "direct" \notin Owners
    /\ Seed \notin Commands /\ Commands \cap Messages = {}
    /\ Agents # {} /\ Chats # {} /\ "shared" \notin Agents
    /\ Budget \in Nat \ {0} /\ MaxFaults \in Nat /\ MaxStops \in Nat

VARIABLES
    daily,        \* today's notes of each agent, and of the project ("shared")
    memory,       \* MEMORY.md: <<whose section, text>>, of its seed and its digests
    present,      \* MEMORY.md is there
    jobs,         \* the digest job of each request
    op, pc,       \* the request and its next step
    copied,       \* the notes that a digest has read
    previous,     \* MEMORY.md as a digest has read it
    loaded,       \* what a message has loaded: <<layer, text>>
    raced,        \* history: two writers looked before either had recorded itself
    damaged,      \* history: MEMORY.md was not read, or not written, as a whole
    faults, stops

files == <<daily, memory, present, jobs>>
histories == <<raced, damaged>>
boundVars == <<faults, stops>>
vars == <<files, op, pc, copied, previous, loaded, histories, boundVars>>

Requests == Commands \cup Messages
Kinds == {"note", "shared", "digest", "template", "message"}
Layers == {"agent", "project", "main"}
SeedText == <<Seed, Seed>>
Entries == (Commands \X Commands) \cup {SeedText}
AnyAgent == CHOOSE a \in Agents : TRUE   \* of a request whose agent, or chat,
AnyChat == CHOOSE c \in Chats : TRUE     \* the code does not ask for
DigestStatus == {"none", "pending", "running", "completed", "failed", "rejected_acl"}

Init ==
    /\ daily = [a \in Agents \cup {"shared"} |-> {}]
    /\ \/ present = TRUE /\ memory = {SeedText}
       \/ present = FALSE /\ memory = {}
    /\ jobs = [r \in Requests |-> "none"]
    /\ op = [r \in Requests |-> [kind |-> "message", agent |-> AnyAgent, chat |-> AnyChat]]
    /\ pc = [r \in Requests |-> "new"]
    /\ copied = [r \in Requests |-> {}]
    /\ previous = [r \in Requests |-> {}]
    /\ loaded = [r \in Requests |-> {}]
    /\ raced = FALSE /\ damaged = FALSE
    /\ faults = 0 /\ stops = 0

Goto(r, next) == pc' = [pc EXCEPT ![r] = next]
Fault == faults < MaxFaults /\ faults' = faults + 1 /\ UNCHANGED stops
Running(r) == pc[r] \notin {"new", "done", "refused", "failed", "lost"}

-----------------------------------------------------------------------------
(* Who may see and change MEMORY.md.                                       *)

\* The parts of a route key; a group chat is named by one group.
RouteKey(chat) ==
    <<"telegram", chat.instance>> \o
    (IF chat.direct THEN <<"direct", chat.user>> ELSE <<"channel", "group">>)

\* The peer after the first part that says direct.
Marks(route) == {i \in 1..(Len(route) - 1) : route[i] = "direct"}
RoutePeer(route) == IF Marks(route) = {} THEN None ELSE route[Min(Marks(route)) + 1]

\* Fault: a user that is not the peer of the route is no conflict.
AllowUnmatched(route, user, isDirect) ==
    LET peer == RoutePeer(route)
    IN  /\ isDirect \/ peer # None
        /\ (IF user # None THEN user ELSE peer) \in Owners

AllowMainPrivate(route, user, isDirect) ==
    LET peer == RoutePeer(route)
    IN  /\ isDirect \/ peer # None
        /\ user = None \/ peer = None \/ user = peer
        /\ (IF user # None THEN user ELSE peer) \in Owners

\* A message brings its user; a command is classified by its route key alone.
MessageAllowed(chat) == AllowMainPrivate(RouteKey(chat), chat.user, chat.direct)
CommandAllowed(chat) == AllowMainPrivate(RouteKey(chat), None, FALSE)

-----------------------------------------------------------------------------
(* Requests arrive.                                                        *)

FirstStep == [k \in Kinds |->
    CASE k \in {"note", "shared"} -> "append"
      [] k = "digest" -> "check"
      [] k = "template" -> "look"
      [] OTHER -> "agent"]

Arrive(r) ==
    /\ pc[r] = "new"
    /\ \E k \in IF r \in Messages THEN {"message"} ELSE Kinds \ {"message"} :
       \E a \in IF k \in {"note", "digest", "message"} THEN Agents ELSE {AnyAgent},
          c \in IF k # "template" THEN Chats ELSE {AnyChat} :
        /\ op' = [op EXCEPT ![r] = [kind |-> k, agent |-> a, chat |-> c]]
        /\ Goto(r, FirstStep[k])
    /\ UNCHANGED <<files, copied, previous, loaded, histories, boundVars>>

\* One append to a daily file; a shared note is for owners only, and a note for
\* the agent comes from anybody.
Note(r) ==
    /\ pc[r] = "append"
    /\ LET target == IF op[r].kind = "shared" THEN "shared" ELSE op[r].agent
       IN  \/ /\ op[r].kind = "shared" => CommandAllowed(op[r].chat)
              /\ daily' = [daily EXCEPT ![target] = @ \cup {r}]
              /\ Goto(r, "done")
              /\ UNCHANGED boundVars
           \/ /\ op[r].kind = "shared" /\ ~CommandAllowed(op[r].chat)
              /\ Goto(r, "refused")
              /\ UNCHANGED <<daily, boundVars>>
           \/ Fault /\ Goto(r, "failed") /\ UNCHANGED daily
    /\ UNCHANGED <<memory, present, jobs, op, copied, previous, loaded, histories>>

-----------------------------------------------------------------------------
(* Digests.                                                                *)

\* Writers that have looked and that the others cannot see yet.
Unseen(q) == \/ op[q].kind = "digest" /\ pc[q] = "pending"
             \/ op[q].kind = "template" /\ pc[q] = "seed"
Digesting(q) == op[q].kind = "digest" /\ Running(q)

\* Fault: a digest does not look at the jobs.
CheckNothing(r) ==
    /\ pc[r] = "check"
    /\ Goto(r, "pending")
    /\ raced' = (raced \/ \E q \in Requests : Unseen(q))
    /\ UNCHANGED <<files, op, copied, previous, loaded, damaged, boundVars>>

Busy == \E q \in Requests : jobs[q] \in {"pending", "running"}

Check(r) ==
    /\ pc[r] = "check"
    /\ Goto(r, IF Busy THEN "refused" ELSE "pending")
    /\ raced' = (raced \/ (~Busy /\ \E q \in Requests : Unseen(q)))
    /\ UNCHANGED <<files, op, copied, previous, loaded, damaged, boundVars>>

\* The job is written twice; a failing write ends the command.
Upsert(r, status, next) ==
    \/ jobs' = [jobs EXCEPT ![r] = status] /\ Goto(r, next) /\ UNCHANGED boundVars
    \/ Fault /\ Goto(r, "failed") /\ UNCHANGED jobs

Record(r) ==
    /\ \/ pc[r] = "pending" /\ Upsert(r, "pending", "running")
       \/ pc[r] = "running" /\ Upsert(r, "running", "acl")
    /\ UNCHANGED <<daily, memory, present, op, copied, previous, loaded, histories>>

\* The end of a job that was refused or has failed; a failing write is ignored.
Settle(r, status, next) ==
    /\ \/ jobs' = [jobs EXCEPT ![r] = status] /\ UNCHANGED boundVars
       \/ Fault /\ UNCHANGED jobs
    /\ Goto(r, next)

\* Fault: any chat may digest.
AclOpen(r) ==
    /\ pc[r] = "acl"
    /\ Goto(r, "readAgent")
    /\ UNCHANGED <<files, op, copied, previous, loaded, histories, boundVars>>

\* Fault: a refused digest gets a status that no digest has.
AclUntyped(r) ==
    /\ pc[r] = "acl"
    /\ \/ CommandAllowed(op[r].chat) /\ Goto(r, "readAgent") /\ UNCHANGED <<jobs, boundVars>>
       \/ ~CommandAllowed(op[r].chat) /\ Settle(r, "refused", "refused")
    /\ UNCHANGED <<daily, memory, present, op, copied, previous, loaded, histories>>

\* Fault: a refused digest leaves its job running.
AclUnsettled(r) ==
    /\ pc[r] = "acl"
    /\ Goto(r, IF CommandAllowed(op[r].chat) THEN "readAgent" ELSE "refused")
    /\ UNCHANGED <<files, op, copied, previous, loaded, histories, boundVars>>

Acl(r) ==
    /\ pc[r] = "acl"
    /\ \/ CommandAllowed(op[r].chat) /\ Goto(r, "readAgent") /\ UNCHANGED <<jobs, boundVars>>
       \/ ~CommandAllowed(op[r].chat) /\ Settle(r, "rejected_acl", "refused")
    /\ UNCHANGED <<daily, memory, present, op, copied, previous, loaded, histories>>

\* The first 1200 characters of a file: of its notes some, if there are any.
Excerpts(notes) == {part \in SUBSET notes : part = {} => notes = {}}

\* writeDigestSummary reads the notes of its agent, those of the project and
\* MEMORY.md.  A file that cannot be read is taken for an empty one.
ReadNotes(r) ==
    /\ pc[r] \in {"readAgent", "readShared"}
    /\ Goto(r, IF pc[r] = "readAgent" THEN "readShared" ELSE "read")
    /\ \/ /\ \E part \in Excerpts(daily[IF pc[r] = "readAgent" THEN op[r].agent ELSE "shared"]) :
               copied' = [copied EXCEPT ![r] = @ \cup part]
          /\ UNCHANGED boundVars
       \/ Fault /\ UNCHANGED copied
    /\ UNCHANGED <<files, op, previous, loaded, histories>>

Read(r) ==
    /\ pc[r] = "read"
    /\ Goto(r, "truncate")
    /\ \/ previous' = [previous EXCEPT ![r] = memory] /\ UNCHANGED <<damaged, boundVars>>
       \/ Fault /\ previous' = [previous EXCEPT ![r] = {}] /\ damaged' = TRUE
    /\ UNCHANGED <<files, op, copied, loaded, raced>>

\* os.WriteFile empties the file and writes it.
Truncate(r) ==
    /\ pc[r] = "truncate"
    /\ \/ /\ memory' = {} /\ present' = TRUE
          /\ Goto(r, "write")
          /\ UNCHANGED <<jobs, boundVars>>
       \/ Fault /\ jobs' = [jobs EXCEPT ![r] = "failed"] /\ Goto(r, "failed") /\ UNCHANGED <<memory, present>>
    /\ UNCHANGED <<daily, op, copied, previous, loaded, histories>>

\* The section of a digest: its heading and the notes below it.
Section(d) == {d} \X (copied[d] \cup {d})

Write(r) ==
    /\ pc[r] = "write"
    /\ \/ /\ memory' = previous[r] \cup Section(r)
          /\ Goto(r, "complete")
          /\ UNCHANGED <<jobs, damaged, boundVars>>
       \/ /\ Fault
          /\ memory' \in SUBSET (previous[r] \cup Section(r))
          /\ damaged' = TRUE
          /\ jobs' = [jobs EXCEPT ![r] = "failed"]
          /\ Goto(r, "failed")
    /\ UNCHANGED <<daily, present, op, copied, previous, loaded, raced>>

Complete(r) ==
    /\ pc[r] = "complete"
    /\ Upsert(r, "completed", "done")
    /\ UNCHANGED <<daily, memory, present, op, copied, previous, loaded, histories>>

DigestStep(r) ==
    Check(r) \/ Record(r) \/ Acl(r) \/ ReadNotes(r) \/ Read(r) \/ Truncate(r) \/ Write(r) \/ Complete(r)

-----------------------------------------------------------------------------
(* EnsureProjectTemplate: MEMORY.md is seeded if it is not there.          *)

Look(r) ==
    /\ pc[r] = "look"
    /\ Goto(r, IF present THEN "done" ELSE "seed")
    /\ raced' = (raced \/ (~present /\ \E q \in Requests : Unseen(q) \/ Digesting(q)))
    /\ UNCHANGED <<files, op, copied, previous, loaded, damaged, boundVars>>

SeedMemory(r) ==
    /\ pc[r] = "seed"
    /\ \/ present' = TRUE /\ memory' = {SeedText} /\ Goto(r, "done") /\ UNCHANGED boundVars
       \/ Fault /\ Goto(r, "failed") /\ UNCHANGED <<memory, present>>
    /\ UNCHANGED <<daily, jobs, op, copied, previous, loaded, histories>>

-----------------------------------------------------------------------------
(* A message's first execution: the files that are there, then each of     *)
(* them in order, as long as the chat may see it and the budget lasts.     *)

Body(r, layer) == {layer} \X
    (CASE layer = "agent" -> daily[op[r].agent]
       [] layer = "project" -> daily["shared"]
       [] OTHER -> memory)

After == [layer \in Layers |->
    CASE layer = "agent" -> "project" [] layer = "project" -> "main" [] OTHER -> "done"]

\* What cannot be read is left out.
LoadItem(r) ==
    /\ pc[r] \in Layers
    /\ Goto(r, After[pc[r]])
    /\ LET body == Body(r, pc[r])
           fits == Cardinality(loaded[r]) + Cardinality(body) <= Budget
           allowed == pc[r] = "main" => MessageAllowed(op[r].chat)
       IN  \/ /\ loaded' = [loaded EXCEPT ![r] = IF fits /\ allowed THEN @ \cup body ELSE @]
              /\ UNCHANGED boundVars
           \/ Fault /\ allowed /\ UNCHANGED loaded
    /\ UNCHANGED <<files, op, copied, previous, histories>>

Step(r) == Note(r) \/ DigestStep(r) \/ Look(r) \/ SeedMemory(r) \/ LoadItem(r)

\* ClawX stops and starts again: files stay as they are, job records too.
Stop ==
    /\ stops < MaxStops
    /\ stops' = stops + 1
    /\ \E r \in Requests : Running(r)
    /\ pc' = [r \in Requests |-> IF Running(r) THEN "lost" ELSE pc[r]]
    /\ damaged' = (damaged \/ \E r \in Requests : pc[r] = "write")
    /\ UNCHANGED <<files, op, copied, previous, loaded, raced, faults>>

Next == (\E r \in Requests : Arrive(r) \/ Step(r)) \/ Stop

Spec == Init /\ [][Next]_vars

-----------------------------------------------------------------------------
(* Properties.                                                             *)

\* The types of the files and of the requests' state.
MemoryTypeOK ==
    /\ daily \in [Agents \cup {"shared"} -> SUBSET Commands]
    /\ memory \subseteq Entries /\ present \in BOOLEAN
    /\ jobs \in [Requests -> DigestStatus]
    /\ \A r \in Requests : /\ op[r] \in [kind : Kinds, agent : Agents, chat : Chats]
                           /\ copied[r] \subseteq Commands
                           /\ previous[r] \subseteq Entries
                           /\ loaded[r] \subseteq Layers \X (Commands \cup Entries)
    /\ raced \in BOOLEAN /\ damaged \in BOOLEAN

\* Who may see and change MEMORY.md.
OwnersChat(chat) == chat.direct /\ chat.user \in Owners
IsNoteOf(x, a) == op[x].kind = "note" /\ op[x].agent = a
IsShared(x) == op[x].kind = "shared" /\ OwnersChat(op[x].chat)

\* What a message loads as the notes of its agent are notes of that agent, from
\* whatever chat; as the project's, shared notes of owners.  It loads MEMORY.md,
\* in which there may be notes of other agents, in an owner's direct chat only,
\* whatever the instance of the channel is called; and no more than its budget.
LoadedIsAllowed ==
    \A r \in Requests :
        /\ Cardinality(loaded[r]) <= Budget
        /\ \A item \in loaded[r] :
            /\ item[1] = "agent" => IsNoteOf(item[2], op[r].agent)
            /\ item[1] = "project" => IsShared(item[2])
            /\ item[1] = "main" => OwnersChat(op[r].chat)

\* What is in MEMORY.md beside its seed was brought there by digests from owners'
\* direct chats: their headings, notes of the agent each digest was for, which
\* anybody may have written, and shared notes, which owners have.
DigestsAreOwners ==
    \A entry \in memory \ {SeedText} :
        LET d == entry[1]
            x == entry[2]
        IN  /\ op[d].kind = "digest" /\ OwnersChat(op[d].chat)
            /\ x = d \/ IsNoteOf(x, op[d].agent) \/ IsShared(x)

\* A completed digest stays in MEMORY.md with the notes it copied, unless two
\* writers looked before either was to be seen, or MEMORY.md could not be read
\* or written.
DigestsAreKept ==
    ~raced /\ ~damaged => \A d \in Requests : jobs[d] = "completed" =>
        \/ Section(d) \subseteq memory
        \/ \E r \in Requests : pc[r] = "write" /\ Section(d) \subseteq previous[r]

\* A job that says pending or running belongs to a digest at work, unless a
\* file operation failed or ClawX stopped: it refuses every other digest.
JobsAreAlive ==
    \A d \in Requests : jobs[d] \in {"pending", "running"} => Running(d) \/ faults > 0 \/ stops > 0
=============================================================================
