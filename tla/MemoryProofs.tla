---------------------------- MODULE MemoryProofs ----------------------------
(***************************************************************************)
(* Theorems about Memory, for every set of commands, messages, agents,     *)
(* chats and owners and any number of failures and stops: its types, what  *)
(* a message loads, whose digests and notes are in MEMORY.md, that only a  *)
(* digest at work holds the others up, and that completed ones are kept.   *)
(***************************************************************************)
EXTENDS Memory, FiniteSetTheorems, TLAPS

\* The route key of a direct chat and of a group, part by part.
LEMMA RouteParts ==
  ASSUME NEW chat
  PROVE  RouteKey(chat) = IF chat.direct THEN <<"telegram", chat.instance, "direct", chat.user>>
                          ELSE <<"telegram", chat.instance, "channel", "group">>
  BY DEF RouteKey

\* The peer of a route is the user of a direct chat, or a word that is no owner.
LEMMA PeerOfRoute ==
  ASSUME NEW chat
  PROVE  RoutePeer(RouteKey(chat)) \in IF chat.direct THEN {"direct", chat.user} ELSE {"channel", None}
<1>. DEFINE route == RouteKey(chat)
<1>1. Len(route) = 4
  BY RouteParts
<1>2. route[1] = "telegram" /\ route[2] = chat.instance
  BY RouteParts
<1>3. Marks(route) = {i \in {1, 2, 3} : route[i] = "direct"}
  BY <1>1 DEF Marks
<1>4. CASE chat.direct
  <2>1. route[3] = "direct" /\ route[4] = chat.user
    BY <1>4, RouteParts
  <2>2. CASE chat.instance = "direct"
    <3>1. Marks(route) = {2, 3}
      BY <1>2, <1>3, <2>1, <2>2
    <3>2. Min(Marks(route)) = 2
      BY <3>1 DEF Min
    <3>. QED BY <1>4, <2>1, <3>1, <3>2 DEF RoutePeer
  <2>3. CASE chat.instance # "direct"
    <3>1. Marks(route) = {3}
      BY <1>2, <1>3, <2>1, <2>3
    <3>2. Min(Marks(route)) = 3
      BY <3>1 DEF Min
    <3>. QED BY <1>4, <2>1, <3>1, <3>2 DEF RoutePeer
  <2>. QED BY <2>2, <2>3
<1>5. CASE ~chat.direct
  <2>1. route[3] = "channel"
    BY <1>5, RouteParts
  <2>2. CASE chat.instance = "direct"
    <3>1. Marks(route) = {2}
      BY <1>2, <1>3, <2>1, <2>2
    <3>2. Min(Marks(route)) = 2
      BY <3>1 DEF Min
    <3>. QED BY <1>5, <2>1, <3>1, <3>2 DEF RoutePeer
  <2>3. CASE chat.instance # "direct"
    <3>1. Marks(route) = {}
      BY <1>2, <1>3, <2>1, <2>3
    <3>. QED BY <1>5, <3>1 DEF RoutePeer
  <2>. QED BY <2>2, <2>3
<1>. QED BY <1>4, <1>5

\* What is allowed to a message or a command is allowed to an owner.
LEMMA AllowedIsOwners ==
  ASSUME NEW chat, MessageAllowed(chat) \/ CommandAllowed(chat)
  PROVE  OwnersChat(chat)
<1>. DEFINE peer == RoutePeer(RouteKey(chat))
<1>1. peer \in IF chat.direct THEN {"direct", chat.user} ELSE {"channel", None}
  BY PeerOfRoute
<1>2. None \notin Owners /\ "channel" \notin Owners /\ "direct" \notin Owners
  BY MemoryConstants
<1>3. CASE CommandAllowed(chat)
  <2>1. peer # None /\ peer \in Owners
    BY <1>3 DEF CommandAllowed, AllowMainPrivate
  <2>. QED BY <1>1, <1>2, <2>1 DEF OwnersChat
<1>4. CASE MessageAllowed(chat)
  <2>1. /\ chat.direct \/ peer # None
        /\ chat.user = None \/ peer = None \/ chat.user = peer
        /\ (IF chat.user # None THEN chat.user ELSE peer) \in Owners
    BY <1>4 DEF MessageAllowed, AllowMainPrivate
  <2>. QED BY <1>1, <1>2, <2>1 DEF OwnersChat
<1>. QED BY <1>3, <1>4

-----------------------------------------------------------------------------
(* The inductive invariant.                                                *)

Steps == {"new", "append", "check", "pending", "running", "acl", "readAgent", "readShared",
          "read", "truncate", "write", "complete", "look", "seed", "agent", "project", "main", "done", "refused", "failed", "lost"}
Operations == [kind : Kinds, agent : Agents, chat : Chats]
Items == Layers \X (Commands \cup Entries)
Reading == {"readAgent", "readShared", "read", "truncate", "write"}

\* The types, with those of what the requests hold.
Types ==
    /\ daily \in [Agents \cup {"shared"} -> SUBSET Commands]
    /\ memory \subseteq Entries /\ present \in BOOLEAN
    /\ jobs \in [Requests -> DigestStatus]
    /\ op \in [Requests -> Operations]
    /\ pc \in [Requests -> Steps]
    /\ copied \in [Requests -> SUBSET Commands]
    /\ previous \in [Requests -> SUBSET Entries]
    /\ loaded \in [Requests -> SUBSET Items]
    /\ raced \in BOOLEAN /\ damaged \in BOOLEAN
    /\ faults \in Nat /\ stops \in Nat

\* Only commands write; a digest that has passed the check is an owner's.
Stages ==
    \A r \in Requests :
        /\ pc[r] \in {"append", "check", "pending", "running", "acl", "complete"} \cup Reading => r \in Commands
        /\ pc[r] = "append" => op[r].kind \in {"note", "shared"}
        /\ pc[r] \in {"check", "pending", "running", "acl", "complete"} \cup Reading => op[r].kind = "digest"
        /\ pc[r] \in Reading => OwnersChat(op[r].chat)

\* A job that is open belongs to a digest between its record and its end.
JobsAtWork ==
    \A d \in Requests : jobs[d] \in {"pending", "running"} =>
        \/ pc[d] \in {"running", "acl", "complete"} \cup Reading
        \/ faults > 0 \/ stops > 0

\* Where a text comes from: a request that has begun.  Notes have the layer in
\* which they may be loaded, entries of MEMORY.md the digest that brought them.
NoteFor(x, a) == x \in Commands /\ pc[x] # "new" /\ IsNoteOf(x, a)
SharedNote(x) == x \in Commands /\ pc[x] # "new" /\ IsShared(x)
OwnersDigest(d) == d \in Commands /\ pc[d] # "new" /\ op[d].kind = "digest" /\ OwnersChat(op[d].chat)
Brought(d, x) == OwnersDigest(d) /\ (x = d \/ NoteFor(x, op[d].agent) \/ SharedNote(x))
Owned(entry) == entry = SeedText \/ Brought(entry[1], entry[2])
MayLoad(r, item) ==
    /\ pc[r] # "new"
    /\ item[1] = "agent" => NoteFor(item[2], op[r].agent)
    /\ item[1] = "project" => SharedNote(item[2])
    /\ item[1] = "main" => OwnersChat(op[r].chat)

Origins ==
    /\ \A a \in Agents : \A x \in daily[a] : NoteFor(x, a)
    /\ \A x \in daily["shared"] : SharedNote(x)
    /\ \A r \in Requests : \A x \in copied[r] : Brought(r, x)
    /\ \A entry \in memory : Owned(entry)
    /\ \A r \in Requests : \A entry \in previous[r] : Owned(entry)
    /\ \A r \in Requests : \A item \in loaded[r] : MayLoad(r, item)

\* All texts are finite, and what is loaded stays within the budget.
Budgeted ==
    /\ \A t \in Agents \cup {"shared"} : IsFiniteSet(daily[t])
    /\ IsFiniteSet(memory)
    /\ \A r \in Requests : /\ IsFiniteSet(copied[r]) /\ IsFiniteSet(previous[r]) /\ IsFiniteSet(loaded[r])
                           /\ Cardinality(loaded[r]) <= Budget

MemoryInv == Types /\ Stages /\ JobsAtWork /\ Origins /\ Budgeted

LEMMA InitMemoryInv == Init => MemoryInv
<1>. SUFFICES ASSUME Init PROVE MemoryInv
  OBVIOUS
<1>1. AnyAgent \in Agents /\ AnyChat \in Chats
  BY MemoryConstants DEF AnyAgent, AnyChat
<1>2. [kind |-> "message", agent |-> AnyAgent, chat |-> AnyChat] \in Operations
  BY <1>1 DEF Operations, Kinds
<1>3. op \in [Requests -> Operations]
  BY <1>2 DEF Init
<1>4. Types
  <2>1. daily \in [Agents \cup {"shared"} -> SUBSET Commands]
    BY DEF Init
  <2>2. memory \subseteq Entries /\ present \in BOOLEAN
    BY DEF Init, Entries
  <2>3. /\ copied \in [Requests -> SUBSET Commands]
        /\ previous \in [Requests -> SUBSET Entries]
        /\ loaded \in [Requests -> SUBSET Items]
    BY DEF Init
  <2>4. jobs \in [Requests -> DigestStatus] /\ pc \in [Requests -> Steps]
    BY DEF Init, DigestStatus, Steps
  <2>5. raced \in BOOLEAN /\ damaged \in BOOLEAN /\ faults \in Nat /\ stops \in Nat
    BY DEF Init
  <2>. QED BY <1>3, <2>1, <2>2, <2>3, <2>4, <2>5 DEF Types
<1>5. Stages /\ JobsAtWork /\ Origins
  BY DEF Init, Stages, Reading, JobsAtWork, Origins, Owned
<1>6. Budgeted
  <2>1. IsFiniteSet({}) /\ Cardinality({}) = 0 /\ IsFiniteSet({SeedText})
    BY FS_EmptySet, FS_Singleton
  <2>2. /\ \A t \in Agents \cup {"shared"} : daily[t] = {}
        /\ memory = {SeedText} \/ memory = {}
        /\ \A r \in Requests : copied[r] = {} /\ previous[r] = {} /\ loaded[r] = {}
    BY DEF Init
  <2>3. 0 <= Budget
    BY MemoryConstants
  <2>. QED BY <2>1, <2>2, <2>3 DEF Budgeted
<1>. QED BY <1>4, <1>5, <1>6 DEF MemoryInv

\* An arriving request has a kind that fits it, and begins with its first step.
LEMMA Arrival ==
  ASSUME Types, NEW r \in Requests, Arrive(r)
  PROVE  \E o \in Operations :
            /\ op' = [op EXCEPT ![r] = o] /\ pc' = [pc EXCEPT ![r] = FirstStep[o.kind]]
            /\ pc[r] = "new"
            /\ r \notin Messages => o.kind # "message"
            /\ r \in Messages => o.kind = "message"
            /\ FirstStep[o.kind] \in {"append", "check", "look", "agent"}
            /\ FirstStep[o.kind] = "append" => o.kind \in {"note", "shared"}
            /\ FirstStep[o.kind] = "agent" <=> o.kind = "message"
            /\ FirstStep[o.kind] = "check" <=> o.kind = "digest"
<1>1. AnyAgent \in Agents /\ AnyChat \in Chats
  BY MemoryConstants DEF AnyAgent, AnyChat
<1>2. PICK k \in IF r \in Messages THEN {"message"} ELSE Kinds \ {"message"} :
        \E a \in IF k \in {"note", "digest", "message"} THEN Agents ELSE {AnyAgent},
           c \in IF k # "template" THEN Chats ELSE {AnyChat} :
          /\ op' = [op EXCEPT ![r] = [kind |-> k, agent |-> a, chat |-> c]]
          /\ Goto(r, FirstStep[k])
  BY DEF Arrive
<1>3. PICK a \in Agents, c \in Chats :
          /\ op' = [op EXCEPT ![r] = [kind |-> k, agent |-> a, chat |-> c]]
          /\ Goto(r, FirstStep[k])
  BY <1>1, <1>2
<1>. DEFINE o == [kind |-> k, agent |-> a, chat |-> c]
<1>4. k \in Kinds /\ (r \notin Messages => k # "message") /\ (r \in Messages => k = "message")
  BY DEF Kinds
<1>5. o \in Operations /\ o.kind = k
  BY <1>4 DEF Operations
<1>6. /\ FirstStep[k] \in {"append", "check", "look", "agent"}
      /\ FirstStep[k] = "append" => k \in {"note", "shared"}
      /\ FirstStep[k] = "agent" <=> k = "message"
      /\ FirstStep[k] = "check" <=> k = "digest"
  BY <1>4 DEF FirstStep, Kinds
<1>7. pc[r] = "new"
  BY DEF Arrive
<1>. HIDE DEF o
<1>8. op' = [op EXCEPT ![r] = o] /\ pc' = [pc EXCEPT ![r] = FirstStep[o.kind]]
  BY <1>3, <1>5 DEF Goto, o
<1>. QED BY <1>4, <1>5, <1>6, <1>7, <1>8

\* What a request has begun as it remains, and it does not begin again.
LEMMA Begun ==
  ASSUME Types, Next
  PROVE  \A x \in Requests : pc[x] # "new" => pc'[x] # "new" /\ op'[x] = op[x]
<1>1. ASSUME NEW r \in Requests, Arrive(r)
      PROVE  \A x \in Requests : pc[x] # "new" => pc'[x] # "new" /\ op'[x] = op[x]
  BY <1>1, Arrival DEF Types
<1>2. ASSUME NEW r \in Requests, Step(r)
      PROVE  \A x \in Requests : pc[x] # "new" => pc'[x] # "new" /\ op'[x] = op[x]
  <2>1. op' = op
    BY <1>2 DEF Step, Note, DigestStep, Check, Record, Acl, ReadNotes, Read, Truncate, Write, Complete, Look, SeedMemory, LoadItem
  <2>2. \E next \in Steps \ {"new"} : pc' = [pc EXCEPT ![r] = next]
    BY <1>2 DEF Step, Note, DigestStep, Check, Record, Acl, ReadNotes, Read, Truncate, Write, Complete, Look, SeedMemory,
                LoadItem, Goto, Upsert, Settle, Steps, After, Layers
  <2>. QED BY <2>1, <2>2 DEF Types
<1>3. CASE Stop
  BY <1>3 DEF Stop, Types, Running
<1>. QED BY <1>1, <1>2, <1>3 DEF Next

-----------------------------------------------------------------------------
(* Each part of the invariant is kept.                                     *)

LEMMA StepTypes ==
  ASSUME Types, Stages, NEW r \in Requests, Step(r)
  PROVE  Types'
<1>. USE DEF Types, Goto, Fault, files, histories, boundVars
<1>1. CASE Note(r)
  <2>1. CASE UNCHANGED daily
    BY <1>1, <2>1 DEF Note, Steps
  <2>2. CASE daily' # daily
    <3>1. r \in Commands
      BY <1>1 DEF Note, Stages
    <3>2. PICK t \in Agents \cup {"shared"} : daily' = [daily EXCEPT ![t] = @ \cup {r}]
      BY <1>1, <2>2 DEF Note, Operations
    <3>3. daily' \in [Agents \cup {"shared"} -> SUBSET Commands]
      BY <3>1, <3>2
    <3>4. pc' \in [Requests -> Steps] /\ faults' \in Nat
      BY <1>1 DEF Note, Steps
    <3>. QED BY <1>1, <3>3, <3>4 DEF Note
  <2>. QED BY <2>1, <2>2
<1>2. CASE Check(r)
  BY <1>2 DEF Check, Steps
<1>3. CASE Record(r)
  BY <1>3 DEF Record, Upsert, Steps, DigestStatus
<1>4. CASE Acl(r)
  BY <1>4 DEF Acl, Settle, Steps, DigestStatus
<1>a. CASE ReadNotes(r)
  <2>1. PICK t \in Agents \cup {"shared"} :
          \/ \E part \in Excerpts(daily[t]) : copied' = [copied EXCEPT ![r] = @ \cup part]
          \/ UNCHANGED copied
    BY <1>a DEF ReadNotes, Operations
  <2>2. copied' \in [Requests -> SUBSET Commands]
    BY <2>1 DEF Excerpts
  <2>3. pc' \in [Requests -> Steps] /\ faults' \in Nat
    BY <1>a DEF ReadNotes, Steps
  <2>. QED BY <1>a, <2>2, <2>3 DEF ReadNotes
<1>5. CASE Read(r)
  <2>1. PICK S \in SUBSET Entries : previous' = [previous EXCEPT ![r] = S]
    BY <1>5 DEF Read
  <2>2. previous' \in [Requests -> SUBSET Entries]
    BY <2>1
  <2>3. pc' \in [Requests -> Steps] /\ faults' \in Nat
    BY <1>5 DEF Read, Steps
  <2>4. damaged' \in BOOLEAN
    BY <1>5, Zenon DEF Read
  <2>. QED BY <1>5, <2>2, <2>3, <2>4 DEF Read
<1>6. CASE Truncate(r)
  <2>1. pc' \in [Requests -> Steps] /\ jobs' \in [Requests -> DigestStatus] /\ faults' \in Nat
    BY <1>6 DEF Truncate, Steps, DigestStatus
  <2>2. memory' \subseteq Entries /\ present' \in BOOLEAN
    BY <1>6 DEF Truncate
  <2>. QED BY <1>6, <2>1, <2>2 DEF Truncate
<1>7. CASE Write(r)
  <2>1. r \in Commands
    BY <1>7 DEF Write, Stages, Reading
  <2>2. pc' \in [Requests -> Steps] /\ jobs' \in [Requests -> DigestStatus] /\ faults' \in Nat
    BY <1>7 DEF Write, Steps, DigestStatus
  <2>3. memory' \subseteq previous[r] \cup Section(r) /\ damaged' \in BOOLEAN
    BY <1>7 DEF Write
  <2>4. memory' \subseteq Entries
    BY <2>1, <2>3 DEF Section, Entries
  <2>. QED BY <1>7, <2>2, <2>3, <2>4 DEF Write
<1>8. CASE Complete(r)
  BY <1>8 DEF Complete, Upsert, Steps, DigestStatus
<1>9. CASE Look(r)
  BY <1>9 DEF Look, Steps
<1>10. CASE SeedMemory(r)
  <2>1. pc' \in [Requests -> Steps] /\ faults' \in Nat
    BY <1>10 DEF SeedMemory, Steps
  <2>2. memory' \subseteq Entries
    BY <1>10 DEF SeedMemory, Entries
  <2>3. present' \in BOOLEAN
    BY <1>10, Zenon DEF SeedMemory
  <2>. QED BY <1>10, <2>1, <2>2, <2>3 DEF SeedMemory
<1>11. CASE LoadItem(r)
  <2>1. Body(r, pc[r]) \subseteq Items
    BY <1>11 DEF LoadItem, Body, Operations, Items, Layers
  <2>2. PICK S \in SUBSET Items : loaded' = [loaded EXCEPT ![r] = S]
    BY <1>11, <2>1 DEF LoadItem
  <2>3. loaded' \in [Requests -> SUBSET Items]
    BY <2>2
  <2>4. pc' \in [Requests -> Steps] /\ faults' \in Nat
    BY <1>11 DEF LoadItem, Steps, After, Layers
  <2>. QED BY <1>11, <2>3, <2>4 DEF LoadItem
<1>. QED BY <1>1, <1>2, <1>3, <1>4, <1>5, <1>6, <1>7, <1>8, <1>9, <1>10, <1>11, <1>a DEF Step, DigestStep

LEMMA NextTypes ==
  ASSUME Types, Stages, Next
  PROVE  Types'
<1>1. ASSUME NEW r \in Requests, Arrive(r) PROVE Types'
  <2>1. op' \in [Requests -> Operations] /\ pc' \in [Requests -> Steps]
    BY <1>1, Arrival DEF Types, Steps
  <2>. QED BY <1>1, <2>1 DEF Arrive, Types, files, histories, boundVars
<1>2. CASE Stop
  <2>1. pc' \in [Requests -> Steps] /\ stops' \in Nat
    BY <1>2 DEF Stop, Types, Steps
  <2>2. damaged' \in BOOLEAN
    BY <1>2 DEF Stop
  <2>. QED BY <1>2, <2>1, <2>2 DEF Stop, Types, files
<1>. QED BY <1>1, <1>2, StepTypes DEF Next

LEMMA StagesKept ==
  ASSUME Types, Stages, Next
  PROVE  Stages'
<1>. USE DEF Types, Stages, Reading, Goto
<1>1. ASSUME NEW r \in Requests, Arrive(r) PROVE Stages'
  <2>1. PICK o \in Operations :
            /\ op' = [op EXCEPT ![r] = o] /\ pc' = [pc EXCEPT ![r] = FirstStep[o.kind]]
            /\ r \in Messages => o.kind = "message"
            /\ FirstStep[o.kind] \in {"append", "check", "look", "agent"}
            /\ FirstStep[o.kind] = "append" => o.kind \in {"note", "shared"}
            /\ FirstStep[o.kind] = "agent" <=> o.kind = "message"
            /\ FirstStep[o.kind] = "check" <=> o.kind = "digest"
    BY <1>1, Arrival
  <2>2. FirstStep[o.kind] \in {"append", "check"} => r \in Commands
    BY <2>1 DEF Requests
  <2>. QED BY <2>1, <2>2
<1>2. ASSUME NEW r \in Requests, Acl(r) PROVE Stages'
  BY <1>2, AllowedIsOwners DEF Acl, Settle
<1>3. ASSUME NEW r \in Requests, LoadItem(r) PROVE Stages'
  BY <1>3 DEF LoadItem, After, Layers
<1>4. ASSUME NEW r \in Requests, Note(r) \/ Look(r) \/ SeedMemory(r) PROVE Stages'
  BY <1>4 DEF Note, Look, SeedMemory
<1>5. ASSUME NEW r \in Requests, Check(r) \/ Record(r) \/ Complete(r) PROVE Stages'
  BY <1>5 DEF Check, Record, Complete, Upsert
<1>6. ASSUME NEW r \in Requests, ReadNotes(r) \/ Read(r) \/ Truncate(r) \/ Write(r) PROVE Stages'
  BY <1>6 DEF ReadNotes, Read, Truncate, Write
<1>7. CASE Stop
  BY <1>7 DEF Stop
<1>. QED BY <1>1, <1>2, <1>3, <1>4, <1>5, <1>6, <1>7 DEF Next, Step, DigestStep

LEMMA JobsKept ==
  ASSUME Types, JobsAtWork, Next
  PROVE  JobsAtWork'
<1>. USE DEF Types, JobsAtWork, Reading, Goto, Fault, files, boundVars
<1>1. ASSUME NEW r \in Requests, Arrive(r) PROVE JobsAtWork'
  <2>1. pc[r] = "new" /\ \E next : pc' = [pc EXCEPT ![r] = next]
    BY <1>1, Arrival
  <2>. QED BY <1>1, <2>1 DEF Arrive
<1>2. ASSUME NEW r \in Requests, Record(r) \/ Complete(r) PROVE JobsAtWork'
  BY <1>2 DEF Record, Complete, Upsert
<1>3. ASSUME NEW r \in Requests, Acl(r) PROVE JobsAtWork'
  BY <1>3 DEF Acl, Settle
<1>4. ASSUME NEW r \in Requests, ReadNotes(r) \/ Read(r) \/ Truncate(r) \/ Write(r) PROVE JobsAtWork'
  BY <1>4 DEF ReadNotes, Read, Truncate, Write
<1>5. ASSUME NEW r \in Requests, Check(r) \/ Note(r) \/ Look(r) \/ SeedMemory(r) PROVE JobsAtWork'
  BY <1>5 DEF Check, Note, Look, SeedMemory
<1>6. ASSUME NEW r \in Requests, LoadItem(r) PROVE JobsAtWork'
  BY <1>6 DEF LoadItem, After, Layers
<1>7. CASE Stop
  BY <1>7 DEF Stop
<1>. QED BY <1>1, <1>2, <1>3, <1>4, <1>5, <1>6, <1>7 DEF Next, Step, DigestStep

\* Texts keep their origin, and the files and what is read of them get texts of
\* a known origin only.
LEMMA OriginsKept ==
  ASSUME Types, Stages, Origins, Next
  PROVE  Origins'
<1>1. \A x \in Requests : pc[x] # "new" => pc'[x] # "new" /\ op'[x] = op[x]
  BY Begun
<1>2. /\ \A x, a : NoteFor(x, a) => NoteFor(x, a)'
      /\ \A x : SharedNote(x) => SharedNote(x)'
      /\ \A d : OwnersDigest(d) => OwnersDigest(d)' /\ op'[d].agent = op[d].agent
  BY <1>1 DEF NoteFor, SharedNote, OwnersDigest, IsNoteOf, IsShared, Requests
<1>3. /\ \A d, x : Brought(d, x) => Brought(d, x)'
      /\ \A entry : Owned(entry) => Owned(entry)'
  <2>1. \A d, x : Brought(d, x) => Brought(d, x)'
    BY <1>2 DEF Brought
  <2>. QED BY <2>1 DEF Owned
<1>4. \A r \in Requests : \A item : MayLoad(r, item) => MayLoad(r, item)'
  BY <1>1, <1>2 DEF MayLoad
<1>5. /\ \A a \in Agents : \A x \in daily'[a] : x \in daily[a] \/ NoteFor(x, a)'
      /\ \A x \in daily'["shared"] : x \in daily["shared"] \/ SharedNote(x)'
  <2>1. CASE UNCHANGED daily
    BY <2>1
  <2>2. ASSUME NEW r \in Requests, Note(r), daily' # daily
        PROVE  <1>5!:
    <3>1. r \in Commands /\ op[r].kind \in {"note", "shared"} /\ pc[r] # "new"
      BY <2>2 DEF Note, Stages
    <3>2. /\ daily' = [daily EXCEPT ![IF op[r].kind = "shared" THEN "shared" ELSE op[r].agent] = @ \cup {r}]
          /\ op[r].kind = "shared" => OwnersChat(op[r].chat)
      BY <2>2, AllowedIsOwners DEF Note
    <3>3. CASE op[r].kind = "shared"
      <4>1. SharedNote(r)
        BY <3>1, <3>2, <3>3 DEF SharedNote, IsShared
      <4>2. daily' = [daily EXCEPT !["shared"] = @ \cup {r}]
        BY <3>2, <3>3
      <4>. QED BY <1>2, <4>1, <4>2, MemoryConstants DEF Types
    <3>4. CASE op[r].kind = "note"
      <4>1. NoteFor(r, op[r].agent)
        BY <3>1, <3>4 DEF NoteFor, IsNoteOf
      <4>2. daily' = [daily EXCEPT ![op[r].agent] = @ \cup {r}]
        BY <3>2, <3>4
      <4>3. op[r].agent \in Agents
        BY DEF Types, Operations
      <4>. QED BY <1>2, <4>1, <4>2, <4>3, MemoryConstants DEF Types
    <3>. QED BY <3>1, <3>3, <3>4
  <2>. QED BY <2>1, <2>2 DEF Next, Arrive, Step, DigestStep, Check, Record, Acl, ReadNotes, Read, Truncate, Write,
                             Complete, Look, SeedMemory, LoadItem, Stop, files
<1>6. \A r \in Requests : \A x \in copied'[r] : Brought(r, x)'
  <2>1. CASE UNCHANGED copied
    BY <1>3, <2>1 DEF Origins
  <2>2. ASSUME NEW r \in Requests, ReadNotes(r) PROVE <1>6!:
    <3>1. pc[r] \in Reading
      BY <2>2 DEF ReadNotes, Reading
    <3>2. OwnersDigest(r) /\ op[r].agent \in Agents
      BY <3>1 DEF Stages, OwnersDigest, Types, Operations, Reading
    <3>3. \A q \in Requests : copied'[q] \subseteq
             copied[q] \cup (IF q = r THEN daily[op[r].agent] \cup daily["shared"] ELSE {})
      BY <2>2 DEF ReadNotes, Excerpts, Types
    <3>4. \A x \in daily[op[r].agent] \cup daily["shared"] : Brought(r, x)
      BY <3>2 DEF Origins, Brought
    <3>. QED BY <1>3, <3>3, <3>4 DEF Origins
  <2>. QED BY <2>1, <2>2 DEF Next, Arrive, Step, Note, DigestStep, Check, Record, Acl, Read, Truncate, Write,
                             Complete, Look, SeedMemory, LoadItem, Stop
<1>7. \A entry \in memory' : Owned(entry)'
  <2>1. CASE UNCHANGED memory
    BY <1>3, <2>1 DEF Origins
  <2>2. ASSUME NEW r \in Requests, Truncate(r) \/ SeedMemory(r), memory' # memory PROVE <1>7!:
    BY <2>2 DEF Truncate, SeedMemory, Owned
  <2>3. ASSUME NEW r \in Requests, Write(r) PROVE <1>7!:
    <3>1. memory' \subseteq previous[r] \cup Section(r)
      BY <2>3 DEF Write
    <3>2. pc[r] \in Reading
      BY <2>3 DEF Write, Reading
    <3>3. Brought(r, r)
      BY <3>2 DEF Stages, Brought, OwnersDigest, Reading
    <3>4. \A entry \in Section(r) : entry[1] = r /\ (entry[2] = r \/ entry[2] \in copied[r])
      BY DEF Section
    <3>5. \A entry \in Section(r) : Owned(entry)
      BY <3>3, <3>4 DEF Origins, Owned
    <3>. QED BY <1>3, <3>1, <3>5 DEF Origins
  <2>. QED BY <2>1, <2>2, <2>3 DEF Next, Arrive, Step, Note, DigestStep, Check, Record, Acl, ReadNotes, Read,
                                  Complete, Look, LoadItem, Stop, files
<1>8. \A r \in Requests : \A entry \in previous'[r] : Owned(entry)'
  <2>1. CASE UNCHANGED previous
    BY <1>3, <2>1 DEF Origins
  <2>2. ASSUME NEW r \in Requests, Read(r) PROVE <1>8!:
    <3>1. \A q \in Requests : previous'[q] \subseteq previous[q] \cup memory
      BY <2>2 DEF Read, Types
    <3>. QED BY <1>3, <3>1 DEF Origins
  <2>. QED BY <2>1, <2>2 DEF Next, Arrive, Step, Note, DigestStep, Check, Record, Acl, ReadNotes, Truncate, Write,
                             Complete, Look, SeedMemory, LoadItem, Stop
<1>9. \A r \in Requests : \A item \in loaded'[r] : MayLoad(r, item)'
  <2>1. CASE UNCHANGED loaded
    BY <1>4, <2>1 DEF Origins
  <2>2. ASSUME NEW r \in Requests, LoadItem(r) PROVE <1>9!:
    <3>1. pc[r] \in Layers /\ op[r].agent \in Agents
      BY <2>2 DEF LoadItem, Types, Operations
    <3>2. \/ loaded' = loaded
          \/ /\ loaded' = [loaded EXCEPT ![r] = @ \cup Body(r, pc[r])]
             /\ pc[r] = "main" => MessageAllowed(op[r].chat)
      BY <2>2 DEF LoadItem, Types
    <3>3. ASSUME pc[r] = "main" => MessageAllowed(op[r].chat), NEW item \in Body(r, pc[r])
          PROVE  MayLoad(r, item)
      <4>1. item[1] = pc[r]
        BY DEF Body
      <4>2. pc[r] = "agent" => item[2] \in daily[op[r].agent]
        BY DEF Body
      <4>3. pc[r] = "project" => item[2] \in daily["shared"]
        BY DEF Body
      <4>4. pc[r] = "main" => OwnersChat(op[r].chat)
        BY <3>3, AllowedIsOwners
      <4>. QED BY <3>1, <4>1, <4>2, <4>3, <4>4 DEF Origins, MayLoad, Layers
    <3>4. \A q \in Requests : \A item \in loaded'[q] : MayLoad(q, item)
      BY <3>2, <3>3 DEF Origins, Types
    <3>. QED BY <1>4, <3>4
  <2>. QED BY <2>1, <2>2 DEF Next, Arrive, Step, Note, DigestStep, Check, Record, Acl, ReadNotes, Read, Truncate, Write,
                             Complete, Look, SeedMemory, Stop
<1>. QED BY <1>2, <1>3, <1>5, <1>6, <1>7, <1>8, <1>9 DEF Origins

\* The files stay finite, and a load adds what fits.
LEMMA BudgetKept ==
  ASSUME Types, Budgeted, Next
  PROVE  Budgeted'
<1>1. \A t \in Agents \cup {"shared"} : IsFiniteSet(daily'[t])
  <2>1. CASE UNCHANGED daily
    BY <2>1 DEF Budgeted
  <2>2. ASSUME NEW r \in Requests, Note(r), daily' # daily PROVE <1>1!:
    <3>1. daily' = [daily EXCEPT ![IF op[r].kind = "shared" THEN "shared" ELSE op[r].agent] = @ \cup {r}]
      BY <2>2 DEF Note
    <3>2. \A t \in Agents \cup {"shared"} : daily'[t] = daily[t] \/ daily'[t] = daily[t] \cup {r}
      BY <3>1 DEF Types
    <3>3. ASSUME NEW t \in Agents \cup {"shared"} PROVE IsFiniteSet(daily[t]) /\ IsFiniteSet(daily[t] \cup {r})
      BY FS_AddElement DEF Budgeted
    <3>. QED BY <3>2, <3>3
  <2>. QED BY <2>1, <2>2 DEF Next, Arrive, Step, DigestStep, Check, Record, Acl, ReadNotes, Read, Truncate, Write,
                             Complete, Look, SeedMemory, LoadItem, Stop, files
<1>2. IsFiniteSet(memory')
  <2>1. CASE UNCHANGED memory
    BY <2>1 DEF Budgeted
  <2>2. ASSUME NEW r \in Requests, Truncate(r) \/ SeedMemory(r), memory' # memory PROVE <1>2!:
    <3>1. memory' = {} \/ memory' = {SeedText}
      BY <2>2 DEF Truncate, SeedMemory
    <3>. QED BY <3>1, FS_EmptySet, FS_Singleton
  <2>3. ASSUME NEW r \in Requests, Write(r) PROVE <1>2!:
    <3>1. memory' \subseteq previous[r] \cup Section(r)
      BY <2>3 DEF Write
    <3>2. IsFiniteSet({r}) /\ IsFiniteSet(copied[r] \cup {r})
      BY FS_Singleton, FS_AddElement DEF Budgeted
    <3>3. IsFiniteSet(Section(r))
      BY <3>2, FS_Product DEF Section
    <3>4. IsFiniteSet(previous[r] \cup Section(r))
      BY <3>3, FS_Union DEF Budgeted
    <3>. QED BY <3>1, <3>4, FS_Subset
  <2>. QED BY <2>1, <2>2, <2>3 DEF Next, Arrive, Step, Note, DigestStep, Check, Record, Acl, ReadNotes, Read,
                                  Complete, Look, LoadItem, Stop, files
<1>3. \A r \in Requests : IsFiniteSet(previous'[r])
  <2>1. CASE UNCHANGED previous
    BY <2>1 DEF Budgeted
  <2>2. ASSUME NEW r \in Requests, Read(r) PROVE <1>3!:
    <3>1. \A q \in Requests : previous'[q] \in {previous[q], memory, {}}
      BY <2>2 DEF Read, Types
    <3>. QED BY <3>1, FS_EmptySet DEF Budgeted
  <2>. QED BY <2>1, <2>2 DEF Next, Arrive, Step, Note, DigestStep, Check, Record, Acl, ReadNotes, Truncate, Write,
                             Complete, Look, SeedMemory, LoadItem, Stop
<1>c. \A r \in Requests : IsFiniteSet(copied'[r])
  <2>1. CASE UNCHANGED copied
    BY <2>1 DEF Budgeted
  <2>2. ASSUME NEW r \in Requests, ReadNotes(r) PROVE <1>c!:
    <3>1. PICK t \in Agents \cup {"shared"} :
            \A q \in Requests : copied'[q] \subseteq copied[q] \cup daily[t]
      <4>1. PICK t \in Agents \cup {"shared"} :
              copied' = copied \/ \E part \in SUBSET daily[t] : copied' = [copied EXCEPT ![r] = @ \cup part]
        <5>1. op[r].agent \in Agents
          BY DEF Types, Operations
        <5>2. CASE pc[r] = "readAgent"
          BY <2>2, <5>1, <5>2 DEF ReadNotes, Excerpts
        <5>3. CASE pc[r] = "readShared"
          BY <2>2, <5>3 DEF ReadNotes, Excerpts
        <5>. QED BY <2>2, <5>2, <5>3 DEF ReadNotes
      <4>. QED BY <4>1 DEF Types
    <3>2. \A q \in Requests : IsFiniteSet(copied[q] \cup daily[t])
      BY FS_Union DEF Budgeted
    <3>. QED BY <3>1, <3>2, FS_Subset
  <2>. QED BY <2>1, <2>2 DEF Next, Arrive, Step, Note, DigestStep, Check, Record, Acl, Read, Truncate, Write,
                             Complete, Look, SeedMemory, LoadItem, Stop
<1>4. \A r \in Requests : IsFiniteSet(loaded'[r]) /\ Cardinality(loaded'[r]) <= Budget
  <2>1. CASE UNCHANGED loaded
    BY <2>1 DEF Budgeted
  <2>2. ASSUME NEW r \in Requests, LoadItem(r) PROVE <1>4!:
    <3>. DEFINE body == Body(r, pc[r])
    <3>1. IsFiniteSet(loaded[r]) /\ IsFiniteSet(body)
      <4>1. PICK texts : body = {pc[r]} \X texts /\ IsFiniteSet(texts)
        BY DEF Budgeted, Body, Types, Operations
      <4>2. IsFiniteSet({pc[r]})
        BY FS_Singleton
      <4>. QED BY <4>1, <4>2, FS_Product DEF Budgeted
    <3>2. \/ loaded' = loaded
          \/ /\ loaded' = [loaded EXCEPT ![r] = @ \cup body]
             /\ Cardinality(loaded[r]) + Cardinality(body) <= Budget
      BY <2>2 DEF LoadItem, Types
    <3>3. /\ IsFiniteSet(loaded[r] \cup body)
          /\ Cardinality(loaded[r] \cup body) <= Cardinality(loaded[r]) + Cardinality(body)
      <4>. HIDE DEF body
      <4>1. IsFiniteSet(loaded[r] \cup body)
        BY <3>1, FS_Union
      <4>2. Cardinality(loaded[r] \cup body)
              = Cardinality(loaded[r]) + Cardinality(body) - Cardinality(loaded[r] \cap body)
        BY <3>1, FS_Union
      <4>3. IsFiniteSet(loaded[r] \cap body)
        BY <3>1, FS_Intersection
      <4>4. /\ Cardinality(loaded[r] \cap body) \in Nat
            /\ Cardinality(loaded[r]) \in Nat /\ Cardinality(body) \in Nat
        BY <3>1, <4>3, FS_CardinalityType
      <4>. QED BY <4>1, <4>2, <4>4
    <3>4. Cardinality(loaded[r] \cup body) \in Nat /\ Cardinality(loaded[r]) \in Nat /\ Cardinality(body) \in Nat
      BY <3>1, <3>3, FS_CardinalityType
    <3>5. CASE loaded' = loaded
      BY <3>5 DEF Budgeted
    <3>6. CASE loaded' = [loaded EXCEPT ![r] = @ \cup body] /\ Cardinality(loaded[r]) + Cardinality(body) <= Budget
      <4>. HIDE DEF body
      <4>1. Cardinality(loaded[r] \cup body) <= Budget
        BY <3>3, <3>4, <3>6, MemoryConstants
      <4>2. \A q \in Requests : loaded'[q] = IF q = r THEN loaded[r] \cup body ELSE loaded[q]
        BY <3>6 DEF Types
      <4>. QED BY <3>3, <4>1, <4>2 DEF Budgeted
    <3>. QED BY <3>2, <3>5, <3>6
  <2>. QED BY <2>1, <2>2 DEF Next, Arrive, Step, Note, DigestStep, Check, Record, Acl, ReadNotes, Read, Truncate, Write,
                             Complete, Look, SeedMemory, Stop
<1>. QED BY <1>1, <1>2, <1>3, <1>4, <1>c DEF Budgeted

LEMMA MemoryInvKept == MemoryInv /\ [Next]_vars => MemoryInv'
<1>1. ASSUME MemoryInv, Next PROVE MemoryInv'
  BY <1>1, NextTypes, StagesKept, JobsKept, OriginsKept, BudgetKept DEF MemoryInv
<1>2. ASSUME MemoryInv, UNCHANGED vars PROVE MemoryInv'
  BY <1>2 DEF vars, files, histories, boundVars, MemoryInv, Types, Stages, JobsAtWork, Origins, Budgeted,
              Owned, Brought, OwnersDigest, NoteFor, SharedNote, IsNoteOf, IsShared, MayLoad
<1>. QED BY <1>1, <1>2

LEMMA MemoryInvHolds == Spec => []MemoryInv
<1>. QED BY InitMemoryInv, MemoryInvKept, PTL DEF Spec

-----------------------------------------------------------------------------
(* Theorems.                                                               *)

\* The types of the files and of the requests' state.
THEOREM MemoryTypes == Spec => []MemoryTypeOK
<1>1. MemoryInv => MemoryTypeOK
  BY DEF MemoryInv, Types, MemoryTypeOK, Operations, Items
<1>. QED BY <1>1, MemoryInvHolds, PTL

\* A message loads notes of its own agent and shared ones, MEMORY.md in an owner's
\* direct chat only, and no more than its budget, whatever the users and the
\* instances of the channels are called.
THEOREM LoadsAreAllowed == Spec => []LoadedIsAllowed
<1>1. MemoryInv => LoadedIsAllowed
  BY DEF MemoryInv, Budgeted, Origins, MayLoad, SharedNote, NoteFor, LoadedIsAllowed
<1>. QED BY <1>1, MemoryInvHolds, PTL

\* MEMORY.md has its seed and what owners' digests brought: notes of their agent,
\* whoever wrote them, and shared notes of owners.
THEOREM OwnersDigestMemory == Spec => []DigestsAreOwners
<1>1. MemoryInv => DigestsAreOwners
  BY DEF MemoryInv, Origins, Owned, Brought, OwnersDigest, SharedNote, NoteFor, DigestsAreOwners
<1>. QED BY <1>1, MemoryInvHolds, PTL

\* A job that refuses other digests is at work, or something failed or stopped.
THEOREM OpenJobsAreAlive == Spec => []JobsAreAlive
<1>1. MemoryInv => JobsAreAlive
  BY DEF MemoryInv, JobsAtWork, JobsAreAlive, Running, Reading
<1>. QED BY <1>1, MemoryInvHolds, PTL
-----------------------------------------------------------------------------
(* Digests are kept, as long as nobody raced and MEMORY.md was not damaged. *)

AtWork == {"running", "acl", "complete"} \cup Reading

\* Who is where, and that a digest at work is to be seen in the jobs.
KindsFit ==
    \A r \in Requests :
        /\ pc[r] \in {"check", "pending"} \cup AtWork => op[r].kind = "digest"
        /\ pc[r] \in {"look", "seed"} => op[r].kind = "template"
        /\ pc[r] \in AtWork => jobs[r] \in {"pending", "running"}

\* One writer at a time; and what was completed is in MEMORY.md, or in the hands
\* of the one who is writing it, and nobody seeds it any more.
Writer(r) == pc[r] \in {"pending", "seed"} \cup AtWork

Orderly ==
    /\ \A q, r \in Requests : Writer(q) /\ Writer(r) => q = r
    /\ \A r \in Requests :
        /\ pc[r] \in {"write", "complete"} => present
        /\ pc[r] = "complete" => Section(r) \subseteq memory
    /\ \A d \in Requests : jobs[d] = "completed" =>
        /\ present
        /\ (\A r \in Requests : pc[r] # "write") => Section(d) \subseteq memory
        /\ \A r \in Requests : pc[r] \in {"truncate", "write"} => Section(d) \subseteq previous[r]
        /\ \A r \in Requests : pc[r] # "seed"

Undisturbed == ~raced /\ ~damaged => Orderly

LEMMA KindsFitKept ==
  ASSUME Types, KindsFit, Next
  PROVE  KindsFit'
<1>. USE DEF Types, KindsFit, AtWork, Reading, Goto, Fault, files, boundVars
<1>1. ASSUME NEW r \in Requests, Arrive(r) PROVE KindsFit'
  <2>1. PICK o \in Operations :
            op' = [op EXCEPT ![r] = o] /\ pc' = [pc EXCEPT ![r] = FirstStep[o.kind]]
    BY <1>1, Arrival
  <2>2. o.kind \in Kinds
    BY DEF Operations
  <2>3. /\ FirstStep[o.kind] \in {"append", "check", "look", "agent"}
        /\ FirstStep[o.kind] = "check" => o.kind = "digest"
        /\ FirstStep[o.kind] = "look" => o.kind = "template"
    BY <2>2 DEF FirstStep, Kinds
  <2>4. jobs' = jobs
    BY <1>1 DEF Arrive
  <2>. QED BY <2>1, <2>3, <2>4
<1>2. ASSUME NEW r \in Requests, Check(r) \/ Look(r) PROVE KindsFit'
  BY <1>2 DEF Check, Look
<1>3. ASSUME NEW r \in Requests, Record(r) \/ Complete(r) PROVE KindsFit'
  BY <1>3 DEF Record, Complete, Upsert
<1>4. ASSUME NEW r \in Requests, Acl(r) PROVE KindsFit'
  BY <1>4 DEF Acl, Settle
<1>5. ASSUME NEW r \in Requests, ReadNotes(r) \/ Read(r) \/ Truncate(r) \/ Write(r) PROVE KindsFit'
  BY <1>5 DEF ReadNotes, Read, Truncate, Write
<1>6. ASSUME NEW r \in Requests, Note(r) \/ SeedMemory(r) PROVE KindsFit'
  BY <1>6 DEF Note, SeedMemory
<1>7. ASSUME NEW r \in Requests, LoadItem(r) PROVE KindsFit'
  BY <1>7 DEF LoadItem, After, Layers
<1>8. CASE Stop
  BY <1>8 DEF Stop
<1>. QED BY <1>1, <1>2, <1>3, <1>4, <1>5, <1>6, <1>7, <1>8 DEF Next, Step, DigestStep

\* A digest that passes its check, or a template that is to seed MEMORY.md,
\* finds no writer, as long as nobody raced.
LEMMA AloneAtFirst ==
  ASSUME Types, KindsFit, NEW r \in Requests, ~raced',
         \/ Check(r) /\ pc'[r] = "pending"
         \/ Look(r) /\ pc'[r] = "seed"
  PROVE  \A q \in Requests : ~Writer(q)
<1>. SUFFICES ASSUME NEW q \in Requests, Writer(q) PROVE FALSE
  OBVIOUS
<1>1. CASE Check(r) /\ pc'[r] = "pending"
  <2>1. ~Busy
    BY <1>1 DEF Check, Goto, Types
  <2>2. ~Unseen(q)
    BY <1>1, <2>1 DEF Check
  <2>3. pc[q] \notin AtWork
    BY <2>1 DEF Busy, KindsFit, AtWork
  <2>4. pc[q] \notin {"pending", "seed"}
    BY <2>2 DEF Unseen, KindsFit
  <2>. QED BY <2>3, <2>4 DEF Writer
<1>2. CASE Look(r) /\ pc'[r] = "seed"
  <2>1. ~Unseen(q) /\ ~Digesting(q)
    BY <1>2 DEF Look, Goto, Types
  <2>2. pc[q] \notin {"pending"} \cup AtWork
    BY <2>1 DEF Digesting, Running, KindsFit, AtWork, Reading
  <2>3. pc[q] # "seed"
    BY <2>1 DEF Unseen, KindsFit
  <2>. QED BY <2>2, <2>3 DEF Writer
<1>. QED BY <1>1, <1>2

\* Once a digest is to write, its section is what it will stay.
LEMMA SectionsStay ==
  ASSUME Types, KindsFit, Next,
         NEW d \in Requests, jobs[d] = "completed" \/ pc[d] \in {"write", "complete"}
  PROVE  Section(d)' = Section(d)
<1>1. copied'[d] = copied[d]
  <2>1. CASE UNCHANGED copied
    BY <2>1
  <2>2. ASSUME NEW r \in Requests, ReadNotes(r) PROVE copied'[d] = copied[d]
    <3>1. r # d
      BY <2>2 DEF ReadNotes, KindsFit, AtWork, Reading
    <3>. QED BY <2>2, <3>1 DEF ReadNotes, Types
  <2>. QED BY <2>1, <2>2 DEF Next, Arrive, Step, Note, DigestStep, Check, Record, Acl, Read, Truncate, Write,
                             Complete, Look, SeedMemory, LoadItem, Stop
<1>. QED BY <1>1 DEF Section

LEMMA OrderlyKept ==
  ASSUME Types, KindsFit, Undisturbed, Next, ~raced', ~damaged'
  PROVE  Orderly'
<1>0. ~raced /\ ~damaged
  BY DEF Next, Arrive, Step, Note, DigestStep, Check, Record, Acl, ReadNotes, Read, Truncate, Write, Complete, Look,
         SeedMemory, LoadItem, Stop, Types, histories
<1>o. Orderly
  BY <1>0 DEF Undisturbed
<1>s. \A d \in Requests : jobs[d] = "completed" \/ pc[d] \in {"write", "complete"} => Section(d)' = Section(d)
  BY SectionsStay
<1>. USE DEF Types, Orderly, Writer, AtWork, Reading, Goto, Fault, files, boundVars
<1>1. ASSUME NEW r \in Requests, Arrive(r) PROVE Orderly'
  <2>1. /\ pc[r] = "new" /\ UNCHANGED <<memory, present, jobs, previous>>
        /\ \E next \in {"append", "check", "look", "agent"} : pc' = [pc EXCEPT ![r] = next]
    BY <1>1, Arrival DEF Arrive
  <2>. QED BY <1>o, <1>s, <2>1
<1>2. ASSUME NEW r \in Requests, Check(r) \/ Look(r) PROVE Orderly'
  <2>1. UNCHANGED <<memory, present, jobs, previous>>
    BY <1>2 DEF Check, Look
  <2>2. \A q \in Requests \ {r} : pc'[q] = pc[q]
    BY <1>2 DEF Check, Look
  <2>3. CASE pc'[r] \in {"refused", "done"}
    <3>1. \A q \in Requests : Writer(q)' => Writer(q) /\ pc'[q] = pc[q]
      BY <2>2, <2>3
    <3>2. \A q \in Requests : pc'[q] \in {"write", "truncate", "seed"} => pc[q] = pc'[q]
      BY <2>2, <2>3
    <3>3. pc[r] \in {"check", "look"}
      BY <1>2 DEF Check, Look
    <3>4. \A q \in Requests : pc[q] = "write" => pc'[q] = "write"
      BY <2>2, <3>3
    <3>. QED BY <1>o, <1>s, <2>1, <3>1, <3>2, <3>4
  <2>4. CASE pc'[r] \in {"pending", "seed"}
    <3>1. \A q \in Requests : ~Writer(q)
      BY <1>2, <2>4, AloneAtFirst DEF Check, Look
    <3>2. pc'[r] = "seed" => ~present
      BY <1>2 DEF Check, Look
    <3>. QED BY <1>o, <1>s, <2>1, <2>2, <2>4, <3>1, <3>2
  <2>. QED BY <1>2, <2>3, <2>4 DEF Check, Look
<1>3. ASSUME NEW r \in Requests, Record(r) \/ Complete(r) PROVE Orderly'
  BY <1>o, <1>s, <1>3 DEF Record, Complete, Upsert
<1>4. ASSUME NEW r \in Requests, Acl(r) PROVE Orderly'
  BY <1>o, <1>s, <1>4 DEF Acl, Settle
<1>12. ASSUME NEW r \in Requests, ReadNotes(r) PROVE Orderly'
  <2>1. /\ \E next \in {"readShared", "read"} : pc' = [pc EXCEPT ![r] = next]
        /\ pc[r] \in {"readAgent", "readShared"} /\ UNCHANGED <<memory, present, jobs, previous>>
    BY <1>12 DEF ReadNotes
  <2>. QED BY <1>o, <1>s, <2>1
<1>5. ASSUME NEW r \in Requests, Read(r) PROVE Orderly'
  <2>1. /\ previous' = [previous EXCEPT ![r] = memory] /\ pc' = [pc EXCEPT ![r] = "truncate"]
        /\ pc[r] = "read" /\ UNCHANGED <<memory, present, jobs>>
    BY <1>5 DEF Read
  <2>2. \A q \in Requests : pc[q] # "write"
    BY <1>o, <1>s, <2>1
  <2>. QED BY <1>o, <1>s, <2>1, <2>2
<1>6. ASSUME NEW r \in Requests, Truncate(r) PROVE Orderly'
  <2>1. CASE pc'[r] = "write"
    <3>1. /\ memory' = {} /\ present' = TRUE /\ pc' = [pc EXCEPT ![r] = "write"]
          /\ pc[r] = "truncate" /\ UNCHANGED <<jobs, previous>>
      BY <1>6, <2>1 DEF Truncate
    <3>. QED BY <1>o, <1>s, <3>1
  <2>2. CASE pc'[r] = "failed"
    <3>1. /\ pc' = [pc EXCEPT ![r] = "failed"] /\ jobs' = [jobs EXCEPT ![r] = "failed"]
          /\ pc[r] = "truncate" /\ UNCHANGED <<memory, present, previous>>
      BY <1>6, <2>2 DEF Truncate
    <3>. QED BY <1>o, <1>s, <3>1
  <2>. QED BY <1>6, <2>1, <2>2 DEF Truncate
<1>7. ASSUME NEW r \in Requests, Write(r) PROVE Orderly'
  <2>1. /\ memory' = previous[r] \cup Section(r) /\ pc' = [pc EXCEPT ![r] = "complete"]
        /\ pc[r] = "write" /\ UNCHANGED <<jobs, present, previous>>
    BY <1>7 DEF Write
  <2>. QED BY <1>o, <1>s, <2>1
<1>8. ASSUME NEW r \in Requests, SeedMemory(r) PROVE Orderly'
  BY <1>o, <1>s, <1>8 DEF SeedMemory
<1>9. ASSUME NEW r \in Requests, Note(r) PROVE Orderly'
  BY <1>o, <1>s, <1>9 DEF Note
<1>10. ASSUME NEW r \in Requests, LoadItem(r) PROVE Orderly'
  <2>1. /\ UNCHANGED <<memory, present, jobs, previous>> /\ pc[r] \in {"agent", "project", "main"}
        /\ \E next \in {"project", "main", "done"} : pc' = [pc EXCEPT ![r] = next]
    BY <1>10 DEF LoadItem, After, Layers
  <2>. QED BY <1>o, <1>s, <2>1
<1>11. CASE Stop
  <2>1. \A r \in Requests : pc[r] # "write"
    BY <1>11 DEF Stop
  <2>2. UNCHANGED <<memory, present, jobs, previous>>
    BY <1>11 DEF Stop
  <2>3. \A r \in Requests : pc'[r] \in {"new", "done", "refused", "failed", "lost"}
    BY <1>11 DEF Stop, Running, Steps
  <2>4. \A d \in Requests : jobs[d] = "completed" => present /\ Section(d) \subseteq memory
    BY <1>o, <2>1
  <2>5. \A r \in Requests : ~Writer(r)'
    BY <2>3
  <2>. QED BY <1>s, <2>2, <2>3, <2>4, <2>5
<1>. QED BY <1>1, <1>2, <1>3, <1>4, <1>5, <1>6, <1>7, <1>8, <1>9, <1>10, <1>11, <1>12 DEF Next, Step, DigestStep

LEMMA UndisturbedKept == MemoryInv /\ KindsFit /\ Undisturbed /\ [Next]_vars => KindsFit' /\ Undisturbed'
<1>1. ASSUME MemoryInv, KindsFit, Undisturbed, Next PROVE KindsFit' /\ Undisturbed'
  BY <1>1, KindsFitKept, OrderlyKept DEF MemoryInv, Undisturbed
<1>2. ASSUME KindsFit, Undisturbed, UNCHANGED vars PROVE KindsFit' /\ Undisturbed'
  BY <1>2 DEF vars, files, histories, KindsFit, Undisturbed, Orderly, Writer, Section
<1>. QED BY <1>1, <1>2

\* A completed digest stays in MEMORY.md, for any number of digests, templates,
\* failing writes and stops, unless two writers looked before either was to be
\* seen, or the file itself could not be read or written as a whole.
THEOREM CompletedDigestsStay == Spec => []DigestsAreKept
<1>1. Init => KindsFit /\ Undisturbed
  BY DEF Init, KindsFit, AtWork, Reading, Undisturbed, Orderly, Writer
<1>2. Undisturbed => DigestsAreKept
  BY DEF Undisturbed, Orderly, DigestsAreKept
<1>. QED BY <1>1, <1>2, UndisturbedKept, MemoryInvHolds, PTL DEF Spec

=============================================================================
