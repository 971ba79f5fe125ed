------------------------------- MODULE Config -------------------------------
(***************************************************************************)
(* config.json of ClawX: how a file is read into the running configuration *)
(* (defaults, file, environment), how commands and chat plans read, change *)
(* and rewrite it, and how a start moves the workspaces of the old layout. *)
(* A worker is a process of the command line, or a chat message that the   *)
(* serving process handles; nothing locks the file between them.  A value  *)
(* that a hand-written file leaves out is None.                            *)
(***************************************************************************)
EXTENDS Naturals, Sequences

CONSTANTS
    Agents, Main,     \* agent ids, and the one called main
    Profiles, Codex,  \* provider profiles, and the default one
    Platforms,        \* channels; all but the four in Native are extended
    Skills,           \* the names of skills
    Files,            \* what lies in the workspaces of the old layout
    Workers,
    InitialFiles,     \* what config.json may hold at first
    Environments,     \* what the environment says of a channel's "enabled"
    Asked,            \* the changes that users ask for
    None,
    MaxFaults, MaxStops   \* bounds

---------------------------------------------------------------------------
(* What config.json can say, and what users can ask for.                   *)

Native == {"discord", "telegram", "feishu", "wecom"}
Switch == BOOLEAN \cup {None}
Mode == {"polling", "webhook", "other", None}
Agent == [profile : Profiles, workspace : {"new", "own", "old"}]
Instance ==
    [enabled : Switch, mention : Switch, mode : Mode, agent : Agents \cup {None}, ready : BOOLEAN]
Channel ==
    [enabled : Switch, mention : Switch, mode : Mode, agent : Agents \cup {None}, ready : BOOLEAN,
     instances : Seq(Instance)]

\* Of several agents that are flagged as the default, the first counts.
ConfigFile ==
    [flat : BOOLEAN, profiles : SUBSET Profiles,
     default : Agents \cup {None}, flagged : Agents \cup {None},
     agents : [Agents -> Agent \cup {None}],
     channels : [Platforms -> Channel \cup {None}],
     skills : [enabled : Switch, disabled : SUBSET Skills]]

\* The native channels have sections, if empty ones; a flag is one of an agent.
IsFile(f) ==
    /\ f \in ConfigFile
    /\ f.flagged = None \/ f.agents[f.flagged] # None
    /\ \A p \in Platforms \cap Native : f.channels[p] # None

\* No value that is set is absent.
AreValues(v) ==
    /\ DOMAIN v \subseteq {"enabled", "mention", "mode", "agent", "ready"}
    /\ "enabled" \in DOMAIN v => v.enabled \in BOOLEAN
    /\ "mention" \in DOMAIN v => v.mention \in BOOLEAN
    /\ "mode" \in DOMAIN v => v.mode \in Mode \ {None}
    /\ "agent" \in DOMAIN v => v.agent \in Agents
    /\ "ready" \in DOMAIN v => v.ready \in BOOLEAN

\* Nobody asks for an agent below the old root.
IsChange(c) ==
    \/ c \in [kind : {"agent"}, agent : Agents, profile : Profiles, workspace : {"new", "own"},
              asDefault : BOOLEAN]
    \/ c \in [kind : {"default"}, agent : Agents]
    \/ c \in [kind : {"skills"}, name : Skills, on : BOOLEAN, names : SUBSET Skills]
    \/ c.kind \in {"channel", "set"} /\ c.platform \in Platforms /\ AreValues(c.values)
    \/ c.kind = "bootstrap"

ASSUME ConfigConstants ==
    /\ Main \in Agents /\ Codex \in Profiles
    /\ None \notin BOOLEAN /\ None \notin Agents \cup Files
    /\ None \notin {"polling", "webhook", "other"}
    /\ None \notin Agent /\ None \notin Channel /\ None \notin ConfigFile
    /\ \A f \in InitialFiles : f = None \/ IsFile(f)
    /\ Environments \subseteq [Platforms -> Switch]
    /\ \A c \in Asked : IsChange(c) /\ c # None
    /\ {MaxFaults, MaxStops} \subseteq Nat

VARIABLES
    file,         \* config.json
    environment,
    serving,      \* a process serves
    pending,      \* the plan, a change, that waits for /config apply
    task,         \* of a worker: what it was started for
    pc,
    job,          \* of a worker: the change it is at
    seen,         \* of a worker: the file it has read
    old,          \* the old root exists
    oldFiles,     \* what is still below it
    newFiles,     \* of each of the Files: what is below the new root
    crossing,     \* the two roots are on different devices
    todo,         \* of a worker: what it has still to move
    copying,      \* of a worker: what it is copying
    crowded,      \* history: two workers have moved files at the same time
    ours,         \* history: ClawX has written config.json
    faults, stops

config == <<file, environment, serving, pending, ours>>
disk == <<old, oldFiles, newFiles, crossing, crowded>>
work == <<task, pc, job, seen, todo, copying>>
bounds == <<faults, stops>>
vars == <<config, work, disk, bounds>>

---------------------------------------------------------------------------
(* How the file is read and written.                                       *)

Or(value, default) == IF value = None THEN default ELSE value
DefaultMode(p) == IF p = "telegram" THEN "polling" ELSE "webhook"

\* defaultFileSnapshot; its second agent is like one that a user adds.
DefaultFile ==
    [flat |-> FALSE,
     profiles |-> Profiles,
     default |-> Main, flagged |-> Main,
     agents |-> [a \in Agents |-> IF a = Main THEN [profile |-> Codex, workspace |-> "new"] ELSE None],
     channels |-> [p \in Platforms |->
        IF p \notin Native THEN None
        ELSE [enabled |-> FALSE, mention |-> TRUE, mode |-> DefaultMode(p), agent |-> Main,
              ready |-> FALSE, instances |-> <<>>]],
     skills |-> [enabled |-> TRUE, disabled |-> {}]]

\* WriteBootstrapFile: the answers of the wizard on top of the default.
BootstrapFile(profile, workspace, enabled) ==
    [DefaultFile EXCEPT
        !.agents[Main] = [profile |-> profile, workspace |-> workspace],
        !.channels = [p \in Platforms |->
            IF p \in enabled THEN [DefaultFile.channels[p] EXCEPT !.enabled = TRUE, !.ready = TRUE]
            ELSE DefaultFile.channels[p]]]
Bootstraps ==
    {BootstrapFile(profile, workspace, enabled) :
        profile \in Profiles, workspace \in {"new", "own"},
        enabled \in SUBSET (Platforms \cap {"discord", "telegram"})}

\* Fault: a missing switch of an entry stays away.
DecodedLoosely(i) == [i EXCEPT !.mention = Or(@, FALSE)]

\* An entry of "instances", decoded: a missing switch has become false, since
\* the types of the writer have no other way.
Decoded(i) == [i EXCEPT !.enabled = Or(@, FALSE), !.mention = Or(@, FALSE)]

\* An entry as a writer leaves it; in extended channels it names its agent.
Filled(p, channel, i) ==
    IF p \in Native THEN Decoded(i)
    ELSE [Decoded(i) EXCEPT !.agent = Or(@, Or(channel.agent, Main))]

\* An extended channel is on when one of its entries is.
RewrittenSwitch(p, channel, instances) ==
    \/ Or(channel.enabled, FALSE)
    \/ p \notin Native /\ \E n \in DOMAIN instances : instances[n].enabled

\* Some missing values are filled in, in all but Discord's section.
RewrittenChannel(p, channel) ==
    LET instances == [n \in DOMAIN channel.instances |-> Filled(p, channel, channel.instances[n])]
    IN  [enabled |-> RewrittenSwitch(p, channel, instances),
         mention |-> Or(channel.mention, FALSE),
         mode |-> IF p = "discord" THEN channel.mode ELSE Or(channel.mode, DefaultMode(p)),
         agent |-> IF p = "discord" THEN channel.agent ELSE Or(channel.agent, Main),
         ready |-> channel.ready,
         instances |-> instances]

\* Fault: the writer leaves out what is false.
RewrittenOmitting(f) ==
    [f EXCEPT
        !.channels = [p \in Platforms |->
            IF @[p] = None THEN None
            ELSE [RewrittenChannel(p, @[p]) EXCEPT
                    !.instances = [n \in DOMAIN @ |-> IF @[n].enabled THEN @[n] ELSE [@[n] EXCEPT !.enabled = None]]]],
        !.skills.enabled = Or(@, FALSE)]

\* What a writer makes of a file before it changes anything.
Rewritten(f) ==
    [f EXCEPT
        !.channels = [p \in Platforms |-> IF @[p] = None THEN None ELSE RewrittenChannel(p, @[p])],
        !.skills.enabled = Or(@, FALSE)]

\* readOrDefaultFileSnapshot does not know the keys of the first, flat format.
Unreadable(f) == IF f = None THEN FALSE ELSE f.flat
ReadFile(f) == IF f = None THEN DefaultFile ELSE Rewritten(f)

---------------------------------------------------------------------------
(* What a file means: Load.                                                *)

\* A bot as one of the channel's "instances" gives it.
Listed(p, channel, i) ==
    [enabled |-> Or(i.enabled, TRUE), mention |-> Or(i.mention, TRUE),
     mode |-> Or(i.mode, DefaultMode(p)), ready |-> i.ready,
     agent |-> Or(i.agent, IF p \in Native THEN channel.agent ELSE Or(channel.agent, Main))]

\* The environment is asked before the file.
Switched(p, channel) == Or(environment[p], Or(channel.enabled, FALSE))

\* The bot that the channel's own values give.
Single(p, channel) ==
    [enabled |-> Switched(p, channel), mention |-> Or(channel.mention, TRUE),
     mode |-> Or(channel.mode, DefaultMode(p)), ready |-> channel.ready, agent |-> channel.agent]

\* Telegram has one always, since the path of its webhook has a default.
IsGiven(p, channel) ==
    \/ p = "telegram"
    \/ Switched(p, channel)
    \/ channel.ready \/ channel.agent # None

\* The bots of a channel.
Bots(f, p) ==
    LET channel == f.channels[p]
    IN  CASE channel = None -> <<>>
          [] channel # None /\ channel.instances # <<>> ->
                [n \in DOMAIN channel.instances |-> Listed(p, channel, channel.instances[n])]
          [] channel # None /\ channel.instances = <<>> ->
                IF p \in Native /\ IsGiven(p, channel) THEN <<Single(p, channel)>> ELSE <<>>

\* IsChannelEnabled
IsEnabled(f, p) ==
    \/ \E n \in DOMAIN Bots(f, p) : Bots(f, p)[n].enabled
    \/ p \notin Native /\ f.channels[p] # None /\ Bots(f, p) = <<>> /\ Or(f.channels[p].enabled, FALSE)

SkillsEnabled(f) == Or(f.skills.enabled, TRUE)

Defined(f) == {a \in Agents : f.agents[a] # None}

\* The flag counts when the file names no default.
DefaultAgent(f) == Or(f.default, f.flagged)

\* resolveActiveAgent
HasDefault(f) == Defined(f) = {} \/ f.profiles = {} \/ DefaultAgent(f) \in Defined(f)

\* Every agent is the default one or another, and has a profile that exists.
AgentsValid(f) ==
    /\ HasDefault(f)
    /\ Defined(f) # {} /\ DefaultAgent(f) # None => DefaultAgent(f) \in Defined(f)
    /\ \A a \in Defined(f) : f.agents[a].profile \in f.profiles

\* validateChannelAgentReference
Known(f, agent) == agent = None \/ Defined(f) = {} \/ agent \in Defined(f)

DiscordValid(bot) == bot.enabled => bot.ready
TelegramValid(bot) == bot.enabled => bot.ready /\ bot.mode \in {"polling", "webhook"}
FeishuValid(bot) == bot.enabled => bot.ready /\ bot.mode = "webhook"
WeComValid(bot) == bot.enabled => bot.ready /\ bot.mode = "webhook"

ChannelValid(f, p) ==
    /\ f.channels[p] # None =>
         Known(f, IF p \in Native THEN f.channels[p].agent ELSE Or(f.channels[p].agent, Main))
    /\ \A n \in DOMAIN Bots(f, p) :
        LET bot == Bots(f, p)[n]
        IN  /\ Known(f, bot.agent)
            /\ p = "discord" => DiscordValid(bot)
            /\ p = "telegram" => TelegramValid(bot)
            /\ p = "feishu" => FeishuValid(bot)
            /\ p = "wecom" => WeComValid(bot)

\* Load reads the flat format as well.
Loadable(f) == IF f = None THEN TRUE ELSE AgentsValid(f) /\ \A p \in Platforms : ChannelValid(f, p)

---------------------------------------------------------------------------
(* The changes: UpsertAgent, SetDefaultAgent, SetValuesByDotKey,           *)
(* SetSkillDisabledNames and the rewriting of workspace paths.             *)

Rewrite == [kind |-> "rewrite"]
OldPaths(f) == {a \in Defined(f) : f.agents[a].workspace = "old"}

Refuses(f, c) ==
    \/ c.kind = "agent" /\ c.profile \notin f.profiles
    \/ c.kind = "default" /\ c.agent \notin Defined(f)

\* With setDefaultFlag: the flag moves to the agent that the file then names, also
\* when it named none and the flag was another's.
UpsertAgent(f, c) ==
    LET default == IF c.asDefault THEN c.agent ELSE Or(f.default, c.agent)
    IN  [f EXCEPT !.agents[c.agent] = [profile |-> c.profile, workspace |-> c.workspace],
                  !.default = default,
                  !.flagged = IF default \in Defined(f) \cup {c.agent} THEN default ELSE None]

SetDefaultAgent(f, c) == [f EXCEPT !.default = c.agent, !.flagged = c.agent]

\* config channel and config set: values of the channel itself, by their keys.
SetChannel(f, c) ==
    LET absent == [enabled |-> FALSE, mention |-> FALSE, mode |-> None, agent |-> None,
                   ready |-> FALSE, instances |-> <<>>]
        before == IF f.channels[c.platform] = None THEN absent ELSE f.channels[c.platform]
    IN  [f EXCEPT !.channels[c.platform] =
            [key \in DOMAIN before |-> IF key \in DOMAIN c.values THEN c.values[key] ELSE before[key]]]

SetDisabled(f, c) == [f EXCEPT !.skills.disabled = c.names]

RewritePaths(f) ==
    [f EXCEPT !.agents = [a \in Agents |->
        IF a \in OldPaths(f) THEN [@[a] EXCEPT !.workspace = "new"] ELSE @[a]]]

Changed(f, c) ==
    CASE c.kind = "agent" -> UpsertAgent(f, c)
      [] c.kind = "default" -> SetDefaultAgent(f, c)
      [] c.kind \in {"channel", "set"} -> SetChannel(f, c)
      [] c.kind = "skills" -> SetDisabled(f, c)
      [] c.kind = "rewrite" -> RewritePaths(f)

---------------------------------------------------------------------------
Chat == {"plan", "apply", "cancel"}
AtRest == {"new", "done", "refused", "lost"}
Moving == {"move", "copy", "copied", "remove"}

Init ==
    /\ file \in InitialFiles
    /\ environment \in Environments
    /\ pending = None
    /\ task = [w \in Workers |-> None]
    /\ pc = [w \in Workers |-> "new"]
    /\ job = [w \in Workers |-> None]
    /\ seen = [w \in Workers |-> None]
    /\ todo = [w \in Workers |-> {}]
    /\ copying = [w \in Workers |-> None]
    /\ old \in BOOLEAN
    /\ serving \in BOOLEAN
    /\ ~old /\ file # None => OldPaths(file) = {}
    /\ serving => ~old /\ file # None /\ Loadable(file)
    /\ oldFiles = IF old THEN Files ELSE {}
    /\ newFiles \in IF old THEN [Files -> {"none", "other"}] ELSE {[f \in Files |-> "whole"]}
    /\ crossing \in IF old THEN BOOLEAN ELSE {FALSE}
    /\ crowded = FALSE /\ ours = FALSE
    /\ faults = 0 /\ stops = 0

Goto(w, step) == pc' = [pc EXCEPT ![w] = step]
Fault == faults < MaxFaults /\ faults' = faults + 1

---------------------------------------------------------------------------
(* Starts of processes and the migration: EnsureStateLayout.               *)

Serve(w) ==
    /\ pc[w] = "new" /\ ~serving
    /\ \A v \in Workers : task[v] = "serve" => pc[v] \in AtRest
    /\ task' = [task EXCEPT ![w] = "serve"]
    /\ Goto(w, "layout")
    /\ UNCHANGED <<config, job, seen, todo, copying, disk, bounds>>

Command(w, c) ==
    /\ pc[w] = "new"
    /\ task' = [task EXCEPT ![w] = "command"]
    /\ job' = [job EXCEPT ![w] = c]
    /\ Goto(w, "layout")
    /\ UNCHANGED <<config, seen, todo, copying, disk, bounds>>

\* Of the commands, the wizard and config channel want a file to exist, as a
\* serving process does; the one on skills loads; the others read what there is.
AfterLayout(w) ==
    CASE task[w] = "serve" -> "ensure"
      [] task[w] # "serve" /\ job[w].kind \in {"channel", "bootstrap"} -> "ensure"
      [] task[w] # "serve" /\ job[w].kind = "skills" -> "load"
      [] OTHER -> "read"

Layout(w) ==
    /\ pc[w] = "layout"
    /\ Goto(w, IF old THEN "move" ELSE AfterLayout(w))
    /\ todo' = [todo EXCEPT ![w] = oldFiles]
    /\ crowded' = (crowded \/ (old /\ \E v \in Workers \ {w} : pc[v] \in Moving))
    /\ UNCHANGED <<config, task, job, seen, copying, old, oldFiles, newFiles, crossing, bounds>>

Moved(w) ==
    /\ UNCHANGED <<config, task, job, seen, old, crossing, crowded, stops>>

\* What is there already stays, and what was to be moved there does, too.
Kept(w, f) ==
    /\ newFiles[f] # "none"
    /\ UNCHANGED <<pc, copying, oldFiles, newFiles>>

Renamed(w, f) ==
    /\ newFiles[f] = "none" /\ ~crossing
    /\ oldFiles' = oldFiles \ {f}
    /\ newFiles' = [newFiles EXCEPT ![f] = "whole"]
    /\ UNCHANGED <<pc, copying>>

\* Between devices a file is copied, and then removed.
CopyBegins(w, f) ==
    /\ newFiles[f] = "none" /\ crossing
    /\ copying' = [copying EXCEPT ![w] = f]
    /\ Goto(w, "copy")
    /\ UNCHANGED <<oldFiles, newFiles>>

\* movePath; what another process has moved meanwhile is an error.
Move(w, f) ==
    /\ pc[w] = "move" /\ f \in todo[w]
    /\ todo' = [todo EXCEPT ![w] = @ \ {f}]
    /\ IF f \in oldFiles THEN Kept(w, f) \/ Renamed(w, f) \/ CopyBegins(w, f)
       ELSE Goto(w, "refused") /\ UNCHANGED <<copying, oldFiles, newFiles>>
    /\ Moved(w) /\ UNCHANGED faults

\* Fault: the old file goes before the new one is written.
CopyFirst(w) ==
    /\ newFiles' = [newFiles EXCEPT ![copying[w]] = "partial"]
    /\ oldFiles' = oldFiles \ {copying[w]}
    /\ Goto(w, "copied")
    /\ UNCHANGED faults

\* copyFile creates the new file, or empties it.
CopyOpen(w) ==
    /\ newFiles' = [newFiles EXCEPT ![copying[w]] = "partial"]
    /\ Goto(w, "copied")
    /\ UNCHANGED <<oldFiles, faults>>

Copy(w) ==
    /\ pc[w] = "copy"
    /\ IF copying[w] \in oldFiles THEN CopyOpen(w)
       ELSE Goto(w, "refused") /\ UNCHANGED <<oldFiles, newFiles, faults>>
    /\ Moved(w) /\ UNCHANGED <<todo, copying>>

Copied(w) ==
    /\ pc[w] = "copied"
    /\ \/ newFiles' = [newFiles EXCEPT ![copying[w]] = "whole"] /\ Goto(w, "remove") /\ UNCHANGED faults
       \/ Fault /\ Goto(w, "refused") /\ UNCHANGED newFiles
    /\ Moved(w) /\ UNCHANGED <<todo, copying, oldFiles>>

Remove(w) ==
    /\ pc[w] = "remove"
    /\ IF copying[w] \in oldFiles THEN Goto(w, "move") ELSE Goto(w, "refused")
    /\ oldFiles' = oldFiles \ {copying[w]}
    /\ copying' = [copying EXCEPT ![w] = None]
    /\ Moved(w) /\ UNCHANGED <<todo, newFiles, faults>>

\* rewriteLegacyWorkspacePathsInConfig: nothing to do without a file or a path
\* below the old root; a file in the flat format ends the start.
RewritePathsIn(w) ==
    /\ pc[w] = "move" /\ todo[w] = {}
    /\ CASE file = None -> Goto(w, "clean") /\ UNCHANGED <<job, seen>>
         [] Unreadable(file) -> Goto(w, "refused") /\ UNCHANGED <<job, seen>>
         [] OTHER ->
              IF OldPaths(file) = {} THEN Goto(w, "clean") /\ UNCHANGED <<job, seen>>
              ELSE /\ seen' = [seen EXCEPT ![w] = file]
                   /\ Goto(w, "rewrite") /\ UNCHANGED job
    /\ UNCHANGED <<config, task, todo, copying, disk, bounds>>

\* The old root goes when it is empty.
Clean(w) ==
    /\ pc[w] = "clean"
    /\ old' = (old /\ oldFiles # {})
    /\ Goto(w, AfterLayout(w))
    /\ UNCHANGED <<config, task, job, seen, todo, copying, oldFiles, newFiles, crossing, crowded, bounds>>

---------------------------------------------------------------------------
(* Reading and writing of config.json.                                     *)

\* What a worker is about to make of the file it has read.
Change(w) == IF pc[w] = "rewrite" THEN Rewrite ELSE job[w]
IsCommand(w, kind) == task[w] = "command" /\ job[w].kind = kind

\* A file is looked for before one is created.
Ensure(w) ==
    /\ pc[w] = "ensure"
    /\ Goto(w, IF file = None THEN "create" ELSE "load")
    /\ UNCHANGED <<config, task, job, seen, todo, copying, disk, bounds>>

\* What a worker does when it has written; the rewriting is part of its start.
AfterWrite(w) ==
    CASE pc[w] = "rewrite" -> "clean"
      [] pc[w] = "create" /\ ~IsCommand(w, "bootstrap") -> "load"
      [] pc[w] = "write" /\ task[w] = "serve" -> "reload"
      [] OTHER -> "done"

\* writeFileSnapshot puts a new file in the place of the old one at once; it
\* can fail before, or afterwards when the directory is not synced.
Put(w, f) ==
    \/ file' = f /\ ours' = TRUE /\ Goto(w, AfterWrite(w)) /\ UNCHANGED faults
    \/ Fault /\ Goto(w, "refused") /\ file' = f /\ ours' = TRUE
    \/ Fault /\ Goto(w, "refused") /\ UNCHANGED <<file, ours>>

\* config channel writes the default; the others ask, when there is a terminal.
Created(w) == IF IsCommand(w, "channel") THEN {DefaultFile} ELSE Bootstraps

Create(w) ==
    /\ pc[w] = "create"
    /\ \E f \in Created(w) : Put(w, f)
    /\ UNCHANGED <<environment, serving, pending, task, job, seen, todo, copying, disk, stops>>

Read(w) ==
    /\ pc[w] = "read"
    /\ IF Unreadable(file) \/ Refuses(ReadFile(file), job[w])
       THEN Goto(w, "refused") /\ UNCHANGED seen
       ELSE Goto(w, "write") /\ seen' = [seen EXCEPT ![w] = file]
    /\ UNCHANGED <<config, task, job, todo, copying, disk, bounds>>

Write(w) ==
    /\ pc[w] \in {"rewrite", "write"}
    /\ Put(w, Changed(ReadFile(seen[w]), Change(w)))
    /\ UNCHANGED <<environment, serving, pending, task, job, seen, todo, copying, disk, stops>>

---------------------------------------------------------------------------
(* Loading, before a process serves or a command changes the file.         *)

Runs(w) == Goto(w, "done") /\ serving' = TRUE /\ UNCHANGED job

\* autoBootstrapDefaultAgentWorkspace: started in the directory of a project,
\* the default agent leaves its suggested, empty workspace for it.
MovesIntoProject(w) ==
    /\ \E a \in Defined(file) :
        /\ a = DefaultAgent(file)
        /\ file.agents[a].workspace = "new"
        /\ job' = [job EXCEPT ![w] =
            [kind |-> "agent", agent |-> a, profile |-> file.agents[a].profile,
             workspace |-> "own", asDefault |-> TRUE]]
    /\ Goto(w, "read")
    /\ UNCHANGED serving

\* The names that the skill command will write are of the file it loads.
Disabled(c) ==
    LET before == IF file = None THEN {} ELSE file.skills.disabled
    IN  IF c.on THEN before \ {c.name} ELSE before \cup {c.name}

Continues(w) ==
    /\ Goto(w, IF job[w].kind = "bootstrap" THEN "create" ELSE "read")
    /\ job' = IF job[w].kind = "skills" THEN [job EXCEPT ![w].names = Disabled(job[w])] ELSE job
    /\ UNCHANGED serving

\* Load looks for the old layout again, in vain: what a start has left there is
\* in the way of nothing.
Load(w) ==
    /\ pc[w] \in {"load", "reload"}
    /\ IF ~Loadable(file) THEN Goto(w, "refused") /\ UNCHANGED <<serving, job>>
       ELSE IF task[w] = "serve" THEN Runs(w) \/ (pc[w] = "load" /\ MovesIntoProject(w))
       ELSE Continues(w)
    /\ UNCHANGED <<file, environment, pending, ours, task, seen, todo, copying, disk, bounds>>

---------------------------------------------------------------------------
(* Plans in the chats of a serving process.                                *)

ChatCommand(w, kind) ==
    /\ pc[w] = "new" /\ serving
    /\ task' = [task EXCEPT ![w] = kind]
    /\ UNCHANGED <<file, environment, serving, ours, seen, todo, copying, disk, bounds>>

\* /config plan: the conversation has one plan, the last.
Plan(w, c) ==
    /\ c.kind \in {"agent", "default"}
    /\ ChatCommand(w, "plan")
    /\ pending' = c
    /\ Goto(w, "done")
    /\ UNCHANGED job

\* /config apply takes the plan before it reads the file; a plan whose writing
\* fails is gone.
Apply(w) ==
    /\ ChatCommand(w, "apply")
    /\ IF pending = None THEN Goto(w, "done") /\ UNCHANGED job
       ELSE Goto(w, "read") /\ job' = [job EXCEPT ![w] = pending]
    /\ pending' = None

Cancel(w) ==
    /\ ChatCommand(w, "cancel")
    /\ pending' = None
    /\ Goto(w, "done")
    /\ UNCHANGED job

---------------------------------------------------------------------------
\* A process of the command line stops, or the serving one with its messages.
Lost(W) == pc' = [w \in Workers |-> IF w \in W THEN "lost" ELSE pc[w]]

Stop ==
    /\ stops < MaxStops /\ stops' = stops + 1
    /\ \/ \E w \in Workers : pc[w] \notin AtRest /\ task[w] \notin Chat /\ Lost({w})
          /\ UNCHANGED <<serving, pending>>
       \/ /\ serving /\ serving' = FALSE /\ pending' = None
          /\ Lost({w \in Workers : pc[w] \notin AtRest /\ task[w] \in Chat})
    /\ UNCHANGED <<file, environment, ours, task, job, seen, todo, copying, disk, faults>>

Next ==
    \/ \E w \in Workers :
        \/ Serve(w)
        \/ \E c \in Asked : Command(w, c) \/ Plan(w, c)
        \/ Layout(w)
        \/ \E f \in Files : Move(w, f)
        \/ Copy(w) \/ Copied(w) \/ Remove(w)
        \/ RewritePathsIn(w) \/ Clean(w)
        \/ Ensure(w) \/ Create(w) \/ Read(w) \/ Write(w)
        \/ Load(w)
        \/ Apply(w) \/ Cancel(w)
    \/ Stop

Spec == Init /\ [][Next]_vars

---------------------------------------------------------------------------
\* Every switch of a file is given, and what else a writer would fill in.
Explicit(f) ==
    /\ ~f.flat /\ f.skills.enabled # None
    /\ \A p \in Platforms : LET channel == f.channels[p] IN channel # None =>
        /\ channel.enabled # None /\ channel.mention # None
        /\ p \in Native \ {"discord"} => channel.agent # None /\ channel.mode # None
        /\ \A n \in DOMAIN channel.instances :
            channel.instances[n].enabled # None /\ channel.instances[n].mention # None

\* The types of the workers' state; and a file that ClawX has written, by
\* whatever command, leaves nothing to a default that a later reading and
\* writing would turn into something else.
ConfigTypeOK ==
    /\ \A w \in Workers :
        /\ task[w] \in {None, "serve", "command"} \cup Chat
        /\ pc[w] \in AtRest \cup Moving \cup
            {"layout", "rewrite", "clean", "ensure", "create", "read", "write", "load", "reload"}
        /\ todo[w] \subseteq Files
    /\ oldFiles \subseteq Files /\ newFiles \in [Files -> {"none", "other", "partial", "whole"}]
    /\ ours => file # None /\ Explicit(file)

\* The migration of the old layout, cut short wherever a process stops or fails:
\* every file is complete in the old root or the new one, unless two processes
\* have moved files at once; what was in the new root is not touched; and when
\* the old root is gone, no agent works below it.
MigrationKeepsAll ==
    /\ [](crowded \/ \A f \in Files : f \in oldFiles \/ newFiles[f] = "whole")
    /\ [](old \/ file = None \/ OldPaths(file) = {})
    /\ [][\A f \in Files : newFiles[f] = "other" => newFiles'[f] = "other"]_vars

Touches(c, p) == c.kind \in {"channel", "set"} /\ c.platform = p
Writes(w) == pc[w] \in {"rewrite", "write"} /\ pc'[w] # pc[w] /\ file' # file
Base(w) == IF seen[w] = None THEN DefaultFile ELSE seen[w]

\* A command writes what it has made of the file it has read.  When that gives
\* every switch, the new file means the same but for what the command is about:
\* no other channel's bots, nor the skills, nor another agent are changed, and the
\* default agent is what it was or the one that the command is about.  The
\* commands on agents and skills, and the migration, leave a file that loads one
\* that loads, unless it has no agents: then a channel that names main is refused
\* as soon as there is another.
WritesKeepMeaning ==
    [][\A w \in Workers : Writes(w) /\ Explicit(Base(w)) =>
        LET c == Change(w)
            base == Base(w)
        IN  /\ \A p \in Platforms :
                \/ Touches(c, p)
                \/ Bots(file', p) = Bots(base, p) /\ IsEnabled(file', p) = IsEnabled(base, p)
            /\ c.kind # "skills" => file'.skills.disabled = base.skills.disabled
            /\ SkillsEnabled(file') = SkillsEnabled(base)
            /\ \A a \in Agents : \/ file'.agents[a] = base.agents[a]
                                 \/ c.kind = "agent" /\ c.agent = a
                                 \/ c.kind = "rewrite" /\ a \in OldPaths(base)
            /\ \/ DefaultAgent(file') = DefaultAgent(base)
               \/ c.kind \in {"agent", "default"} /\ DefaultAgent(file') = c.agent
            /\ c.kind \notin {"channel", "set"} /\ Loadable(base) /\ Defined(base) # {} =>
                 Loadable(file')]_vars
=============================================================================
