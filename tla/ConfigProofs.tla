---------------------------- MODULE ConfigProofs ----------------------------
(***************************************************************************)
(* Theorems about Config, for every set of agents, profiles, channels,     *)
(* files to move, workers, initial files and wishes of the users, with any *)
(* number of failures and stops: its types, that the migration of the old  *)
(* layout loses nothing, and that a write keeps what it is not about.      *)
(***************************************************************************)
EXTENDS Config, TLAPS

Steps == AtRest \cup Moving \cup
    {"layout", "rewrite", "clean", "ensure", "create", "read", "write", "load", "reload"}

NewFiles == {"none", "other", "partial", "whole"}

\* The steps of a start, and of the command line.
Started == Moving \cup {"layout", "rewrite", "clean", "ensure", "create", "load", "reload"}

ConfigTyped ==
    /\ file = None \/ IsFile(file)
    /\ environment \in [Platforms -> Switch]
    /\ pending = None \/ (IsChange(pending) /\ pending.kind \in {"agent", "default"})
    /\ task \in [Workers -> {None, "serve", "command"} \cup Chat]
    /\ pc \in [Workers -> Steps]
    /\ DOMAIN job = Workers
    /\ DOMAIN seen = Workers /\ \A w \in Workers : seen[w] = None \/ IsFile(seen[w])
    /\ todo \in [Workers -> SUBSET Files]
    /\ copying \in [Workers -> Files \cup {None}]
    /\ old \in BOOLEAN /\ serving \in BOOLEAN /\ crossing \in BOOLEAN
    /\ crowded \in BOOLEAN /\ ours \in BOOLEAN
    /\ oldFiles \subseteq Files
    /\ newFiles \in [Files -> NewFiles]

-----------------------------------------------------------------------------
(* The migration.                                                          *)

AtAFile(w) == pc[w] \in {"copy", "copied", "remove"}

\* What a worker is copying was not there when it began.
OthersStay == \A w \in Workers : AtAFile(w) => copying[w] \in Files /\ newFiles[copying[w]] # "other"

Lone == \A v, w \in Workers : pc[v] \in Moving /\ pc[w] \in Moving => v = w

\* Of one that moves files alone, the old file goes after the new one is complete.
Complete ==
    /\ Lone
    /\ \A f \in Files : f \in oldFiles \/ newFiles[f] = "whole"
    /\ \A w \in Workers : /\ pc[w] = "copied" => copying[w] \in oldFiles
                          /\ pc[w] = "remove" => newFiles[copying[w]] = "whole"

Moves == OthersStay /\ (crowded \/ Complete)

-----------------------------------------------------------------------------
(* Workspaces of the old layout.  Whoever is past the rewriting has found  *)
(* none, and what it has read names none.                                  *)

Past == {"clean", "ensure", "create", "read", "write", "load", "reload"}

NoOld(f) == f = None \/ OldPaths(f) = {}

Rewrites ==
    /\ ~old \/ serving => NoOld(file)
    /\ \A w \in Workers : /\ pc[w] \in Past => NoOld(file)
                          /\ pc[w] = "write" => NoOld(seen[w])

-----------------------------------------------------------------------------
(* What a worker is about.                                                 *)

\* A change that is made of what was read, and that was not refused then.
Justified(w) ==
    /\ pc[w] \in Started => /\ task[w] \in {"serve", "command"}
                            /\ task[w] = "command" => IsChange(job[w])
    /\ pc[w] \in {"read", "write"} => IsChange(job[w]) /\ job[w].kind # "bootstrap"
    /\ pc[w] = "rewrite" => seen[w] # None
    /\ pc[w] \in {"rewrite", "write"} => ~Unreadable(seen[w])
    /\ pc[w] = "write" => ~Refuses(ReadFile(seen[w]), job[w])
    /\ pc[w] \in {"load", "reload"} /\ task[w] = "serve" => file # None

Changes ==
    /\ \A w \in Workers : Justified(w)
    /\ ours => file # None /\ Explicit(file)

ConfigIInv == ConfigTyped /\ Moves /\ Rewrites /\ Changes

-----------------------------------------------------------------------------
(* What a writer makes of a file.                                          *)

LEMMA SwitchOr ==
  ASSUME NEW x \in Switch, NEW d \in BOOLEAN
  PROVE  Or(x, d) \in BOOLEAN /\ Or(x, d) # None /\ Or(x, d) \in Switch /\ (x # None => Or(x, d) = x)
  BY ConfigConstants DEF Or, Switch

LEMMA DecodedIsInstance ==
  ASSUME NEW i \in Instance
  PROVE  /\ Decoded(i) \in Instance /\ Decoded(i).enabled \in BOOLEAN
         /\ Decoded(i).enabled # None /\ Decoded(i).mention # None
         /\ Decoded(i).mode = i.mode /\ Decoded(i).agent = i.agent /\ Decoded(i).ready = i.ready
         /\ i.enabled # None => Decoded(i).enabled = i.enabled
         /\ i.mention # None => Decoded(i).mention = i.mention
<1>1. i.enabled \in Switch /\ i.mention \in Switch
  BY DEF Instance
<1>2. PICK a \in Switch, b \in Switch : a = Or(i.enabled, FALSE) /\ b = Or(i.mention, FALSE)
  BY <1>1, SwitchOr
<1>3. Decoded(i) = [i EXCEPT !.enabled = a, !.mention = b]
  BY <1>2 DEF Decoded
<1>4. /\ a # None /\ b # None /\ a \in BOOLEAN
      /\ i.enabled # None => a = i.enabled
      /\ i.mention # None => b = i.mention
  BY <1>1, <1>2, SwitchOr
<1>5. /\ Decoded(i) \in Instance /\ Decoded(i).enabled = a /\ Decoded(i).mention = b
      /\ Decoded(i).mode = i.mode /\ Decoded(i).agent = i.agent /\ Decoded(i).ready = i.ready
  BY <1>3 DEF Instance
<1>. QED BY <1>4, <1>5

LEMMA RewrittenParts ==
  ASSUME NEW f \in ConfigFile, NEW g, g = Rewritten(f)
  PROVE  /\ g.flat = f.flat /\ g.profiles = f.profiles /\ g.default = f.default /\ g.agents = f.agents
         /\ g.flagged = f.flagged
         /\ g.skills.disabled = f.skills.disabled
         /\ g.skills.enabled = Or(f.skills.enabled, FALSE)
         /\ \A p \in Platforms : g.channels[p] = IF f.channels[p] = None THEN None
                                                 ELSE RewrittenChannel(p, f.channels[p])
<1>. DEFINE channels == [p \in Platforms |-> IF f.channels[p] = None THEN None
                                             ELSE RewrittenChannel(p, f.channels[p])]
            enabled == Or(f.skills.enabled, FALSE)
<1>1. g = [f EXCEPT !.channels = channels, !.skills.enabled = enabled]
  BY DEF Rewritten
<1>2. \A p \in Platforms : channels[p] = IF f.channels[p] = None THEN None
                                         ELSE RewrittenChannel(p, f.channels[p])
  OBVIOUS
<1>. HIDE DEF channels, enabled
<1>3. /\ g.flat = f.flat /\ g.profiles = f.profiles /\ g.default = f.default /\ g.agents = f.agents
      /\ g.flagged = f.flagged
      /\ g.channels = channels /\ g.skills.disabled = f.skills.disabled
      /\ g.skills.enabled = enabled
  BY <1>1 DEF ConfigFile
<1>. QED BY <1>2, <1>3 DEF enabled

LEMMA FilledIsInstance ==
  ASSUME NEW p, NEW channel \in Channel, NEW i \in Instance
  PROVE  /\ Filled(p, channel, i) \in Instance
         /\ Filled(p, channel, i).enabled \in BOOLEAN
         /\ Filled(p, channel, i).enabled # None /\ Filled(p, channel, i).mention # None
         /\ i.enabled # None => Filled(p, channel, i).enabled = i.enabled
         /\ i.mention # None => Filled(p, channel, i).mention = i.mention
         /\ Filled(p, channel, i).mode = i.mode /\ Filled(p, channel, i).ready = i.ready
         /\ Filled(p, channel, i).agent = IF p \in Native THEN i.agent
                                          ELSE Or(i.agent, Or(channel.agent, Main))
<1>1. CASE p \in Native
  BY <1>1, DecodedIsInstance DEF Filled
<1>2. CASE p \notin Native
  <2>1. PICK d \in Instance : d = Decoded(i)
    BY DecodedIsInstance
  <2>2. PICK a \in Agents \cup {None} : a = Or(i.agent, Or(channel.agent, Main))
    BY ConfigConstants DEF Or, Channel, Instance
  <2>3. d.agent = i.agent
    BY <2>1, DecodedIsInstance
  <2>4. Filled(p, channel, i) = [d EXCEPT !.agent = a]
    BY <1>2, <2>1, <2>2, <2>3 DEF Filled
  <2>5. /\ Filled(p, channel, i) \in Instance /\ Filled(p, channel, i).agent = a
        /\ Filled(p, channel, i).enabled = d.enabled /\ Filled(p, channel, i).mention = d.mention
        /\ Filled(p, channel, i).mode = d.mode /\ Filled(p, channel, i).ready = d.ready
    BY <2>4 DEF Instance
  <2>. QED BY <1>2, <2>1, <2>2, <2>5, DecodedIsInstance
<1>. QED BY <1>1, <1>2

FilledAll(p, channel, s) ==
    /\ s \in Seq(Instance) /\ DOMAIN s = DOMAIN channel.instances
    /\ \A n \in DOMAIN s : s[n] = Filled(p, channel, channel.instances[n]) /\ channel.instances[n] \in Instance
    /\ s = <<>> <=> channel.instances = <<>>

LEMMA FilledSequence ==
  ASSUME NEW p, NEW channel \in Channel, NEW s,
         s = [n \in DOMAIN channel.instances |-> Filled(p, channel, channel.instances[n])]
  PROVE  FilledAll(p, channel, s)
<1>1. channel.instances \in Seq(Instance)
  BY DEF Channel
<1>2. PICK k \in Nat : DOMAIN channel.instances = 1..k /\ channel.instances \in [1..k -> Instance]
  BY <1>1
<1>3. \A n \in 1..k : channel.instances[n] \in Instance /\ Filled(p, channel, channel.instances[n]) \in Instance
  BY <1>2, FilledIsInstance
<1>4. s \in [1..k -> Instance]
  BY <1>2, <1>3
<1>5. s \in Seq(Instance) /\ Len(s) = k /\ Len(channel.instances) = k
  BY <1>1, <1>2, <1>4
<1>6. s = <<>> <=> channel.instances = <<>>
  BY <1>1, <1>5
<1>. QED BY <1>2, <1>3, <1>4, <1>5, <1>6 DEF FilledAll

IsRewritten(p, channel, r) ==
    /\ r \in Channel
    /\ r.enabled \in BOOLEAN /\ r.mention = Or(channel.mention, FALSE)
    /\ r.mode = IF p = "discord" THEN channel.mode ELSE Or(channel.mode, DefaultMode(p))
    /\ r.agent = IF p = "discord" THEN channel.agent ELSE Or(channel.agent, Main)
    /\ r.ready = channel.ready
    /\ FilledAll(p, channel, r.instances)
    /\ p \in Native \/ channel.instances = <<>> => r.enabled = Or(channel.enabled, FALSE)

LEMMA RewrittenChannelParts ==
  ASSUME NEW p \in Platforms, NEW channel \in Channel, NEW r, r = RewrittenChannel(p, channel)
  PROVE  IsRewritten(p, channel, r)
<1>. DEFINE instances == [n \in DOMAIN channel.instances |-> Filled(p, channel, channel.instances[n])]
            enabled == RewrittenSwitch(p, channel, instances)
            mention == Or(channel.mention, FALSE)
            mode == IF p = "discord" THEN channel.mode ELSE Or(channel.mode, DefaultMode(p))
            agent == IF p = "discord" THEN channel.agent ELSE Or(channel.agent, Main)
<1>1. r = [enabled |-> enabled, mention |-> mention, mode |-> mode, agent |-> agent,
           ready |-> channel.ready, instances |-> instances]
  BY DEF RewrittenChannel
<1>2. FilledAll(p, channel, instances) /\ instances \in Seq(Instance)
  <2>1. PICK s : s = instances
    OBVIOUS
  <2>2. FilledAll(p, channel, s)
    BY <2>1, FilledSequence
  <2>. QED BY <2>1, <2>2 DEF FilledAll
<1>3. mention \in Switch /\ Or(channel.enabled, FALSE) \in BOOLEAN
  BY SwitchOr DEF Channel
<1>4. enabled \in BOOLEAN
  BY DEF RewrittenSwitch
<1>5. mode \in Mode /\ agent \in Agents \cup {None} /\ channel.ready \in BOOLEAN
  BY ConfigConstants DEF Channel, Or, DefaultMode, Mode
<1>6. p \in Native \/ channel.instances = <<>> => (enabled <=> Or(channel.enabled, FALSE))
  <2>1. CASE p \in Native
    BY <2>1 DEF RewrittenSwitch
  <2>2. CASE channel.instances = <<>>
    <3>1. DOMAIN instances = {}
      BY <2>2
    <3>. QED BY <3>1 DEF RewrittenSwitch
  <2>. QED BY <2>1, <2>2
<1>. HIDE DEF instances, enabled, mention, mode, agent
<1>7. enabled \in Switch
  BY <1>4 DEF Switch
<1>8. r \in Channel
  BY <1>1, <1>2, <1>3, <1>5, <1>7 DEF Channel
<1>9. p \in Native \/ channel.instances = <<>> => enabled = Or(channel.enabled, FALSE)
  BY <1>3, <1>4, <1>6
<1>10. /\ r.enabled = enabled /\ r.mention = mention /\ r.mode = mode /\ r.agent = agent
       /\ r.ready = channel.ready /\ r.instances = instances
  BY <1>1
<1>. QED BY <1>2, <1>4, <1>8, <1>9, <1>10 DEF IsRewritten, mention, mode, agent

-----------------------------------------------------------------------------
(* What a file means after it was read and written.                        *)

ExplicitChannel(p, channel) ==
    /\ channel.enabled # None /\ channel.mention # None
    /\ p \in Native \ {"discord"} => channel.agent # None /\ channel.mode # None
    /\ \A n \in DOMAIN channel.instances :
        channel.instances[n].enabled # None /\ channel.instances[n].mention # None

LEMMA ExplicitParts ==
  ASSUME NEW f
  PROVE  Explicit(f) <=> /\ ~f.flat /\ f.skills.enabled # None
                         /\ \A p \in Platforms :
                              f.channels[p] # None => ExplicitChannel(p, f.channels[p])
  BY DEF Explicit, ExplicitChannel

\* What a writer fills in is explicit.
LEMMA RewrittenIsExplicit ==
  ASSUME NEW p \in Platforms, NEW channel \in Channel
  PROVE  ExplicitChannel(p, RewrittenChannel(p, channel))
<1>1. PICK r : r = RewrittenChannel(p, channel) /\ IsRewritten(p, channel, r)
  BY RewrittenChannelParts
<1>2. r.enabled # None /\ r.mention # None
  BY <1>1, SwitchOr, ConfigConstants DEF Channel, IsRewritten
<1>3. p \in Native \ {"discord"} => r.agent # None /\ r.mode # None
  BY <1>1, ConfigConstants DEF IsRewritten, Or, DefaultMode
<1>4. ASSUME NEW n \in DOMAIN r.instances
      PROVE  r.instances[n].enabled # None /\ r.instances[n].mention # None
  <2>1. channel.instances[n] \in Instance /\ r.instances[n] = Filled(p, channel, channel.instances[n])
    BY <1>1 DEF IsRewritten, FilledAll
  <2>2. /\ Filled(p, channel, channel.instances[n]).enabled # None
        /\ Filled(p, channel, channel.instances[n]).mention # None
    BY <2>1, FilledIsInstance
  <2>. QED BY <2>1, <2>2
<1>. QED BY <1>1, <1>2, <1>3, <1>4 DEF ExplicitChannel

LEMMA ListedStays ==
  ASSUME NEW p \in Platforms, NEW channel \in Channel, ExplicitChannel(p, channel),
         NEW n \in DOMAIN channel.instances
  PROVE  Listed(p, RewrittenChannel(p, channel), Filled(p, channel, channel.instances[n]))
           = Listed(p, channel, channel.instances[n])
<1>1. PICK r : r = RewrittenChannel(p, channel) /\ IsRewritten(p, channel, r)
  BY RewrittenChannelParts
<1>2. PICK i \in Instance : i = channel.instances[n]
  BY <1>1 DEF IsRewritten, FilledAll
<1>3. i.enabled # None /\ i.mention # None
  BY <1>2 DEF ExplicitChannel
<1>4. PICK d \in Instance :
        /\ d = Filled(p, channel, i) /\ d.enabled = i.enabled /\ d.mention = i.mention
        /\ d.mode = i.mode /\ d.ready = i.ready
        /\ d.agent = IF p \in Native THEN i.agent ELSE Or(i.agent, Or(channel.agent, Main))
  BY <1>3, FilledIsInstance
<1>5. CASE p \in Native
  <2>1. r.agent = channel.agent
    BY <1>1, <1>5 DEF IsRewritten, ExplicitChannel, Or
  <2>2. d.agent = i.agent
    BY <1>4, <1>5
  <2>. QED BY <1>1, <1>2, <1>4, <1>5, <2>1, <2>2 DEF Listed
<1>6. CASE p \notin Native
  <2>1. Or(d.agent, Or(r.agent, Main)) = Or(i.agent, Or(channel.agent, Main))
    BY <1>1, <1>4, <1>6, ConfigConstants DEF IsRewritten, Or, Native
  <2>. QED BY <1>1, <1>2, <1>4, <1>6, <2>1 DEF Listed
<1>. QED BY <1>5, <1>6

LEMMA SingleStays ==
  ASSUME NEW p \in Platforms, p \in Native, NEW channel \in Channel, ExplicitChannel(p, channel)
  PROVE  /\ Single(p, RewrittenChannel(p, channel)) = Single(p, channel)
         /\ IsGiven(p, RewrittenChannel(p, channel)) <=> IsGiven(p, channel)
<1>1. PICK r : r = RewrittenChannel(p, channel) /\ IsRewritten(p, channel, r)
  BY RewrittenChannelParts
<1>2. r.enabled = channel.enabled /\ r.mention = channel.mention
  BY <1>1, SwitchOr DEF IsRewritten, ExplicitChannel, Channel
<1>3. r.mode = channel.mode /\ r.agent = channel.agent
  BY <1>1 DEF IsRewritten, ExplicitChannel, Or
<1>4. Switched(p, r) = Switched(p, channel)
  BY <1>2 DEF Switched
<1>5. Single(p, r) = Single(p, channel)
  BY <1>1, <1>2, <1>3, <1>4 DEF IsRewritten, Single
<1>6. IsGiven(p, r) <=> IsGiven(p, channel)
  BY <1>1, <1>3, <1>4 DEF IsRewritten, IsGiven
<1>. QED BY <1>1, <1>5, <1>6

LEMMA BotsStay ==
  ASSUME NEW f \in ConfigFile, Explicit(f), NEW p \in Platforms, NEW g, g = Rewritten(f)
  PROVE  Bots(g, p) = Bots(f, p)
<1>1. CASE f.channels[p] = None
  <2>1. g.channels[p] = None
    BY <1>1, RewrittenParts
  <2>. QED BY <1>1, <2>1 DEF Bots
<1>2. CASE f.channels[p] # None
  <2>1. PICK c \in Channel : c = f.channels[p] /\ ExplicitChannel(p, c)
    BY <1>2, ExplicitParts DEF ConfigFile
  <2>2. PICK r : r = RewrittenChannel(p, c) /\ IsRewritten(p, c, r)
    BY RewrittenChannelParts
  <2>3. r = g.channels[p]
    BY <1>2, <2>1, <2>2, RewrittenParts
  <2>4. r # None /\ FilledAll(p, c, r.instances)
    BY <2>2, ConfigConstants DEF IsRewritten
  <2>5. CASE c.instances = <<>>
    <3>1. Bots(f, p) = IF p \in Native /\ IsGiven(p, c) THEN <<Single(p, c)>> ELSE <<>>
      BY <1>2, <2>1, <2>5 DEF Bots
    <3>2. Bots(g, p) = IF p \in Native /\ IsGiven(p, r) THEN <<Single(p, r)>> ELSE <<>>
      BY <2>3, <2>4, <2>5 DEF Bots, FilledAll
    <3>3. CASE p \in Native
      <4>1. Single(p, r) = Single(p, c) /\ (IsGiven(p, r) <=> IsGiven(p, c))
        BY <2>1, <2>2, <3>3, SingleStays
      <4>. QED BY <3>1, <3>2, <4>1
    <3>. QED BY <3>1, <3>2, <3>3
  <2>6. CASE c.instances # <<>>
    <3>1. Bots(f, p) = [n \in DOMAIN c.instances |-> Listed(p, c, c.instances[n])]
      BY <1>2, <2>1, <2>6 DEF Bots
    <3>2. Bots(g, p) = [n \in DOMAIN r.instances |-> Listed(p, r, r.instances[n])]
      BY <2>3, <2>4, <2>6 DEF Bots, FilledAll
    <3>3. ASSUME NEW n \in DOMAIN c.instances
          PROVE  Listed(p, r, r.instances[n]) = Listed(p, c, c.instances[n])
      <4>1. r.instances[n] = Filled(p, c, c.instances[n])
        BY <2>4 DEF FilledAll
      <4>2. Listed(p, RewrittenChannel(p, c), Filled(p, c, c.instances[n])) = Listed(p, c, c.instances[n])
        BY <2>1, ListedStays
      <4>. QED BY <2>2, <4>1, <4>2
    <3>4. DOMAIN r.instances = DOMAIN c.instances
      BY <2>4 DEF FilledAll
    <3>. QED BY <3>1, <3>2, <3>3, <3>4
  <2>. QED BY <2>5, <2>6
<1>. QED BY <1>1, <1>2

LEMMA EnabledStays ==
  ASSUME NEW f \in ConfigFile, Explicit(f), NEW p \in Platforms, NEW g, g = Rewritten(f)
  PROVE  IsEnabled(g, p) <=> IsEnabled(f, p)
<1>1. Bots(g, p) = Bots(f, p)
  BY BotsStay
<1>2. CASE f.channels[p] = None
  <2>1. g.channels[p] = None
    BY <1>2, RewrittenParts
  <2>. QED BY <1>1, <1>2, <2>1 DEF IsEnabled
<1>3. CASE f.channels[p] # None /\ p \notin Native /\ Bots(f, p) = <<>>
  <2>1. PICK c \in Channel : c = f.channels[p] /\ ExplicitChannel(p, c)
    BY <1>3, ExplicitParts DEF ConfigFile
  <2>2. c.instances = <<>>
    <3>. SUFFICES ASSUME c.instances # <<>> PROVE FALSE
      OBVIOUS
    <3>1. Bots(f, p) = [n \in DOMAIN c.instances |-> Listed(p, c, c.instances[n])]
      BY <1>3, <2>1 DEF Bots
    <3>2. c.instances \in Seq(Instance)
      BY DEF Channel
    <3>3. DOMAIN c.instances = {}
      BY <1>3, <3>1
    <3>4. Len(c.instances) \in Nat /\ DOMAIN c.instances = 1..Len(c.instances)
      BY <3>2
    <3>5. 1 \notin 1..Len(c.instances)
      BY <3>3, <3>4
    <3>6. Len(c.instances) = 0
      BY <3>4, <3>5
    <3>. QED BY <3>2, <3>6
  <2>3. PICK r : r = RewrittenChannel(p, c) /\ IsRewritten(p, c, r)
    BY RewrittenChannelParts
  <2>4. r = g.channels[p]
    BY <1>3, <2>1, <2>3, RewrittenParts
  <2>5. r # None /\ r.enabled = c.enabled
    BY <2>1, <2>2, <2>3, SwitchOr, ConfigConstants DEF IsRewritten, Channel, ExplicitChannel
  <2>. QED BY <1>1, <1>3, <2>1, <2>4, <2>5 DEF IsEnabled
<1>4. CASE p \in Native \/ Bots(f, p) # <<>>
  BY <1>1, <1>4 DEF IsEnabled
<1>. QED BY <1>2, <1>3, <1>4

-----------------------------------------------------------------------------
(* Files that are read, or made.                                           *)

\* The file that a change starts from.
Origin(s) == IF s = None THEN DefaultFile ELSE s

LEMMA DefaultIsFile == IsFile(DefaultFile) /\ Explicit(DefaultFile) /\ NoOld(DefaultFile)
<1>. DEFINE agents == [a \in Agents |-> IF a = Main THEN [profile |-> Codex, workspace |-> "new"] ELSE None]
            section(p) == [enabled |-> FALSE, mention |-> TRUE, mode |-> DefaultMode(p), agent |-> Main,
                           ready |-> FALSE, instances |-> <<>>]
            channels == [p \in Platforms |-> IF p \notin Native THEN None ELSE section(p)]
            skills == [enabled |-> TRUE, disabled |-> {}]
<1>1. DefaultFile = [flat |-> FALSE, profiles |-> Profiles, default |-> Main, flagged |-> Main,
                     agents |-> agents,
                     channels |-> channels, skills |-> skills]
  BY DEF DefaultFile
<1>2. agents \in [Agents -> Agent \cup {None}]
  BY ConfigConstants DEF Agent
<1>3. ASSUME NEW p \in Platforms PROVE section(p) \in Channel /\ ExplicitChannel(p, section(p))
  <2>1. <<>> \in Seq(Instance) /\ DOMAIN <<>> = {}
    OBVIOUS
  <2>2. DefaultMode(p) \in Mode /\ DefaultMode(p) # None
    BY ConfigConstants DEF DefaultMode, Mode
  <2>3. PICK s \in Seq(Instance) : s = <<>>
    BY <2>1
  <2>4. section(p) = [enabled |-> FALSE, mention |-> TRUE, mode |-> DefaultMode(p), agent |-> Main,
                      ready |-> FALSE, instances |-> s]
    BY <2>3
  <2>5. section(p) \in Channel
    BY <2>2, <2>4, ConfigConstants DEF Channel, Switch
  <2>6. ExplicitChannel(p, section(p))
    BY <2>1, <2>2, ConfigConstants DEF ExplicitChannel
  <2>. QED BY <2>5, <2>6
<1>. HIDE DEF section
<1>4. channels \in [Platforms -> Channel \cup {None}]
  BY <1>3
<1>5. skills \in [enabled : Switch, disabled : SUBSET Skills]
  BY DEF Switch
<1>6. DefaultFile \in ConfigFile
  <2>. HIDE DEF agents, channels, skills
  <2>. QED BY <1>1, <1>2, <1>4, <1>5, ConfigConstants DEF ConfigFile
<1>7. \A p \in Platforms : channels[p] = IF p \notin Native THEN None ELSE section(p)
  OBVIOUS
<1>8. \A p \in Platforms : DefaultFile.channels[p] = IF p \notin Native THEN None ELSE section(p)
  BY <1>1, <1>7
<1>9. IsFile(DefaultFile)
  <2>1. [profile |-> Codex, workspace |-> "new"] \in Agent
    BY ConfigConstants DEF Agent
  <2>2. DefaultFile.flagged = Main /\ DefaultFile.agents = agents
    BY <1>1
  <2>3. agents[Main] # None
    BY <2>1, ConfigConstants
  <2>. QED BY <1>3, <1>6, <1>8, <2>2, <2>3, ConfigConstants DEF IsFile
<1>10. Explicit(DefaultFile)
  <2>1. ~DefaultFile.flat /\ DefaultFile.skills.enabled # None
    BY <1>1, ConfigConstants
  <2>. QED BY <2>1, <1>3, <1>8, ExplicitParts
<1>11. NoOld(DefaultFile)
  BY <1>1 DEF NoOld, OldPaths, Defined
<1>. QED BY <1>9, <1>10, <1>11

\* What reading leaves as it is.
Alike(f, g) ==
    /\ g.profiles = f.profiles /\ g.default = f.default /\ g.agents = f.agents
    /\ g.flagged = f.flagged
    /\ g.skills.disabled = f.skills.disabled
    /\ Explicit(f) => /\ \A p \in Platforms : Bots(g, p) = Bots(f, p) /\ (IsEnabled(g, p) <=> IsEnabled(f, p))
                      /\ SkillsEnabled(g) = SkillsEnabled(f)

LEMMA ReadFileParts ==
  ASSUME NEW s, s = None \/ IsFile(s), NEW g, g = ReadFile(s)
  PROVE  /\ IsFile(g) /\ Alike(Origin(s), g)
         /\ ~Unreadable(s) => Explicit(g)
         /\ NoOld(s) => NoOld(g)
<1>1. CASE s = None
  <2>1. g = DefaultFile /\ Origin(s) = DefaultFile
    BY <1>1 DEF ReadFile, Origin
  <2>2. Alike(DefaultFile, DefaultFile)
    BY DEF Alike
  <2>. QED BY <2>1, <2>2, DefaultIsFile
<1>2. CASE s # None
  <2>1. g = Rewritten(s) /\ Origin(s) = s /\ IsFile(s) /\ s \in ConfigFile
    BY <1>2 DEF ReadFile, Origin, IsFile
  <2>2. /\ g.flat = s.flat /\ g.profiles = s.profiles /\ g.default = s.default /\ g.agents = s.agents
        /\ g.flagged = s.flagged
        /\ g.skills.disabled = s.skills.disabled
        /\ g.skills.enabled = Or(s.skills.enabled, FALSE)
        /\ \A p \in Platforms : g.channels[p] = IF s.channels[p] = None THEN None
                                                ELSE RewrittenChannel(p, s.channels[p])
    BY <2>1, RewrittenParts
  <2>3. ASSUME NEW p \in Platforms, s.channels[p] # None
        PROVE  g.channels[p] \in Channel /\ g.channels[p] # None /\ ExplicitChannel(p, g.channels[p])
    <3>1. PICK c \in Channel : c = s.channels[p]
      BY <2>1, <2>3 DEF ConfigFile
    <3>2. PICK r : r = RewrittenChannel(p, c) /\ IsRewritten(p, c, r)
      BY RewrittenChannelParts
    <3>3. r \in Channel /\ r = g.channels[p] /\ r # None
      BY <2>2, <2>3, <3>1, <3>2, ConfigConstants DEF IsRewritten
    <3>4. ExplicitChannel(p, r)
      BY <3>2, RewrittenIsExplicit
    <3>. QED BY <3>3, <3>4
  <2>4. s.skills \in [enabled : Switch, disabled : SUBSET Skills]
    BY <2>1 DEF ConfigFile
  <2>5. g.skills.enabled \in Switch /\ g.skills.enabled # None
    BY <2>2, <2>4, SwitchOr
  <2>6. IsFile(g)
    <3>. DEFINE channels == [p \in Platforms |-> IF s.channels[p] = None THEN None
                                                 ELSE RewrittenChannel(p, s.channels[p])]
                enabled == Or(s.skills.enabled, FALSE)
    <3>1. g = [s EXCEPT !.channels = channels, !.skills.enabled = enabled]
      BY <2>1 DEF Rewritten
    <3>2. channels \in [Platforms -> Channel \cup {None}]
      BY <2>2, <2>3
    <3>3. enabled \in Switch
      BY <2>4, SwitchOr
    <3>. HIDE DEF channels, enabled
    <3>4. g \in ConfigFile
      BY <2>1, <3>1, <3>2, <3>3 DEF ConfigFile
    <3>. QED BY <2>1, <2>2, <2>3, <3>4 DEF IsFile
  <2>7. Explicit(s) => SkillsEnabled(g) = SkillsEnabled(s)
    <3>. SUFFICES ASSUME Explicit(s) PROVE g.skills.enabled = s.skills.enabled
      BY DEF SkillsEnabled
    <3>1. s.skills.enabled # None
      BY ExplicitParts
    <3>. QED BY <2>2, <2>4, <3>1, SwitchOr
  <2>8. Alike(s, g)
    BY <2>1, <2>2, <2>7, BotsStay, EnabledStays DEF Alike
  <2>9. ~Unreadable(s) => Explicit(g)
    <3>. SUFFICES ASSUME ~Unreadable(s) PROVE Explicit(g)
      OBVIOUS
    <3>1. ~g.flat
      BY <1>2, <2>2 DEF Unreadable
    <3>2. \A p \in Platforms : g.channels[p] # None => ExplicitChannel(p, g.channels[p])
      BY <2>2, <2>3
    <3>. QED BY <2>5, <3>1, <3>2, ExplicitParts
  <2>10. NoOld(s) => NoOld(g)
    BY <1>2, <2>2 DEF NoOld, OldPaths, Defined
  <2>. QED BY <2>1, <2>6, <2>8, <2>9, <2>10
<1>. QED BY <1>1, <1>2

-----------------------------------------------------------------------------
(* What a change does to a file.                                           *)

\* The parts that a change is not about.
Keeps(f, h, c) ==
    /\ \A p \in Platforms : Touches(c, p) \/ h.channels[p] = f.channels[p]
    /\ c.kind # "skills" => h.skills.disabled = f.skills.disabled
    /\ h.skills.enabled = f.skills.enabled /\ h.profiles = f.profiles /\ h.flat = f.flat
    /\ \A a \in Agents : \/ h.agents[a] = f.agents[a]
                         \/ c.kind = "agent" /\ c.agent = a
                         \/ c.kind = "rewrite" /\ a \in OldPaths(f)
    /\ \/ DefaultAgent(h) = DefaultAgent(f)
       \/ c.kind \in {"agent", "default"} /\ DefaultAgent(h) = c.agent

\* What a change leaves behind: a file, as explicit as before, with no
\* workspace of the old layout that was not there.
Sound(f, h, c) ==
    /\ IsFile(h) /\ Keeps(f, h, c)
    /\ Explicit(f) => Explicit(h)
    /\ NoOld(f) \/ c.kind = "rewrite" => NoOld(h)

\* Files that differ in their agents only, or in the disabled names.
LEMMA SameChannels ==
  ASSUME NEW f, IsFile(f), NEW h \in ConfigFile, h.channels = f.channels, h.flat = f.flat,
         h.skills.enabled = f.skills.enabled, h.flagged = None \/ h.agents[h.flagged] # None
  PROVE  IsFile(h) /\ (Explicit(f) => Explicit(h))
  BY ExplicitParts DEF IsFile

LEMMA AgentChange ==
  ASSUME NEW f, IsFile(f), NEW c, IsChange(c), c.kind = "agent", NEW h, h = UpsertAgent(f, c)
  PROVE  /\ Sound(f, h, c)
         /\ c.agent \in Agents /\ h.agents[c.agent] = [profile |-> c.profile, workspace |-> c.workspace]
         /\ h.default = IF c.asDefault \/ f.default = None THEN c.agent ELSE f.default
<1>1. /\ c.agent \in Agents /\ c.profile \in Profiles /\ c.workspace \in {"new", "own"}
      /\ f \in ConfigFile
  BY DEF IsChange, IsFile
<1>2. PICK x \in Agent, d \in Agents \cup {None} :
        /\ x = [profile |-> c.profile, workspace |-> c.workspace]
        /\ d = IF c.asDefault \/ f.default = None THEN c.agent ELSE f.default
        /\ d = IF c.asDefault THEN c.agent ELSE Or(f.default, c.agent)
  BY <1>1 DEF Agent, ConfigFile, Or
<1>f. PICK flag \in Agents \cup {None} :
        flag = IF d \in Defined(f) \cup {c.agent} THEN d ELSE None
  OBVIOUS
<1>3. PICK agents : agents = [f.agents EXCEPT ![c.agent] = x]
  OBVIOUS
<1>4. h = [f EXCEPT !.agents = agents, !.default = d, !.flagged = flag]
  BY <1>1, <1>2, <1>f, <1>3 DEF UpsertAgent, ConfigFile
<1>5. /\ agents \in [Agents -> Agent \cup {None}]
      /\ agents[c.agent] = x /\ \A a \in Agents : a # c.agent => agents[a] = f.agents[a]
  BY <1>1, <1>3 DEF ConfigFile
<1>6. /\ h \in ConfigFile /\ h.agents = agents /\ h.default = d /\ h.channels = f.channels
      /\ h.flagged = flag /\ h.skills = f.skills /\ h.profiles = f.profiles /\ h.flat = f.flat
  BY <1>1, <1>4, <1>5 DEF ConfigFile
<1>7. IsFile(h) /\ (Explicit(f) => Explicit(h))
  <2>1. CASE flag = c.agent
    BY <1>5, <1>6, <2>1, SameChannels, ConfigConstants
  <2>2. CASE flag # c.agent /\ flag # None
    <3>1. flag \in Agents /\ f.agents[flag] # None
      BY <1>f, <2>2 DEF Defined
    <3>. QED BY <1>5, <1>6, <2>2, <3>1, SameChannels
  <2>3. CASE flag = None
    BY <1>6, <2>3, SameChannels
  <2>. QED BY <2>1, <2>2, <2>3
<1>8. Keeps(f, h, c)
  <2>1. DefaultAgent(h) = DefaultAgent(f) \/ DefaultAgent(h) = c.agent
    BY <1>1, <1>2, <1>6, ConfigConstants DEF DefaultAgent, Or
  <2>. QED BY <1>5, <1>6, <2>1 DEF Keeps
<1>9. NoOld(f) => NoOld(h)
  <2>1. f # None /\ h # None
    BY <1>1, <1>6, ConfigConstants
  <2>2. x.workspace # "old"
    BY <1>1, <1>2
  <2>. QED BY <1>5, <1>6, <2>1, <2>2 DEF NoOld, OldPaths, Defined
<1>. QED BY <1>1, <1>2, <1>5, <1>6, <1>7, <1>8, <1>9 DEF Sound

LEMMA DefaultChange ==
  ASSUME NEW f, IsFile(f), NEW c, IsChange(c), c.kind = "default", ~Refuses(f, c),
         NEW h, h = SetDefaultAgent(f, c)
  PROVE  Sound(f, h, c) /\ h.default = c.agent /\ h.agents = f.agents
<1>1. c.agent \in Agents /\ f \in ConfigFile /\ f.agents[c.agent] # None
  BY DEF IsChange, IsFile, Refuses, Defined
<1>2. /\ h \in ConfigFile /\ h.default = c.agent /\ h.flagged = c.agent /\ h.agents = f.agents /\ h.channels = f.channels
      /\ h.skills = f.skills /\ h.profiles = f.profiles /\ h.flat = f.flat
  BY <1>1 DEF SetDefaultAgent, ConfigFile
<1>3. IsFile(h) /\ (Explicit(f) => Explicit(h))
  BY <1>1, <1>2, SameChannels
<1>4. NoOld(f) => NoOld(h)
  BY <1>1, <1>2, ConfigConstants DEF NoOld, OldPaths, Defined
<1>5. DefaultAgent(h) = c.agent
  BY <1>1, <1>2, ConfigConstants DEF DefaultAgent, Or
<1>. QED BY <1>2, <1>3, <1>4, <1>5 DEF Sound, Keeps

LEMMA SkillsChange ==
  ASSUME NEW f, IsFile(f), NEW c, IsChange(c), c.kind = "skills", NEW h, h = SetDisabled(f, c)
  PROVE  Sound(f, h, c) /\ h.default = f.default /\ h.flagged = f.flagged /\ h.agents = f.agents
<1>1. c.names \in SUBSET Skills /\ f \in ConfigFile
  BY DEF IsChange, IsFile
<1>2. /\ h \in ConfigFile /\ h.default = f.default /\ h.flagged = f.flagged /\ h.agents = f.agents /\ h.channels = f.channels
      /\ h.skills.enabled = f.skills.enabled /\ h.profiles = f.profiles /\ h.flat = f.flat
  BY <1>1 DEF SetDisabled, ConfigFile
<1>3. IsFile(h) /\ (Explicit(f) => Explicit(h))
  BY <1>2, SameChannels DEF IsFile
<1>4. NoOld(f) => NoOld(h)
  BY <1>1, <1>2, ConfigConstants DEF NoOld, OldPaths, Defined
<1>5. DefaultAgent(h) = DefaultAgent(f)
  BY <1>2 DEF DefaultAgent
<1>. QED BY <1>2, <1>3, <1>4, <1>5 DEF Sound, Keeps

LEMMA RewriteChange ==
  ASSUME NEW f, IsFile(f), NEW h, h = RewritePaths(f)
  PROVE  /\ Sound(f, h, Rewrite) /\ h.default = f.default /\ h.flagged = f.flagged
         /\ \A a \in Agents : /\ f.agents[a] = None <=> h.agents[a] = None
                              /\ f.agents[a] # None => h.agents[a].profile = f.agents[a].profile
<1>1. f \in ConfigFile
  BY DEF IsFile
<1>2. PICK agents : agents = [a \in Agents |-> IF a \in OldPaths(f)
                                              THEN [f.agents[a] EXCEPT !.workspace = "new"] ELSE f.agents[a]]
  OBVIOUS
<1>3. h = [f EXCEPT !.agents = agents]
  BY <1>2 DEF RewritePaths
<1>4. ASSUME NEW a \in OldPaths(f)
      PROVE  /\ f.agents[a] \in Agent /\ agents[a] \in Agent
             /\ agents[a].workspace = "new" /\ agents[a].profile = f.agents[a].profile
  <2>1. PICK x \in Agent : x = f.agents[a] /\ a \in Agents
    BY <1>1 DEF OldPaths, Defined, ConfigFile
  <2>2. agents[a] = [x EXCEPT !.workspace = "new"]
    BY <1>2, <2>1
  <2>. QED BY <2>1, <2>2 DEF Agent
<1>5. \A a \in Agents : a \notin OldPaths(f) => agents[a] = f.agents[a]
  BY <1>2
<1>6. agents \in [Agents -> Agent \cup {None}]
  BY <1>1, <1>2, <1>4, <1>5 DEF ConfigFile
<1>7. /\ h \in ConfigFile /\ h.default = f.default /\ h.flagged = f.flagged /\ h.agents = agents /\ h.channels = f.channels
      /\ h.skills = f.skills /\ h.profiles = f.profiles /\ h.flat = f.flat
  BY <1>1, <1>3, <1>6 DEF ConfigFile
<1>8. IsFile(h) /\ (Explicit(f) => Explicit(h))
  <2>1. h.flagged = None \/ h.agents[h.flagged] # None
    <3>. SUFFICES ASSUME h.flagged # None PROVE h.agents[h.flagged] # None
      OBVIOUS
    <3>1. PICK a \in Agents : a = h.flagged /\ f.agents[a] # None
      BY <1>1, <1>7 DEF IsFile, ConfigFile
    <3>2. agents[a] # None
      BY <1>4, <1>5, <3>1, ConfigConstants
    <3>. QED BY <1>7, <3>1, <3>2
  <2>. QED BY <1>7, <2>1, SameChannels
<1>9. NoOld(h)
  <2>. SUFFICES ASSUME NEW a \in Agents, h.agents[a] # None, h.agents[a].workspace = "old" PROVE FALSE
    BY DEF NoOld, OldPaths, Defined
  <2>1. CASE a \in OldPaths(f)
    BY <1>4, <1>7, <2>1
  <2>2. CASE a \notin OldPaths(f)
    BY <1>5, <1>7, <2>2 DEF OldPaths, Defined
  <2>. QED BY <2>1, <2>2
<1>10. Keeps(f, h, Rewrite)
  <2>1. DefaultAgent(h) = DefaultAgent(f)
    BY <1>7 DEF DefaultAgent
  <2>. QED BY <1>5, <1>7, <2>1 DEF Keeps, Rewrite
<1>11. \A a \in Agents : /\ f.agents[a] = None <=> h.agents[a] = None
                         /\ f.agents[a] # None => h.agents[a].profile = f.agents[a].profile
  BY <1>4, <1>5, <1>7, ConfigConstants
<1>. QED BY <1>7, <1>8, <1>9, <1>10, <1>11 DEF Sound


LEMMA ChannelChange ==
  ASSUME NEW f, IsFile(f), NEW c, IsChange(c), c.kind \in {"channel", "set"}, NEW h, h = SetChannel(f, c)
  PROVE  Sound(f, h, c)
<1>. DEFINE v == c.values
            p == c.platform
            Keys == {"enabled", "mention", "mode", "agent", "ready", "instances"}
<1>1. f \in ConfigFile /\ p \in Platforms /\ AreValues(v)
  BY DEF IsChange, IsFile
<1>2. PICK absent : absent = [enabled |-> FALSE, mention |-> FALSE, mode |-> None, agent |-> None,
                              ready |-> FALSE, instances |-> <<>>]
  OBVIOUS
<1>3. absent \in Channel /\ (p \notin Native => ExplicitChannel(p, absent))
  <2>0. <<>> \in Seq(Instance) /\ DOMAIN <<>> = {}
    OBVIOUS
  <2>1. PICK s \in Seq(Instance) : s = <<>> /\ DOMAIN s = {}
    BY <2>0
  <2>2. absent = [enabled |-> FALSE, mention |-> FALSE, mode |-> None, agent |-> None,
                  ready |-> FALSE, instances |-> s]
    BY <1>2, <2>1
  <2>3. absent \in Channel
    BY <2>2 DEF Channel, Switch, Mode
  <2>4. p \notin Native => ExplicitChannel(p, absent)
    BY <2>1, <2>2, ConfigConstants DEF ExplicitChannel
  <2>. QED BY <2>3, <2>4
<1>4. PICK before \in Channel :
        /\ before = IF f.channels[p] = None THEN absent ELSE f.channels[p]
        /\ Explicit(f) => ExplicitChannel(p, before)
  <2>1. CASE f.channels[p] = None
    BY <1>1, <1>3, <2>1 DEF IsFile
  <2>2. CASE f.channels[p] # None
    <3>1. f.channels[p] \in Channel
      BY <1>1, <2>2 DEF ConfigFile
    <3>2. Explicit(f) => ExplicitChannel(p, f.channels[p])
      BY <1>1, <2>2, ExplicitParts
    <3>. QED BY <2>2, <3>1, <3>2
  <2>. QED BY <2>1, <2>2
<1>5. PICK r : r = [key \in DOMAIN before |-> IF key \in DOMAIN v THEN v[key] ELSE before[key]]
  OBVIOUS
<1>6. h = [f EXCEPT !.channels[p] = r]
  BY <1>2, <1>4, <1>5 DEF SetChannel
<1>7. DOMAIN before = Keys
  BY DEF Channel
<1>8. /\ r.enabled = (IF "enabled" \in DOMAIN v THEN v.enabled ELSE before.enabled)
      /\ r.mention = (IF "mention" \in DOMAIN v THEN v.mention ELSE before.mention)
      /\ r.mode = (IF "mode" \in DOMAIN v THEN v.mode ELSE before.mode)
      /\ r.agent = (IF "agent" \in DOMAIN v THEN v.agent ELSE before.agent)
      /\ r.ready = (IF "ready" \in DOMAIN v THEN v.ready ELSE before.ready)
      /\ r.instances = (IF "instances" \in DOMAIN v THEN v.instances ELSE before.instances)
  BY <1>5, <1>7
<1>9. "instances" \notin DOMAIN v
  BY <1>1 DEF AreValues
<1>10. /\ r.enabled \in Switch /\ (before.enabled # None => r.enabled # None)
       /\ r.mention \in Switch /\ (before.mention # None => r.mention # None)
  BY <1>1, <1>8, ConfigConstants DEF AreValues, Channel, Switch
<1>11. /\ r.mode \in Mode /\ (before.mode # None => r.mode # None)
       /\ r.agent \in Agents \cup {None} /\ (before.agent # None => r.agent # None)
       /\ r.ready \in BOOLEAN
  BY <1>1, <1>8, ConfigConstants DEF AreValues, Channel
<1>12. r.instances = before.instances /\ before.instances \in Seq(Instance)
  BY <1>8, <1>9 DEF Channel
<1>13. r = [enabled |-> r.enabled, mention |-> r.mention, mode |-> r.mode, agent |-> r.agent,
            ready |-> r.ready, instances |-> r.instances]
  BY <1>5, <1>7
<1>14. r \in Channel
  BY <1>10, <1>11, <1>12, <1>13 DEF Channel
<1>15. ExplicitChannel(p, before) => ExplicitChannel(p, r)
  BY <1>10, <1>11, <1>12 DEF ExplicitChannel
<1>16. PICK channels : channels = [f.channels EXCEPT ![p] = r]
  OBVIOUS
<1>17. h = [f EXCEPT !.channels = channels]
  BY <1>1, <1>6, <1>16 DEF ConfigFile
<1>18. /\ channels \in [Platforms -> Channel \cup {None}] /\ channels[p] = r
       /\ \A q \in Platforms : q # p => channels[q] = f.channels[q]
  BY <1>1, <1>14, <1>16 DEF ConfigFile
<1>19. /\ h \in ConfigFile /\ h.channels = channels /\ h.default = f.default /\ h.agents = f.agents
       /\ h.flagged = f.flagged
       /\ h.skills = f.skills /\ h.profiles = f.profiles /\ h.flat = f.flat
  BY <1>1, <1>17, <1>18 DEF ConfigFile
<1>20. r # None
  BY <1>14, ConfigConstants
<1>21. IsFile(h)
  BY <1>18, <1>19, <1>20 DEF IsFile
<1>22. Explicit(f) => Explicit(h)
  <2>. SUFFICES ASSUME Explicit(f) PROVE Explicit(h)
    OBVIOUS
  <2>1. ~f.flat /\ f.skills.enabled # None /\ \A q \in Platforms : f.channels[q] # None => ExplicitChannel(q, f.channels[q])
    BY ExplicitParts
  <2>2. \A q \in Platforms : h.channels[q] # None => ExplicitChannel(q, h.channels[q])
    BY <1>4, <1>15, <1>18, <1>19, <2>1
  <2>. QED BY <1>19, <2>1, <2>2, ExplicitParts
<1>23. Keeps(f, h, c)
  <2>1. DefaultAgent(h) = DefaultAgent(f)
    BY <1>19 DEF DefaultAgent
  <2>. QED BY <1>1, <1>18, <1>19, <2>1 DEF Keeps, Touches
<1>24. NoOld(f) => NoOld(h)
  BY <1>1, <1>19, ConfigConstants DEF NoOld, OldPaths, Defined
<1>. QED BY <1>21, <1>22, <1>23, <1>24 DEF Sound

\* Every change but the first writing of a file.
Made(f, c) == IF c = Rewrite THEN TRUE ELSE IsChange(c) /\ c.kind # "bootstrap"

LEMMA ChangedSound ==
  ASSUME NEW f, IsFile(f), NEW c, Made(f, c), ~Refuses(f, c), NEW h, h = Changed(f, c)
  PROVE  Sound(f, h, c)
<1>1. CASE c = Rewrite
  <2>1. h = RewritePaths(f)
    BY <1>1 DEF Changed, Rewrite
  <2>. QED BY <1>1, <2>1, RewriteChange
<1>2. CASE IsChange(c) /\ c.kind # "bootstrap"
  <2>1. c.kind \in {"agent", "default", "skills", "channel", "set"}
    BY <1>2 DEF IsChange
  <2>2. CASE c.kind = "agent"
    <3>1. h = UpsertAgent(f, c)
      BY <2>2 DEF Changed
    <3>. QED BY <1>2, <2>2, <3>1, AgentChange
  <2>3. CASE c.kind = "default"
    <3>1. h = SetDefaultAgent(f, c)
      BY <2>3 DEF Changed
    <3>. QED BY <1>2, <2>3, <3>1, DefaultChange
  <2>4. CASE c.kind = "skills"
    <3>1. h = SetDisabled(f, c)
      BY <2>4 DEF Changed
    <3>. QED BY <1>2, <2>4, <3>1, SkillsChange
  <2>5. CASE c.kind \in {"channel", "set"}
    <3>1. h = SetChannel(f, c)
      BY <2>5 DEF Changed
    <3>. QED BY <1>2, <2>5, <3>1, ChannelChange
  <2>. QED BY <2>1, <2>2, <2>3, <2>4, <2>5
<1>. QED BY <1>1, <1>2 DEF Made


-----------------------------------------------------------------------------
(* What still loads.                                                       *)

\* The bots of a channel are those of its section.
LEMMA BotsOfSection ==
  ASSUME NEW f, NEW h, NEW p, h.channels[p] = f.channels[p]
  PROVE  Bots(h, p) = Bots(f, p) /\ (IsEnabled(h, p) <=> IsEnabled(f, p))
<1>1. Bots(h, p) = Bots(f, p)
  BY DEF Bots
<1>. QED BY <1>1 DEF IsEnabled

\* The agent that a channel names.
Named(f, p) == IF p \in Native THEN f.channels[p].agent ELSE Or(f.channels[p].agent, Main)

\* With more agents, a channel is as valid as before, if there were any.
LEMMA ChannelStaysValid ==
  ASSUME NEW f, NEW h, NEW p, Bots(h, p) = Bots(f, p),
         h.channels[p] = None <=> f.channels[p] = None,
         f.channels[p] # None => Named(h, p) = Named(f, p),
         Defined(f) # {}, Defined(f) \subseteq Defined(h), ChannelValid(f, p)
  PROVE  ChannelValid(h, p)
<1>1. \A a : Known(f, a) => Known(h, a)
  BY DEF Known
<1>2. h.channels[p] # None => Known(h, Named(h, p))
  <2>. SUFFICES ASSUME f.channels[p] # None PROVE Known(h, Named(f, p))
    OBVIOUS
  <2>1. Known(f, Named(f, p))
    BY DEF ChannelValid, Named
  <2>. QED BY <1>1, <2>1
<1>3. ASSUME NEW n \in DOMAIN Bots(h, p)
      PROVE  /\ Known(h, Bots(h, p)[n].agent)
             /\ p = "discord" => DiscordValid(Bots(h, p)[n])
             /\ p = "telegram" => TelegramValid(Bots(h, p)[n])
             /\ p = "feishu" => FeishuValid(Bots(h, p)[n])
             /\ p = "wecom" => WeComValid(Bots(h, p)[n])
  <2>1. /\ Known(f, Bots(f, p)[n].agent)
        /\ p = "discord" => DiscordValid(Bots(f, p)[n])
        /\ p = "telegram" => TelegramValid(Bots(f, p)[n])
        /\ p = "feishu" => FeishuValid(Bots(f, p)[n])
        /\ p = "wecom" => WeComValid(Bots(f, p)[n])
    BY <1>3 DEF ChannelValid
  <2>. QED BY <1>1, <2>1
<1>. QED BY <1>2, <1>3 DEF ChannelValid, Named

LEMMA ReadLoads ==
  ASSUME NEW s, s = None \/ IsFile(s), NEW f, f = Origin(s), Explicit(f), Loadable(f), Defined(f) # {},
         NEW g, g = ReadFile(s)
  PROVE  AgentsValid(g) /\ Defined(g) = Defined(f) /\ \A p \in Platforms : ChannelValid(g, p)
<1>1. IsFile(f) /\ f \in ConfigFile /\ f # None
  BY DefaultIsFile, ConfigConstants DEF Origin, IsFile
<1>2. AgentsValid(f) /\ \A p \in Platforms : ChannelValid(f, p)
  BY <1>1 DEF Loadable
<1>3. Alike(f, g)
  BY ReadFileParts
<1>4. g.profiles = f.profiles /\ g.default = f.default /\ g.agents = f.agents /\ g.flagged = f.flagged
  BY <1>3 DEF Alike
<1>5. Defined(g) = Defined(f)
  BY <1>4 DEF Defined
<1>6. AgentsValid(g)
  BY <1>2, <1>4, <1>5 DEF AgentsValid, HasDefault, DefaultAgent
<1>7. ASSUME NEW p \in Platforms PROVE ChannelValid(g, p)
  <2>1. CASE s = None
    <3>1. g = f
      BY <2>1 DEF ReadFile, Origin
    <3>. QED BY <1>2, <3>1
  <2>2. CASE s # None
    <3>1. f = s /\ g = Rewritten(f)
      BY <2>2 DEF ReadFile, Origin
    <3>2. g.channels[p] = IF f.channels[p] = None THEN None ELSE RewrittenChannel(p, f.channels[p])
      BY <1>1, <3>1, RewrittenParts
    <3>3. CASE f.channels[p] = None
      <4>1. Bots(g, p) = Bots(f, p) /\ g.channels[p] = None
        BY <1>3, <3>2, <3>3 DEF Alike
      <4>. QED BY <1>2, <1>5, <3>3, <4>1, ChannelStaysValid
    <3>4. CASE f.channels[p] # None
      <4>1. PICK c \in Channel : c = f.channels[p] /\ ExplicitChannel(p, c)
        BY <1>1, <3>4, ExplicitParts DEF ConfigFile
      <4>2. PICK r : r = g.channels[p] /\ r = RewrittenChannel(p, c)
        BY <3>2, <3>4, <4>1
      <4>3. r \in Channel /\ IsRewritten(p, c, r)
        <5>1. IsRewritten(p, c, r)
          BY <4>2, RewrittenChannelParts
        <5>. QED BY <5>1 DEF IsRewritten
      <4>4. p \in Native => r.agent = c.agent
        BY <4>3, <4>1 DEF IsRewritten, ExplicitChannel, Or
      <4>5. p \notin Native => Or(r.agent, Main) = Or(c.agent, Main)
        BY <4>3, ConfigConstants DEF IsRewritten, Or, Native
      <4>6. Named(g, p) = Named(f, p)
        BY <4>1, <4>2, <4>4, <4>5 DEF Named
      <4>7. Bots(g, p) = Bots(f, p)
        BY <1>3 DEF Alike
      <4>8. r # None
        BY <4>3, ConfigConstants
      <4>9. g.channels[p] # None
        BY <4>2, <4>8
      <4>. QED BY <1>2, <1>5, <3>4, <4>6, <4>7, <4>9, ChannelStaysValid
    <3>. QED BY <3>3, <3>4
  <2>. QED BY <2>1, <2>2
<1>. QED BY <1>5, <1>6, <1>7

\* A change of agents or skills, and the rewriting of paths.
LEMMA ChangedLoads ==
  ASSUME NEW f, IsFile(f), AgentsValid(f), Defined(f) # {}, \A p \in Platforms : ChannelValid(f, p),
         NEW c, Made(f, c), c.kind \notin {"channel", "set"}, ~Refuses(f, c), NEW h, h = Changed(f, c)
  PROVE  Loadable(h)
<1>1. IsFile(h) /\ Keeps(f, h, c) /\ f \in ConfigFile
  BY ChangedSound DEF Sound, IsFile
<1>2. \A p \in Platforms : h.channels[p] = f.channels[p]
  BY <1>1 DEF Keeps, Touches
<1>3. h.profiles = f.profiles
  BY <1>1 DEF Keeps
<1>4. /\ DefaultAgent(f) # None => DefaultAgent(f) \in Defined(f)
      /\ f.profiles = {} \/ DefaultAgent(f) \in Defined(f)
      /\ \A a \in Defined(f) : f.agents[a].profile \in f.profiles
  BY DEF AgentsValid, HasDefault
<1>5. AgentsValid(h) /\ Defined(f) \subseteq Defined(h)
  <2>1. CASE c = Rewrite
    <3>1. h = RewritePaths(f)
      BY <2>1 DEF Changed, Rewrite
    <3>2. /\ h.default = f.default /\ h.flagged = f.flagged
          /\ \A a \in Agents : /\ f.agents[a] = None <=> h.agents[a] = None
                               /\ f.agents[a] # None => h.agents[a].profile = f.agents[a].profile
      BY <3>1, RewriteChange
    <3>3. Defined(h) = Defined(f)
      BY <3>2 DEF Defined
    <3>4. \A a \in Defined(h) : h.agents[a].profile \in h.profiles
      BY <1>3, <1>4, <3>2, <3>3 DEF Defined
    <3>5. DefaultAgent(h) = DefaultAgent(f)
      BY <3>2 DEF DefaultAgent
    <3>. QED BY <1>3, <1>4, <3>3, <3>4, <3>5 DEF AgentsValid, HasDefault
  <2>2. CASE IsChange(c) /\ c.kind = "agent"
    <3>1. h = UpsertAgent(f, c)
      BY <2>2 DEF Changed
    <3>2. /\ c.agent \in Agents /\ h.agents[c.agent] = [profile |-> c.profile, workspace |-> c.workspace]
          /\ h.default = IF c.asDefault \/ f.default = None THEN c.agent ELSE f.default
      BY <2>2, <3>1, AgentChange
    <3>3. c.profile \in f.profiles /\ c.profile \in Profiles /\ c.workspace \in {"new", "own"}
      BY <2>2 DEF Refuses, IsChange
    <3>4. \A a \in Agents : a # c.agent => h.agents[a] = f.agents[a]
      BY <1>1, <2>2 DEF Keeps
    <3>5. h.agents[c.agent] \in Agent /\ h.agents[c.agent].profile = c.profile
      BY <3>2, <3>3 DEF Agent
    <3>6. Defined(h) = Defined(f) \cup {c.agent}
      BY <3>2, <3>4, <3>5, ConfigConstants DEF Defined
    <3>7. DefaultAgent(h) \in Defined(h)
      <4>1. h.default # None /\ DefaultAgent(h) = h.default
        BY <3>2, ConfigConstants DEF DefaultAgent, Or
      <4>2. f.default # None => DefaultAgent(f) = f.default
        BY DEF DefaultAgent, Or
      <4>. QED BY <1>4, <3>2, <3>6, <4>1, <4>2
    <3>8. \A a \in Defined(h) : h.agents[a].profile \in h.profiles
      BY <1>3, <1>4, <3>3, <3>4, <3>5, <3>6 DEF Defined
    <3>. QED BY <3>6, <3>7, <3>8 DEF AgentsValid, HasDefault
  <2>3. CASE IsChange(c) /\ c.kind = "default"
    <3>1. h = SetDefaultAgent(f, c)
      BY <2>3 DEF Changed
    <3>2. h.default = c.agent /\ h.agents = f.agents
      BY <2>3, <3>1, DefaultChange
    <3>3. c.agent \in Defined(f)
      BY <2>3 DEF Refuses
    <3>4. DefaultAgent(h) = c.agent
      BY <3>2, <3>3, ConfigConstants DEF DefaultAgent, Or, Defined
    <3>5. Defined(h) = Defined(f)
      BY <3>2 DEF Defined
    <3>. QED BY <1>3, <1>4, <3>2, <3>3, <3>4, <3>5 DEF AgentsValid, HasDefault
  <2>4. CASE IsChange(c) /\ c.kind = "skills"
    <3>1. h = SetDisabled(f, c)
      BY <2>4 DEF Changed
    <3>2. h.default = f.default /\ h.flagged = f.flagged /\ h.agents = f.agents
      BY <2>4, <3>1, SkillsChange
    <3>3. Defined(h) = Defined(f) /\ DefaultAgent(h) = DefaultAgent(f)
      BY <3>2 DEF Defined, DefaultAgent
    <3>. QED BY <1>3, <1>4, <3>2, <3>3 DEF AgentsValid, HasDefault
  <2>5. IsChange(c) /\ c.kind # "bootstrap" => c.kind \in {"agent", "default", "skills"}
    BY DEF IsChange
  <2>. QED BY <2>1, <2>2, <2>3, <2>4, <2>5 DEF Made
<1>6. ASSUME NEW p \in Platforms PROVE ChannelValid(h, p)
  <2>1. h.channels[p] = f.channels[p]
    BY <1>2
  <2>2. Bots(h, p) = Bots(f, p)
    BY <2>1, BotsOfSection
  <2>3. Named(h, p) = Named(f, p)
    BY <2>1 DEF Named
  <2>. QED BY <1>5, <2>1, <2>2, <2>3, ChannelStaysValid
<1>. QED BY <1>5, <1>6 DEF Loadable


\* A write keeps what it is not about, of a file that gives every switch.
Preserves(base, h, c) ==
    /\ \A p \in Platforms :
        \/ Touches(c, p)
        \/ Bots(h, p) = Bots(base, p) /\ IsEnabled(h, p) = IsEnabled(base, p)
    /\ c.kind # "skills" => h.skills.disabled = base.skills.disabled
    /\ SkillsEnabled(h) = SkillsEnabled(base)
    /\ \A a \in Agents : \/ h.agents[a] = base.agents[a]
                         \/ c.kind = "agent" /\ c.agent = a
                         \/ c.kind = "rewrite" /\ a \in OldPaths(base)
    /\ \/ DefaultAgent(h) = DefaultAgent(base)
       \/ c.kind \in {"agent", "default"} /\ DefaultAgent(h) = c.agent
    /\ c.kind \notin {"channel", "set"} /\ Loadable(base) /\ Defined(base) # {} => Loadable(h)

LEMMA ChangePreserves ==
  ASSUME NEW s, s = None \/ IsFile(s), NEW base, base = Origin(s), Explicit(base),
         NEW g, g = ReadFile(s), NEW c, Made(g, c), ~Refuses(g, c), NEW h, h = Changed(g, c)
  PROVE  Preserves(base, h, c)
<1>1. IsFile(g) /\ Alike(base, g)
  BY ReadFileParts
<1>2. Keeps(g, h, c)
  BY <1>1, ChangedSound DEF Sound
<1>3. ASSUME NEW p \in Platforms, ~Touches(c, p)
      PROVE  Bots(h, p) = Bots(base, p) /\ IsEnabled(h, p) = IsEnabled(base, p)
  <2>1. h.channels[p] = g.channels[p]
    BY <1>2, <1>3 DEF Keeps
  <2>2. Bots(h, p) = Bots(g, p) /\ (IsEnabled(h, p) <=> IsEnabled(g, p))
    BY <2>1, BotsOfSection
  <2>3. Bots(g, p) = Bots(base, p) /\ (IsEnabled(g, p) <=> IsEnabled(base, p))
    BY <1>1 DEF Alike
  <2>4. IsEnabled(h, p) \in BOOLEAN /\ IsEnabled(base, p) \in BOOLEAN
    BY DEF IsEnabled
  <2>. QED BY <2>2, <2>3, <2>4
<1>4. c.kind # "skills" => h.skills.disabled = base.skills.disabled
  BY <1>1, <1>2 DEF Keeps, Alike
<1>5. SkillsEnabled(h) = SkillsEnabled(base)
  <2>1. SkillsEnabled(h) = SkillsEnabled(g)
    BY <1>2 DEF Keeps, SkillsEnabled
  <2>. QED BY <1>1, <2>1 DEF Alike
<1>6. \A a \in Agents : \/ h.agents[a] = base.agents[a]
                        \/ c.kind = "agent" /\ c.agent = a
                        \/ c.kind = "rewrite" /\ a \in OldPaths(base)
  <2>1. g.agents = base.agents
    BY <1>1 DEF Alike
  <2>2. OldPaths(g) = OldPaths(base)
    BY <2>1 DEF OldPaths, Defined
  <2>. QED BY <1>2, <2>1, <2>2 DEF Keeps
<1>7. c.kind \notin {"channel", "set"} /\ Loadable(base) /\ Defined(base) # {} => Loadable(h)
  <2>. SUFFICES ASSUME c.kind \notin {"channel", "set"}, Loadable(base), Defined(base) # {} PROVE Loadable(h)
    OBVIOUS
  <2>1. AgentsValid(g) /\ Defined(g) = Defined(base) /\ \A p \in Platforms : ChannelValid(g, p)
    BY ReadLoads
  <2>. QED BY <1>1, <2>1, ChangedLoads
<1>8. \/ DefaultAgent(h) = DefaultAgent(base)
      \/ c.kind \in {"agent", "default"} /\ DefaultAgent(h) = c.agent
  <2>1. DefaultAgent(g) = DefaultAgent(base)
    BY <1>1 DEF Alike, DefaultAgent
  <2>. QED BY <1>2, <2>1 DEF Keeps
<1>. QED BY <1>3, <1>4, <1>5, <1>6, <1>7, <1>8 DEF Preserves

\* The files that the wizard writes.
LEMMA BootstrapsAreFiles ==
  ASSUME NEW f \in Bootstraps
  PROVE  IsFile(f) /\ Explicit(f) /\ NoOld(f)
<1>1. PICK profile \in Profiles, workspace \in {"new", "own"},
          enabled \in SUBSET (Platforms \cap {"discord", "telegram"}) :
            f = BootstrapFile(profile, workspace, enabled)
  BY DEF Bootstraps
<1>2. PICK d : d = DefaultFile
  OBVIOUS
<1>3. IsFile(d) /\ Explicit(d) /\ NoOld(d) /\ d \in ConfigFile
  BY <1>2, DefaultIsFile DEF IsFile
<1>4. PICK x \in Agent : x = [profile |-> profile, workspace |-> workspace]
  BY DEF Agent
<1>5. PICK agents : agents = [d.agents EXCEPT ![Main] = x]
  OBVIOUS
<1>6. PICK channels : channels = [p \in Platforms |->
            IF p \in enabled THEN [d.channels[p] EXCEPT !.enabled = TRUE, !.ready = TRUE]
            ELSE d.channels[p]]
  OBVIOUS
<1>7. f = [d EXCEPT !.agents = agents, !.channels = channels]
  BY <1>1, <1>2, <1>3, <1>4, <1>5, <1>6 DEF BootstrapFile, ConfigFile
<1>8. ASSUME NEW p \in Platforms
      PROVE  /\ d.channels[p] = None <=> channels[p] = None
             /\ channels[p] # None => channels[p] \in Channel /\ ExplicitChannel(p, channels[p])
  <2>1. d.channels[p] # None => d.channels[p] \in Channel /\ ExplicitChannel(p, d.channels[p])
    BY <1>3, ExplicitParts DEF ConfigFile
  <2>2. CASE p \in enabled
    <3>1. p \in Native
      BY <2>2 DEF Native
    <3>2. PICK c \in Channel : c = d.channels[p] /\ ExplicitChannel(p, c)
      BY <1>3, <2>1, <3>1 DEF IsFile
    <3>3. PICK r : r = [c EXCEPT !.enabled = TRUE, !.ready = TRUE]
      OBVIOUS
    <3>4. channels[p] = r
      BY <1>6, <2>2, <3>2, <3>3
    <3>5. /\ r \in Channel /\ r.enabled = TRUE /\ r.mention = c.mention /\ r.agent = c.agent
          /\ r.mode = c.mode /\ r.instances = c.instances
      BY <3>3 DEF Channel, Switch
    <3>6. ExplicitChannel(p, r)
      BY <3>2, <3>5, ConfigConstants DEF ExplicitChannel
    <3>7. c # None /\ r # None
      BY <3>5, ConfigConstants
    <3>. QED BY <3>2, <3>4, <3>5, <3>6, <3>7
  <2>3. CASE p \notin enabled
    BY <1>6, <2>1, <2>3
  <2>. QED BY <2>2, <2>3
<1>9. /\ agents \in [Agents -> Agent \cup {None}] /\ agents[Main] = x
      /\ \A a \in Agents : a # Main => agents[a] = d.agents[a]
  BY <1>3, <1>5, ConfigConstants DEF ConfigFile
<1>10. channels \in [Platforms -> Channel \cup {None}]
  BY <1>6, <1>8
<1>11. /\ f \in ConfigFile /\ f.agents = agents /\ f.channels = channels
       /\ f.skills = d.skills /\ f.flat = d.flat /\ f.flagged = d.flagged
  BY <1>3, <1>7, <1>9, <1>10 DEF ConfigFile
<1>12. IsFile(f)
  <2>1. f.flagged = Main
    BY <1>2, <1>11 DEF DefaultFile
  <2>2. f.agents[Main] # None
    BY <1>9, <1>11, ConfigConstants
  <2>. QED BY <1>3, <1>8, <1>11, <2>1, <2>2 DEF IsFile
<1>13. Explicit(f)
  <2>1. ~d.flat /\ d.skills.enabled # None
    BY <1>3, ExplicitParts
  <2>. QED BY <1>8, <1>11, <2>1, ExplicitParts
<1>14. NoOld(f)
  <2>1. d # None
    BY <1>3, ConfigConstants
  <2>2. x.workspace # "old"
    BY <1>4
  <2>. QED BY <1>3, <1>9, <1>11, <2>1, <2>2 DEF NoOld, OldPaths, Defined
<1>. QED BY <1>12, <1>13, <1>14


-----------------------------------------------------------------------------
(* The steps.                                                              *)

\* A step of one worker.
Step(w) ==
    \/ Serve(w)
    \/ \E c \in Asked : Command(w, c) \/ Plan(w, c)
    \/ Layout(w)
    \/ \E f \in Files : Move(w, f)
    \/ Copy(w) \/ Copied(w) \/ Remove(w)
    \/ RewritePathsIn(w) \/ Clean(w)
    \/ Ensure(w) \/ Create(w) \/ Read(w) \/ Write(w)
    \/ Load(w)
    \/ Apply(w) \/ Cancel(w)

\* What a step of w leaves of the other workers.
Alone(w) ==
    \A v \in Workers \ {w} :
        /\ pc'[v] = pc[v] /\ task'[v] = task[v] /\ job'[v] = job[v]
        /\ seen'[v] = seen[v] /\ todo'[v] = todo[v] /\ copying'[v] = copying[v]

\* A file that is written is one of these.
Writing(w, f) ==
    \/ pc[w] = "create" /\ f \in Created(w)
    \/ pc[w] \in {"rewrite", "write"} /\ f = Changed(ReadFile(seen[w]), Change(w))

\* How the file can change in a step of w.
FileStep(w) ==
    \/ UNCHANGED <<file, ours>>
    \/ ours' = TRUE /\ Writing(w, file')

LEMMA RewriteIsMade == Rewrite.kind = "rewrite" /\ \A f : Made(f, Rewrite) /\ ~Refuses(f, Rewrite)
  BY DEF Rewrite, Made, Refuses

\* What a worker is about to write is made of a file, and is a change.
LEMMA ChangeIsMade ==
  ASSUME ConfigIInv, NEW w \in Workers, pc[w] \in {"rewrite", "write"}, NEW g
  PROVE  Made(g, Change(w))
<1>1. CASE pc[w] = "rewrite"
  BY <1>1, RewriteIsMade DEF Change
<1>2. CASE pc[w] = "write"
  <2>1. IsChange(job[w]) /\ job[w].kind # "bootstrap" /\ Change(w) = job[w]
    BY <1>2 DEF ConfigIInv, Changes, Justified, Change
  <2>. QED BY <2>1 DEF Made
<1>. QED BY <1>1, <1>2

LEMMA WrittenIsSound ==
  ASSUME ConfigIInv, NEW w \in Workers, NEW f, Writing(w, f)
  PROVE  IsFile(f) /\ Explicit(f) /\ NoOld(f) /\ f # None
<1>1. CASE pc[w] = "create" /\ f \in Created(w)
  <2>1. f = DefaultFile \/ f \in Bootstraps
    BY <1>1 DEF Created
  <2>2. IsFile(f) /\ Explicit(f) /\ NoOld(f)
    BY <2>1, DefaultIsFile, BootstrapsAreFiles
  <2>. QED BY <2>2, ConfigConstants DEF IsFile
<1>2. CASE pc[w] \in {"rewrite", "write"} /\ f = Changed(ReadFile(seen[w]), Change(w))
  <2>1. PICK s : s = seen[w] /\ (s = None \/ IsFile(s)) /\ ~Unreadable(s)
    BY <1>2 DEF ConfigIInv, ConfigTyped, Changes, Justified
  <2>2. PICK g : g = ReadFile(s)
    OBVIOUS
  <2>3. IsFile(g) /\ Explicit(g) /\ (NoOld(s) => NoOld(g))
    BY <2>1, <2>2, ReadFileParts
  <2>4. PICK c : c = Change(w) /\ Made(g, c)
    BY <1>2, ChangeIsMade
  <2>r. ~Refuses(g, c)
    <3>1. CASE pc[w] = "rewrite"
      BY <2>4, <3>1, RewriteIsMade DEF Change
    <3>2. CASE pc[w] = "write"
      BY <2>1, <2>2, <2>4, <3>2 DEF ConfigIInv, Changes, Justified, Change
    <3>. QED BY <1>2, <3>1, <3>2
  <2>5. Sound(g, f, c)
    BY <1>2, <2>1, <2>2, <2>3, <2>4, <2>r, ChangedSound
  <2>6. NoOld(g) \/ c.kind = "rewrite"
    <3>1. CASE pc[w] = "rewrite"
      BY <2>4, <3>1, RewriteIsMade DEF Change
    <3>2. CASE pc[w] = "write"
      BY <2>1, <2>3, <3>2 DEF ConfigIInv, Rewrites
    <3>. QED BY <1>2, <3>1, <3>2
  <2>. QED BY <2>3, <2>5, <2>6, ConfigConstants DEF Sound, IsFile
<1>. QED BY <1>1, <1>2 DEF Writing

LEMMA FileSteps ==
  ASSUME ConfigIInv, NEW w \in Workers, Step(w)
  PROVE  FileStep(w)
<1>1. CASE Create(w)
  BY <1>1 DEF Create, Put, FileStep, Writing
<1>2. CASE Write(w)
  BY <1>2 DEF Write, Put, FileStep, Writing
<1>3. CASE ~Create(w) /\ ~Write(w)
  BY <1>3 DEF Step, FileStep, Serve, Command, Plan, Layout, Move, Moved, Copy, Copied, Remove, RewritePathsIn,
     Clean, Ensure, Read, Load, Apply, Cancel, ChatCommand, config
<1>. QED BY <1>1, <1>2, <1>3

LEMMA FileStaysSound ==
  ASSUME ConfigIInv, NEW w \in Workers, Step(w)
  PROVE  /\ file' = None \/ IsFile(file')
         /\ file # None => file' # None
         /\ ours \in BOOLEAN => ours' \in BOOLEAN
         /\ ours' => file' # None /\ Explicit(file')
         /\ NoOld(file) => NoOld(file')
<1>1. CASE UNCHANGED <<file, ours>>
  BY <1>1 DEF ConfigIInv, ConfigTyped, Changes
<1>2. CASE ours' = TRUE /\ Writing(w, file')
  <2>1. PICK f : f = file'
    OBVIOUS
  <2>2. IsFile(f) /\ Explicit(f) /\ NoOld(f) /\ f # None
    BY <1>2, <2>1, WrittenIsSound
  <2>. QED BY <1>2, <2>1, <2>2
<1>. QED BY <1>1, <1>2, FileSteps DEF FileStep


LEMMA AloneStep ==
  ASSUME ConfigTyped, NEW w \in Workers, Step(w)
  PROVE  Alone(w)
<1>1. /\ DOMAIN pc = Workers /\ DOMAIN task = Workers /\ DOMAIN job = Workers /\ DOMAIN seen = Workers
      /\ DOMAIN todo = Workers /\ DOMAIN copying = Workers
  BY DEF ConfigTyped
<1>2. ASSUME Serve(w) \/ \E c \in Asked : Command(w, c) \/ Plan(w, c) PROVE Alone(w)
  BY <1>1, <1>2 DEF Alone, Serve, Command, Plan, ChatCommand, Goto, config, disk
<1>3. ASSUME Layout(w) \/ \E f \in Files : Move(w, f) PROVE Alone(w)
  BY <1>1, <1>3 DEF Alone, Layout, Move, Moved, Kept, Renamed, CopyBegins, Goto, config, disk
<1>4. ASSUME Copy(w) \/ Copied(w) \/ Remove(w) PROVE Alone(w)
  BY <1>1, <1>4 DEF Alone, Copy, CopyOpen, Copied, Remove, Moved, Fault, Goto, config, disk
<1>5. ASSUME RewritePathsIn(w) \/ Clean(w) \/ Ensure(w) PROVE Alone(w)
  BY <1>1, <1>5 DEF Alone, RewritePathsIn, Clean, Ensure, Goto, config, disk
<1>6. ASSUME Create(w) \/ Read(w) \/ Write(w) PROVE Alone(w)
  BY <1>1, <1>6 DEF Alone, Create, Read, Write, Put, Goto, Fault, config, disk
<1>7. ASSUME Load(w) PROVE Alone(w)
  BY <1>1, <1>7 DEF Alone, Load, Runs, MovesIntoProject, Continues, Goto, config, disk
<1>8. ASSUME Apply(w) \/ Cancel(w) PROVE Alone(w)
  BY <1>1, <1>8 DEF Alone, Apply, Cancel, ChatCommand, Goto, config, disk
<1>. QED BY <1>2, <1>3, <1>4, <1>5, <1>6, <1>7, <1>8 DEF Step

\* The types of a worker's own state.
LEMMA WorkTyped ==
  ASSUME ConfigTyped, NEW w \in Workers, Step(w)
  PROVE  /\ task' \in [Workers -> {None, "serve", "command"} \cup Chat]
         /\ pc' \in [Workers -> Steps]
         /\ DOMAIN job' = Workers
         /\ DOMAIN seen' = Workers /\ \A v \in Workers : seen'[v] = None \/ IsFile(seen'[v])
         /\ todo' \in [Workers -> SUBSET Files]
         /\ copying' \in [Workers -> Files \cup {None}]
<1>. DEFINE Well ==
        /\ task' \in [Workers -> {None, "serve", "command"} \cup Chat]
        /\ pc' \in [Workers -> Steps]
        /\ DOMAIN job' = Workers
        /\ DOMAIN seen' = Workers /\ \A v \in Workers : seen'[v] = None \/ IsFile(seen'[v])
        /\ todo' \in [Workers -> SUBSET Files]
        /\ copying' \in [Workers -> Files \cup {None}]
<1>1. /\ task \in [Workers -> {None, "serve", "command"} \cup Chat]
      /\ pc \in [Workers -> Steps]
      /\ DOMAIN job = Workers
      /\ DOMAIN seen = Workers /\ \A v \in Workers : seen[v] = None \/ IsFile(seen[v])
      /\ todo \in [Workers -> SUBSET Files]
      /\ copying \in [Workers -> Files \cup {None}]
      /\ file = None \/ IsFile(file)
      /\ oldFiles \in SUBSET Files
  BY DEF ConfigTyped
<1>. DEFINE Reachable == Moving \cup
        {"layout", "rewrite", "clean", "ensure", "create", "read", "write", "load", "reload", "done", "refused"}
<1>a. Reachable \subseteq Steps
  BY DEF Steps, AtRest
<1>b. \A x \in Reachable : [pc EXCEPT ![w] = x] \in [Workers -> Steps]
  BY <1>1, <1>a
<1>c. AfterLayout(w) \in {"ensure", "load", "read"}
  BY DEF AfterLayout
<1>d. AfterWrite(w) \in {"clean", "load", "reload", "done"}
  BY DEF AfterWrite
<1>. HIDE DEF Reachable
<1>e. {"layout", "move", "copy", "copied", "remove", "rewrite", "clean", "ensure", "create", "read", "write",
       "load", "reload", "done", "refused"} \subseteq Reachable
  BY DEF Reachable, Moving
<1>2. ASSUME Serve(w) \/ \E c \in Asked : Command(w, c) \/ Plan(w, c) PROVE Well
  BY <1>1, <1>2, <1>b, <1>e DEF Serve, Command, Plan, ChatCommand, Goto, config, disk, Chat
<1>3. ASSUME Layout(w) PROVE Well
  BY <1>1, <1>3, <1>b, <1>c, <1>e DEF Layout, Goto, config, disk
<1>4. ASSUME NEW f \in Files, Move(w, f) PROVE Well
  BY <1>1, <1>4, <1>b, <1>e DEF Move, Moved, Kept, Renamed, CopyBegins, Goto, config, disk
<1>5. ASSUME Copy(w) \/ Copied(w) \/ Remove(w) PROVE Well
  BY <1>1, <1>5, <1>b, <1>e DEF Copy, CopyOpen, Copied, Remove, Moved, Fault, Goto, config, disk
<1>6. ASSUME RewritePathsIn(w) \/ Clean(w) \/ Ensure(w) PROVE Well
  BY <1>1, <1>6, <1>b, <1>c, <1>e DEF RewritePathsIn, Clean, Ensure, Goto, config, disk
<1>7. ASSUME Create(w) \/ Read(w) \/ Write(w) PROVE Well
  BY <1>1, <1>7, <1>b, <1>d, <1>e DEF Create, Read, Write, Put, Goto, Fault, config, disk
<1>8. ASSUME Load(w) PROVE Well
  BY <1>1, <1>8, <1>b, <1>e DEF Load, Runs, MovesIntoProject, Continues, Goto, config, disk
<1>9. ASSUME Apply(w) \/ Cancel(w) PROVE Well
  BY <1>1, <1>9, <1>b, <1>e DEF Apply, Cancel, ChatCommand, Goto, config, disk, Chat
<1>. QED BY <1>2, <1>3, <1>4, <1>5, <1>6, <1>7, <1>8, <1>9 DEF Step

\* And of what is not a worker's.
LEMMA DiskTyped ==
  ASSUME ConfigTyped, NEW w \in Workers, Step(w)
  PROVE  /\ environment' \in [Platforms -> Switch]
         /\ pending' = None \/ (IsChange(pending') /\ pending'.kind \in {"agent", "default"})
         /\ old' \in BOOLEAN /\ serving' \in BOOLEAN /\ crossing' \in BOOLEAN /\ crowded' \in BOOLEAN
         /\ oldFiles' \subseteq Files
         /\ newFiles' \in [Files -> NewFiles]
<1>. DEFINE Well ==
         /\ environment' \in [Platforms -> Switch]
         /\ pending' = None \/ (IsChange(pending') /\ pending'.kind \in {"agent", "default"})
         /\ old' \in BOOLEAN /\ serving' \in BOOLEAN /\ crossing' \in BOOLEAN /\ crowded' \in BOOLEAN
         /\ oldFiles' \subseteq Files
         /\ newFiles' \in [Files -> NewFiles]
<1>1. /\ environment \in [Platforms -> Switch]
      /\ pending = None \/ (IsChange(pending) /\ pending.kind \in {"agent", "default"})
      /\ old \in BOOLEAN /\ serving \in BOOLEAN /\ crossing \in BOOLEAN /\ crowded \in BOOLEAN
      /\ oldFiles \subseteq Files
      /\ newFiles \in [Files -> NewFiles]
      /\ copying \in [Workers -> Files \cup {None}]
  BY DEF ConfigTyped
<1>a. \A c \in Asked : IsChange(c)
  BY ConfigConstants
<1>b. {"partial", "whole"} \subseteq NewFiles
  BY DEF NewFiles
<1>2. ASSUME Serve(w) \/ \E c \in Asked : Command(w, c) \/ Plan(w, c) PROVE Well
  BY <1>1, <1>2, <1>a DEF Serve, Command, Plan, ChatCommand, Goto, config, disk
<1>3. ASSUME Layout(w) PROVE Well
  BY <1>1, <1>3 DEF Layout, config, disk
<1>4. ASSUME NEW f \in Files, Move(w, f) PROVE Well
  BY <1>1, <1>4, <1>b DEF Move, Moved, Kept, Renamed, CopyBegins, config, disk
<1>5. ASSUME Copy(w) \/ Copied(w) \/ Remove(w) PROVE Well
  BY <1>1, <1>5, <1>b DEF Copy, CopyOpen, Copied, Remove, Moved, config, disk
<1>6. ASSUME RewritePathsIn(w) \/ Clean(w) \/ Ensure(w) PROVE Well
  BY <1>1, <1>6 DEF RewritePathsIn, Clean, Ensure, config, disk
<1>7. ASSUME Create(w) \/ Read(w) \/ Write(w) PROVE Well
  BY <1>1, <1>7 DEF Create, Read, Write, config, disk
<1>8. ASSUME Load(w) PROVE Well
  BY <1>1, <1>8 DEF Load, Runs, MovesIntoProject, Continues, config, disk
<1>9. ASSUME Apply(w) \/ Cancel(w) PROVE Well
  BY <1>1, <1>9 DEF Apply, Cancel, ChatCommand, config, disk
<1>. QED BY <1>2, <1>3, <1>4, <1>5, <1>6, <1>7, <1>8, <1>9 DEF Step


-----------------------------------------------------------------------------
(* The migration, step by step.                                            *)

OthersUntouched == \A f \in Files : newFiles[f] = "other" => newFiles'[f] = "other"

\* A step that takes w out of the moving, or leaves it out.
LEMMA QuietMoves ==
  ASSUME Moves, NEW w \in Workers, Alone(w), pc'[w] \notin Moving,
         UNCHANGED <<oldFiles, newFiles, crowded>>
  PROVE  Moves' /\ OthersUntouched
<1>1. \A v \in Workers : pc'[v] \in Moving => v # w /\ pc'[v] = pc[v] /\ copying'[v] = copying[v]
  BY DEF Alone
<1>2. OthersStay'
  <2>1. \A v \in Workers : AtAFile(v)' => AtAFile(v) /\ copying'[v] = copying[v]
    BY <1>1 DEF AtAFile, Moving
  <2>. QED BY <2>1 DEF Moves, OthersStay
<1>3. Complete => Complete'
  <2>. SUFFICES ASSUME Complete PROVE Complete'
    OBVIOUS
  <2>1. Lone'
    BY <1>1 DEF Complete, Lone
  <2>. QED BY <1>1, <2>1 DEF Complete, Moving
<1>. QED BY <1>2, <1>3 DEF Moves, OthersUntouched

LEMMA LayoutMoves ==
  ASSUME ConfigTyped, Moves, NEW w \in Workers, Layout(w)
  PROVE  Moves' /\ OthersUntouched
<1>1. /\ UNCHANGED <<oldFiles, newFiles, copying>>
      /\ pc' = [pc EXCEPT ![w] = IF old THEN "move" ELSE AfterLayout(w)]
      /\ crowded' = (crowded \/ (old /\ \E v \in Workers \ {w} : pc[v] \in Moving))
  BY DEF Layout, Goto
<1>2. pc[w] = "layout" /\ AfterLayout(w) \notin Moving
  BY DEF Layout, AfterLayout, Moving
<1>3. /\ pc'[w] = IF old THEN "move" ELSE AfterLayout(w)
      /\ \A v \in Workers : v # w => pc'[v] = pc[v]
  BY <1>1 DEF ConfigTyped
<1>4. \A v \in Workers : AtAFile(v)' => v # w /\ pc'[v] = pc[v]
  BY <1>2, <1>3 DEF AtAFile, Moving
<1>5. OthersStay'
  BY <1>1, <1>4 DEF Moves, OthersStay, AtAFile
<1>6. ~crowded' => Complete'
  <2>. SUFFICES ASSUME ~crowded' PROVE Complete'
    OBVIOUS
  <2>1. Complete /\ ~(old /\ \E v \in Workers \ {w} : pc[v] \in Moving)
    BY <1>1 DEF Moves
  <2>2. Lone'
    BY <1>2, <1>3, <2>1 DEF Complete, Lone
  <2>. QED BY <1>1, <1>4, <2>1, <2>2 DEF Complete, AtAFile
<1>7. crowded' \in BOOLEAN
  BY <1>1
<1>. QED BY <1>1, <1>5, <1>6, <1>7 DEF Moves, OthersUntouched

LEMMA MoveMoves ==
  ASSUME ConfigTyped, Moves, NEW w \in Workers, NEW f \in Files, Move(w, f), Alone(w)
  PROVE  Moves' /\ OthersUntouched
<1>1. pc[w] = "move" /\ crowded' = crowded /\ pc \in [Workers -> Steps]
  BY DEF Move, Moved, ConfigTyped
<1>2. CASE f \in oldFiles /\ Kept(w, f)
  <2>1. UNCHANGED <<pc, copying, oldFiles, newFiles, crowded>>
    BY <1>1, <1>2 DEF Kept
  <2>. QED BY <2>1 DEF Moves, OthersStay, AtAFile, Complete, Lone, OthersUntouched
<1>3. CASE f \in oldFiles /\ Renamed(w, f)
  <2>1. /\ UNCHANGED <<pc, copying, crowded>> /\ newFiles[f] = "none" /\ oldFiles' = oldFiles \ {f}
        /\ newFiles' = [newFiles EXCEPT ![f] = "whole"]
    BY <1>1, <1>3 DEF Renamed
  <2>2. newFiles'[f] = "whole" /\ \A g \in Files : g # f => newFiles'[g] = newFiles[g]
    BY <2>1 DEF ConfigTyped
  <2>3. OthersStay'
    BY <2>1, <2>2 DEF Moves, OthersStay, AtAFile
  <2>4. OthersUntouched
    BY <2>1, <2>2 DEF OthersUntouched
  <2>5. Complete => Complete'
    <3>. SUFFICES ASSUME Complete PROVE Complete'
      OBVIOUS
    <3>1. \A v \in Workers : pc[v] \notin {"copied", "remove"}
      BY <1>1 DEF Complete, Lone, Moving
    <3>2. Lone'
      BY <2>1 DEF Complete, Lone
    <3>. QED BY <2>1, <2>2, <3>1, <3>2 DEF Complete
  <2>. QED BY <2>1, <2>3, <2>4, <2>5 DEF Moves
<1>4. CASE f \in oldFiles /\ CopyBegins(w, f)
  <2>1. /\ UNCHANGED <<oldFiles, newFiles, crowded>> /\ newFiles[f] = "none"
        /\ pc' = [pc EXCEPT ![w] = "copy"] /\ copying' = [copying EXCEPT ![w] = f]
    BY <1>1, <1>4 DEF CopyBegins, Goto
  <2>2. pc'[w] = "copy" /\ copying'[w] = f
    BY <2>1 DEF ConfigTyped
  <2>3. \A v \in Workers : v # w => pc'[v] = pc[v] /\ copying'[v] = copying[v]
    BY DEF Alone
  <2>4. OthersStay'
    BY <2>1, <2>2, <2>3 DEF Moves, OthersStay, AtAFile
  <2>5. Complete => Complete'
    <3>. SUFFICES ASSUME Complete PROVE Complete'
      OBVIOUS
    <3>1. Lone'
      BY <1>1, <2>2, <2>3 DEF Complete, Lone, Moving
    <3>. QED BY <2>1, <2>2, <2>3, <3>1 DEF Complete
  <2>. QED BY <2>1, <2>4, <2>5 DEF Moves, OthersUntouched
<1>5. CASE f \notin oldFiles
  <2>1. UNCHANGED <<oldFiles, newFiles, crowded>> /\ pc'[w] = "refused"
    BY <1>1, <1>5 DEF Move, Goto
  <2>2. pc'[w] \notin Moving
    BY <2>1 DEF Moving
  <2>. QED BY <2>1, <2>2, QuietMoves
<1>. QED BY <1>2, <1>3, <1>4, <1>5 DEF Move

LEMMA CopyMoves ==
  ASSUME ConfigTyped, Moves, NEW w \in Workers, Copy(w) \/ Copied(w) \/ Remove(w), Alone(w)
  PROVE  Moves' /\ OthersUntouched
<1>1. /\ pc[w] \in {"copy", "copied", "remove"} /\ crowded' = crowded
      /\ copying[w] \in Files /\ newFiles[copying[w]] # "other"
  BY DEF Copy, Copied, Remove, Moved, Moves, OthersStay, AtAFile
<1>2. PICK f \in Files : f = copying[w]
  BY <1>1
<1>3. \A v \in Workers : v # w => pc'[v] = pc[v] /\ copying'[v] = copying[v]
  BY DEF Alone
<1>4. Complete => \A v \in Workers : v # w => pc[v] \notin Moving /\ pc'[v] \notin Moving
  BY <1>1, <1>3 DEF Complete, Lone, Moving
<1>5. CASE pc'[w] = "refused" /\ UNCHANGED <<oldFiles, newFiles>>
  BY <1>1, <1>5, QuietMoves DEF Moving
<1>6. CASE Copy(w) /\ f \in oldFiles
  <2>1. /\ newFiles' = [newFiles EXCEPT ![f] = "partial"] /\ pc' = [pc EXCEPT ![w] = "copied"]
        /\ UNCHANGED <<oldFiles, copying>>
    BY <1>2, <1>6 DEF Copy, CopyOpen, Goto
  <2>2. /\ newFiles'[f] = "partial" /\ \A g \in Files : g # f => newFiles'[g] = newFiles[g]
        /\ pc'[w] = "copied"
    BY <2>1 DEF ConfigTyped
  <2>3. OthersStay'
    BY <1>1, <1>2, <1>3, <2>1, <2>2 DEF Moves, OthersStay, AtAFile
  <2>4. Complete => Complete'
    BY <1>2, <1>4, <1>6, <2>1, <2>2 DEF Complete, Lone, Moving
  <2>5. OthersUntouched
    BY <1>1, <1>2, <2>2 DEF OthersUntouched
  <2>. QED BY <1>1, <2>3, <2>4, <2>5 DEF Moves
<1>7. CASE Copied(w) /\ newFiles' = [newFiles EXCEPT ![f] = "whole"] /\ pc' = [pc EXCEPT ![w] = "remove"]
  <2>1. UNCHANGED <<oldFiles, copying>>
    BY <1>7 DEF Copied
  <2>2. /\ newFiles'[f] = "whole" /\ \A g \in Files : g # f => newFiles'[g] = newFiles[g]
        /\ pc'[w] = "remove"
    BY <1>7 DEF ConfigTyped
  <2>3. OthersStay'
    BY <1>1, <1>2, <1>3, <2>1, <2>2 DEF Moves, OthersStay, AtAFile
  <2>4. Complete => Complete'
    BY <1>2, <1>4, <2>1, <2>2 DEF Complete, Lone, Moving
  <2>5. OthersUntouched
    BY <1>1, <1>2, <2>2 DEF OthersUntouched
  <2>. QED BY <1>1, <2>3, <2>4, <2>5 DEF Moves
<1>8. CASE Remove(w)
  <2>1. /\ oldFiles' = oldFiles \ {f} /\ newFiles' = newFiles /\ copying' = [copying EXCEPT ![w] = None]
        /\ pc'[w] \in {"move", "refused"} /\ pc[w] = "remove"
    BY <1>2, <1>8 DEF Remove, Goto, ConfigTyped
  <2>2. OthersStay'
    BY <1>3, <2>1 DEF Moves, OthersStay, AtAFile
  <2>3. Complete => Complete'
    BY <1>2, <1>4, <2>1 DEF Complete, Lone, Moving
  <2>. QED BY <1>1, <2>1, <2>2, <2>3 DEF Moves, OthersUntouched
<1>9. Copy(w) /\ f \notin oldFiles => pc'[w] = "refused" /\ UNCHANGED <<oldFiles, newFiles>>
  BY <1>2 DEF Copy, Goto, ConfigTyped
<1>10. Copied(w) => \/ newFiles' = [newFiles EXCEPT ![f] = "whole"] /\ pc' = [pc EXCEPT ![w] = "remove"]
                    \/ pc'[w] = "refused" /\ UNCHANGED <<oldFiles, newFiles>>
  BY <1>2 DEF Copied, Goto, ConfigTyped
<1>. QED BY <1>5, <1>6, <1>7, <1>8, <1>9, <1>10

LEMMA StepMoves ==
  ASSUME ConfigTyped, Moves, NEW w \in Workers, Step(w)
  PROVE  Moves' /\ OthersUntouched
<1>1. Alone(w)
  BY AloneStep
<1>2. CASE Layout(w)
  BY <1>2, LayoutMoves
<1>3. CASE \E f \in Files : Move(w, f)
  BY <1>1, <1>3, MoveMoves
<1>4. CASE Copy(w) \/ Copied(w) \/ Remove(w)
  BY <1>1, <1>4, CopyMoves
<1>5. CASE ~Layout(w) /\ ~(\E f \in Files : Move(w, f)) /\ ~Copy(w) /\ ~Copied(w) /\ ~Remove(w)
  <2>1. DOMAIN pc = Workers
    BY DEF ConfigTyped
  <2>2. AfterLayout(w) \notin Moving /\ AfterWrite(w) \notin Moving
    BY DEF AfterLayout, AfterWrite, Moving
  <2>3. UNCHANGED <<oldFiles, newFiles, crowded>>
    BY <1>5 DEF Step, Serve, Command, Plan, RewritePathsIn, Clean, Ensure, Create, Read, Write, Load, Apply,
       Cancel, ChatCommand, config, disk
  <2>4. pc'[w] \notin Moving
    <3>1. CASE Serve(w) \/ (\E c \in Asked : Command(w, c) \/ Plan(w, c)) \/ RewritePathsIn(w)
      BY <2>1, <3>1 DEF Serve, Command, Plan, RewritePathsIn, Goto, Moving
    <3>2. CASE Clean(w) \/ Ensure(w) \/ Read(w) \/ Apply(w) \/ Cancel(w)
      BY <2>1, <2>2, <3>2 DEF Clean, Ensure, Read, Apply, Cancel, Goto, Moving
    <3>3. CASE Create(w) \/ Write(w)
      BY <2>1, <2>2, <3>3 DEF Create, Write, Put, Goto, Moving
    <3>4. CASE Load(w)
      BY <2>1, <3>4 DEF Load, Runs, MovesIntoProject, Continues, Goto, Moving
    <3>. QED BY <1>5, <3>1, <3>2, <3>3, <3>4 DEF Step
  <2>. QED BY <1>1, <2>3, <2>4, QuietMoves
<1>. QED BY <1>2, <1>3, <1>4, <1>5


-----------------------------------------------------------------------------
(* The paths and the changes, step by step.                                *)

\* Whoever gets past the rewriting has found no path, or has rewritten them.
LEMMA StepIntoPast ==
  ASSUME ConfigIInv, NEW w \in Workers, Step(w), pc'[w] \in Past
  PROVE  NoOld(file) \/ (file' # file /\ Writing(w, file'))
<1>1. (~old \/ serving => NoOld(file)) /\ (pc[w] \in Past => NoOld(file))
  BY DEF ConfigIInv, Rewrites
<1>2. DOMAIN pc = Workers
  BY DEF ConfigIInv, ConfigTyped
<1>3. CASE Serve(w) \/ \E c \in Asked : Command(w, c) \/ Plan(w, c)
  BY <1>2, <1>3 DEF Serve, Command, Plan, Goto, Past
<1>4. CASE Layout(w)
  BY <1>1, <1>2, <1>4 DEF Layout, Goto, Past
<1>5. CASE \E f \in Files : Move(w, f)
  BY <1>2, <1>5 DEF Move, Kept, Renamed, CopyBegins, Goto, Past
<1>6. CASE Copy(w) \/ Copied(w) \/ Remove(w)
  BY <1>2, <1>6 DEF Copy, CopyOpen, Copied, Remove, Goto, Past
<1>7. CASE RewritePathsIn(w)
  BY <1>2, <1>7 DEF RewritePathsIn, Goto, Past, NoOld
<1>8. CASE Clean(w) \/ Ensure(w) \/ Read(w) \/ Load(w) \/ Create(w)
  <2>1. pc[w] \in Past
    BY <1>8 DEF Clean, Ensure, Read, Load, Create, Past
  <2>. QED BY <1>1, <2>1
<1>9. CASE Write(w)
  <2>1. file' = file \/ Writing(w, file')
    BY <1>9 DEF Write, Put, Writing
  <2>2. CASE pc[w] = "write"
    BY <1>1, <2>2 DEF Past
  <2>3. CASE pc[w] = "rewrite" /\ file' = file
    <3>1. CASE pc'[w] = "refused"
      BY <3>1 DEF Past
    <3>2. CASE pc'[w] # "refused"
      <4>1. file' = Changed(ReadFile(seen[w]), Change(w))
        BY <1>2, <1>9, <3>2 DEF Write, Put, Goto
      <4>2. Writing(w, file')
        BY <2>3, <4>1 DEF Writing
      <4>3. NoOld(file')
        BY <4>2, WrittenIsSound
      <4>. QED BY <2>3, <4>3
    <3>. QED BY <3>1, <3>2
  <2>. QED BY <1>9, <2>1, <2>2, <2>3 DEF Write
<1>10. CASE Apply(w) \/ Cancel(w)
  BY <1>1, <1>10 DEF Apply, Cancel, ChatCommand
<1>. QED BY <1>3, <1>4, <1>5, <1>6, <1>7, <1>8, <1>9, <1>10 DEF Step

LEMMA StepRewrites ==
  ASSUME ConfigIInv, NEW w \in Workers, Step(w)
  PROVE  Rewrites'
<1>1. NoOld(file) => NoOld(file')
  BY FileStaysSound
<1>2. Alone(w) /\ DOMAIN pc = Workers /\ DOMAIN seen = Workers
  BY AloneStep DEF ConfigIInv, ConfigTyped
<1>3. Rewrites
  BY DEF ConfigIInv
<1>4. ~old' \/ serving' => ~old \/ serving \/ pc[w] \in Past
  <2>1. old' = old \/ pc[w] = "clean"
    BY DEF Step, Serve, Command, Plan, Layout, Move, Moved, Copy, Copied, Remove, RewritePathsIn, Clean, Ensure,
       Create, Read, Write, Load, Apply, Cancel, ChatCommand, disk
  <2>2. serving' = serving \/ pc[w] \in {"load", "reload"}
    BY DEF Step, Serve, Command, Plan, Layout, Move, Moved, Copy, Copied, Remove, RewritePathsIn, Clean, Ensure,
       Create, Read, Write, Load, Apply, Cancel, ChatCommand, config
  <2>. QED BY <2>1, <2>2 DEF Past
<1>5. ~old' \/ serving' => NoOld(file')
  BY <1>1, <1>3, <1>4 DEF Rewrites
<1>6. pc'[w] \in Past => NoOld(file')
  <2>1. Writing(w, file') => NoOld(file')
    <3>1. PICK f : f = file'
      OBVIOUS
    <3>. QED BY <3>1, WrittenIsSound
  <2>. QED BY <1>1, <2>1, StepIntoPast
<1>7. pc'[w] = "write" => NoOld(seen'[w])
  <2>1. CASE Read(w)
    <3>1. NoOld(file)
      BY <1>3, <2>1 DEF Rewrites, Read, Past
    <3>. QED BY <1>2, <2>1, <3>1 DEF Read, Goto
  <2>2. CASE ~Read(w)
    <3>1. AfterLayout(w) # "write" /\ AfterWrite(w) # "write"
      BY DEF AfterLayout, AfterWrite
    <3>2. CASE Serve(w) \/ (\E c \in Asked : Command(w, c) \/ Plan(w, c)) \/ Apply(w) \/ Cancel(w)
      BY <1>2, <3>2 DEF Serve, Command, Plan, Apply, Cancel, Goto
    <3>3. CASE Layout(w) \/ RewritePathsIn(w) \/ Clean(w) \/ Ensure(w)
      BY <1>2, <3>1, <3>3 DEF Layout, RewritePathsIn, Clean, Ensure, Goto
    <3>4. CASE \E f \in Files : Move(w, f)
      BY <1>2, <3>4 DEF Move, Kept, Renamed, CopyBegins, Goto
    <3>5. CASE Copy(w) \/ Copied(w) \/ Remove(w)
      BY <1>2, <3>5 DEF Copy, CopyOpen, Copied, Remove, Goto
    <3>6. CASE Create(w) \/ Write(w)
      BY <1>2, <3>1, <3>6 DEF Create, Write, Put, Goto
    <3>7. CASE Load(w)
      BY <1>2, <3>7 DEF Load, Runs, MovesIntoProject, Continues, Goto
    <3>. QED BY <2>2, <3>2, <3>3, <3>4, <3>5, <3>6, <3>7 DEF Step
  <2>. QED BY <2>1, <2>2
<1>8. \A v \in Workers : v # w => /\ pc'[v] \in Past => NoOld(file')
                                  /\ pc'[v] = "write" => NoOld(seen'[v])
  BY <1>1, <1>2, <1>3 DEF Rewrites, Alone
<1>. QED BY <1>5, <1>6, <1>7, <1>8 DEF Rewrites


\* At rest there is nothing to justify.
LEMMA RestIsJustified ==
  ASSUME NEW w, pc'[w] \in AtRest
  PROVE  Justified(w)'
  BY DEF Justified, AtRest, Started, Moving

\* Within a start the task and the change stay.
LEMMA StartIsJustified ==
  ASSUME NEW w, Justified(w), pc[w] \in Started, task'[w] = task[w], job'[w] = job[w],
         pc'[w] \in Moving \cup {"layout", "clean", "ensure", "create"}
  PROVE  Justified(w)'
<1>1. task[w] \in {"serve", "command"} /\ (task[w] = "command" => IsChange(job[w]))
  BY DEF Justified
<1>2. pc'[w] \in Started /\ pc'[w] \notin {"read", "write", "rewrite", "load", "reload"}
  BY DEF Started, Moving
<1>. QED BY <1>1, <1>2 DEF Justified

LEMMA LayoutIsJustified ==
  ASSUME NEW w, Justified(w), pc[w] \in Started, task'[w] = task[w], job'[w] = job[w],
         pc'[w] = AfterLayout(w)
  PROVE  Justified(w)'
<1>1. task[w] \in {"serve", "command"} /\ (task[w] = "command" => IsChange(job[w]))
  BY DEF Justified
<1>2. CASE task[w] = "serve" \/ job[w].kind \in {"channel", "bootstrap"}
  <2>1. pc'[w] = "ensure"
    BY <1>1, <1>2 DEF AfterLayout
  <2>. QED BY <2>1, StartIsJustified
<1>3. CASE task[w] = "command" /\ job[w].kind = "skills"
  <2>1. pc'[w] = "load"
    BY <1>3 DEF AfterLayout
  <2>. QED BY <1>1, <1>3, <2>1 DEF Justified
<1>4. CASE task[w] = "command" /\ job[w].kind \notin {"channel", "bootstrap", "skills"}
  <2>1. pc'[w] = "read"
    BY <1>4 DEF AfterLayout
  <2>2. pc'[w] \notin Started
    BY <2>1 DEF Started, Moving
  <2>. QED BY <1>1, <1>4, <2>1, <2>2 DEF Justified
<1>. QED BY <1>1, <1>2, <1>3, <1>4

\* What a worker reads the file for.
LEMMA ReaderIsJustified ==
  ASSUME NEW w, NEW c, IsChange(c), c.kind # "bootstrap", job'[w] = c, pc'[w] = "read"
  PROVE  Justified(w)'
  BY DEF Justified, Started, Moving

LEMMA SkillNames ==
  ASSUME ConfigTyped, NEW c, IsChange(c), c.kind = "skills", NEW d, d = [c EXCEPT !.names = Disabled(c)]
  PROVE  IsChange(d) /\ d.kind = "skills"
<1>1. c \in [kind : {"skills"}, name : Skills, on : BOOLEAN, names : SUBSET Skills]
  BY DEF IsChange
<1>2. file # None => file.skills.disabled \subseteq Skills
  BY DEF ConfigTyped, IsFile, ConfigFile
<1>3. PICK names \in SUBSET Skills : names = Disabled(c)
  BY <1>1, <1>2 DEF Disabled
<1>4. d = [c EXCEPT !.names = names]
  BY <1>3
<1>5. d \in [kind : {"skills"}, name : Skills, on : BOOLEAN, names : SUBSET Skills] /\ d.kind = "skills"
  BY <1>1, <1>4
<1>. QED BY <1>5 DEF IsChange

LEMMA LoadIsJustified ==
  ASSUME ConfigTyped, NEW w \in Workers, Justified(w), Load(w)
  PROVE  Justified(w)'
<1>1. /\ pc[w] \in {"load", "reload"} /\ pc[w] \in Started /\ UNCHANGED <<file, task, seen>>
      /\ DOMAIN pc = Workers /\ DOMAIN job = Workers
  BY DEF Load, Started, ConfigTyped
<1>2. task[w] \in {"serve", "command"} /\ (task[w] = "command" => IsChange(job[w]))
  BY <1>1 DEF Justified
<1>3. CASE pc'[w] \in AtRest
  BY <1>3, RestIsJustified
<1>4. CASE task[w] = "serve" /\ MovesIntoProject(w)
  <2>1. file # None /\ IsFile(file) /\ file \in ConfigFile
    BY <1>1, <1>4 DEF Justified, ConfigTyped, IsFile
  <2>2. PICK a \in Agents :
          /\ file.agents[a] # None
          /\ job' = [job EXCEPT ![w] =
               [kind |-> "agent", agent |-> a, profile |-> file.agents[a].profile,
                workspace |-> "own", asDefault |-> TRUE]]
    BY <1>4 DEF MovesIntoProject, Defined
  <2>4. PICK x \in Agent : x = file.agents[a]
    BY <2>1, <2>2 DEF ConfigFile
  <2>5. PICK c : c = [kind |-> "agent", agent |-> a, profile |-> x.profile, workspace |-> "own", asDefault |-> TRUE]
    OBVIOUS
  <2>6. c \in [kind : {"agent"}, agent : Agents, profile : Profiles, workspace : {"new", "own"}, asDefault : BOOLEAN]
    BY <2>5 DEF Agent
  <2>7. IsChange(c) /\ c.kind # "bootstrap"
    BY <2>6 DEF IsChange
  <2>8. job' = [job EXCEPT ![w] = c] /\ pc' = [pc EXCEPT ![w] = "read"]
    BY <1>4, <2>2, <2>4, <2>5 DEF MovesIntoProject, Goto
  <2>9. job'[w] = c /\ pc'[w] = "read"
    BY <1>1, <2>8
  <2>. QED BY <2>7, <2>9, ReaderIsJustified
<1>5. CASE task[w] = "command" /\ Continues(w)
  <2>1. CASE job[w].kind = "bootstrap"
    <3>1. pc'[w] = "create" /\ job' = job
      BY <1>1, <1>5, <2>1 DEF Continues, Goto
    <3>. QED BY <1>1, <3>1, StartIsJustified
  <2>2. CASE job[w].kind = "skills"
    <3>1. PICK d : d = [job[w] EXCEPT !.names = Disabled(job[w])]
      OBVIOUS
    <3>2. IsChange(d) /\ d.kind = "skills"
      BY <1>2, <1>5, <2>2, <3>1, SkillNames
    <3>3. job' = [job EXCEPT ![w] = d] /\ pc'[w] = "read"
      BY <1>1, <1>5, <2>2, <3>1 DEF Continues, Goto
    <3>4. job'[w] = d
      BY <1>1, <3>3
    <3>. QED BY <3>2, <3>3, <3>4, ReaderIsJustified
  <2>3. CASE job[w].kind \notin {"bootstrap", "skills"}
    <3>1. pc'[w] = "read" /\ job' = job
      BY <1>1, <1>5, <2>3 DEF Continues, Goto
    <3>. QED BY <1>2, <1>5, <2>3, <3>1, ReaderIsJustified
  <2>. QED BY <2>1, <2>2, <2>3
<1>6. pc'[w] \in AtRest \/ (task[w] = "serve" /\ MovesIntoProject(w)) \/ (task[w] # "serve" /\ Continues(w))
  BY <1>1 DEF Load, Runs, Goto, AtRest
<1>. QED BY <1>2, <1>3, <1>4, <1>5, <1>6

LEMMA StepIsJustified ==
  ASSUME ConfigIInv, NEW w \in Workers, Step(w)
  PROVE  Justified(w)'
<1>1. /\ DOMAIN pc = Workers /\ DOMAIN task = Workers /\ DOMAIN job = Workers /\ DOMAIN seen = Workers
      /\ Justified(w) /\ ConfigTyped
  BY DEF ConfigIInv, ConfigTyped, Changes
<1>2. CASE Serve(w)
  <2>1. pc'[w] = "layout" /\ task'[w] = "serve"
    BY <1>1, <1>2 DEF Serve, Goto
  <2>. QED BY <2>1 DEF Justified
<1>3. CASE \E c \in Asked : Command(w, c)
  <2>1. PICK c \in Asked : Command(w, c)
    BY <1>3
  <2>2. pc'[w] = "layout" /\ task'[w] = "command" /\ job'[w] = c /\ IsChange(c)
    BY <1>1, <2>1, ConfigConstants DEF Command, Goto
  <2>. QED BY <2>2 DEF Justified
<1>4. CASE (\E c \in Asked : Plan(w, c)) \/ Cancel(w)
  <2>1. pc'[w] \in AtRest
    BY <1>1, <1>4 DEF Plan, Cancel, Goto, AtRest
  <2>. QED BY <2>1, RestIsJustified
<1>5. CASE Apply(w)
  <2>1. CASE pending = None
    <3>1. pc'[w] \in AtRest
      BY <1>1, <1>5, <2>1 DEF Apply, Goto, AtRest
    <3>. QED BY <3>1, RestIsJustified
  <2>2. CASE pending # None
    <3>1. IsChange(pending) /\ pending.kind # "bootstrap"
      BY <1>1, <2>2 DEF ConfigTyped
    <3>2. pc'[w] = "read" /\ job'[w] = pending
      BY <1>1, <1>5, <2>2 DEF Apply, Goto
    <3>. QED BY <3>1, <3>2, ReaderIsJustified
  <2>. QED BY <2>1, <2>2
<1>6. CASE Layout(w)
  <2>1. pc[w] \in Started /\ task' = task /\ job' = job /\ pc'[w] \in {"move", AfterLayout(w)}
    BY <1>1, <1>6 DEF Layout, Goto, Started
  <2>2. CASE pc'[w] = "move"
    BY <1>1, <2>1, <2>2, StartIsJustified DEF Moving
  <2>. QED BY <1>1, <2>1, <2>2, LayoutIsJustified
<1>7. CASE (\E f \in Files : Move(w, f)) \/ Copy(w) \/ Copied(w) \/ Remove(w)
  <2>1. pc[w] \in Started /\ task' = task /\ job' = job
    BY <1>7 DEF Move, Copy, Copied, Remove, Moved, Started, Moving
  <2>2. pc'[w] \in Moving \cup {"refused"}
    <3>1. CASE \E f \in Files : Move(w, f)
      BY <1>1, <3>1 DEF Move, Kept, Renamed, CopyBegins, Goto, Moving
    <3>2. CASE Copy(w) \/ Copied(w) \/ Remove(w)
      BY <1>1, <3>2 DEF Copy, CopyOpen, Copied, Remove, Goto, Moving
    <3>. QED BY <1>7, <3>1, <3>2
  <2>3. CASE pc'[w] = "refused"
    BY <2>3, RestIsJustified DEF AtRest
  <2>. QED BY <1>1, <2>1, <2>2, <2>3, StartIsJustified
<1>8. CASE RewritePathsIn(w)
  <2>1. pc[w] \in Started /\ task' = task /\ job' = job /\ file' = file
    BY <1>8 DEF RewritePathsIn, Started, Moving, config
  <2>2. \/ pc'[w] \in {"clean", "refused"}
        \/ pc'[w] = "rewrite" /\ seen'[w] = file /\ file # None /\ ~Unreadable(file)
    BY <1>1, <1>8 DEF RewritePathsIn, Goto
  <2>3. CASE pc'[w] = "clean"
    BY <1>1, <2>1, <2>3, StartIsJustified
  <2>4. CASE pc'[w] = "refused"
    BY <2>4, RestIsJustified DEF AtRest
  <2>5. CASE pc'[w] = "rewrite" /\ seen'[w] = file /\ file # None /\ ~Unreadable(file)
    <3>1. task[w] \in {"serve", "command"} /\ (task[w] = "command" => IsChange(job[w]))
      BY <1>1, <2>1 DEF Justified
    <3>. QED BY <2>1, <2>5, <3>1 DEF Justified
  <2>. QED BY <2>2, <2>3, <2>4, <2>5
<1>9. CASE Clean(w)
  <2>1. pc[w] \in Started /\ task' = task /\ job' = job /\ pc'[w] = AfterLayout(w)
    BY <1>1, <1>9 DEF Clean, Goto, Started
  <2>. QED BY <1>1, <2>1, LayoutIsJustified
<1>10. CASE Ensure(w)
  <2>1. /\ pc[w] \in Started /\ task' = task /\ job' = job /\ file' = file
        /\ pc'[w] = IF file = None THEN "create" ELSE "load"
    BY <1>1, <1>10 DEF Ensure, Goto, Started, config
  <2>2. CASE file = None
    BY <1>1, <2>1, <2>2, StartIsJustified
  <2>3. CASE file # None
    <3>1. task[w] \in {"serve", "command"} /\ (task[w] = "command" => IsChange(job[w]))
      BY <1>1, <2>1 DEF Justified
    <3>. QED BY <2>1, <2>3, <3>1 DEF Justified
  <2>. QED BY <2>2, <2>3
<1>11. CASE Read(w)
  <2>1. CASE Unreadable(file) \/ Refuses(ReadFile(file), job[w])
    <3>1. pc'[w] \in AtRest
      BY <1>1, <1>11, <2>1 DEF Read, Goto, AtRest
    <3>. QED BY <3>1, RestIsJustified
  <2>2. CASE ~(Unreadable(file) \/ Refuses(ReadFile(file), job[w]))
    <3>1. pc'[w] = "write" /\ seen'[w] = file /\ job' = job /\ pc[w] = "read"
      BY <1>1, <1>11, <2>2 DEF Read, Goto
    <3>2. IsChange(job[w]) /\ job[w].kind # "bootstrap"
      BY <1>1, <3>1 DEF Justified
    <3>3. pc'[w] \notin Started
      BY <3>1 DEF Started, Moving
    <3>. QED BY <2>2, <3>1, <3>2, <3>3 DEF Justified
  <2>. QED BY <2>1, <2>2
<1>12. CASE Create(w) \/ Write(w)
  <2>1. task' = task /\ job' = job /\ pc'[w] \in {AfterWrite(w), "refused"}
    BY <1>1, <1>12 DEF Create, Write, Put, Goto
  <2>2. CASE pc'[w] = "refused"
    BY <2>2, RestIsJustified DEF AtRest
  <2>3. CASE pc'[w] = AfterWrite(w) /\ pc'[w] # "refused"
    <3>1. Writing(w, file')
      BY <1>1, <1>12, <2>3 DEF Create, Write, Put, Goto, Writing
    <3>2. file' # None
      <4>1. PICK f : f = file'
        OBVIOUS
      <4>. QED BY <3>1, <4>1, WrittenIsSound
    <3>3. pc[w] \in {"create", "rewrite", "write"}
      BY <1>12 DEF Create, Write
    <3>4. CASE pc[w] = "rewrite"
      <4>1. pc'[w] = "clean" /\ pc[w] \in Started
        BY <2>3, <3>4 DEF AfterWrite, Started
      <4>. QED BY <1>1, <2>1, <4>1, StartIsJustified
    <3>5. CASE pc[w] = "create"
      <4>1. pc'[w] \in {"load", "done"} /\ pc[w] \in Started
        BY <2>3, <3>5 DEF AfterWrite, Started
      <4>2. task[w] \in {"serve", "command"} /\ (task[w] = "command" => IsChange(job[w]))
        BY <1>1, <4>1 DEF Justified
      <4>3. CASE pc'[w] = "done"
        BY <4>3, RestIsJustified DEF AtRest
      <4>4. CASE pc'[w] = "load"
        BY <2>1, <3>2, <4>2, <4>4 DEF Justified
      <4>. QED BY <4>1, <4>3, <4>4
    <3>6. CASE pc[w] = "write"
      <4>1. CASE task[w] = "serve"
        <5>1. pc'[w] = "reload"
          BY <2>3, <3>6, <4>1 DEF AfterWrite
        <5>. QED BY <2>1, <3>2, <4>1, <5>1 DEF Justified
      <4>2. CASE task[w] # "serve"
        <5>1. pc'[w] = "done"
          BY <2>3, <3>6, <4>2 DEF AfterWrite
        <5>. QED BY <5>1, RestIsJustified DEF AtRest
      <4>. QED BY <4>1, <4>2
    <3>. QED BY <3>3, <3>4, <3>5, <3>6
  <2>. QED BY <2>1, <2>2, <2>3
<1>13. CASE Load(w)
  BY <1>1, <1>13, LoadIsJustified
<1>. QED BY <1>2, <1>3, <1>4, <1>5, <1>6, <1>7, <1>8, <1>9, <1>10, <1>11, <1>12, <1>13 DEF Step

LEMMA StepChanges ==
  ASSUME ConfigIInv, NEW w \in Workers, Step(w)
  PROVE  Changes'
<1>1. Alone(w)
  BY AloneStep DEF ConfigIInv
<1>2. ASSUME NEW v \in Workers, v # w PROVE Justified(v)'
  <2>1. Justified(v) /\ (file # None => file' # None)
    BY FileStaysSound DEF ConfigIInv, Changes
  <2>2. pc'[v] = pc[v] /\ task'[v] = task[v] /\ job'[v] = job[v] /\ seen'[v] = seen[v]
    BY <1>1, <1>2 DEF Alone
  <2>. QED BY <2>1, <2>2 DEF Justified
<1>3. Justified(w)'
  BY StepIsJustified
<1>4. ours' => file' # None /\ Explicit(file')
  BY FileStaysSound
<1>5. \A v \in Workers : Justified(v)'
  BY <1>2, <1>3
<1>6. Explicit(file)' <=> Explicit(file')
  BY DEF Explicit
<1>. QED BY <1>4, <1>5, <1>6 DEF Changes


-----------------------------------------------------------------------------
(* The theorems.                                                           *)

LEMMA StopKeeps ==
  ASSUME ConfigIInv, Stop
  PROVE  ConfigIInv' /\ OthersUntouched
<1>1. /\ UNCHANGED <<file, environment, ours, task, job, seen, todo, copying, disk>>
      /\ \/ serving' = serving /\ pending' = pending
         \/ serving' = FALSE /\ pending' = None
  BY DEF Stop
<1>2. DOMAIN pc' = Workers /\ \A w \in Workers : pc'[w] \in {pc[w], "lost"}
  BY DEF Stop, Lost
<1>3. pc' \in [Workers -> Steps]
  <2>1. PICK W : pc' = [w \in Workers |-> IF w \in W THEN "lost" ELSE pc[w]]
    BY DEF Stop, Lost
  <2>2. pc \in [Workers -> Steps] /\ "lost" \in Steps
    BY DEF ConfigIInv, ConfigTyped, Steps, AtRest
  <2>. QED BY <2>1, <2>2
<1>4. ConfigTyped'
  BY <1>1, <1>3 DEF ConfigIInv, ConfigTyped, disk
<1>5. \A w \in Workers : pc'[w] # "lost" => pc'[w] = pc[w]
  BY <1>2
<1>6. OthersStay'
  <2>1. \A w \in Workers : AtAFile(w)' => AtAFile(w)
    BY <1>5 DEF AtAFile
  <2>. QED BY <1>1, <2>1 DEF ConfigIInv, Moves, OthersStay, disk
<1>7. Complete => Complete'
  <2>. SUFFICES ASSUME Complete PROVE Complete'
    OBVIOUS
  <2>1. \A w \in Workers : pc'[w] \in Moving => pc'[w] = pc[w]
    BY <1>5 DEF Moving
  <2>2. Lone'
    BY <2>1 DEF Complete, Lone
  <2>. QED BY <1>1, <1>5, <2>2 DEF Complete, disk
<1>8. Moves' /\ OthersUntouched
  BY <1>1, <1>6, <1>7 DEF ConfigIInv, Moves, OthersUntouched, disk
<1>9. Rewrites'
  <2>1. serving' => serving
    BY <1>1
  <2>. QED BY <1>1, <1>5, <2>1 DEF ConfigIInv, Rewrites, Past, disk
<1>10. Changes'
  <2>1. ASSUME NEW w \in Workers PROVE Justified(w)'
    <3>1. CASE pc'[w] = "lost"
      BY <3>1, RestIsJustified DEF AtRest
    <3>2. CASE pc'[w] = pc[w]
      BY <1>1, <3>2 DEF ConfigIInv, Changes, Justified
    <3>. QED BY <1>2, <3>1, <3>2
  <2>2. ours' => file' # None /\ Explicit(file)'
    BY <1>1 DEF ConfigIInv, Changes, Explicit
  <2>. QED BY <2>1, <2>2 DEF Changes
<1>. QED BY <1>4, <1>8, <1>9, <1>10 DEF ConfigIInv

LEMMA StepKeeps ==
  ASSUME ConfigIInv, NEW w \in Workers, Step(w)
  PROVE  ConfigIInv' /\ OthersUntouched
<1>1. ConfigTyped'
  <2>1. ConfigTyped /\ ours \in BOOLEAN
    BY DEF ConfigIInv, ConfigTyped
  <2>2. file' = None \/ IsFile(file')
    BY FileStaysSound
  <2>3. ours' \in BOOLEAN
    BY <2>1, FileStaysSound
  <2>. QED BY <2>1, <2>2, <2>3, WorkTyped, DiskTyped DEF ConfigTyped, IsFile, IsChange
<1>2. Moves' /\ OthersUntouched
  BY StepMoves DEF ConfigIInv
<1>. QED BY <1>1, <1>2, StepRewrites, StepChanges DEF ConfigIInv

LEMMA StartKeeps == Init => ConfigIInv
<1>. SUFFICES ASSUME Init PROVE ConfigIInv
  OBVIOUS
<1>1. pc = [w \in Workers |-> "new"] /\ (file = None \/ IsFile(file)) /\ environment \in [Platforms -> Switch]
  BY ConfigConstants DEF Init
<1>2. ConfigTyped
  <2>1. "new" \in Steps /\ {"none", "other", "whole"} \subseteq NewFiles
    BY DEF Steps, AtRest, NewFiles
  <2>2. oldFiles \subseteq Files /\ newFiles \in [Files -> NewFiles]
    BY <2>1 DEF Init
  <2>3. old \in BOOLEAN /\ serving \in BOOLEAN /\ crossing \in BOOLEAN /\ crowded \in BOOLEAN /\ ours \in BOOLEAN
    BY DEF Init
  <2>. QED BY <1>1, <2>1, <2>2, <2>3 DEF Init, ConfigTyped
<1>3. Moves
  <2>1. \A f \in Files : f \in oldFiles \/ newFiles[f] = "whole"
    BY DEF Init
  <2>. QED BY <1>1, <2>1 DEF Moves, OthersStay, AtAFile, Complete, Lone, Moving
<1>4. Rewrites
  BY <1>1 DEF Init, Rewrites, Past, NoOld
<1>5. Changes
  <2>1. ~ours
    BY DEF Init
  <2>. QED BY <1>1, <2>1 DEF Changes, Justified, Started, Moving
<1>. QED BY <1>2, <1>3, <1>4, <1>5 DEF ConfigIInv

LEMMA NextCases == [Next]_vars => (\E w \in Workers : Step(w)) \/ Stop \/ UNCHANGED vars
  BY DEF Next, Step

LEMMA NextKeeps ==
  ASSUME ConfigIInv, [Next]_vars
  PROVE  ConfigIInv' /\ OthersUntouched
<1>1. CASE UNCHANGED vars
  BY <1>1 DEF vars, config, disk, work, bounds, ConfigIInv, ConfigTyped, Moves, OthersStay, AtAFile, Complete, Lone,
     Rewrites, NoOld, OldPaths, Defined, Changes, Justified, Explicit, OthersUntouched
<1>. QED BY <1>1, NextCases, StepKeeps, StopKeeps

LEMMA ConfigInvariant == Spec => []ConfigIInv
  BY StartKeeps, NextKeeps, PTL DEF Spec

\* The state of the workers has its types, and a file that ClawX has written,
\* by whatever command, gives every switch: the next reading and writing of
\* it turns nothing into a default (readFileSnapshot, writeFileSnapshot).
THEOREM ConfigTypes == Spec => []ConfigTypeOK
<1>1. ConfigIInv => ConfigTypeOK
  BY DEF ConfigIInv, ConfigTyped, Changes, ConfigTypeOK, Steps, NewFiles
<1>. QED BY <1>1, ConfigInvariant, PTL

\* The migration of the old layout (EnsureStateLayout) loses no file, unless
\* two processes move files at once, wherever it is cut short; it replaces
\* nothing, and it leaves no agent below a root that is gone.
THEOREM MigrationIsSafe == Spec => MigrationKeepsAll
<1>1. ConfigIInv => crowded \/ \A f \in Files : f \in oldFiles \/ newFiles[f] = "whole"
  BY DEF ConfigIInv, Moves, Complete
<1>2. ConfigIInv => old \/ file = None \/ OldPaths(file) = {}
  BY DEF ConfigIInv, Rewrites, NoOld
<1>3. ConfigIInv /\ [Next]_vars => [\A f \in Files : newFiles[f] = "other" => newFiles'[f] = "other"]_vars
  BY NextKeeps DEF OthersUntouched
<1>. QED BY <1>1, <1>2, <1>3, ConfigInvariant, PTL DEF Spec, MigrationKeepsAll

LEMMA WriteKeepsMeaning ==
  ASSUME ConfigIInv, [Next]_vars, NEW w \in Workers, Writes(w), Explicit(Base(w))
  PROVE  Preserves(Base(w), file', Change(w))
<1>1. pc[w] \in {"rewrite", "write"} /\ pc'[w] # pc[w] /\ file' # file
  BY DEF Writes
<1>2. Step(w)
  <2>1. ASSUME NEW v \in Workers, Step(v) PROVE v = w
    BY <1>1, <2>1, AloneStep DEF ConfigIInv, Alone
  <2>2. ~Stop /\ ~UNCHANGED vars
    BY <1>1 DEF Stop, vars, config
  <2>. QED BY <2>1, <2>2, NextCases
<1>3. PICK h : h = file' /\ h = Changed(ReadFile(seen[w]), Change(w))
  BY <1>1, <1>2, FileSteps DEF FileStep, Writing
<1>4. PICK s : s = seen[w] /\ (s = None \/ IsFile(s))
  BY DEF ConfigIInv, ConfigTyped
<1>5. PICK g : g = ReadFile(s)
  OBVIOUS
<1>6. PICK c : c = Change(w)
  OBVIOUS
<1>7. Made(g, c)
  BY <1>1, <1>6, ChangeIsMade
<1>8. ~Refuses(g, c)
  <2>1. CASE pc[w] = "rewrite"
    BY <1>6, <2>1, RewriteIsMade DEF Change
  <2>2. CASE pc[w] = "write"
    BY <1>4, <1>5, <1>6, <2>2 DEF ConfigIInv, Changes, Justified, Change
  <2>. QED BY <1>1, <2>1, <2>2
<1>9. Base(w) = Origin(s)
  BY <1>4 DEF Base, Origin
<1>10. h = Changed(g, c)
  BY <1>3, <1>4, <1>5, <1>6
<1>11. Explicit(Origin(s))
  BY <1>9
<1>12. PICK base : base = Origin(s)
  OBVIOUS
<1>13. Preserves(base, h, c)
  BY <1>4, <1>5, <1>7, <1>8, <1>10, <1>11, <1>12, ChangePreserves
<1>. QED BY <1>3, <1>6, <1>9, <1>12, <1>13

\* What a command, a plan of a chat or the migration writes changes nothing
\* that it is not about, of a file that gives every switch; and but for the
\* commands on channels, a file with agents that loads still loads.
THEOREM WritingIsFaithful == Spec => WritesKeepMeaning
<1>. DEFINE Meant == \A w \in Workers : Writes(w) /\ Explicit(Base(w)) => Preserves(Base(w), file', Change(w))
<1>1. ConfigIInv /\ [Next]_vars => [Meant]_vars
  BY WriteKeepsMeaning
<1>2. Spec => [][Meant]_vars
  BY <1>1, ConfigInvariant, PTL DEF Spec
<1>. QED BY <1>2 DEF Meant, Preserves, WritesKeepMeaning
=============================================================================
