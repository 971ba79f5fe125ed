# A verification development of ClawX

ClawX connects chat channels (Telegram, Discord, Feishu, WeCom) to command line
coding agents. A chat message is routed to a *session*, the session's agent is
run in a working directory, and its output goes back to the chat. This directory
holds TLA+ models of that program, the TLC configurations that check them and
proofs that TLAPS checks. Paths below are relative to `src/internal/`.

## The system

| Component | State it keeps | Operations | What is hard about it |
|---|---|---|---|
| Session repositories (`infrastructure/persistence/session_*`) | records by id, window bindings, `sessions.json`, `window_bindings.json`, transcripts (or two PostgreSQL tables) | Create, Save, GetByID, Acquire, Release, SetWindowBinding | the map changes before the file; two files; reload after a crash |
| Session manager (`application/service/session_manager*.go`) | none of its own | AcquireExecution, FinishExecution, MarkError, CancelExecution, Continue/Resume/Switch/CreateSession | read, decide and write are separate repository calls; every caller holds a copy |
| Router (`application/service/router*.go`) | none | HandleSessionFlow, HandleControlCommand | keeps its copy of the record through an execution of minutes and saves it then |
| Backend runner (`infrastructure/backend`) | cancel functions by session | Execute, Cancel | deadline, cancel and normal return end the same execution |
| Scheduler (`application/scheduler`, `scheduler_file_store.go`) | `jobs.json`, run logs, the running map | Add, Pause, Resume, Remove, RunNow, Tick | a tick works on copies; manual and timed runs meet |
| Managed services (`application/managedservice`) | processes, running map, one record file each | Start, Stop, Status | check-then-act; a waiting goroutine writes after a restart of the service |
| Projects (`application/project`) | registry, route bindings, proposals | create, use, delete, suggest, confirm, expire | unlocked read-modify-write over three files |
| Memory (`application/memory`) | journals, digest jobs, audit | note, digest, load | a pending digest blocks the next one; access rules by kind of session |
| Skill registry and intent | index, enabled flags, snapshot | reload, enable, disable, pick | reload races enable and disable |
| Channel adapters (`interfaces/chat`) | event ids seen, polling offset, target of each session | Listen, webhook handlers, Send | repeated delivery, lost answers, restarts of a listener |
| Output delivery (`application/service/output_*`) | none | format, segment, deliver with retries | partial delivery |
| Configuration (`infrastructure/config`, `cmd/clawx/config*.go`) | `config.json`, the plan of a chat | load, write, `config set`, `/config plan` and `apply`, migration of the old layout | a writer decodes and rewrites the whole file; file by file moves that can stop anywhere |
| Process entry point (`cmd/clawx/main.go`) | the running adapters | serve, supervise adapters, handle messages, tools of the command line | handlers meet; a listener that ends |
| Command parsing, health, logging, metrics | none, or written and never read back | | |

A message enters through an adapter. Webhook adapters hand it to a goroutine of
its own and return (`cmd/clawx/main.go:313`); every polling adapter handles its
messages one after the other, beside all other adapters. The handler calls the
router, the router the session manager, the manager the repository and the
backend runner. The commands of a chat reach projects, memory, services,
schedules and the configuration through the same handlers. Each component has a
mutex or a lock around one call, one look at a map or one file operation;
nothing covers two. That is why requests, commands and goroutines are processes
in the models, and each such call is one atomic step.

## Modules

| Module | Models |
|---|---|
| `SessionRecord` | `session.Record` and its methods, the changes callers make to their copies, what reaches the disk |
| `SessionLock` | `AcquireExecution` .. `FinishExecution`/`MarkError`, `DirectRunner`, `CancelExecution`, the repository below them, crashes |
| `ExecutionSlot` | the abstract promise: a session has room for one execution |
| `SessionFlow` | how a message or command finds its session: Continue, Resume, Switch, Create, window bindings, around `SessionLock` |
| `SessionLockProofs` | theorems of `SessionLock` |
| `Scheduler` | the jobs of one scope, `/schedule` commands, `LoopRunner`, manual runs, `Service.running`, restarts |
| `SchedulerProofs` | theorems of `Scheduler` |
| `ManagedService` | one managed service: `/service start` and `stop`, its processes, the goroutine that waits for each, the map, the record on disk, restarts |
| `Projects` | the `/project` commands, the resolution of a route and proposals over three files and the workspaces |
| `Memory` | notes, digests and their jobs, the template of MEMORY.md, what a message loads and who may |
| `Channels` | one chat channel of any kind: receiving, confirming, deduplicating, handling, and the delivery of an output in segments |
| `Config` | `config.json`: what a file means, every writer, plans in chats, loading, and the migration of the old layout |
| `SessionFlowProofs` | theorems of `SessionFlow`, on top of those of `SessionLock` |
| `ManagedServiceProofs`, `ProjectsProofs`, `MemoryProofs`, `ChannelsProofs`, `ConfigProofs` | theorems of the module each is named after |
| `MCSessionLock`, `MCSessionFlow`, `MCScheduler`, `MCManagedService`, `MCProjects`, `MCMemory`, `MCChannels`, `MCConfig` | instances for TLC |

`SessionFlow` extends `SessionLock`, which extends `SessionRecord` and instantiates
`ExecutionSlot`. The other modules stand alone: the components meet in what they
read of each other's results, which is an input there. `Channels` has sessions and their
executions as far as a channel sees them; what the lock of a session guarantees
is `SessionLock`'s.

### State and actions

`store` is the repository's `byID` map and `disk` the last index written;
`binding` and `bindingDisk` are the same for windows. A handler is a program
counter (`pc`, `cpc`) with the locals it holds between two calls: `sess`,
`want` (the directory its command asks for), `copy` (the record it read) and
`result`; a canceller has `csess`, `ctoken`, `ccopy`. `cancels` is
`DirectRunner.cancels`; `stopped` collects the executions whose context was
cancelled.

The steps of a request in the order of the code:

    Arrive, ReadBinding, LoadBound | FindLatest | LoadTarget, SaveResolved | Create, BindWindow   (SessionFlow)
    CheckIdle, Acquire, Reload, StartExecution (or ReleaseUnstarted)                              AcquireExecution
    RegisterCancel, BackendReturns                                                                DirectRunner.Execute
    SaveResult                                                                                    the router's Save
    FinishLoad | MarkLoad, SettleSave, SettleRelease                                              FinishExecution, MarkError
    Rebind                                                                                        (SessionFlow)

and of a canceller: `CancelFind`, `CancelLook` (SessionFlow), `CancelRead`,
`CancelSignal`, `CancelReleaseLoad`, `CancelReleaseSave`, `CancelReleaseUnlock`.
`Restart` stops the process between any two steps: handlers in flight are lost,
the file repository reads its index again.

In `Scheduler`, `jobs` is `jobs.json` and `running` is `Service.running`. A
command and the loop are program counters with the job they work on and their
`copy` of it; the loop also has `todo`, what is left of the list its tick made:

    Add | Resolve, SaveCommand                   a command that changes a job
    Resolve, Claim, TaskEnds, SaveRun, Unclaim   /schedule run: executeJob
    List, Pick, Claim, TaskEnds, SaveRun, Unclaim, Pick, ...   LoopRunner.Run, Tick

Any job of the file can be meant by `Resolve`, because `GetByID` finds removed ones too.
`fired` is a history variable: the slots the loop has started a job for.

In `ManagedService`, `running` is `Service.running`, `rec` the record file, `proc`
the operating system's processes and `waiter` the goroutine of `Start`:

    StartCheck, Spawn, WriteStarted, Register        Service.Start
    Unregister, WriteEnded                           the goroutine, after cmd.Wait
    StopLook, Signal, StopKill, StopRead, StopWrite  Service.Stop

In `Projects`, `registry`, `bindings` and `proposals` are the three files and
`dirs` the workspaces. A command has the registry as it loaded and changed it
(`copy`); `overlapped` remembers which commands ran beside another one.

    MakeWorkspace, Load, Ensure, SaveEnsured                       loadAndEnsureRegistry
    Check, InUse, Commit, ListBound, Purge, Unbind, Bind, Lookup   the commands
    Propose, Get, Expire, Accept                                   suggestions and confirmations

In `Memory`, `daily` are today's notes, `memory` MEMORY.md, `jobs` the digest
jobs; a request is a command or a message.

    Note                                                             /memory note
    Check, Record, Acl, ReadNotes, Read, Truncate, Write, Complete   /memory digest
    Look, SeedMemory                                                 EnsureProjectTemplate
    LoadItem                                                         the loader, file by file

An entry of MEMORY.md is a pair: the digest whose section it is in, and the text, which
is the digest's own heading or a note that it has copied (`copied`).

In `Channels`, `queue` is what the platform has still to deliver, `batch` what
the listener has fetched, `ahead` the offset of the next poll, `seen` the table of
event ids and `targets` the chat that a session's output goes to. A run is one
delivery of one event.

    Poll, TakeUpdate | Dial, Identify, Dispatch, Disconnect | Register, Called      the listeners
    Answer | Control | Execute, Executed, Deliver, Notice, Files                    the handlers

In `Config`, `file` is `config.json`, with `None` for each value a hand-written file
leaves out; `pending` is the plan of a conversation; `oldFiles` and `newFiles` are the
workspaces in the two layouts. `Rewritten` is what decoding into the writer's
types makes of a file, `Bots` and `IsEnabled` what `Load` takes it to mean.

    Layout, Move, Copy, Copied, Remove, RewritePathsIn, Clean   EnsureStateLayout
    Ensure, Create, Load, Read, Write                           a start or a command
    Plan, Apply, Cancel                                         /config in a chat

### Abstractions

* A lock token is the name of the request that took it. The code's tokens are
  made of a time stamp and, in the file repository, a counter; each is used once.
* A backend session is the directory it was started in. The code's one rule
  about it is that it does not change directory.
* A home is a conversation with a project; `AtHome` stands for the comparison of
  conversations and `sessionBelongsToProject`. The project suffix of window ids
  is part of the window, and the fallback to the `main` window of
  `GetWindowBinding` is the same window here.
* Time stamps are left out. The session used last is any session of the home;
  a new session's id is one no session has. Because ids are never used again,
  `Create` needs a free one; with none left the request stays where it is.
* A failing write (`SaveFails`, `BindFails`, at most `MaxFaults`) has changed the
  map and may or may not have reached the file, as in the code. PostgreSQL's
  queries do not fail in the model (`LockConstants` says so).
* The backend may answer with an error whether or not it was cancelled or its
  deadline passed: `stopped` restricts nothing, because a command may also end
  by itself just before the cancel reaches it.
* `/cancel` is modelled for one runner. Each agent of the program has a runner of
  its own and a cancel function is only found in the right one.
* Time in `Scheduler` is a number that does not pass while a step runs. All jobs
  have one schedule, the set `Slots`; `Horizon` stands for the 366 days
  `nextRunFromExpr` looks ahead. Job ids are time stamps in the code and numbers
  in the order of creation here. What the task does, its run record and the time
  stamps of a job are left out: nothing reads them back to decide anything.
* `ManagedService` has one service; services share a map and a directory and no
  key. Log files are left out. A process is named by the start that spawned it.
* A project is its status; its names, descriptions and paths are left out.
  The expiry of a proposal is the flag `late`.
* A note, the heading of a digest and the template are one text each, and a text counts
  one against `Budget`. A group chat is one group. What is in MEMORY.md is a set of
  entries: their order is left out. Of the first 1200 characters that a digest takes from
  a file of notes (`truncateText`) it is left open which notes they cover, as long as they
  cover one (`Excerpts`).
* A message of a channel is its kind (a question, a command that binds a session, a
  cancel), its form (text, command, media, interaction), and whether it is direct
  or mentions the bot. A segment is its number. Of an error in sending, its
  class is kept, since the adapters retry by class. The notice of a partial output may
  arrive or not, and nothing depends on it, since `Deliver` discards the error of
  `SendError`. A webhook's signature and the age of its time stamp are one thing: the
  call is refused.
* A bot of `config.json` has its switch, its mention rule, its mode, its agent and
  whether its credentials are complete (`ready`). Of the agents that carry the flag
  `default`, one is kept (`flagged`); it counts when the file names no default. A workspace path is in the old
  layout, the new one, or the user's own. Sections whose values are copied as they
  are (runtime, database, gateway, intent router, projects, memory) are left out.
  Copying a file has a moment in which it is partly there.

Definitions that begin with a comment `Fault:` are wrong on purpose: each is a
plausible slip in the code beside it, kept to show that a property notices it.
No specification uses them.

## Runs

Passing runs:

| Configuration | Instance | Distinct states | Shows |
|---|---|---|---|
| `lock_protocol` | 3 requests, 1 session, 1 failed write, restarts | 45 thousand | without `/cancel`: the token stays with its request, one execution per session, a running record has an owner, nobody is turned away without a cause, and the protocol implements `ExecutionSlot` |
| `lock_cancel` | 2 requests, 1 canceller, 2 directories, 1 failed write | 0.7 million | with `/cancel`: backend sessions stay in their directory; every lock is given back |
| `flow_windows` | 2 requests, 1 canceller, 2 windows in 2 chats, 2 directories, 1 failed write, up to symmetry | 4.3 million | bindings name sessions of their own home, in memory and on disk; what a window sends runs in a session of its home |
| `sched_commands` | 2 commands, 2 jobs, clock to 1, 1 failed save, 1 restart | 0.6 million | a job runs once at a time, whoever starts it; the loop starts it once for a slot, whatever stale copies are saved in between; a due job is run or stopped |
| `services` | 2 starts, 2 stops, 1 failed write, 1 restart | 0.55 million | one process at a time, reported as running until it ends and forgotten then; a refused start leaves none; the record tells the truth |
| `projects` | 3 commands, 2 projects, 1 route, 1 failed file operation, 1 lost workspace, 1 stop, up to symmetry | 2.8 million | bindings name registered projects; an accepted proposal was carried out; a forced deletion is complete; a save changes its own project |
| `memory` | 2 commands, 1 message, 2 agents, 4 chats, 1 failed file operation, 1 stop, up to symmetry | 2.1 million | a message sees notes of its own agent, shared notes of owners, and MEMORY.md in owners' chats only; into MEMORY.md notes come through owners' digests only, though whoever wrote them and for whichever agent; completed digests stay; a job that refuses the others belongs to a digest at work |
| `channels` | 2 events, 5 kinds of channel, 2 segments, 2 deliveries, 2 faults, 1 stop, clock to 2, up to symmetry | 3.3 million | what is confirmed is handled, and handled once; when an output is incomplete a notice is sent, whether or not it arrives; answers go where their message came from, or where a message handled at the same time did that has bound the session meanwhile |
| `config` | 2 workers, 4 initial files, 9 changes, 2 files to move, 1 failed write, 1 stop, up to symmetry | 3.3 million | a write keeps the meaning of what it is not about, and the default agent but for a command on it; the migration loses no file wherever it is cut off |

Some properties have a condition, which is where the code's own guarantee ends;
beyond it the model has the counterexample. `OneProcess` and `LiveIsReported`
exclude starts that overlap (both have passed the check of the map) and processes that
outlive ClawX. `BindingsKnown`, `DeleteIsComplete` and `LoneSaveIsLocal` are of commands
that do not overlap, because a later save undoes an earlier one. `DigestsAreKept`
excludes two digests that looked at the jobs before either was recorded.
`LoadedIsAllowed` is of the layers that a message loads: what it says of the notes of other
agents is of the layer of the agent, and not of those that MEMORY.md has (see below).
`AnswersGoHome` allows an answer to follow its session into the chat of a message that
was at work at the same time.
`ConfirmedIsHandled` allows a webhook's event to be lost by a stop, after its
answer 200. `MigrationKeepsAll` excludes two processes that move files at
once. `WritesKeepMeaning` is of writes that start from a file with all
its switches given; that it still loads, of a file that has agents.

Runs that end in a counterexample, each for a sentence of the documentation:

| Configuration | Sentence | What happens |
|---|---|---|
| `flow_exclusive` | FR-006, one execution per session (`specs/001-phase1-foundation/spec.md:75`) | A second message reads the idle record in `ContinueSession`; the first one starts; the second saves its copy, which is idle and unlocked, over the running record, and starts as well. |
| `lock_cancel_frees` | FR-005, `/cancel` brings a session back (`spec.md:74`) | A cancel releases the record while the router is about to save its own copy, which says running. The token is then released by the other side; a running record without a token remains. `ForceRelease` takes it for released: every later `/cancel` reports success and the session stays busy until a restart. |
| `channels_cancel` | FR-005 again | A polling or gateway channel handles its messages one after the other: `/cancel` is read and waits until the execution that it is to cancel has ended by itself. |

`RunningHasOwner`, `LoneRequestRuns`, `TokenHeld`, `Exclusive` and the
refinement do not hold with `/cancel` or with `SessionFlow`; the
counterexamples above are why. `lock_protocol` states what the lock itself gives.

### What else the models show

These behaviours are in the models, because they are in the code. No property of a
run excludes them; a document that says otherwise is named:

* `FinishExecution` saves the record without its token; another request acquires the
  lock, the release that follows fails with `ErrInvalidLock`, and the result of the
  execution is dropped (FR-008, `specs/001-phase1-foundation/spec.md:77`, wants it returned).
* With PostgreSQL, `Acquire` writes the token of a record that is still idle, and
  `scanSessionRecord` refuses to read it back: no execution starts
  (`docs/guides/postgres_setup.md:13` offers PostgreSQL as an extension).
* A message in flight, which binds its session once more when it has succeeded,
  moves a window back that `/new` has moved meanwhile (`spec.md:38` sends the messages after
  `/new` to the new session).
* A job that is removed while the loop has it in hand becomes active again at the
  save that ends `executeJob` (against
  `specs/007-unified-scheduler-center/contracts/schedule-runtime-contract.md:18`); a job whose
  next slot is beyond the horizon of 366 days keeps the slot it has just run for, and is
  due at every tick (against line 9 there).
* The default project is served though its workspace is gone.
* A digest whose job could not be settled, or that a stop cut off, refuses every
  later digest of the project.
* Notes of an agent do not stay with it. `/memory note` takes them from anybody, with no
  look at the access rules (`application/memory/service_note.go:33`); a digest of an owner
  copies up to 1200 characters of them, and as many of the project's notes, into MEMORY.md
  (`service_digest.go:163`), which is one file for all agents of the project. Every agent's
  message in an owner's direct chat then loads them, what guests wrote too. This is against
  FR-005 and SC-003 of `specs/006-memory-context-layer/spec.md` (lines 90 and 128:
  private notes of agents of one project cannot be read by each other).
  `DigestsAreOwners` and `LoadedIsAllowed` say what does hold: notes get there through an
  owner's digest only, and are read there in an owner's chat only.
* An incomplete output can stay without a word to its user: `Deliver` discards the error
  of the notice (`application/service/output_delivery.go:60`), and the handlers its report
  (`cmd/clawx/main.go:2075`). `specs/001-phase1-foundation/spec.md:54` and FR-010
  (line 79) want the failure recorded and the user told. `PartialIsNoticed` is therefore of
  the attempt to tell, without which no delivery of an incomplete output ends.
* A file whose default agent is given by a flag only loses it when another agent is
  added: `UpsertAgent` makes the new agent the default because the file names none
  (`infrastructure/config/config.go:1241`), and moves the flag. `WritesKeepMeaning` allows
  this, since the command is about that agent.
* A listener whose poll runs into a timeout returns nil and is not started again.
* A hand-written file that leaves out switches gets them written as `false` by any
  writer, and `main` as the agent of its channels, also when no agent is called so: the
  bots that the reader's default had enabled are off. `specs/004-channels/spec.md:124`
  (FR-013) wants the configuration of other channels kept; `WritesKeepMeaning` is
  therefore of complete files.
* A file with all its switches and no agents loads: without agents a channel may name
  any. A writer makes `main` the agent of its channels, and the first agent that is added
  under another name (`UpsertAgent`, `infrastructure/config/config.go:1192`) makes
  `main` unknown (`validateChannelAgentReference`, line 3811): the file no longer loads.
  The first attempt at the proof of `WritingIsFaithful` stopped there, and TLC then found
  the behaviour; `WritesKeepMeaning` therefore asks for agents.
* A file in the first, flat format is accepted by `Load` and refused by every
  writer, and ends a start that has an old layout to migrate.
* A copy between devices that is cut off stays partial in the new root; the next
  start takes it for the user's own and keeps both.
* The plan of a chat is taken before it is written: when the write fails it is gone.

### Bounds

Three requests are the holder of the lock, the one that acquires between a Save
and a Release, and one that arrives meanwhile; one session is enough for the
lock because sessions do not share state, except the index, which is written as
a whole: `flow_windows` lets `Create` and `LoadTarget` choose. Two directories
tell a kept backend session from a moved one. One failed write is enough to
reach every error path once; restarts are unbounded. Two windows with different homes are
enough for a session to be reached from the wrong one. Two commands are
a manual run and a change that comes in between; two jobs make the second one's
copy grow old in the tick's list while the first one runs, and give a name to a
job of which a removed namesake exists. The clock passes a slot and the slots after it lie
ahead: a save with an old copy would make a job due again for the slot it has run for.

Two starts and two stops of a service are a start that meets the end of an earlier
process, with a stop on each. Three commands of `Projects` are one that
suggests, one that confirms and one that deletes or rebinds in between. Two
commands of `Memory` are two writers of MEMORY.md; the four chats are an owner's
and a guest's direct chat, a group, and a group of an instance called `direct`. Two
events of `Channels` meet in one session; two segments let one fail and the other
arrive; two faults let a segment fail its first attempt and its second one or an
answer get lost and the segment, too; the ids' window of 1 is shorter than the
clock. Two workers of `Config` are a start or command and another one between its
reading and its writing; two files let a migration stop between them; the four files are a
missing one, one with only what it needs, a complete one of the old layout, and a flat
one.

TLC checks deadlock in no run: all handlers and commands end, and a behaviour
without further messages stops.

### Fairness

`Fairness` is weak fairness of each handler's steps once it has begun: handlers
are goroutines that wait for no other handler, the repository's mutex is held
for one call, and the only long step, the backend's command, runs under
`context.WithTimeout` (`infrastructure/backend/timeout.go:16`). Messages,
commands and restarts are not fair: none of them needs to come. `LockGivenBack`
is checked under it. In `Scheduler` the loop is weakly fair (a ticker that fires
for ever; its task, a scan of a directory, ends) and so is a command that has
begun; time, commands and restarts are not. `DueIsServed` is checked under it,
with a bounded number of failed saves: a disk that never takes a write leaves a
job due for ever. In `ManagedService` a command that has begun and the waiting
goroutine are weakly fair: they wait for the mutex, a timer or the end of the process.
Processes need not end, and starts, stops and restarts need not come.
`EndedIsForgotten` is checked under it. `Projects`, `Memory`, `Channels` and `Config` state
safety only: their specifications have no fairness.

## Proofs

The theorems hold for every value of the constants that the named assumptions allow: all
sets of sessions, requests, commands, agents, channels or workers, any number of faults,
restarts and stops. The assumptions (`RecordConstants`, `LockConstants`,
`SchedulerConstants`, `ServiceConstants`, `ProjectConstants`, `MemoryConstants`,
`ChannelConstants`, `ConfigConstants`) say what kind of thing each constant is, and TLC
evaluates them in every run. A theorem that needs more says so in its own `ASSUME`.

Every proof has the same shape. Few of the properties are inductive; for each module an
invariant that implies them is shown to hold at first and to be kept by each action, with
one lemma for an action or a group of them, and lemmas for the operators that the
actions share. The invariants were checked by TLC on the instances of the runs before
they were proved.

### The lock of a session

| Theorem of `SessionLockProofs` | Assumes | States |
|---|---|---|
| `TypeCorrect` | | `Spec => []TypeOK` |
| `ThreadsStay` | | `Spec => []ThreadInItsDir` |
| `TokenIsHeld` | no cancellers | `Spec => []TokenHeld` |
| `OneExecution` | no cancellers | `Spec => []Exclusive` |
| `LockImplementsSlot` | no cancellers | `Spec => ImplementsSlot` |
| `RunningIsSettled` | no cancellers, file repository | `Spec => []RunningHasOwner` |
| `LoneRequestsRun` | file repository | `Spec => []LoneRequestRuns` |

`Exclusive` is not inductive: it says nothing of a request that is about to
execute. The inductive invariant is `TypeOK /\ TokenHeld`: from `Acquire` to the
save that settles it a request's own token is in the record, and from
`StartExecution` on also in its copy, which it is going to save. Two requests of a
session cannot both have their token in one field; so `TokenHeld` gives
`Exclusive` at once. It is preserved because a write by another handler to the same record
can only come from one that holds the token too, or release a token that is not
the record's. A failed write leaves the map written, so it needs no case of its
own. The refinement maps a session's slot to the request that executes in it;
`TokenHeld` shows that the slot is free when `RegisterCancel` starts.

`ThreadInItsDir` needs neither. Its invariant (`StoreKept /\ CopiesKept`)
says of the store, the disk and every live copy, those of cancellers included, that the
backend session is the record's directory or none: whoever overwrites whom
writes such a record.

`RunningIsSettled` adds to the token who has still to settle a running record (`Owner`), and that the file never
holds a running or locked one that a restart would bring back (`DiskFree`, because the
file repository clears both when it reads its index). `LoneRequestsRun` needs no ban on cancels: they may come
for other sessions, and its invariant says what a request finds at each step
when nobody else works for its session (`Unhindered`). Both are false of PostgreSQL,
which is why they assume the file repository: there a running record survives the process
that owned it, and a token in an idle record makes it unreadable.

### How a message finds its session

`SessionFlowProofs` proves, with cancellers, windows and both repositories, of `FlowSpec`:

| Theorem | States |
|---|---|
| `FlowTypeCorrect` | `[]FlowTypeOK` |
| `WindowsResolve` | `[]BindingsResolve` |
| `MessagesRunAtHome` | `[]RunsAtHome` |
| `FlowThreadsStay` | `[]ThreadInItsDir` |
| `SessionsNeverMove` | once it is in the file, the home of a session stays, over restarts too |

The invariant `FlowIInv` is about homes: a home is a conversation and a project. Requests and cancellers overwrite each
other's records, so what keeps a session at home is that every copy somebody may still write has
the home of the record it will overwrite (`RequestSound`, `CancelSound`). A restart is the
delicate step: it may lose a home that was not saved, and then no handler is left and no
binding on disk names that session, since a binding is written after the record (`Filed`).

### The scheduler

`SchedulerTypes`, `OneRunAtATime` (`Spec => []OneRun`), and `SlotsAreServedOnce`
(`Spec => OncePerSlot`). `OneRun` alone is not inductive: `Claim` looks at
`running`, not at the other actors. With `Claimed` (the job of an execution is in
`running`) it is: `Claim` then starts a job nobody executes, and `Unclaim`
removes the claim of the only execution there is.

`SlotsAreServedOnce` assumes `Recurring`: a schedule names a next run at any time, as the one of
`sched_commands` does. Without
it a job keeps the slot it has run for, as said above. Its invariant is `Known`, what each actor
holds in its hand (a copy of a job of the file, or one it is about to add, with an id of its own),
and, as long as nothing failed, `Fresh`: an active job of the file is set to a slot it
was not started for, but for the job that the loop has just run and not yet saved; the
same of the loop's list and of every copy that is about to be saved.

### Managed services

`ServiceTypes`, `ServiceHasOneProcess` (`Spec => []OneProcess`), `LivingIsReported`
(`LiveIsReported`), `RefusedHasNone` (`RefusedLeavesNone`) and `RecordsAreTrue`
(`RecordIsTrue`). The
invariant is `Lone`, under the condition that no starts overlapped and no process
outlived ClawX: one start is between its look at the map and its entry in it,
the map is empty as long as there is one, and every other living or awaited process
is the one in the map. Then a start that passes the check finds no process alive.
`RecordsAreTrue` rests on `Answered`: a record that says running has somebody who will
correct it, the start that has yet to register the process or the goroutine that waits for it.

### Projects

| Theorem of `ProjectsProofs` | States |
|---|---|
| `ProjectTypes` | `Spec => []ProjectTypeOK` |
| `AcceptedWasCarriedOut` | `Spec => []AcceptedWasApplied` |
| `BindingsAreKnown` | `Spec => []BindingsKnown` |
| `DeletionIsComplete` | `Spec => DeleteIsComplete` |
| `LoneSavesAreLocal` | `Spec => LoneSaveIsLocal` |

The invariant has a part for each kind of command (`Stages`: which commands
come to a step) and one for a command that nobody overlapped (`Alone`): from the load
of the registry to the save its copy differs from the file in what it has changed itself,
and while it deletes by force every binding of its project is still on its list. That no
command changes files under it follows from `Marked`: of two commands that run, both
are in `overlapped`. `Bound` is `BindingsKnown` with the project of the deletion that a
dangling binding waits for. A proposal about to be accepted is one that was carried out
(`Settled`), which needs no condition.

### Memory

`MemoryTypes`, `LoadsAreAllowed` (`LoadedIsAllowed`), `OwnersDigestMemory`
(`DigestsAreOwners`), `OpenJobsAreAlive` (`JobsAreAlive`) and `CompletedDigestsStay`
(`DigestsAreKept`), with any
names of users and of channel instances. The first part of a route key that
says `direct` may be the name of the instance; the lemma `PeerOfRoute` says what the
code then takes for the peer, and `AllowedIsOwners` that it is an owner's direct chat
all the same. Where every text comes from, in a file of notes, in what a digest has
copied, in what a writer has read and in MEMORY.md, is the invariant `Origins`: shared
notes are owners', a section of MEMORY.md is of a digest that passed the access rules,
and what is in it are shared notes and notes of the agent that the digest was for,
by whomever they were written. `CompletedDigestsStay` rests on `Orderly`: as long as digests did not
race and nothing was damaged, one request at a time is a writer of MEMORY.md, and what
was completed is in the file or in what the writer has read of it.

### Channels

| Theorem of `ChannelsProofs` | States |
|---|---|
| `ChannelTypes` | `Spec => []ChannelsTypeOK` |
| `ConfirmedWasHandled` | `Spec => []ConfirmedIsHandled` |
| `EventsHandledOnce` | `Spec => []HandledOnce` |
| `PartialDeliveryIsNoticed` | `Spec => PartialIsNoticed` |
| `OutputGoesHome` | `Spec => AnswersGoHome` |

The invariant has two halves. `Inbox` follows an event: it is once in the platform's
queue and once in the batch; of the queue's events that a poll has fetched, those that are no longer in the
batch have been handled and those not yet fetched have no run in this life (`FetchedOnce`);
a webhook has an id in its table from the moment it accepts the event (`Begun`).
`Work` follows a run: its session, what of its output has arrived or is counted as
failed (`Counted`), and whose chat its session is bound to: its own, or
one's that was at work with it (`BoundWell`, `Met`).

### The configuration

| Theorem of `ConfigProofs` | States |
|---|---|
| `ConfigTypes` | `Spec => []ConfigTypeOK` |
| `MigrationIsSafe` | `Spec => MigrationKeepsAll` |
| `WritingIsFaithful` | `Spec => WritesKeepMeaning` |

The first half of the module is about files. `RewrittenChannelParts` says what decoding and
normalizing makes of a section, `BotsStay` and `EnabledStays` that of an explicit one it
makes the same bots; `ChangedSound`, with a lemma for each kind of change, that a change
makes a file, explicit if it was, that differs only in what the change is about; `ReadLoads`
and `ChangedLoads` that it still loads. The second half is the invariant. `Moves` says of a
worker that moves files alone that the old file is there until the new one is complete, and of
every worker that what it copies was not there before. `Rewrites` says that whoever is
past the rewriting has found no path below the old root, in the file or in what it has read.
That needs the assumption, in `ConfigConstants`, that nobody asks for an agent below the old
root: no migration would be left to rewrite it. `Changes` says that what a worker holds
between its reading and its writing is a change that was not refused.

### Left to TLC

Liveness under fairness (`LockGivenBack`, `DueIsServed`, `EndedIsForgotten`) is
out of the provers' reach. Every other property of a passing run is stated by a theorem. The
three runs that end in a counterexample state what is false.

## What is not modelled, and the plan

Not modelled:

* The skill registry and the intent router: at run time the registry is built once, at the
  start, and only read; the commands that enable and disable a skill are processes of
  their own. What they write to `config.json` is in `Config`; discovery, the resolution of
  names that several sources give, and the choice of a skill for a text are left out.
* Recovery of sessions from transcripts, when the index is missing or damaged, failing
  PostgreSQL queries, and the two statements of its release.
* Parsing of commands, formatting of answers, tables and menus of the command line,
  installation as a service, health probes, logs and metrics: text processing and
  input or output, with no state that others race for.
* The formats of the platforms, uploads of files and the acknowledgements of Discord's
  interactions; the parsing of what the backends print.
* Path checks against symbolic links, and the audit of MEMORY.md, which only reads.

Next, in this order:

1. Theorems that go further than the properties of the runs: that `SessionFlow` keeps what
   it may of the lock without cancels, and what `SessionLock` guarantees of PostgreSQL.
2. Recovery from transcripts, as a refinement of the reload in `SessionLock`.
3. The resolution of skills of the same name, as an operator against a reference definition.
