------------------------------ MODULE Channels ------------------------------
(***************************************************************************)
(* One chat channel of a ClawX process: Telegram fetches updates (polling) *)
(* or is called (webhook), Feishu and WeCom are called, Discord pushes     *)
(* over a connection.  Each message is normalized, routed, answered or     *)
(* executed, and the output is delivered in segments to the target that    *)
(* its session is bound to.  The platforms resend what they believe was    *)
(* not received; requests and answers get lost; ClawX stops and starts.    *)
(* A handler works in a run <<event, k>>: the k-th delivery of the event.  *)
(* Channels share neither an adapter nor a listener, so one is modelled.   *)
(***************************************************************************)
EXTENDS Naturals, Sequences, SequencesExt

CONSTANTS
    Events,       \* what the users of the platform send
    Adapters,     \* the channels that are configured: [platform, mode, mention]
    Messages,     \* the messages sent: [kind, form, direct, mention]
    Sessions,
    Segments,     \* the number of segments of an output
    Window,       \* how long an event id is remembered
    None,
    MaxTime, MaxFaults, MaxStops, MaxDeliveries   \* bounds

ASSUME ChannelConstants ==
    /\ \A a \in Adapters :
        /\ a.platform \in {"telegram", "feishu", "wecom", "discord"}
        /\ a.mode \in {"polling", "webhook", "gateway"}
        /\ a.mode = "gateway" <=> a.platform = "discord"
        /\ a.mode = "polling" => a.platform = "telegram"
    /\ None \notin Messages \cup Sessions \cup Nat \cup (Events \X Nat)
    /\ Segments \in Nat \ {0} /\ MaxDeliveries \in Nat \ {0}
    /\ {Window, MaxTime, MaxFaults, MaxStops} \subseteq Nat

VARIABLES
    adapter,      \* the channel
    message,      \* of an event: what was sent
    queue,        \* what the platform has still to deliver
    ahead,        \* polling: how much of the queue the next offset is past
    batch,        \* what was fetched, or pushed, and is not yet looked at
    listener,     \* up; down or dialed (it has to connect); or ended
    seen,         \* when an event id was accepted last
    now,
    pc, session,  \* of a run: its next step, and the session it works for
    sending,      \* of a run: segment, attempts and failed segments
    targets,      \* the run whose chat a session is bound to
    arrived,      \* history: <<run, segment, the run whose chat got it>>
    notices,      \* history: <<run, whether the notice that its output is partial arrived>>
    confirmed,    \* history: what the platform was told not to send again
    began,        \* history: when a run of this life of ClawX began
    together,     \* history: <<run at work, run that was at work with it>>
    faults, stops

platform == <<adapter, message, queue>>
inbox == <<ahead, batch, listener, seen>>
runs == <<pc, session, sending, targets>>
histories == <<arrived, notices, confirmed, began, together>>
bounds == <<faults, stops>>
vars == <<platform, inbox, now, runs, histories, bounds>>

Runs == Events \X (1..MaxDeliveries)
Idle == {"new", "done", "lost"}
Active == {r \in Runs : pc[r] \notin Idle}
Hooked == adapter.platform = "telegram" /\ adapter.mode = "webhook"
Starting == IF Hooked \/ adapter.mode = "gateway" THEN "down" ELSE "up"
\* The first attempt of a try to send a segment, after so many that failed.
Attempt(segment, try, failed) ==
    [segment |-> segment, try |-> try, attempt |-> 1, failed |-> failed]
FirstAttempt == Attempt(1, 1, 0)

Init ==
    /\ adapter \in Adapters
    /\ message = [e \in Events |-> None]
    /\ queue = <<>> /\ ahead = 0 /\ batch = <<>>
    /\ listener = Starting
    /\ seen = [e \in Events |-> None]
    /\ now = 0
    /\ pc = [r \in Runs |-> "new"]
    /\ session = [r \in Runs |-> None]
    /\ sending = [r \in Runs |-> FirstAttempt]
    /\ targets = [s \in Sessions |-> None]
    /\ arrived = {} /\ notices = {}
    /\ confirmed = {}
    /\ began = [r \in Runs |-> None]
    /\ together = {}
    /\ faults = 0 /\ stops = 0

Goto(r, step) == pc' = [pc EXCEPT ![r] = step]
Fault == faults < MaxFaults /\ faults' = faults + 1

---------------------------------------------------------------------------
(* The platforms.                                                          *)

\* A user sends a message.  Discord pushes it over an open connection; what is
\* sent while there is none, or into a broken one, is not sent again.
Send(e) ==
    /\ message[e] = None
    /\ \E m \in Messages : message' = [message EXCEPT ![e] = m]
    /\ \/ /\ adapter.mode # "gateway"
          /\ queue' = Append(queue, e)
          /\ UNCHANGED <<batch, faults>>
       \/ /\ adapter.mode = "gateway" /\ listener = "up"
          /\ \/ batch' = Append(batch, e) /\ UNCHANGED faults
             \/ Fault /\ UNCHANGED batch
          /\ UNCHANGED queue
       \/ /\ adapter.mode = "gateway" /\ listener # "up"
          /\ UNCHANGED <<queue, batch, faults>>
    /\ UNCHANGED <<adapter, ahead, listener, seen, now, runs, histories, stops>>

Tick ==
    /\ now < MaxTime
    /\ now' = now + 1
    /\ UNCHANGED <<platform, inbox, runs, histories, bounds>>

---------------------------------------------------------------------------
(* What of a message an adapter passes on.                                 *)

\* Telegram takes commands in any chat, and other text in a group only with a
\* mention if the adapter wants one; a picture has no text.
TelegramWants(m) ==
    /\ m.form # "media"
    /\ m.form = "command" \/ m.direct \/ ~adapter.mention \/ m.mention

\* Discord's own menu of commands asks for no mention.
DiscordCommand(m) == m.form = "interaction"

\* Other text needs the mention, also a command; media is taken in direct chats.
DiscordWants(m) ==
    \/ DiscordCommand(m)
    \/ m.form = "media" /\ m.direct
    \/ m.form \in {"plain", "command"} /\ (m.direct \/ ~adapter.mention \/ m.mention)

FeishuWants(m) == m.form # "media"

WeComWants(m) == m.form # "media"

Wanted(e) ==
    LET m == message[e]
    IN  CASE adapter.platform = "telegram" -> TelegramWants(m)
          [] adapter.platform = "discord" -> DiscordWants(m)
          [] adapter.platform = "feishu" -> FeishuWants(m)
          [] adapter.platform = "wecom" -> WeComWants(m)

---------------------------------------------------------------------------
(* Listeners.                                                              *)

\* The first delivery of an event that has no run yet.
NewRun(e, r) ==
    /\ r[1] = e /\ pc[r] = "new"
    /\ \A k \in 1..(r[2] - 1) : pc[<<e, k>>] # "new"

Begin(r) ==
    /\ Goto(r, "routing")
    /\ began' = [began EXCEPT ![r] = now]
    /\ together' = together \cup UNION {{<<r, q>>, <<q, r>>} : q \in Active}

\* What a listener does with an event: nothing, if the adapter does not want it.
Handle(e) ==
    IF Wanted(e) THEN \E r \in Runs : NewRun(e, r) /\ Begin(r)
    ELSE UNCHANGED <<pc, began, together>>

\* runAdapterWithRetry: a listener that fails starts again after its backoff,
\* unless it ran into a timeout: then Listen returns without an error, for good.
FailsInto(l) == Fault /\ listener' \in {l, "ended"}

\* getUpdates: the offset confirms what the last answer held.
Fetch ==
    LET rest == SubSeq(queue, ahead + 1, Len(queue))
    IN  /\ queue' = rest
        /\ confirmed' = confirmed \cup ToSet(SubSeq(queue, 1, ahead))

\* Fault: the next offset is one past what has come.
FetchedTooFar ==
    /\ batch' = queue'
    /\ ahead' = Len(queue') + 1
    /\ UNCHANGED <<listener, faults>>

Fetched ==
    /\ batch' = queue'
    /\ ahead' = Len(queue')
    /\ UNCHANGED <<listener, faults>>

\* The request has arrived, and the answer is lost.
Unanswered ==
    /\ FailsInto("up")
    /\ ahead' = 0
    /\ UNCHANGED batch

\* Fault: the handlers are left to themselves, and the next poll does not wait.
PollAtOnce ==
    /\ adapter.mode = "polling" /\ listener = "up"
    /\ batch = <<>>
    /\ queue # <<>>
    /\ Fetch
    /\ Fetched
    /\ UNCHANGED <<adapter, message, seen, now, runs, arrived, notices, began, together, stops>>

Poll ==
    /\ adapter.mode = "polling" /\ listener = "up"
    /\ batch = <<>> /\ Active = {}
    /\ queue # <<>>
    /\ Fetch
    /\ Fetched \/ Unanswered
    /\ UNCHANGED <<adapter, message, seen, now, runs, arrived, notices, began, together, stops>>

\* A request that never reached the platform and ran into the timeout.
PollTimesOut ==
    /\ adapter.mode = "polling" /\ listener = "up"
    /\ batch = <<>> /\ Active = {}
    /\ FailsInto("up") /\ listener' # listener
    /\ UNCHANGED <<platform, ahead, batch, seen, now, runs, histories, stops>>

\* Telegram's Listen, and Discord's handleDispatch: the next event waits until
\* the handler of the last returns.
TakeNext ==
    /\ listener = "up"
    /\ batch # <<>> /\ Active = {}
    /\ batch' = Tail(batch)
    /\ Handle(Head(batch))
    /\ UNCHANGED <<platform, ahead, listener, seen, now, session, sending, targets,
                   arrived, notices, confirmed, bounds>>

TakeUpdate == adapter.mode = "polling" /\ TakeNext
Dispatch == adapter.mode = "gateway" /\ TakeNext

Dial ==
    /\ adapter.mode = "gateway" /\ listener = "down"
    /\ \/ listener' = "dialed" /\ UNCHANGED faults
       \/ FailsInto("down") /\ listener' # listener
    /\ UNCHANGED <<platform, ahead, batch, seen, now, runs, histories, stops>>

\* Hello and identify; a hello that is late may end the listener, too.
Identify ==
    /\ listener = "dialed"
    /\ \/ listener' = "up" /\ UNCHANGED faults
       \/ FailsInto("down")
    /\ UNCHANGED <<platform, ahead, batch, seen, now, runs, histories, stops>>

\* A connection breaks, or Discord asks to reconnect; what was pushed and not
\* read is gone, since the next connection identifies anew.
Disconnect ==
    /\ adapter.mode = "gateway" /\ listener = "up"
    /\ Active = {}
    /\ Fault
    /\ listener' = "down" /\ batch' = <<>>
    /\ UNCHANGED <<platform, ahead, seen, now, runs, histories, stops>>

---------------------------------------------------------------------------
(* Webhooks.                                                               *)

\* setWebhook, until it succeeds; Telegram keeps what it was told.
Register ==
    /\ Hooked /\ listener = "down"
    /\ listener' = "up"
    /\ UNCHANGED <<platform, ahead, batch, seen, now, runs, histories, bounds>>

\* Fault: an id is refused only in the moment it was accepted in.
AcceptedSoon(e) == IF seen[e] = None THEN TRUE ELSE seen[e] < now

\* acceptWebhookEvent: an id is refused while it is remembered.
Accepted(e) == IF seen[e] = None THEN TRUE ELSE seen[e] + Window < now

\* The platform has the event no more to deliver.
LetsGo(e) == \E n \in DOMAIN queue : queue[n] = e /\ queue' = RemoveAt(queue, n)

\* A call is answered with 200 before a goroutine handles it; when the answer
\* is lost the platform calls again.
Ok(e) ==
    \/ /\ LetsGo(e)
       /\ confirmed' = confirmed \cup {e}
       /\ UNCHANGED faults
    \/ Fault /\ UNCHANGED <<queue, confirmed>>

\* With 403, it may call again or give up.
Forbidden(e) == LetsGo(e) /\ UNCHANGED <<confirmed, faults, seen, pc, began, together>>

Remember(e) == seen' = [seen EXCEPT ![e] = now]

\* Telegram remembers an id before it looks whether there is a text to handle.
TelegramCalled(e) ==
    /\ Hooked /\ listener = "up"
    /\ IF Accepted(e) THEN Remember(e) /\ Ok(e) /\ Handle(e) ELSE Forbidden(e)

RemembersWanted(e) ==
    IF ~Wanted(e) THEN Ok(e) /\ UNCHANGED <<seen, pc, began, together>>
    ELSE IF Accepted(e) THEN Remember(e) /\ Ok(e) /\ Handle(e)
    ELSE Forbidden(e)

FeishuCalled(e) == adapter.platform = "feishu" /\ RemembersWanted(e)

\* WeCom's calls are also refused when their timestamp is too old.
WeComCalled(e) == adapter.platform = "wecom" /\ (RemembersWanted(e) \/ Forbidden(e))

Called(e) ==
    /\ e \in ToSet(queue)
    /\ TelegramCalled(e) \/ FeishuCalled(e) \/ WeComCalled(e)
    /\ UNCHANGED <<adapter, message, ahead, batch, listener, now, session, sending, targets,
                   arrived, notices, stops>>

---------------------------------------------------------------------------
(* Handlers: handleTelegramInbound and its siblings.                       *)

Bind(r, s) == targets' = [targets EXCEPT ![s] = r]

End(r) ==
    /\ Goto(r, "done")
    /\ session' = [session EXCEPT ![r] = None]
    /\ sending' = [sending EXCEPT ![r] = FirstAttempt]
    /\ together' = {p \in together : p[1] # r}

Executing(s) == {q \in Runs : pc[q] \in {"executing", "failing"} /\ session[q] = s}

\* An answer without a session, or the error of a route or a command.
Answer(r) ==
    /\ pc[r] = "routing"
    /\ End(r)
    /\ UNCHANGED targets

\* /new, /resume and /cancel bind the session they are about; /cancel makes
\* its execution fail.
Control(r, s) ==
    /\ pc[r] = "routing" /\ message[r[1]].kind \in {"bind", "cancel"}
    /\ Bind(r, s)
    /\ pc' = [q \in Runs |-> IF q = r THEN "done"
                             ELSE IF message[r[1]].kind = "cancel" /\ q \in Executing(s) THEN "failing"
                             ELSE pc[q]]
    /\ together' = {p \in together : p[1] # r}
    /\ UNCHANGED <<session, sending>>

Execute(r, s) ==
    /\ pc[r] = "routing" /\ message[r[1]].kind = "ask"
    /\ Executing(s) = {}
    /\ Goto(r, "executing")
    /\ session' = [session EXCEPT ![r] = s]
    /\ UNCHANGED <<sending, targets, together>>

\* Fault: the session stays bound to the message that bound it last.
ExecutedUnbound(r) ==
    /\ pc[r] = "executing"
    /\ IF targets[session[r]] = None THEN Bind(r, session[r]) ELSE UNCHANGED targets
    /\ Goto(r, "delivering")
    /\ UNCHANGED <<session, sending, together>>

\* The output of an execution goes where its message came from.
Executed(r) ==
    /\ pc[r] = "executing"
    /\ Bind(r, session[r])
    /\ Goto(r, "delivering")
    /\ UNCHANGED <<session, sending, together>>

Failed(r) ==
    /\ pc[r] \in {"executing", "failing"}
    /\ End(r)
    /\ UNCHANGED targets

\* The files that an output names, each with an answer if it cannot be sent.
Files(r) ==
    /\ pc[r] = "filing"
    /\ End(r)
    /\ UNCHANGED targets

Inbound(r) ==
    \/ Answer(r)
    \/ \E s \in Sessions : Control(r, s) \/ Execute(r, s)
    \/ Executed(r)
    \/ Failed(r)

TelegramInbound(r) == adapter.platform = "telegram" /\ (Inbound(r) \/ Files(r))
FeishuInbound(r) == adapter.platform = "feishu" /\ Inbound(r)
WeComInbound(r) == adapter.platform = "wecom" /\ (Inbound(r) \/ Files(r))
DiscordInbound(r) == adapter.platform = "discord" /\ (Inbound(r) \/ Files(r))

---------------------------------------------------------------------------
(* Delivery: every segment is tried twice, and each time an adapter sends  *)
(* it up to three times when the error is one it retries.                  *)

Errors == {"network", "deadline", "refused", "server"}
TelegramRetries == {"network"}
FeishuRetries == {"network", "server"}
WeComRetries == {"network", "server"}
DiscordRetries == {}
Retried ==
    CASE adapter.platform = "telegram" -> TelegramRetries
      [] adapter.platform = "feishu" -> FeishuRetries
      [] adapter.platform = "wecom" -> WeComRetries
      [] adapter.platform = "discord" -> DiscordRetries
Attempts == 3
Tries == 2

Segment(r) == <<r, sending[r].segment, targets[session[r]]>>

\* After the last segment: Feishu has no files.
Delivered(r) == IF adapter.platform = "feishu" THEN End(r)
                ELSE Goto(r, "filing") /\ UNCHANGED <<session, sending, together>>

\* Fault: the first segment that fails ends the delivery.
AdvanceOver(r, failed) ==
    IF sending[r].segment < Segments /\ failed = 0
    THEN /\ sending' = [sending EXCEPT ![r] = Attempt(sending[r].segment + 1, 1, 0)]
         /\ UNCHANGED <<pc, session, together>>
    ELSE Delivered(r)

\* The next segment; after the last one the report is partial if one failed.
Advance(r, failed) ==
    IF sending[r].segment < Segments
    THEN /\ sending' = [sending EXCEPT ![r] = Attempt(sending[r].segment + 1, 1, failed)]
         /\ UNCHANGED <<pc, session, together>>
    ELSE IF failed > 0 THEN Goto(r, "noticing") /\ UNCHANGED <<session, sending, together>>
    ELSE Delivered(r)

Sent(r) ==
    /\ arrived' = arrived \cup {Segment(r)}
    /\ Advance(r, sending[r].failed)
    /\ UNCHANGED faults

\* A request that fails may have reached the platform all the same.
NotSent(r, error, reached) ==
    /\ Fault
    /\ reached => error \in {"network", "deadline"}
    /\ arrived' = arrived \cup (IF reached THEN {Segment(r)} ELSE {})
    /\ IF error \in Retried /\ sending[r].attempt < Attempts
       THEN sending' = [sending EXCEPT ![r].attempt = @ + 1] /\ UNCHANGED <<pc, session, together>>
       ELSE IF sending[r].try < Tries
       THEN /\ sending' = [sending EXCEPT ![r] =
                  Attempt(sending[r].segment, sending[r].try + 1, sending[r].failed)]
            /\ UNCHANGED <<pc, session, together>>
       ELSE Advance(r, sending[r].failed + 1)

Deliver(r) ==
    /\ pc[r] = "delivering"
    /\ \/ Sent(r)
       \/ \E error \in Errors, reached \in BOOLEAN : NotSent(r, error, reached)
    /\ UNCHANGED targets

\* The notice of a partial delivery.  Nobody looks whether it arrived, nor at the
\* report of the delivery.
Notice(r) ==
    /\ pc[r] = "noticing"
    /\ \E told \in BOOLEAN : notices' = notices \cup {<<r, told>>}
    /\ Delivered(r)
    /\ UNCHANGED targets

HandlerStep(r) ==
    /\ \/ /\ \/ TelegramInbound(r)
             \/ FeishuInbound(r)
             \/ WeComInbound(r)
             \/ DiscordInbound(r)
          /\ UNCHANGED <<arrived, notices, faults>>
       \/ Notice(r) /\ UNCHANGED <<arrived, faults>>
       \/ Deliver(r) /\ UNCHANGED notices
    /\ UNCHANGED <<platform, inbox, now, confirmed, began, stops>>

---------------------------------------------------------------------------
\* ClawX stops, whatever is going on, and starts again with nothing in memory.
Stop ==
    /\ stops < MaxStops
    /\ stops' = stops + 1
    /\ ahead' = 0 /\ batch' = <<>>
    /\ listener' = IF Hooked THEN listener ELSE Starting
    /\ seen' = [e \in Events |-> None]
    /\ pc' = [r \in Runs |-> IF pc[r] \in Idle THEN pc[r] ELSE "lost"]
    /\ session' = [r \in Runs |-> None]
    /\ sending' = [r \in Runs |-> FirstAttempt]
    /\ targets' = [s \in Sessions |-> None]
    /\ began' = [r \in Runs |-> None]
    /\ together' = {}
    /\ UNCHANGED <<platform, now, arrived, notices, confirmed, faults>>

Next ==
    \/ \E e \in Events : Send(e)
    \/ Poll \/ PollTimesOut \/ TakeUpdate
    \/ Dial \/ Identify \/ Dispatch \/ Disconnect
    \/ Register
    \/ \E e \in Events : Called(e)
    \/ \E r \in Runs : HandlerStep(r)
    \/ Tick
    \/ Stop

Spec == Init /\ [][Next]_vars

---------------------------------------------------------------------------
\* The types of the inbox and of the handlers' state.
ChannelsTypeOK ==
    /\ queue \in Seq(Events) /\ batch \in Seq(Events) /\ ahead \in 0..Len(queue)
    /\ listener \in {"up", "down", "dialed", "ended"}
    /\ targets \in [Sessions -> Runs \cup {None}]
    /\ \A r \in Runs :
        /\ pc[r] \in Idle \cup {"routing", "executing", "failing", "delivering", "noticing", "filing"}
        /\ pc[r] \in {"executing", "delivering"} => session[r] \in Sessions
        /\ sending[r].failed < sending[r].segment + 1
    /\ notices \subseteq Runs \X BOOLEAN

\* What a polling channel has confirmed, so that it is never sent again, was
\* handled to the end, whenever ClawX stopped and whatever went wrong; and what
\* a webhook has answered with 200, unless ClawX stopped before the end.
ConfirmedIsHandled ==
    \A e \in confirmed : Wanted(e) => \E k \in 1..MaxDeliveries :
        \/ pc[<<e, k>>] = "done"
        \/ adapter.mode = "webhook" /\ pc[<<e, k>>] # "new"

\* An event that is delivered again is not handled again while its id is to be
\* remembered, in one life of ClawX; and by a poll or a push never.
HandledOnce ==
    \A e \in Events : \A k \in 2..MaxDeliveries :
        LET first == began[<<e, k - 1>>]
            again == began[<<e, k>>]
        IN  again # None /\ first # None => adapter.mode = "webhook" /\ again > first + Window

\* When the delivery of an output ends, all of it has arrived, or a notice that it
\* may be incomplete was sent, which may itself be lost: then nobody tells the user.
Whole(r) == \A n \in 1..Segments : \E q \in Runs : <<r, n, q>> \in arrived
Noticed(r) == \E told \in BOOLEAN : <<r, told>> \in notices
PartialIsNoticed ==
    [][\A r \in Runs : pc[r] \in {"delivering", "noticing"} /\ pc'[r] \in {"filing", "done"} =>
          Whole(r)' \/ Noticed(r)']_vars

\* A segment arrives where its message came from, or where a message did that
\* was handled at the same time and has bound the session meanwhile.
AnswersGoHome ==
    [][\A x \in arrived' \ arrived : x[3] # x[1] => <<x[1], x[3]>> \in together]_vars

\* A cancel that ClawX has in hand does not wait for the execution that it is
\* to cancel.
CancelIsHeard ==
    \A e \in ToSet(batch) : message[e].kind = "cancel" => \A s \in Sessions : Executing(s) = {}
=============================================================================
