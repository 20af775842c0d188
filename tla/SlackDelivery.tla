--------------------------- MODULE SlackDelivery ---------------------------
(***************************************************************************)
(* How a Slack message gets its reply (src/platform_agent/slack:           *)
(* lambda_function.py, handler.py). Slack delivers an event, once or more, *)
(* to a container of the ack Lambda, which puts it on an SQS FIFO queue; a *)
(* container of the worker Lambda takes a batch from the queue and handles *)
(* its messages in order: it claims the message in a DynamoDB table, posts *)
(* an indicator, invokes the agent and turns the indicator into the reply. *)
(* Slack may have two events for one message, of which one is answered.    *)
(*                                                                         *)
(* Slack, SQS, DynamoDB and the agent are external: what they may do is    *)
(* taken from how the code uses them. A batch holds messages of one group. *)
(* Time is abstract: an entry with a time to live may expire at any moment *)
(* that the order of the periods allows (5 minutes for the ack's memory    *)
(* and SQS's deduplication, 10 minutes for the handler's memory, 1 hour    *)
(* until an event is stale, 7 days for a claim).                           *)
(*                                                                         *)
(* What a message says is left out, and with it the splitting of a reply   *)
(* that is too long for one Slack message. The branch of handle for an     *)
(* exception that says "is busy" is left out too: _invoke_agentcore, which *)
(* meets that answer, turns it into None.                                  *)
(*                                                                         *)
(* marks is a history variable: what has befallen a message.               *)
(***************************************************************************)
EXTENDS Integers, Sequences, FiniteSets, SequencesExt, ListFunctions

CONSTANTS
    Messages,       \* a message is named by its channel and ts
    ThreadOf,       \* the thread of each message
    UserOf,         \* its user
    DMs,            \* the messages sent in a user's direct messages
    KindsOf,        \* the events that Slack has for each message
    Acks,           \* containers of the ack Lambda
    Workers,        \* containers of the worker Lambda
    Faults,         \* the kinds of faults that happen
    MaxFaults,      \* bound: how many of them
    MaxSends,       \* bound: how often Slack delivers events of each message
    Identity,       \* config.identity_enabled
    MaxBatch        \* the batch size of the worker's event source mapping

\* "other" stands for the messages of bots and all that have a subtype.
Kinds == {"message", "app_mention", "other"}

\* An event is a message and a kind.
Events == Messages \X Kinds

FaultKinds == {"sqs", "ddb", "agent", "busy", "slack", "crash", "timeout"}

ASSUME DeliveryAssumption ==
    /\ IsFiniteSet(Messages)
    /\ DMs \subseteq Messages /\ KindsOf \in [Messages -> SUBSET Kinds] /\ Identity \in BOOLEAN
    /\ Acks \cap Workers = {}
    /\ Faults \subseteq FaultKinds
    /\ MaxFaults \in Nat /\ MaxSends \in [Messages -> Nat] /\ MaxBatch \in Nat \ {0}

Containers == Acks \cup Workers

VARIABLES
    sends,          \* deliveries of each message by Slack
    old,            \* messages sent more than an hour ago
    seen,           \* _seen_events, per container
    window,         \* messages in SQS's deduplication window
    queue,          \* events on the queue, in order
    inflight,       \* those of them that are received and not visible
    processed,      \* _processed_events, per container
    claimed,        \* rows of the deduplication table
    botLast,        \* direct messages after which the bot has posted
    indicators,     \* indicators that Slack shows, per message
    replies,        \* replies that Slack shows, per message
    job,            \* what each container is doing
    faults,         \* faults so far
    marks

slack == <<botLast, indicators, replies>>
sqs   == <<window, queue, inflight>>
vars  == <<sends, old, seen, sqs, processed, claimed, slack, job, faults, marks>>

\* batch: the records a worker received; todo: those it has not handled yet,
\* the first one being handled; shown: it posted an indicator.
Idle == [pc |-> "idle", batch |-> <<>>, todo |-> <<>>, shown |-> FALSE]

Init ==
    /\ sends = [m \in Messages |-> 0]
    /\ old = {}
    /\ seen = [c \in Containers |-> {}]
    /\ window = {} /\ queue = <<>> /\ inflight = {}
    /\ processed = [c \in Containers |-> {}]
    /\ claimed = {}
    /\ botLast = {}
    /\ indicators = [m \in Messages |-> 0]
    /\ replies = [m \in Messages |-> 0]
    /\ job = [c \in Containers |-> Idle]
    /\ faults = 0
    /\ marks = [m \in Messages |-> {}]

At(c, pc) == job[c].pc = pc

Event(c) == Head(job[c].todo)
Current(c) == Event(c)[1]

OfMessage(events, m) == \E i \in DOMAIN events : events[i][1] = m

Goto(c, pc) == job' = [job EXCEPT ![c].pc = pc]

\* A mutant of Group: the message's own ts instead of its thread's.
GroupOfItsOwn(m) == m

\* Messages of one thread have the same MessageGroupId.
Group(m) == ThreadOf[m]

\* Direct messages in the same conversation as m.
SameDM(m) == {n \in DMs : m \in DMs /\ UserOf[n] = UserOf[m]}

Handled(m) == \E c \in Containers : OfMessage(job[c].todo, m)

Fault(kind) == kind \in Faults /\ faults < MaxFaults /\ faults' = faults + 1

\* A fault in the course of one that is counted: to invoke the agent over HTTP
\* takes one.
FaultAgain(kind) == kind \in Faults /\ UNCHANGED faults

Marks(m, what) == marks' = [marks EXCEPT ![m] = @ \cup what]
Mark(m, what) == Marks(m, {what})

\* parse_event: of a direct message the message event is answered, in a channel
\* the mention.
Actionable(e) == e[2] = IF e[1] \in DMs THEN "message" ELSE "app_mention"

\* Slack may take for granted that the message is answered; or an event that
\* will be ignored stands in the place of any other of its message.
Taken(e) == IF Actionable(e) THEN {"asked"} ELSE {}
InPlace(e) == IF Actionable(e) THEN {"asked"} ELSE {"shadowed"}

----------------------------------------------------------------------------
(* The ack Lambda *)

\* A mutant of Stale: the age of an event is not looked at.
NeverStale(m) == FALSE

Stale(m) == m \in old

\* The user sends the message, or Slack delivers an event of it once more or
\* another one. A stale event, or one of a message that this container has
\* seen, is acknowledged and dropped.
Deliver(c, e) ==
    LET m == e[1]
    IN  /\ At(c, "idle")
        /\ e[2] \in KindsOf[m]
        /\ sends[m] < MaxSends[m]
        /\ sends' = [sends EXCEPT ![m] = @ + 1]
        /\ botLast' = IF sends[m] = 0 THEN botLast \ SameDM(m) ELSE botLast
        /\ \/ /\ Stale(m)
              /\ UNCHANGED <<seen, job, marks>>
           \/ /\ ~Stale(m) /\ m \in seen[c]
              /\ Marks(m, Taken(e))
              /\ UNCHANGED <<seen, job>>
           \/ /\ ~Stale(m) /\ m \notin seen[c]
              /\ seen' = [seen EXCEPT ![c] = @ \cup {m}]
              /\ job' = [job EXCEPT ![c] = [Idle EXCEPT !.pc = "enqueue", !.todo = <<e>>]]
              /\ UNCHANGED marks
    /\ UNCHANGED <<old, sqs, processed, claimed, indicators, replies, faults>>

\* send_message: SQS drops an event of a message of which it has accepted one
\* in the last five minutes.
Accept(e) ==
    /\ queue' = IF e[1] \in window THEN queue ELSE Append(queue, e)
    /\ window' = window \cup {e[1]}
    /\ UNCHANGED inflight

Enqueue(c) ==
    /\ At(c, "enqueue")
    /\ Accept(Event(c))
    /\ job' = [job EXCEPT ![c] = Idle]
    /\ Marks(Current(c), IF Current(c) \in window THEN Taken(Event(c)) ELSE InPlace(Event(c)))
    /\ UNCHANGED <<sends, old, seen, processed, claimed, slack, faults>>

\* send_message raises, whether or not SQS has the event: the ack container
\* handles the event itself.
EnqueueFails(c) ==
    /\ At(c, "enqueue")
    /\ Fault("sqs")
    /\ \/ Accept(Event(c)) /\ Marks(Current(c), {"fallback"} \cup InPlace(Event(c)))
       \/ UNCHANGED sqs /\ Marks(Current(c), {"fallback"} \cup (InPlace(Event(c)) \ {"asked"}))
    /\ Goto(c, "claim")
    /\ UNCHANGED <<sends, old, seen, processed, claimed, slack>>

----------------------------------------------------------------------------
(* SQS and the worker Lambda *)

Waiting(g) == Among(queue, {e \in Events : Group(e[1]) = g})

\* SQS gives a worker the first messages of a group that has none in flight.
Receive(c) ==
    /\ At(c, "idle")
    /\ \E g \in {Group(m) : m \in Messages}, n \in 1 .. MaxBatch :
         /\ n <= Len(Waiting(g))
         /\ \A e \in inflight : Group(e[1]) # g
         /\ LET batch == SubSeq(Waiting(g), 1, n)
            IN  /\ inflight' = inflight \cup ToSet(batch)
                /\ job' = [job EXCEPT ![c] = [Idle EXCEPT !.pc = "claim",
                                                          !.batch = batch, !.todo = batch]]
    /\ UNCHANGED <<sends, old, seen, window, queue, processed, claimed, slack, faults, marks>>

\* A mutant of Return: the loop over the records returns after the first one.
ReturnAtOnce(c) ==
    /\ job' = [job EXCEPT ![c] = Idle]
    /\ queue' = Among(queue, Events \ ToSet(job[c].batch))
    /\ inflight' = inflight \ ToSet(job[c].batch)
    /\ UNCHANGED window

\* handle returns: on to the next record; after the last one the batch is
\* deleted from the queue. An ack container has no batch.
Return(c) ==
    IF Len(job[c].todo) > 1
    THEN /\ job' = [job EXCEPT ![c].pc = "claim", ![c].todo = Tail(@), ![c].shown = FALSE]
         /\ UNCHANGED sqs
    ELSE /\ job' = [job EXCEPT ![c] = Idle]
         /\ queue' = Among(queue, Events \ ToSet(job[c].batch))
         /\ inflight' = inflight \ ToSet(job[c].batch)
         /\ UNCHANGED window

\* handle raises: a worker's batch stays in flight until SQS gives up on it,
\* an ack container answers Slack with an error.
Raise(c) ==
    /\ job' = [job EXCEPT ![c] = Idle]
    /\ UNCHANGED sqs

AtWork(e) == \E c \in Workers : Contains(job[c].batch, e)

Reappears(e) ==
    /\ e \in inflight
    /\ inflight' = inflight \ {e}
    /\ UNCHANGED <<sends, old, seen, window, queue, processed, claimed, slack, job>>

\* The visibility timeout of a message ends that no worker is at work on.
VisibleAgain(e) ==
    /\ ~AtWork(e)
    /\ Reappears(e)
    /\ UNCHANGED <<faults, marks>>

\* It is shorter than the worker is slow.
TimesOut(e) ==
    /\ AtWork(e)
    /\ Fault("timeout")
    /\ Reappears(e)
    /\ Mark(e[1], "timeout")

----------------------------------------------------------------------------
(* SlackEventHandler.handle, for the current message of container c *)

\* An event that is not to be answered.
Ignore(c) ==
    /\ At(c, "claim")
    /\ ~Actionable(Event(c))
    /\ Return(c)
    /\ UNCHANGED <<sends, old, seen, processed, claimed, slack, faults, marks>>

\* What handle does with any other begins with the claim.
Claiming(c) == At(c, "claim") /\ Actionable(Event(c))

\* After the claim: only direct messages look at the channel's history.
Admitted(c) ==
    /\ processed' = [processed EXCEPT ![c] = @ \cup {Current(c)}]
    /\ Goto(c, IF Current(c) \in DMs THEN "guard" ELSE "post")
    /\ UNCHANGED sqs

\* The conditional put succeeds.
Claim(c) ==
    /\ Claiming(c)
    /\ Current(c) \notin processed[c] \cup claimed
    /\ claimed' = claimed \cup {Current(c)}
    /\ Admitted(c)
    /\ UNCHANGED <<sends, old, seen, slack, faults, marks>>

\* This container, or the table, knows the message: it is not handled again.
Skip(c) ==
    /\ Claiming(c)
    /\ Current(c) \in processed[c] \cup claimed
    /\ processed' = [processed EXCEPT ![c] = @ \cup {Current(c)}]
    /\ Return(c)
    /\ UNCHANGED <<sends, old, seen, claimed, slack, faults, marks>>

\* There is no table, or the put raises, whether or not it has written the
\* row: fail open.
ClaimFails(c) ==
    /\ Claiming(c)
    /\ Current(c) \notin processed[c]
    /\ Fault("ddb")
    /\ claimed' \in {claimed, claimed \cup {Current(c)}}
    /\ Admitted(c)
    /\ Mark(Current(c), "open")
    /\ UNCHANGED <<sends, old, seen, slack>>

\* The newest message in the channel is the bot's: do not answer.
GuardSkips(c) ==
    /\ At(c, "guard")
    /\ Current(c) \in botLast
    /\ Return(c)
    /\ Mark(Current(c), "guarded")
    /\ UNCHANGED <<sends, old, seen, processed, claimed, slack, faults>>

\* It is not, or the guard cannot tell.
GuardPasses(c) ==
    /\ At(c, "guard")
    /\ Goto(c, "post")
    /\ UNCHANGED <<sends, old, seen, sqs, processed, claimed, slack, faults, marks>>

\* The bot posts in the conversation of message m.
BotPosts(m) == botLast' = botLast \cup {n \in SameDM(m) : sends[n] > 0}

\* With an indicator the agent is invoked over a WebSocket first.
PostIndicator(c) ==
    /\ At(c, "post")
    /\ indicators' = [indicators EXCEPT ![Current(c)] = @ + 1]
    /\ BotPosts(Current(c))
    /\ job' = [job EXCEPT ![c].pc = "stream", ![c].shown = TRUE]
    /\ UNCHANGED <<sends, old, seen, sqs, processed, claimed, replies, faults, marks>>

\* post_response is not told that Slack has the post: Slack refuses it, or takes
\* it although the answer is lost. Then there is an indicator of which handle
\* has no ts, so that it neither replaces nor deletes it.
PostFails(c) ==
    /\ At(c, "post")
    /\ Fault("slack")
    /\ Goto(c, "invoke")
    /\ \/ UNCHANGED <<slack, marks>>
       \/ /\ indicators' = [indicators EXCEPT ![Current(c)] = @ + 1]
          /\ BotPosts(Current(c))
          /\ Mark(Current(c), "unheard")
          /\ UNCHANGED replies
    /\ UNCHANGED <<sends, old, seen, sqs, processed, claimed>>

\* The agent's answer is streamed into the indicator.
Stream(c) ==
    /\ At(c, "stream")
    /\ Goto(c, "reply")
    /\ UNCHANGED <<sends, old, seen, sqs, processed, claimed, slack, faults, marks>>

\* It comes over HTTP; for most errors the answer is a text that says so, and
\* with identity it is one for all of them.
Answer(c) ==
    /\ At(c, "invoke")
    /\ Goto(c, "reply")
    /\ UNCHANGED <<sends, old, seen, sqs, processed, claimed, slack, faults, marks>>

\* Any failure of the WebSocket leads to a second invocation over HTTP.
StreamFails(c) ==
    /\ At(c, "stream")
    /\ Fault("agent")
    /\ Goto(c, "invoke")
    /\ UNCHANGED <<sends, old, seen, sqs, processed, claimed, slack, marks>>

\* With identity nothing that goes wrong with the request leaves the handler.
HttpRaises == ~Identity

\* The session is busy: _invoke_agentcore returns None, of which
\* _build_response raises a TypeError that nothing catches.
AgentBusy(c) ==
    /\ At(c, "invoke") /\ HttpRaises
    /\ FaultAgain("busy")
    /\ Mark(Current(c), "busy")
    /\ Raise(c)
    /\ UNCHANGED <<sends, old, seen, processed, claimed, slack>>

\* A mutant of TransientError: the indicator stays.
TransientErrorShown(c) ==
    /\ At(c, "invoke") /\ HttpRaises
    /\ FaultAgain("agent")
    /\ Mark(Current(c), "failed")
    /\ Raise(c)
    /\ UNCHANGED <<sends, old, seen, processed, claimed, slack>>

\* chat.delete of the indicator, which Slack may refuse; that its answer is lost
\* makes no difference.
DeleteIndicator(c) ==
    \/ /\ indicators' = [indicators EXCEPT ![Current(c)] = @ - 1]
       /\ Mark(Current(c), "failed")
    \/ /\ "slack" \in Faults
       /\ marks' = [marks EXCEPT ![Current(c)] = @ \cup {"failed", "refused"}]
       /\ UNCHANGED indicators

\* A transient error: delete the indicator, if there is one, and raise.
TransientError(c) ==
    /\ At(c, "invoke") /\ HttpRaises
    /\ FaultAgain("agent")
    /\ IF job[c].shown THEN DeleteIndicator(c)
                       ELSE Mark(Current(c), "failed") /\ UNCHANGED indicators
    /\ Raise(c)
    /\ UNCHANGED <<sends, old, seen, processed, claimed, botLast, replies>>

\* The reply takes the indicator's place, or is posted. Whether Slack's answer
\* to that arrives makes no difference: handle does not look at it.
Reply(c) ==
    /\ At(c, "reply")
    /\ replies' = [replies EXCEPT ![Current(c)] = @ + 1]
    /\ indicators' = IF job[c].shown THEN [indicators EXCEPT ![Current(c)] = @ - 1]
                                     ELSE indicators
    /\ IF job[c].shown THEN UNCHANGED botLast ELSE BotPosts(Current(c))
    /\ Return(c)
    /\ UNCHANGED <<sends, old, seen, processed, claimed, faults, marks>>

\* Slack refuses the reply.
ReplyFails(c) ==
    /\ At(c, "reply")
    /\ Fault("slack")
    /\ Mark(Current(c), "refused")
    /\ Return(c)
    /\ UNCHANGED <<sends, old, seen, processed, claimed, slack>>

----------------------------------------------------------------------------
(* Containers and time *)

\* A container that is at work dies, and its memory with it.
Crash(c) ==
    /\ ~At(c, "idle")
    /\ Fault("crash")
    /\ job' = [job EXCEPT ![c] = Idle]
    /\ seen' = [seen EXCEPT ![c] = {}]
    /\ processed' = [processed EXCEPT ![c] = {}]
    /\ IF At(c, "enqueue") \/ At(c, "claim") THEN UNCHANGED marks
                                             ELSE Mark(Current(c), "crashed")
    /\ UNCHANGED <<sends, old, sqs, claimed, slack>>

\* A container is replaced, or the entries of its memory have expired.
Forget(c) ==
    /\ At(c, "idle")
    /\ seen[c] \cup processed[c] # {}
    /\ seen' = [seen EXCEPT ![c] = {}]
    /\ processed' = [processed EXCEPT ![c] = {}]
    /\ UNCHANGED <<sends, old, sqs, claimed, slack, job, faults, marks>>

\* That a second copy of a message joins the first one on the queue is left
\* out: it is skipped like one that comes later.
WindowEnds(m) ==
    /\ m \in window
    /\ ~OfMessage(queue, m)
    /\ window' = window \ {m}
    /\ UNCHANGED <<sends, old, seen, queue, inflight, processed, claimed, slack, job, faults, marks>>

GrowsOld(m) ==
    /\ sends[m] > 0 /\ m \notin old
    /\ old' = old \cup {m}
    /\ UNCHANGED <<sends, seen, sqs, processed, claimed, slack, job, faults, marks>>

\* The table's time to live: by then the message has left the queue (SQS keeps
\* it for four days).
RowExpires(m) ==
    /\ m \in claimed \cap old
    /\ ~OfMessage(queue, m) /\ ~Handled(m)
    /\ claimed' = claimed \ {m}
    /\ UNCHANGED <<sends, old, seen, sqs, processed, slack, job, faults, marks>>

----------------------------------------------------------------------------

\* The steps of a container that need no fault and no new message.
Work(c) == \/ Enqueue(c) \/ Ignore(c) \/ Claim(c) \/ Skip(c)
           \/ GuardSkips(c) \/ GuardPasses(c) \/ PostIndicator(c) \/ Stream(c) \/ Answer(c) \/ Reply(c)

Break(c) == \/ EnqueueFails(c) \/ ClaimFails(c) \/ PostFails(c) \/ StreamFails(c)
            \/ AgentBusy(c) \/ TransientError(c) \/ ReplyFails(c) \/ Crash(c)

Next ==
    \/ \E c \in Acks, e \in Events : Deliver(c, e)
    \/ \E c \in Workers : Receive(c)
    \/ \E c \in Containers : Work(c) \/ Break(c) \/ Forget(c)
    \/ \E e \in Events : VisibleAgain(e) \/ TimesOut(e)
    \/ \E m \in Messages : WindowEnds(m) \/ GrowsOld(m) \/ RowExpires(m)

\* Containers run, SQS delivers what is visible and makes visible again what
\* is not deleted. Slack need not deliver anything, and nothing must expire.
Fairness ==
    /\ \A c \in Containers : WF_vars(Work(c))
    /\ WF_vars(\E c \in Workers : Receive(c))
    /\ \A e \in Events : WF_vars(VisibleAgain(e))

Spec == Init /\ [][Next]_vars /\ Fairness

----------------------------------------------------------------------------

\* "No more double replies": whatever Slack and SQS deliver twice, and
\* whichever entries have expired, a message gets one reply, unless the table
\* could not be asked.
OneReply ==
    \A m \in Messages : replies[m] > 1 => "open" \in marks[m]

\* An indicator does not stay: when nobody is handling its message it has been
\* replaced or deleted, unless Slack refused that, the container died, the
\* session was busy or the answer to the indicator's own post was lost.
IndicatorSettled ==
    \A m \in Messages :
        indicators[m] > 0 /\ ~Handled(m) =>
            marks[m] \cap {"refused", "crashed", "busy", "unheard"} # {}

Invoking(c) == At(c, "stream") \/ At(c, "invoke")

\* Messages of a thread are answered one at a time, unless one of them was
\* handled by the ack container or became visible under a worker's hands.
ThreadSequential ==
    \A b, c \in Containers :
        /\ Invoking(b) /\ Invoking(c)
        /\ ThreadOf[Current(b)] = ThreadOf[Current(c)]
        => b = c \/ \E m \in Messages : /\ ThreadOf[m] = ThreadOf[Current(b)]
                                        /\ marks[m] \cap {"fallback", "timeout"} # {}

\* A message that Slack has been told is taken is answered, whatever happens to
\* the messages around it, unless a fault hits it while it is handled, the guard
\* drops it, or an event of it that is ignored has come before the one to be
\* answered (lambda_handler's two deduplications do not tell them apart).
Answered ==
    \A m \in Messages :
        "asked" \in marks[m] ~>
            \/ replies[m] > 0
            \/ marks[m] \cap {"failed", "busy", "refused", "crashed", "guarded", "shadowed"} # {}

=============================================================================
