-------------------------- MODULE HarnessSlackbot --------------------------
(***************************************************************************)
(* The Slack adapter that the skill agentcore-harness-slackbot installs    *)
(* (assets/slack-adapter-template). The ingress Lambda puts an event on an *)
(* SQS FIFO queue before it answers Slack; a worker Lambda takes one       *)
(* message at a time, invokes the agent and streams what the agent says    *)
(* into Slack, or posts it when Slack does not start a stream.             *)
(*                                                                         *)
(* A text is a sequence of units, and the agent's answer to a message is   *)
(* <<1, 2, 3, ...>>: all that matters is which part of it Slack has.       *)
(* Slack, SQS and the agent are external. Left out: signatures, the checks *)
(* of an event that end in an answer without a message on the queue, the   *)
(* clock of the stream's updates (an update may come with any part).       *)
(*                                                                         *)
(* accepted, shown and failed are history variables; so is "answer" of a   *)
(* stream, the length of the answer that it was ended for.                 *)
(***************************************************************************)
EXTENDS Naturals, Sequences, FiniteSets, SequencesExt

CONSTANTS
    Messages,       \* a message is named by its event_id
    ChannelOf,      \* the channel of each message
    ThreadOf,       \* its thread_ts, or its own ts
    DMs,            \* the messages of a direct-message channel
    Workers,        \* containers of the worker Lambda
    MaxReceives,    \* maxReceiveCount of the queue
    StreamChunk,    \* STREAM_CHUNK_CHARS, in units
    FallbackChunk,  \* FALLBACK_CHUNK_CHARS, in units
    MaxLength,      \* bound: units of an answer
    MaxSends,       \* bound: how often Slack delivers an event
    MaxFaults,      \* bound: faults of any kind
    None

ASSUME SlackbotAssumption ==
    /\ IsFiniteSet(Messages) /\ DMs \subseteq Messages
    /\ None \notin Messages \cup Workers
    /\ MaxReceives \in Nat \ {0} /\ MaxSends \in Nat /\ MaxFaults \in Nat
    /\ StreamChunk \in Nat \ {0} /\ FallbackChunk \in Nat \ {0} /\ MaxLength \in Nat \ {0}

VARIABLES
    sends,          \* deliveries of each event by Slack
    remembered,     \* messages in SQS's deduplication window
    queue,          \* entries in order: message, receives, worker
    dead,           \* the dead-letter queue
    job,            \* what each worker is doing
    accepted,       \* messages that SQS has taken
    shown,          \* per message, what Slack shows of each attempt
    failed,         \* per message, attempts that went wrong
    faults

sqs   == <<remembered, queue, dead, accepted>>
slack == <<shown, failed>>
vars  == <<sends, sqs, job, slack, faults>>

Text(n) == [i \in 1 .. n |-> i]

\* conversation_key: one per channel of direct messages, one per thread.
ConversationKey(m) ==
    IF m \in DMs THEN <<"dm", ChannelOf[m]>> ELSE <<"thread", ChannelOf[m], ThreadOf[m]>>

\* A mutant of QueueGroup: one group per thread, in direct messages too.
ThreadGroup(m) == <<"thread", ChannelOf[m], ThreadOf[m]>>

QueueGroup(m) == ConversationKey(m)       \* queue_group_id
RuntimeSession(m) == ConversationKey(m)   \* derive_harness_identity

\* latest and sent are the publisher's _latest and _sent, open its _message_ts
\* and barred its _start_failed; final says that finish is running.
Idle == [at |-> "idle", msg |-> None, latest |-> 0, sent |-> 0,
         open |-> FALSE, barred |-> FALSE, final |-> FALSE]

Init ==
    /\ sends = [m \in Messages |-> 0]
    /\ remembered = {} /\ queue = <<>> /\ dead = {} /\ accepted = {}
    /\ job = [w \in Workers |-> Idle]
    /\ shown = [m \in Messages |-> <<>>]
    /\ failed = [m \in Messages |-> 0]
    /\ faults = 0

At(w, stage) == job[w].at = stage
Current(w) == job[w].msg
Fault == faults < MaxFaults /\ faults' = faults + 1

----------------------------------------------------------------------------
(* The ingress Lambda and the queue *)

Post(m) ==
    /\ accepted' = accepted \cup {m}
    /\ IF m \in remembered THEN UNCHANGED <<queue, remembered>>
       ELSE /\ queue' = Append(queue, [msg |-> m, receives |-> 0, worker |-> None])
            /\ remembered' = remembered \cup {m}

\* Slack delivers an event, again if the answer to it did not come in time; the
\* ingress puts it on the queue and answers 200.
Deliver(m) ==
    /\ sends[m] < MaxSends
    /\ sends' = [sends EXCEPT ![m] = @ + 1]
    /\ Post(m)
    /\ UNCHANGED <<dead, job, slack, faults>>

\* send_message raises, though SQS may have the message: the ingress answers 503.
DeliverFails(m) ==
    /\ sends[m] < MaxSends
    /\ sends' = [sends EXCEPT ![m] = @ + 1]
    /\ Fault
    /\ Post(m) \/ UNCHANGED <<accepted, queue, remembered>>
    /\ UNCHANGED <<dead, job, slack>>

\* The deduplication window of five minutes ends. A delivery by Slack after it
\* is a fault of the message's.
WindowEnds(m) ==
    /\ m \in remembered /\ sends[m] < MaxSends
    /\ Fault
    /\ remembered' = remembered \ {m}
    /\ failed' = [failed EXCEPT ![m] = @ + 1]
    /\ UNCHANGED <<sends, queue, dead, accepted, job, shown>>

\* A message is visible when no other of its group is ahead of it or in flight.
Visible(i) ==
    /\ queue[i].worker = None
    /\ \A j \in DOMAIN queue :
         QueueGroup(queue[j].msg) = QueueGroup(queue[i].msg) =>
             j >= i /\ queue[j].worker = None

Receive(w) ==
    /\ At(w, "idle")
    /\ \E i \in DOMAIN queue :
         /\ Visible(i)
         /\ queue[i].receives < MaxReceives
         /\ queue' = [queue EXCEPT ![i].receives = @ + 1, ![i].worker = w]
         /\ job' = [job EXCEPT ![w] = [Idle EXCEPT !.at = "invoke", !.msg = queue[i].msg]]
    /\ UNCHANGED <<sends, remembered, dead, accepted, slack, faults>>

\* SQS moves a message that was received too often to the dead-letter queue.
Bury ==
    /\ \E i \in DOMAIN queue :
         /\ Visible(i)
         /\ queue[i].receives = MaxReceives
         /\ dead' = dead \cup {queue[i].msg}
         /\ queue' = RemoveAt(queue, i)
    /\ UNCHANGED <<sends, remembered, accepted, job, slack, faults>>

----------------------------------------------------------------------------
(* The worker: process, invoke and the stream publisher *)

Go(w, stage) == job' = [job EXCEPT ![w].at = stage]

Invoke(w) ==
    /\ At(w, "invoke")
    /\ Go(w, "progress")
    /\ UNCHANGED <<sends, sqs, slack, faults>>

\* publish: the agent has said more. It starts the stream, or sends what is new
\* if it has waited long enough, or does nothing; nor does it if Slack has
\* refused the stream.
Publish(w) ==
    /\ At(w, "progress") /\ ~job[w].barred
    /\ \E n \in job[w].latest + 1 .. MaxLength,
          stage \in IF job[w].open THEN {"append", "progress"} ELSE {"start"} :
         job' = [job EXCEPT ![w].latest = n, ![w].at = stage]
    /\ UNCHANGED <<sends, sqs, slack, faults>>

\* Where the publisher goes on when nothing is left to send.
Rest(w) == IF job[w].final THEN "stop" ELSE "progress"

Attempt(w) == Len(shown[Current(w)])

\* _start: chat.startStream with the first part.
Started(w) ==
    LET n == IF job[w].latest < StreamChunk THEN job[w].latest ELSE StreamChunk
    IN  shown' = [shown EXCEPT ![Current(w)] =
                    Append(@, [text |-> Text(n), answer |-> 0])]

StartStream(w) ==
    /\ At(w, "start")
    /\ Started(w)
    /\ job' = [job EXCEPT ![w].open = TRUE, ![w].at = "append",
                          ![w].sent = Len(shown'[Current(w)][Attempt(w) + 1].text)]
    /\ UNCHANGED <<sends, sqs, failed, faults>>

\* Slack refuses the stream, or takes it and the answer is lost: what is left
\* is the fallback.
StartFails(w) ==
    /\ At(w, "start")
    /\ Fault
    /\ Started(w) \/ UNCHANGED shown
    /\ job' = [job EXCEPT ![w].barred = TRUE,
                          ![w].at = IF job[w].final THEN "fallback" ELSE "progress"]
    /\ UNCHANGED <<sends, sqs, failed>>

\* chat.appendStream with the next part.
Appended(w) ==
    LET upto == IF job[w].latest - job[w].sent < StreamChunk THEN job[w].latest
                ELSE job[w].sent + StreamChunk
    IN  shown' = [shown EXCEPT ![Current(w)][Attempt(w)].text =
                    @ \o SubSeq(Text(MaxLength), job[w].sent + 1, upto)]

\* A mutant of AppendStream: the publisher forgets what it has sent.
AppendAgain(w) ==
    /\ At(w, "append") /\ job[w].sent < job[w].latest
    /\ Appended(w)
    /\ Go(w, Rest(w))
    /\ UNCHANGED <<sends, sqs, failed, faults>>

AppendStream(w) ==
    /\ At(w, "append") /\ job[w].sent < job[w].latest
    /\ Appended(w)
    /\ job' = [job EXCEPT ![w].sent = Len(shown'[Current(w)][Attempt(w)].text)]
    /\ UNCHANGED <<sends, sqs, failed, faults>>

Flushed(w) ==
    /\ At(w, "append") /\ job[w].sent = job[w].latest
    /\ Go(w, Rest(w))
    /\ UNCHANGED <<sends, sqs, slack, faults>>

\* A mutant of Finish: a refused stream counts as one that was sent.
FinishRefused(w) ==
    /\ At(w, "progress")
    /\ \E n \in job[w].latest .. MaxLength :
         /\ n > 0
         /\ job' = [job EXCEPT ![w].latest = n, ![w].final = TRUE,
                      ![w].at = IF job[w].barred THEN "return"
                                ELSE IF job[w].open THEN "append" ELSE "start"]
    /\ UNCHANGED <<sends, sqs, slack, faults>>

\* finish: the agent has ended with an answer that extends what it had said.
Finish(w) ==
    /\ At(w, "progress")
    /\ \E n \in job[w].latest .. MaxLength :
         /\ n > 0
         /\ job' = [job EXCEPT ![w].latest = n, ![w].final = TRUE,
                      ![w].at = IF job[w].barred THEN "fallback"
                                ELSE IF job[w].open THEN "append" ELSE "start"]
    /\ UNCHANGED <<sends, sqs, slack, faults>>

Ended(w) == shown' = [shown EXCEPT ![Current(w)][Attempt(w)].answer = job[w].latest]

\* A mutant of StopStream: the answer is posted as well.
StopAndPost(w) ==
    /\ At(w, "stop")
    /\ Ended(w)
    /\ job' = [job EXCEPT ![w].at = "fallback", ![w].sent = 0]
    /\ UNCHANGED <<sends, sqs, failed, faults>>

\* chat.stopStream
StopStream(w) ==
    /\ At(w, "stop")
    /\ Ended(w)
    /\ Go(w, "return")
    /\ UNCHANGED <<sends, sqs, failed, faults>>

\* split_fallback cuts at blanks: a part is as long as the limit or shorter,
\* and the last part takes what is left.
Posted(w) ==
    LET left == job[w].latest - job[w].sent
        m == Current(w)
        s == shown[m]
    IN  \E n \in IF left <= FallbackChunk THEN {left} ELSE 1 .. FallbackChunk :
          LET part == SubSeq(Text(MaxLength), job[w].sent + 1, job[w].sent + n)
              whole == IF n = left THEN job[w].latest ELSE 0
          IN  /\ shown' = [shown EXCEPT ![m] =
                    IF job[w].sent = 0 THEN Append(s, [text |-> part, answer |-> whole])
                    ELSE [s EXCEPT ![Len(s)] = [text |-> s[Len(s)].text \o part, answer |-> whole]]]
              /\ job' = [job EXCEPT ![w].sent = @ + n,
                                    ![w].at = IF n = left THEN "return" ELSE "fallback"]

\* The answer is posted part by part.
PostFallback(w) ==
    /\ At(w, "fallback")
    /\ Posted(w)
    /\ UNCHANGED <<sends, sqs, failed, faults>>

EntryOf(w) == CHOOSE i \in DOMAIN queue : queue[i].worker = w

\* handle reports no failure: the message is deleted from the queue.
Return(w) ==
    /\ At(w, "return")
    /\ queue' = RemoveAt(queue, EntryOf(w))
    /\ job' = [job EXCEPT ![w] = Idle]
    /\ UNCHANGED <<sends, remembered, dead, accepted, slack, faults>>

\* An exception on the way (the agent's, Slack's before it took the call) is
\* caught by handle, which reports the message as failed; or the container
\* dies. Either way the message is visible again.
GiveUp(w) ==
    /\ ~At(w, "idle")
    /\ Fault
    /\ queue' = [queue EXCEPT ![EntryOf(w)].worker = None]
    /\ job' = [job EXCEPT ![w] = Idle]
    /\ failed' = [failed EXCEPT ![Current(w)] = @ + 1]
    /\ UNCHANGED <<sends, remembered, dead, accepted, shown>>

----------------------------------------------------------------------------

Work(w) == \/ Invoke(w) \/ Publish(w) \/ StartStream(w) \/ AppendStream(w) \/ Flushed(w)
           \/ Finish(w) \/ StopStream(w) \/ PostFallback(w) \/ Return(w)

Next ==
    \/ \E m \in Messages : Deliver(m) \/ DeliverFails(m) \/ WindowEnds(m)
    \/ \E w \in Workers : Receive(w) \/ Work(w) \/ StartFails(w) \/ GiveUp(w)
    \/ Bury

\* Workers run, the agent ends its answer, and SQS delivers what is visible.
Fairness ==
    /\ \A w \in Workers : WF_vars(Work(w))
    /\ WF_vars(\E w \in Workers : Receive(w))
    /\ WF_vars(Bury)

Spec == Init /\ [][Next]_vars /\ Fairness

----------------------------------------------------------------------------

\* "FIFO ordering per conversation": the agent is invoked for one message of a
\* runtime session at a time, and for none while an earlier one waits.
ConversationInTurn ==
    \A i, j \in DOMAIN queue :
        /\ i < j
        /\ RuntimeSession(queue[i].msg) = RuntimeSession(queue[j].msg)
        => queue[j].worker = None

\* What Slack shows of an attempt is a prefix of the answer, with nothing twice
\* and nothing left out, and all of it once the attempt has ended.
AnswerFaithful ==
    \A m \in Messages : \A i \in DOMAIN shown[m] :
        LET s == shown[m][i]
        IN  /\ s.text = Text(Len(s.text))
            /\ s.answer # 0 => Len(s.text) = s.answer

Answers(m) == {i \in DOMAIN shown[m] : shown[m][i].answer # 0}

\* There is a second answer only after an attempt that failed, or a delivery
\* that SQS could not know for a copy.
NoAnswerTwice == \A m \in Messages : Cardinality(Answers(m)) <= 1 + failed[m]

\* A message on the queue is answered or ends on the dead-letter queue.
AnsweredOrDead == \A m \in Messages : m \in accepted ~> Answers(m) # {} \/ m \in dead

=============================================================================
