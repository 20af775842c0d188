----------------------- MODULE HarnessSlackbot_proofs -----------------------
(***************************************************************************)
(* Theorems about HarnessSlackbot, for any messages, channels and threads, *)
(* any number of workers, chunks of any size and any number of faults.     *)
(***************************************************************************)
EXTENDS HarnessSlackbot, FiniteSetTheorems, TLAPS

Entry == [msg : Messages, receives : Nat, worker : Workers \cup {None}]
Stages == {"idle", "invoke", "progress", "start", "append", "stop", "fallback", "return"}
Job == [at : Stages, msg : Messages \cup {None}, latest : 0 .. MaxLength, sent : 0 .. MaxLength,
        open : BOOLEAN, barred : BOOLEAN, final : BOOLEAN]
Showing == [text : Seq(Nat), answer : Nat]

Typed ==
    /\ queue \in Seq(Entry)
    /\ job \in [Workers -> Job]
    /\ shown \in [Messages -> Seq(Showing)]

\* What a worker works on is in flight to it.
Handled ==
    \A w \in Workers : ~At(w, "idle") =>
        \E i \in DOMAIN queue : queue[i].worker = w /\ queue[i].msg = Current(w)

\* The stages at which Slack shows a part of the answer that is still growing.
Showed(j) ==
    \/ j.at \in {"append", "stop"}
    \/ j.at = "progress" /\ j.open
    \/ j.at = "fallback" /\ j.sent > 0

\* A publisher has sent some of what the agent said, nothing before it starts,
\* and all of it when it stops; a stream that Slack refused is not open.
Ordered(j) ==
    /\ j.sent <= j.latest
    /\ j.open => ~j.barred
    /\ j.at \in {"invoke", "start"} => ~j.open /\ ~j.barred
    /\ j.at \in {"invoke", "start", "progress"} /\ ~j.open => j.sent = 0
    /\ j.at = "append" => j.open
    /\ j.at = "stop" => j.sent = j.latest

\* Of the attempts in s the newest has n units, and is not the last word.
Shows(s, n) == s # <<>> /\ s[Len(s)].text = Text(n) /\ s[Len(s)].answer = 0

\* Slack has what the worker believes to have sent.
SentShown ==
    \A w \in Workers : Ordered(job[w]) /\ (Showed(job[w]) => Shows(shown[job[w].msg], job[w].sent))

QueueInv == Typed /\ Handled /\ ConversationInTurn
IInv == QueueInv /\ SentShown /\ AnswerFaithful

----------------------------------------------------------------------------
(* Texts and sequences *)

LEMMA TextOf ==
    ASSUME NEW n \in Nat
    PROVE  Text(n) \in Seq(Nat) /\ Len(Text(n)) = n /\ \A i \in 1 .. n : Text(n)[i] = i
  BY DEF Text

\* The next part of a text, up to some unit, continues what there is of it.
LEMMA TextGrows ==
    ASSUME NEW a \in Nat, NEW b \in Nat, a <= b, b <= MaxLength
    PROVE  /\ SubSeq(Text(MaxLength), a + 1, b) \in Seq(Nat)
           /\ Text(a) \o SubSeq(Text(MaxLength), a + 1, b) = Text(b)
<1> DEFINE part == SubSeq(Text(MaxLength), a + 1, b)
           whole == Text(a) \o part
<1>1. MaxLength \in Nat
  BY SlackbotAssumption
<1>2. /\ Text(MaxLength) \in Seq(Nat) /\ Len(Text(MaxLength)) = MaxLength
      /\ \A i \in 1 .. MaxLength : Text(MaxLength)[i] = i
  BY <1>1, TextOf
<1>3. /\ part \in Seq(Nat) /\ Len(part) = b - a
      /\ \A i \in 1 .. b - a : part[i] = Text(MaxLength)[a + i]
  BY <1>1, <1>2
<1>4. \A i \in 1 .. b - a : part[i] = a + i
  BY <1>1, <1>2, <1>3
<1>5. Text(a) \in Seq(Nat) /\ Len(Text(a)) = a /\ \A i \in 1 .. a : Text(a)[i] = i
  BY TextOf
<1> HIDE DEF part
<1>6. /\ whole \in Seq(Nat) /\ Len(whole) = b
      /\ \A i \in 1 .. b : whole[i] = IF i <= a THEN Text(a)[i] ELSE part[i - a]
  BY <1>3, <1>5
<1>7. \A i \in 1 .. b : whole[i] = i
  BY <1>4, <1>5, <1>6
<1>8. Text(b) \in Seq(Nat) /\ Len(Text(b)) = b /\ \A i \in 1 .. b : Text(b)[i] = i
  BY TextOf
<1> HIDE DEF whole
<1>9. whole = Text(b)
  BY <1>6, <1>7, <1>8
<1> QED
  BY <1>3, <1>9 DEF whole, part

LEMMA RemoveOne ==
    ASSUME NEW S, NEW s \in Seq(S), NEW k \in DOMAIN s
    PROVE  /\ RemoveAt(s, k) \in Seq(S)
           /\ DOMAIN RemoveAt(s, k) = 1 .. Len(s) - 1
           /\ \A i \in 1 .. Len(s) - 1 : RemoveAt(s, k)[i] = IF i < k THEN s[i] ELSE s[i + 1]
<1> DEFINE a == SubSeq(s, 1, k - 1)
           b == SubSeq(s, k + 1, Len(s))
<1>1. k \in 1 .. Len(s) /\ Len(s) \in Nat
  OBVIOUS
<1>2. a \in Seq(S) /\ Len(a) = k - 1 /\ \A i \in 1 .. k - 1 : a[i] = s[i]
  BY <1>1
<1>3. b \in Seq(S) /\ Len(b) = Len(s) - k /\ \A i \in 1 .. Len(s) - k : b[i] = s[k + i]
  BY <1>1
<1>4. RemoveAt(s, k) = a \o b
  BY DEF RemoveAt
<1> HIDE DEF a, b
<1>5. /\ a \o b \in Seq(S) /\ Len(a \o b) = Len(s) - 1
      /\ \A i \in 1 .. Len(s) - 1 : (a \o b)[i] = IF i <= k - 1 THEN a[i] ELSE b[i - (k - 1)]
  BY <1>1, <1>2, <1>3
<1>6. \A i \in 1 .. Len(s) - 1 : i >= k => b[i - (k - 1)] = s[i + 1]
  BY <1>1, <1>3
<1>7. DOMAIN (a \o b) = 1 .. Len(s) - 1
  BY <1>5
<1> QED
  BY <1>1, <1>2, <1>4, <1>5, <1>6, <1>7

----------------------------------------------------------------------------
(* The queue: who works on what *)

LEMMA TypedInit == Init => Typed
  BY SlackbotAssumption DEF Init, Typed, Idle, Job, Stages, Entry, Showing

LEMMA QueueInit == Init => QueueInv
  BY TypedInit DEF Init, QueueInv, Handled, At, Idle, ConversationInTurn

\* The entry of a message that is worked on.
LEMMA OwnEntry ==
    ASSUME QueueInv, NEW w \in Workers, ~At(w, "idle")
    PROVE  /\ EntryOf(w) \in DOMAIN queue /\ queue[EntryOf(w)].worker = w
           /\ Current(w) \in Messages
<1>1. PICK i \in DOMAIN queue : queue[i].worker = w /\ queue[i].msg = Current(w)
  BY DEF QueueInv, Handled
<1>2. queue[i] \in Entry
  BY DEF QueueInv, Typed
<1>3. Current(w) \in Messages
  BY <1>1, <1>2 DEF Entry
<1>4. EntryOf(w) \in DOMAIN queue /\ queue[EntryOf(w)].worker = w
  BY <1>1 DEF EntryOf
<1> QED
  BY <1>3, <1>4

\* Two workers are never at work on one message.
LEMMA OneWorker ==
    ASSUME QueueInv, NEW w \in Workers, NEW v \in Workers, w # v, ~At(w, "idle"), ~At(v, "idle")
    PROVE  Current(w) # Current(v)
<1> SUFFICES ASSUME Current(w) = Current(v)
             PROVE  FALSE
  OBVIOUS
<1>1. PICK i \in DOMAIN queue : queue[i].worker = w /\ queue[i].msg = Current(w)
  BY DEF QueueInv, Handled
<1>2. PICK j \in DOMAIN queue : queue[j].worker = v /\ queue[j].msg = Current(w)
  BY DEF QueueInv, Handled
<1>3. i # j /\ (i < j \/ j < i)
  BY <1>1, <1>2 DEF QueueInv, Typed
<1>4. w # None /\ v # None
  BY SlackbotAssumption
<1> QED
  BY <1>1, <1>2, <1>3, <1>4 DEF QueueInv, ConversationInTurn

\* A step within a worker's work on its message.
LEMMA Working ==
    ASSUME QueueInv, Typed', queue' = queue,
           \A w \in Workers : job'[w].at # "idle" => job[w].at # "idle" /\ job'[w].msg = job[w].msg
    PROVE  QueueInv'
  BY DEF QueueInv, Handled, At, Current, ConversationInTurn

LEMMA Posting ==
    ASSUME QueueInv, Typed', NEW m \in Messages, Post(m) \/ UNCHANGED queue, job' = job
    PROVE  QueueInv'
<1>1. CASE queue' = queue
  BY <1>1, Working DEF QueueInv
<1>2. CASE queue' # queue
  <2> DEFINE e == [msg |-> m, receives |-> 0, worker |-> None]
  <2>1. queue' = Append(queue, e)
    BY <1>2 DEF Post
  <2>2. queue \in Seq(Entry) /\ e \in Entry /\ e.worker = None
    BY DEF QueueInv, Typed, Entry
  <2> HIDE DEF e
  <2>3. /\ DOMAIN queue = 1 .. Len(queue) /\ Len(queue) \in Nat /\ DOMAIN queue' = 1 .. Len(queue) + 1
        /\ \A i \in DOMAIN queue : i \in DOMAIN queue' /\ queue'[i] = queue[i]
        /\ queue'[Len(queue) + 1] = e
    BY <2>1, <2>2
  <2>4. Handled'
    BY <2>3 DEF QueueInv, Handled, At, Current
  <2>5. ConversationInTurn'
    <3> SUFFICES ASSUME NEW i \in DOMAIN queue', NEW j \in DOMAIN queue', i < j,
                        RuntimeSession(queue'[i].msg) = RuntimeSession(queue'[j].msg)
                 PROVE  queue'[j].worker = None
      BY DEF ConversationInTurn
    <3>1. CASE j = Len(queue) + 1
      BY <3>1, <2>2, <2>3
    <3>2. CASE j # Len(queue) + 1
      <4>1. i \in DOMAIN queue /\ j \in DOMAIN queue
        BY <3>2, <2>3
      <4> QED
        BY <4>1, <2>3 DEF QueueInv, ConversationInTurn
    <3> QED
      BY <3>1, <3>2
  <2> QED
    BY <2>4, <2>5 DEF QueueInv
<1> QED
  BY <1>1, <1>2

LEMMA Receiving ==
    ASSUME QueueInv, Typed', NEW w \in Workers, Receive(w)
    PROVE  QueueInv'
<1>1. PICK i \in DOMAIN queue :
        /\ Visible(i)
        /\ queue' = [queue EXCEPT ![i].receives = @ + 1, ![i].worker = w]
        /\ job' = [job EXCEPT ![w] = [Idle EXCEPT !.at = "invoke", !.msg = queue[i].msg]]
  BY DEF Receive
<1>2. queue \in Seq(Entry) /\ job \in [Workers -> Job] /\ DOMAIN queue \subseteq Nat /\ w # None
  BY SlackbotAssumption DEF QueueInv, Typed
<1>3. /\ DOMAIN queue' = DOMAIN queue
      /\ \A j \in DOMAIN queue : queue'[j].msg = queue[j].msg
      /\ \A j \in DOMAIN queue : j # i => queue'[j].worker = queue[j].worker
      /\ queue'[i].worker = w
  <2>1. /\ DOMAIN queue' = DOMAIN queue
        /\ \A j \in DOMAIN queue : j # i => queue'[j] = queue[j]
        /\ queue'[i] = [queue[i] EXCEPT !.receives = @ + 1, !.worker = w]
    BY <1>1
  <2>2. queue[i] \in Entry
    BY <1>2
  <2> QED
    BY <2>1, <2>2 DEF Entry
<1>4. /\ \A v \in Workers : v # w => job'[v] = job[v]
      /\ job'[w].msg = queue[i].msg
  BY <1>1, <1>2 DEF Idle
<1>5. \A j \in DOMAIN queue :
        QueueGroup(queue[j].msg) = QueueGroup(queue[i].msg) => j >= i /\ queue[j].worker = None
  BY <1>1 DEF Visible
<1>6. Handled'
  <2> SUFFICES ASSUME NEW v \in Workers, job'[v].at # "idle"
               PROVE  \E j \in DOMAIN queue' : queue'[j].worker = v /\ queue'[j].msg = job'[v].msg
    BY DEF Handled, At, Current
  <2>1. CASE v = w
    BY <2>1, <1>3, <1>4
  <2>2. CASE v # w
    <3>1. PICK j \in DOMAIN queue : queue[j].worker = v /\ queue[j].msg = job[v].msg
      BY <2>2, <1>4 DEF QueueInv, Handled, At, Current
    <3>2. j # i
      BY <3>1, <1>5, SlackbotAssumption
    <3> QED
      BY <2>2, <3>1, <3>2, <1>3, <1>4
  <2> QED
    BY <2>1, <2>2
<1>7. ConversationInTurn'
  <2> SUFFICES ASSUME NEW a \in DOMAIN queue, NEW b \in DOMAIN queue, a < b,
                      RuntimeSession(queue[a].msg) = RuntimeSession(queue[b].msg)
               PROVE  queue'[b].worker = None
    BY <1>3 DEF ConversationInTurn
  <2>1. b # i
    BY <1>2, <1>5 DEF QueueGroup, RuntimeSession
  <2> QED
    BY <2>1, <1>3 DEF QueueInv, ConversationInTurn
<1> QED
  BY <1>6, <1>7 DEF QueueInv

\* What is removed from the queue is not in the way of what stays.
LEMMA Removing ==
    ASSUME QueueInv, Typed', NEW k \in DOMAIN queue, queue' = RemoveAt(queue, k),
           \A v \in Workers : job'[v].at # "idle" => job'[v] = job[v] /\ queue[k].worker # v
    PROVE  QueueInv'
<1>1. queue \in Seq(Entry) /\ k \in 1 .. Len(queue) /\ Len(queue) \in Nat /\ DOMAIN queue = 1 .. Len(queue)
  BY DEF QueueInv, Typed
<1>2. /\ DOMAIN queue' = 1 .. Len(queue) - 1
      /\ \A i \in 1 .. Len(queue) - 1 : queue'[i] = IF i < k THEN queue[i] ELSE queue[i + 1]
  BY <1>1, RemoveOne
<1>3. Handled'
  <2> SUFFICES ASSUME NEW v \in Workers, job'[v].at # "idle"
               PROVE  \E i \in DOMAIN queue' : queue'[i].worker = v /\ queue'[i].msg = job'[v].msg
    BY DEF Handled, At, Current
  <2>1. PICK i \in DOMAIN queue : queue[i].worker = v /\ queue[i].msg = job'[v].msg
    BY DEF QueueInv, Handled, At, Current
  <2>2. i # k
    BY <2>1
  <2>3. CASE i < k
    BY <2>1, <2>3, <1>1, <1>2
  <2>4. CASE i > k
    <3>1. i - 1 \in DOMAIN queue' /\ queue'[i - 1] = queue[i]
      BY <2>4, <1>1, <1>2
    <3> QED
      BY <3>1, <2>1
  <2> QED
    BY <2>2, <2>3, <2>4, <1>1
<1>4. ConversationInTurn'
  <2> SUFFICES ASSUME NEW i \in DOMAIN queue', NEW j \in DOMAIN queue', i < j,
                      RuntimeSession(queue'[i].msg) = RuntimeSession(queue'[j].msg)
               PROVE  queue'[j].worker = None
    BY DEF ConversationInTurn
  <2>1. PICK a \in DOMAIN queue, b \in DOMAIN queue : a < b /\ queue'[i] = queue[a] /\ queue'[j] = queue[b]
    <3> DEFINE Old(x) == IF x < k THEN x ELSE x + 1
    <3>1. Old(i) \in DOMAIN queue /\ Old(j) \in DOMAIN queue /\ Old(i) < Old(j)
      BY <1>1, <1>2
    <3>2. queue'[i] = queue[Old(i)] /\ queue'[j] = queue[Old(j)]
      BY <1>2
    <3> QED
      BY <3>1, <3>2
  <2> QED
    BY <2>1 DEF QueueInv, ConversationInTurn
<1> QED
  BY <1>3, <1>4 DEF QueueInv

LEMMA GivingUp ==
    ASSUME QueueInv, Typed', NEW w \in Workers, GiveUp(w)
    PROVE  QueueInv'
<1> DEFINE i == EntryOf(w)
<1>1. i \in DOMAIN queue /\ queue[i].worker = w
  BY OwnEntry DEF GiveUp
<1>2. queue' = [queue EXCEPT ![i].worker = None] /\ job' = [job EXCEPT ![w] = Idle]
  BY DEF GiveUp
<1> HIDE DEF i
<1>3. queue \in Seq(Entry) /\ job \in [Workers -> Job]
  BY DEF QueueInv, Typed
<1>4. /\ DOMAIN queue' = DOMAIN queue
      /\ \A j \in DOMAIN queue : queue'[j].msg = queue[j].msg
      /\ \A j \in DOMAIN queue : j # i => queue'[j].worker = queue[j].worker
      /\ queue'[i].worker = None
  <2>1. /\ DOMAIN queue' = DOMAIN queue
        /\ \A j \in DOMAIN queue : j # i => queue'[j] = queue[j]
        /\ queue'[i] = [queue[i] EXCEPT !.worker = None]
    BY <1>1, <1>2
  <2>2. queue[i] \in Entry
    BY <1>1, <1>3
  <2> QED
    BY <2>1, <2>2 DEF Entry
<1>5. \A v \in Workers : IF v = w THEN job'[v].at = "idle" ELSE job'[v] = job[v]
  BY <1>2, <1>3 DEF Idle
<1>6. Handled'
  <2> SUFFICES ASSUME NEW v \in Workers, job'[v].at # "idle"
               PROVE  \E j \in DOMAIN queue' : queue'[j].worker = v /\ queue'[j].msg = job'[v].msg
    BY DEF Handled, At, Current
  <2>1. v # w /\ job'[v] = job[v]
    BY <1>5
  <2>2. PICK j \in DOMAIN queue : queue[j].worker = v /\ queue[j].msg = job[v].msg
    BY <2>1 DEF QueueInv, Handled, At, Current
  <2>3. j # i
    BY <2>1, <2>2, <1>1
  <2> QED
    BY <2>1, <2>2, <2>3, <1>4
<1>7. ConversationInTurn'
  BY <1>4 DEF QueueInv, ConversationInTurn
<1> QED
  BY <1>6, <1>7 DEF QueueInv

----------------------------------------------------------------------------
(* What Slack shows *)

\* Slack now shows n units in a new attempt at message m, or in its newest one;
\* k is the length of the answer if that is the end of it.
Becomes(m, n, k) ==
    LET s == [text |-> Text(n), answer |-> k]
        l == shown[m]
    IN  \/ shown' = [shown EXCEPT ![m] = Append(l, s)]
        \/ l # <<>> /\ shown' = [shown EXCEPT ![m] = [l EXCEPT ![Len(l)] = s]]

LEMMA NewLast ==
    ASSUME Typed, AnswerFaithful, NEW m \in Messages, NEW n \in Nat, NEW k \in Nat, k # 0 => k = n,
           Becomes(m, n, k)
    PROVE  /\ shown' \in [Messages -> Seq(Showing)]
           /\ AnswerFaithful'
           /\ \A o \in Messages : o # m => shown'[o] = shown[o]
           /\ k = 0 => Shows(shown'[m], n)
<1> DEFINE s == [text |-> Text(n), answer |-> k]
           old == shown[m]
           new == shown'[m]
<1>1. s \in Showing /\ s.text = Text(n) /\ Len(s.text) = n /\ s.answer = k
  BY TextOf DEF Showing
<1>2. old \in Seq(Showing) /\ shown \in [Messages -> Seq(Showing)]
  BY DEF Typed
<1>3. /\ DOMAIN shown' = Messages
      /\ \A o \in Messages : o # m => shown'[o] = shown[o]
      /\ new = Append(old, s) \/ (old # <<>> /\ new = [old EXCEPT ![Len(old)] = s])
  BY <1>2 DEF Becomes
<1>4. shown' = [o \in Messages |-> shown'[o]]
  BY <1>2 DEF Becomes
<1> HIDE DEF s, old, new
<1>5. /\ new \in Seq(Showing) /\ new # <<>> /\ new[Len(new)] = s
      /\ \A i \in DOMAIN new : new[i] = s \/ (i \in DOMAIN old /\ new[i] = old[i])
  <2>1. CASE new = Append(old, s)
    BY <2>1, <1>1, <1>2
  <2>2. CASE old # <<>> /\ new = [old EXCEPT ![Len(old)] = s]
    BY <2>2, <1>1, <1>2
  <2> QED
    BY <2>1, <2>2, <1>3
<1>6. shown' \in [Messages -> Seq(Showing)]
  <2>1. \A o \in Messages : shown'[o] \in Seq(Showing)
    BY <1>2, <1>3, <1>5 DEF new
  <2> QED
    BY <1>4, <2>1
<1>7. AnswerFaithful'
  <2> SUFFICES ASSUME NEW o \in Messages, NEW i \in DOMAIN shown'[o]
               PROVE  /\ shown'[o][i].text = Text(Len(shown'[o][i].text))
                      /\ shown'[o][i].answer # 0 => Len(shown'[o][i].text) = shown'[o][i].answer
    BY DEF AnswerFaithful
  <2>1. CASE o = m /\ new[i] = s
    BY <2>1, <1>1 DEF new
  <2>2. CASE o = m /\ i \in DOMAIN old /\ new[i] = old[i]
    BY <2>2 DEF new, old, AnswerFaithful
  <2>3. CASE o # m
    BY <2>3, <1>3 DEF AnswerFaithful
  <2> QED
    BY <2>1, <2>2, <2>3, <1>5 DEF new
<1>8. k = 0 => Shows(shown'[m], n)
  BY <1>1, <1>5 DEF Shows, new
<1> QED
  BY <1>3, <1>6, <1>7, <1>8

\* A step of a worker within its work: it goes on to job j, and either Slack
\* sees nothing of it, or an attempt that has n units now; if the step ends the
\* attempt with an answer of k units, the worker has nothing left but to return.
Advances(w) ==
    /\ ~At(w, "idle") /\ ~At(w, "return") /\ queue' = queue
    /\ \E j \in Job :
         /\ job' = [job EXCEPT ![w] = j] /\ j.msg = Current(w) /\ j.at # "idle" /\ Ordered(j)
         /\ \/ shown' = shown /\ (Showed(j) => Shows(shown[Current(w)], j.sent))
            \/ \E n, k \in Nat :
                 /\ Becomes(Current(w), n, k)
                 /\ k # 0 => k = n /\ j.at = "return"
                 /\ Showed(j) => j.sent = n /\ k = 0

LEMMA WorkStep ==
    ASSUME NEW w \in Workers, ~At(w, "idle"), ~At(w, "return"), queue' = queue,
           NEW j \in Job, job' = [job EXCEPT ![w] = j], j.msg = Current(w), j.at # "idle", Ordered(j),
           NEW n \in Nat, NEW k \in Nat, k # 0 => k = n /\ j.at = "return",
           \/ shown' = shown /\ (Showed(j) => Shows(shown[Current(w)], j.sent))
           \/ Becomes(Current(w), n, k) /\ (Showed(j) => j.sent = n /\ k = 0)
    PROVE  Advances(w)
  BY DEF Advances

LEMMA AdvanceStep ==
    ASSUME IInv, NEW w \in Workers, Advances(w)
    PROVE  IInv'
<1>0. PICK j \in Job :
        /\ job' = [job EXCEPT ![w] = j] /\ j.msg = Current(w) /\ j.at # "idle" /\ Ordered(j)
        /\ \/ shown' = shown /\ (Showed(j) => Shows(shown[Current(w)], j.sent))
           \/ \E n, k \in Nat :
                /\ Becomes(Current(w), n, k)
                /\ k # 0 => k = n /\ j.at = "return"
                /\ Showed(j) => j.sent = n /\ k = 0
  BY DEF Advances
<1>1. Typed /\ QueueInv /\ SentShown /\ AnswerFaithful
  BY DEF IInv, QueueInv
<1>2. Current(w) \in Messages
  BY <1>1, OwnEntry DEF Advances
<1>3. /\ shown' \in [Messages -> Seq(Showing)] /\ AnswerFaithful'
      /\ \A m \in Messages : m # Current(w) => shown'[m] = shown[m]
      /\ Showed(j) => Shows(shown'[Current(w)], j.sent)
  <2>1. CASE shown' = shown /\ (Showed(j) => Shows(shown[Current(w)], j.sent))
    BY <2>1, <1>1 DEF Typed, AnswerFaithful
  <2>2. ASSUME NEW n \in Nat, NEW k \in Nat, Becomes(Current(w), n, k),
               k # 0 => k = n, Showed(j) => j.sent = n /\ k = 0
        PROVE  /\ shown' \in [Messages -> Seq(Showing)] /\ AnswerFaithful'
               /\ \A m \in Messages : m # Current(w) => shown'[m] = shown[m]
               /\ Showed(j) => Shows(shown'[Current(w)], j.sent)
    BY <2>2, <1>1, <1>2, NewLast
  <2> QED
    BY <1>0, <2>1, <2>2
<1>4. /\ job' \in [Workers -> Job] /\ job'[w] = j
      /\ \A v \in Workers : v # w => job'[v] = job[v]
  BY <1>0, <1>1 DEF Typed
<1>5. Typed'
  BY <1>1, <1>3, <1>4 DEF Typed, Advances
<1>6. QueueInv'
  BY <1>0, <1>1, <1>4, <1>5, Working DEF Advances, At, Current
<1>7. SentShown'
  <2> SUFFICES ASSUME NEW v \in Workers
               PROVE  Ordered(job'[v]) /\ (Showed(job'[v]) => Shows(shown'[job'[v].msg], job'[v].sent))
    BY DEF SentShown
  <2>1. CASE v = w
    BY <2>1, <1>0, <1>3, <1>4
  <2>2. CASE v # w
    <3>1. job'[v] = job[v] /\ Ordered(job[v]) /\ (Showed(job[v]) => Shows(shown[job[v].msg], job[v].sent))
      BY <2>2, <1>1, <1>4 DEF SentShown
    <3>2. ASSUME Showed(job[v])
          PROVE  shown'[job[v].msg] = shown[job[v].msg]
      <4>1. ~At(v, "idle")
        BY <3>2 DEF Showed, At
      <4>2. job[v].msg # Current(w) /\ job[v].msg \in Messages
        BY <4>1, <2>2, <1>1, OneWorker, OwnEntry DEF Advances, Current
      <4> QED
        BY <4>2, <1>3
    <3> QED
      BY <3>1, <3>2
  <2> QED
    BY <2>1, <2>2
<1> QED
  BY <1>3, <1>6, <1>7 DEF IInv

\* A step of a worker that Slack does not see.
LEMMA SilentStep ==
    ASSUME NEW w \in Workers, ~At(w, "idle"), ~At(w, "return"), queue' = queue, shown' = shown,
           NEW j \in Job, job' = [job EXCEPT ![w] = j], j.msg = Current(w), j.at # "idle", Ordered(j),
           Showed(j) => Shows(shown[Current(w)], j.sent)
    PROVE  Advances(w)
  BY DEF Advances

LEMMA JobFacts ==
    ASSUME IInv, NEW w \in Workers
    PROVE  /\ job \in [Workers -> Job] /\ job[w] \in Job /\ Ordered(job[w])
           /\ Showed(job[w]) => Shows(shown[job[w].msg], job[w].sent)
  BY DEF IInv, QueueInv, Typed, SentShown

LEMMA InvokeStep ==
    ASSUME IInv, NEW w \in Workers, Invoke(w)
    PROVE  Advances(w)
<1> DEFINE j == [job[w] EXCEPT !.at = "progress"]
<1>1. job' = [job EXCEPT ![w] = j] /\ queue' = queue /\ shown' = shown /\ ~At(w, "idle") /\ ~At(w, "return")
  BY JobFacts DEF Invoke, Go, At, sqs, slack
<1>2. job[w].at = "invoke" /\ job[w] \in Job /\ Ordered(job[w])
  BY JobFacts DEF Invoke, At
<1>3. j \in Job /\ j.msg = Current(w) /\ j.at # "idle" /\ Ordered(j) /\ ~Showed(j)
  BY <1>2 DEF Job, Stages, Ordered, Showed, Current
<1> QED
  BY <1>1, <1>3, SilentStep

LEMMA PublishStep ==
    ASSUME IInv, NEW w \in Workers, Publish(w)
    PROVE  Advances(w)
<1>1. PICK n \in job[w].latest + 1 .. MaxLength,
           stage \in IF job[w].open THEN {"append", "progress"} ELSE {"start"} :
        job' = [job EXCEPT ![w].latest = n, ![w].at = stage]
  BY DEF Publish
<1> DEFINE j == [job[w] EXCEPT !.latest = n, !.at = stage]
<1>2. /\ job[w].at = "progress" /\ ~job[w].barred /\ job[w] \in Job /\ Ordered(job[w])
      /\ job[w].open => Shows(shown[job[w].msg], job[w].sent)
  BY JobFacts DEF Publish, At, Showed
<1>3. job' = [job EXCEPT ![w] = j] /\ queue' = queue /\ shown' = shown /\ ~At(w, "idle") /\ ~At(w, "return")
  BY <1>1, <1>2, JobFacts DEF Publish, At, sqs, slack
<1>4. n \in 0 .. MaxLength /\ job[w].latest < n
  BY <1>1, <1>2, SlackbotAssumption DEF Job
<1>5. j \in Job /\ j.msg = Current(w) /\ j.at # "idle" /\ j.sent = job[w].sent
  BY <1>1, <1>2, <1>4 DEF Job, Stages, Current
<1>6. Ordered(j)
  BY <1>1, <1>2, <1>4, SlackbotAssumption DEF Job, Ordered
<1>7. Showed(j) => Shows(shown[Current(w)], j.sent)
  BY <1>1, <1>2, <1>5 DEF Showed, Current, Job
<1> QED
  BY <1>3, <1>5, <1>6, <1>7, SilentStep

LEMMA FlushedStep ==
    ASSUME IInv, NEW w \in Workers, Flushed(w)
    PROVE  Advances(w)
<1> DEFINE j == [job[w] EXCEPT !.at = Rest(w)]
<1>1. job' = [job EXCEPT ![w] = j] /\ queue' = queue /\ shown' = shown /\ ~At(w, "idle") /\ ~At(w, "return")
  BY JobFacts DEF Flushed, Go, At, sqs, slack
<1>2. /\ job[w].at = "append" /\ job[w].sent = job[w].latest /\ job[w] \in Job /\ Ordered(job[w])
      /\ Shows(shown[job[w].msg], job[w].sent)
  BY JobFacts DEF Flushed, At, Showed
<1>3. j \in Job /\ j.msg = Current(w) /\ j.at # "idle" /\ j.sent = job[w].sent /\ Ordered(j)
  BY <1>2 DEF Job, Stages, Current, Rest, Ordered
<1> QED
  BY <1>1, <1>2, <1>3, SilentStep DEF Current

LEMMA FinishStep ==
    ASSUME IInv, NEW w \in Workers, Finish(w)
    PROVE  Advances(w)
<1> DEFINE next == IF job[w].barred THEN "fallback" ELSE IF job[w].open THEN "append" ELSE "start"
<1>1. PICK n \in job[w].latest .. MaxLength :
        job' = [job EXCEPT ![w].latest = n, ![w].final = TRUE, ![w].at = next]
  BY DEF Finish
<1> DEFINE j == [job[w] EXCEPT !.latest = n, !.final = TRUE, !.at = next]
<1>2. /\ job[w].at = "progress" /\ job[w] \in Job /\ Ordered(job[w])
      /\ job[w].open => Shows(shown[job[w].msg], job[w].sent)
  BY JobFacts DEF Finish, At, Showed
<1>3. job' = [job EXCEPT ![w] = j] /\ queue' = queue /\ shown' = shown /\ ~At(w, "idle") /\ ~At(w, "return")
  BY <1>1, <1>2, JobFacts DEF Finish, At, sqs, slack
<1>4. n \in 0 .. MaxLength /\ job[w].latest <= n
  BY <1>1, <1>2, SlackbotAssumption DEF Job
<1>5. j \in Job /\ j.msg = Current(w) /\ j.at # "idle" /\ j.sent = job[w].sent
  BY <1>1, <1>2, <1>4 DEF Job, Stages, Current
<1>6. Ordered(j)
  BY <1>1, <1>2, <1>4, SlackbotAssumption DEF Job, Ordered
<1>7. Showed(j) => Shows(shown[Current(w)], j.sent)
  BY <1>2, <1>5 DEF Showed, Current, Job, Ordered
<1> QED
  BY <1>3, <1>5, <1>6, <1>7, SilentStep

LEMMA StartStep ==
    ASSUME IInv, NEW w \in Workers, StartStream(w)
    PROVE  Advances(w)
<1> DEFINE n == IF job[w].latest < StreamChunk THEN job[w].latest ELSE StreamChunk
           c == Current(w)
           s == [text |-> Text(n), answer |-> 0]
           j == [job[w] EXCEPT !.open = TRUE, !.at = "append", !.sent = n]
<1>1. job[w].at = "start" /\ job[w] \in Job /\ Ordered(job[w]) /\ job \in [Workers -> Job]
  BY JobFacts DEF StartStream, At
<1>2. n \in 0 .. MaxLength /\ n \in Nat /\ n <= job[w].latest
  BY <1>1, SlackbotAssumption DEF Job
<1>3. c \in Messages /\ shown[c] \in Seq(Showing) /\ shown \in [Messages -> Seq(Showing)]
  BY <1>1, OwnEntry DEF IInv, QueueInv, Typed, At
<1>4. shown' = [shown EXCEPT ![c] = Append(@, s)] /\ Becomes(c, n, 0)
  BY DEF StartStream, Started, Becomes
<1>5. Len(shown'[c][Attempt(w) + 1].text) = n
  <2>1. shown'[c] = Append(shown[c], s)
    BY <1>3, <1>4
  <2>2. shown'[c][Len(shown[c]) + 1] = s
    BY <1>3, <2>1
  <2> QED
    BY <1>2, <2>2, TextOf DEF Attempt
<1>6. job' = [job EXCEPT ![w].open = TRUE, ![w].at = "append", ![w].sent = n]
  BY <1>5 DEF StartStream
<1>7. job' = [job EXCEPT ![w] = j] /\ queue' = queue /\ ~At(w, "idle") /\ ~At(w, "return")
  BY <1>1, <1>6 DEF StartStream, sqs, At
<1>8. j \in Job /\ j.msg = c /\ j.at # "idle" /\ j.sent = n /\ Ordered(j)
  BY <1>1, <1>2 DEF Job, Stages, Current, Ordered
<1> HIDE DEF n, c, j
<1>9. 0 \in Nat /\ (0 # 0 => 0 = n /\ j.at = "return")
  OBVIOUS
<1> QED
  BY <1>2, <1>4, <1>7, <1>8, <1>9, WorkStep DEF c

LEMMA StartFailsStep ==
    ASSUME IInv, NEW w \in Workers, StartFails(w)
    PROVE  Advances(w)
<1> DEFINE n == IF job[w].latest < StreamChunk THEN job[w].latest ELSE StreamChunk
           next == IF job[w].final THEN "fallback" ELSE "progress"
           j == [job[w] EXCEPT !.barred = TRUE, !.at = next]
<1>1. job[w].at = "start" /\ job[w] \in Job /\ Ordered(job[w]) /\ job \in [Workers -> Job]
  BY JobFacts DEF StartFails, At
<1>2. job' = [job EXCEPT ![w] = j] /\ queue' = queue /\ ~At(w, "idle") /\ ~At(w, "return")
  BY <1>1 DEF StartFails, sqs, At
<1>3. j \in Job /\ j.msg = Current(w) /\ j.at # "idle" /\ Ordered(j) /\ ~Showed(j)
  <2>1. /\ j \in Job /\ j.msg = Current(w) /\ j.at # "idle" /\ j.sent = 0 /\ j.latest = job[w].latest
        /\ ~j.open /\ j.at \in {"fallback", "progress"}
    BY <1>1 DEF Job, Stages, Current, Ordered
  <2> HIDE DEF j
  <2> QED
    BY <1>1, <2>1, SlackbotAssumption DEF Job, Ordered, Showed
<1>4. n \in Nat /\ (0 # 0 => 0 = n /\ j.at = "return")
  BY <1>1, SlackbotAssumption DEF Job
<1>5. shown' = shown \/ Becomes(Current(w), n, 0)
  BY DEF StartFails, Started, Becomes
<1> HIDE DEF n, j
<1> QED
  BY <1>2, <1>3, <1>4, <1>5, WorkStep

\* The attempt that is growing, and what becomes of it.
LEMMA Growing ==
    ASSUME IInv, NEW w \in Workers, ~At(w, "idle"), Showed(job[w])
    PROVE  LET s == shown[Current(w)]
           IN  /\ s \in Seq(Showing) /\ shown \in [Messages -> Seq(Showing)] /\ Current(w) \in Messages
               /\ s # <<>> /\ Len(s) \in DOMAIN s /\ Attempt(w) = Len(s)
               /\ s[Len(s)] = [text |-> Text(job[w].sent), answer |-> 0]
<1> DEFINE s == shown[Current(w)]
<1>1. /\ Current(w) \in Messages /\ s \in Seq(Showing) /\ shown \in [Messages -> Seq(Showing)]
      /\ Shows(s, job[w].sent)
  BY OwnEntry, JobFacts DEF IInv, QueueInv, Typed, Current
<1>2. Attempt(w) = Len(s)
  BY DEF Attempt
<1> HIDE DEF s
<1>3. s # <<>> /\ Len(s) \in DOMAIN s
  BY <1>1 DEF Shows
<1>4. s[Len(s)] \in Showing
  BY <1>1, <1>3
<1>5. s[Len(s)] = [text |-> Text(job[w].sent), answer |-> 0]
  BY <1>1, <1>4 DEF Shows, Showing
<1> QED
  BY <1>1, <1>2, <1>3, <1>5 DEF s

LEMMA AppendStep ==
    ASSUME IInv, NEW w \in Workers, AppendStream(w)
    PROVE  Advances(w)
<1> DEFINE latest == job[w].latest
           sent == job[w].sent
           c == Current(w)
           s == shown[c]
           upto == IF latest - sent < StreamChunk THEN latest ELSE sent + StreamChunk
           part == SubSeq(Text(MaxLength), sent + 1, upto)
           new == [text |-> Text(upto), answer |-> 0]
           j == [job[w] EXCEPT !.sent = upto]
<1>1. /\ job[w].at = "append" /\ job[w] \in Job /\ Ordered(job[w]) /\ job \in [Workers -> Job]
      /\ Showed(job[w]) /\ ~At(w, "idle") /\ ~At(w, "return")
  BY JobFacts DEF AppendStream, At, Showed
<1>2. sent \in Nat /\ upto \in 0 .. MaxLength /\ upto \in Nat /\ sent <= upto /\ upto <= latest
  BY <1>1, SlackbotAssumption DEF Job, Ordered, AppendStream
<1>3. /\ s \in Seq(Showing) /\ shown \in [Messages -> Seq(Showing)] /\ c \in Messages
      /\ s # <<>> /\ Len(s) \in DOMAIN s /\ Attempt(w) = Len(s)
      /\ s[Len(s)] = [text |-> Text(sent), answer |-> 0]
  BY <1>1, Growing
<1>4. Text(sent) \o part = Text(upto)
  <2>1. part = SubSeq(Text(MaxLength), sent + 1, upto) /\ upto <= MaxLength
    BY <1>2, SlackbotAssumption
  <2> HIDE DEF part, sent, upto
  <2> QED
    BY <2>1, <1>2, TextGrows
<1>5. shown' = [shown EXCEPT ![c][Attempt(w)].text = @ \o part]
  BY DEF AppendStream, Appended
<1> HIDE DEF part
<1>6. shown' = [shown EXCEPT ![c] = [s EXCEPT ![Len(s)] = new]]
  <2>1. [s[Len(s)] EXCEPT !.text = @ \o part] = new
    <3> DEFINE l == s[Len(s)]
               t == l.text \o part
    <3>1. l = [text |-> Text(sent), answer |-> 0]
      BY <1>3
    <3>2. t = Text(upto)
      BY <3>1, <1>4
    <3> HIDE DEF l, t, s, upto
    <3>3. [l EXCEPT !.text = t] = new
      BY <3>1, <3>2
    <3> QED
      BY <3>3 DEF l, t
  <2>2. shown' = [shown EXCEPT ![c] = [s EXCEPT ![Len(s)] = [s[Len(s)] EXCEPT !.text = @ \o part]]]
    BY <1>3, <1>5
  <2> QED
    BY <2>1, <2>2
<1>7. Len(shown'[c][Attempt(w)].text) = upto
  <2>1. shown'[c] = [s EXCEPT ![Len(s)] = new]
    BY <1>3, <1>6
  <2>2. shown'[c][Len(s)] = new
    BY <1>3, <2>1
  <2> HIDE DEF upto, s
  <2>3. shown'[c][Attempt(w)].text = Text(upto)
    BY <1>3, <2>2
  <2> QED
    BY <1>2, <2>3, TextOf
<1>8. job' = [job EXCEPT ![w] = j] /\ queue' = queue
  BY <1>1, <1>7 DEF AppendStream, sqs
<1>9. j \in Job /\ j.msg = c /\ j.at # "idle" /\ j.sent = upto /\ Ordered(j)
  BY <1>1, <1>2 DEF Job, Current, Ordered
<1>10. Becomes(c, upto, 0)
  BY <1>3, <1>6 DEF Becomes
<1>11. 0 \in Nat /\ (0 # 0 => 0 = upto /\ j.at = "return")
  OBVIOUS
<1> HIDE DEF upto, c, j
<1> QED
  BY <1>1, <1>2, <1>8, <1>9, <1>10, <1>11, WorkStep DEF c

LEMMA StopStep ==
    ASSUME IInv, NEW w \in Workers, StopStream(w)
    PROVE  Advances(w)
<1> DEFINE latest == job[w].latest
           c == Current(w)
           s == shown[c]
           new == [text |-> Text(latest), answer |-> latest]
           j == [job[w] EXCEPT !.at = "return"]
<1>1. /\ job[w].at = "stop" /\ job[w] \in Job /\ Ordered(job[w]) /\ job \in [Workers -> Job]
      /\ Showed(job[w]) /\ ~At(w, "idle") /\ ~At(w, "return")
  BY JobFacts DEF StopStream, At, Showed
<1>2. latest \in Nat /\ job[w].sent = latest
  BY <1>1, SlackbotAssumption DEF Job, Ordered
<1>3. /\ s \in Seq(Showing) /\ shown \in [Messages -> Seq(Showing)] /\ c \in Messages
      /\ s # <<>> /\ Len(s) \in DOMAIN s /\ Attempt(w) = Len(s)
      /\ s[Len(s)] = [text |-> Text(latest), answer |-> 0]
  BY <1>1, <1>2, Growing
<1>4. shown' = [shown EXCEPT ![c][Attempt(w)].answer = latest]
  BY DEF StopStream, Ended
<1>5. shown' = [shown EXCEPT ![c] = [s EXCEPT ![Len(s)] = new]]
  <2>1. [s[Len(s)] EXCEPT !.answer = latest] = new
    BY <1>3
  <2>2. shown' = [shown EXCEPT ![c] = [s EXCEPT ![Len(s)] = [s[Len(s)] EXCEPT !.answer = latest]]]
    BY <1>3, <1>4
  <2> QED
    BY <2>1, <2>2
<1>6. Becomes(c, latest, latest)
  BY <1>3, <1>5 DEF Becomes
<1>7. job' = [job EXCEPT ![w] = j] /\ queue' = queue
  BY <1>1 DEF StopStream, Go, sqs
<1>8. j \in Job /\ j.msg = c /\ j.at # "idle" /\ Ordered(j) /\ ~Showed(j) /\ j.at = "return"
  BY <1>1 DEF Job, Stages, Current, Ordered, Showed
<1> HIDE DEF latest, c, j
<1> QED
  BY <1>1, <1>2, <1>6, <1>7, <1>8, WorkStep DEF c

LEMMA PostStep ==
    ASSUME IInv, NEW w \in Workers, PostFallback(w)
    PROVE  Advances(w)
<1> DEFINE latest == job[w].latest
           sent == job[w].sent
           left == latest - sent
           c == Current(w)
           s == shown[c]
<1>1. /\ job[w].at = "fallback" /\ job[w] \in Job /\ Ordered(job[w]) /\ job \in [Workers -> Job]
      /\ ~At(w, "idle") /\ ~At(w, "return")
      /\ sent > 0 => Showed(job[w])
  BY JobFacts DEF PostFallback, At, Showed
<1>2. sent \in Nat /\ latest \in 0 .. MaxLength /\ left \in Nat /\ sent <= latest
  BY <1>1, SlackbotAssumption DEF Job, Ordered
<1> DEFINE Part(n) == SubSeq(Text(MaxLength), sent + 1, sent + n)
           Whole(n) == IF n = left THEN latest ELSE 0
           First(n) == Append(s, [text |-> Part(n), answer |-> Whole(n)])
           Longer(n) == [s EXCEPT ![Len(s)] = [text |-> s[Len(s)].text \o Part(n), answer |-> Whole(n)]]
           Goes(n) == IF n = left THEN "return" ELSE "fallback"
<1>3. PICK n \in IF left <= FallbackChunk THEN {left} ELSE 1 .. FallbackChunk :
        /\ shown' = [shown EXCEPT ![c] = IF sent = 0 THEN First(n) ELSE Longer(n)]
        /\ job' = [job EXCEPT ![w].sent = @ + n, ![w].at = Goes(n)]
  BY DEF PostFallback, Posted
<1> DEFINE part == Part(n)
           whole == Whole(n)
           upto == sent + n
           new == [text |-> Text(upto), answer |-> whole]
           next == Goes(n)
           first == First(n)
           longer == Longer(n)
           j == [job[w] EXCEPT !.sent = upto, !.at = next]
<1>4. n \in Nat /\ upto \in 0 .. MaxLength /\ upto \in Nat /\ sent <= upto /\ upto <= latest
  <2>1. n = left \/ (n \in 1 .. FallbackChunk /\ FallbackChunk < left)
    BY <1>2, SlackbotAssumption
  <2> HIDE DEF upto, sent, left
  <2>2. n \in Nat /\ n <= left
    BY <2>1, <1>2, SlackbotAssumption
  <2> USE DEF upto, left
  <2> QED
    BY <2>2, <1>2, SlackbotAssumption
<1>5. whole \in Nat /\ (whole # 0 => whole = upto) /\ (n # left => whole = 0)
  BY <1>2, <1>4
<1>6. part \in Seq(Nat) /\ Text(sent) \o part = Text(upto)
  <2>1. part = SubSeq(Text(MaxLength), sent + 1, upto)
    OBVIOUS
  <2>2. sent \in Nat /\ upto \in Nat /\ sent <= upto /\ upto <= MaxLength
    BY <1>2, <1>4, SlackbotAssumption
  <2> HIDE DEF part, sent, upto
  <2> QED
    BY <2>1, <2>2, TextGrows
<1>a. shown' = [shown EXCEPT ![c] = IF sent = 0 THEN first ELSE longer]
  BY <1>3
<1>b. /\ first = Append(s, [text |-> part, answer |-> whole])
      /\ longer = [s EXCEPT ![Len(s)] = [text |-> s[Len(s)].text \o part, answer |-> whole]]
  OBVIOUS
<1> HIDE DEF first, longer, part, whole, upto
<1>7. Becomes(c, upto, whole)
  <2>1. CASE sent = 0
    <3>1. Text(sent) = <<>>
      BY <2>1 DEF Text
    <3>2. part = Text(upto)
      BY <1>6, <3>1
    <3>3. shown' = [shown EXCEPT ![c] = first]
      BY <1>a, <2>1
    <3>4. first = Append(s, new)
      BY <3>2, <1>b
    <3> QED
      BY <3>3, <3>4 DEF Becomes
  <2>2. CASE sent # 0
    <3>1. /\ s \in Seq(Showing) /\ s # <<>> /\ Len(s) \in DOMAIN s
          /\ s[Len(s)] = [text |-> Text(sent), answer |-> 0]
      BY <2>2, <1>1, <1>2, Growing
    <3>2. shown' = [shown EXCEPT ![c] = longer]
      BY <1>a, <2>2
    <3>3. s[Len(s)].text \o part = Text(upto)
      BY <3>1, <1>6
    <3>4. longer = [s EXCEPT ![Len(s)] = new]
      BY <3>3, <1>b
    <3> QED
      BY <3>1, <3>2, <3>4 DEF Becomes
  <2> QED
    BY <2>1, <2>2
<1>8. job' = [job EXCEPT ![w] = j] /\ queue' = queue
  BY <1>1, <1>3 DEF PostFallback, sqs, upto
<1>9. j \in Job /\ j.msg = c /\ j.at # "idle" /\ j.sent = upto /\ j.latest = latest /\ j.at = next
  BY <1>1, <1>4 DEF Job, Stages, Current
<1>10. Ordered(j)
  <2>1. j.open = job[w].open /\ j.barred = job[w].barred
    BY <1>1 DEF Job
  <2> QED
    BY <1>1, <1>4, <1>9, <2>1 DEF Ordered
<1>11. Showed(j) => j.sent = upto /\ whole = 0
  BY <1>5, <1>9 DEF Showed
<1> HIDE DEF c, j
<1> QED
  BY <1>1, <1>4, <1>5, <1>7, <1>8, <1>9, <1>10, <1>11, WorkStep DEF c

\* Steps that Slack does not see and that leave a worker's job as it is or put
\* one at its start or its end.
LEMMA Outside ==
    ASSUME IInv, QueueInv', shown' = shown,
           \A w \in Workers : job'[w] = job[w] \/ (Ordered(job'[w]) /\ ~Showed(job'[w]))
    PROVE  IInv'
<1>1. AnswerFaithful'
  BY DEF IInv, AnswerFaithful
<1>2. SentShown'
  <2> SUFFICES ASSUME NEW w \in Workers
               PROVE  Ordered(job'[w]) /\ (Showed(job'[w]) => Shows(shown'[job'[w].msg], job'[w].sent))
    BY DEF SentShown
  <2>1. Ordered(job[w]) /\ (Showed(job[w]) => Shows(shown[job[w].msg], job[w].sent))
    BY JobFacts
  <2>2. CASE job'[w] = job[w]
    BY <2>1, <2>2
  <2>3. CASE Ordered(job'[w]) /\ ~Showed(job'[w])
    BY <2>3
  <2> QED
    BY <2>2, <2>3
<1> QED
  BY <1>1, <1>2 DEF IInv

LEMMA IdleFacts ==
    ASSUME NEW m \in Messages
    PROVE  /\ Idle \in Job /\ Ordered(Idle) /\ ~Showed(Idle) /\ Idle.at = "idle"
           /\ LET j == [Idle EXCEPT !.at = "invoke", !.msg = m]
              IN  j \in Job /\ Ordered(j) /\ ~Showed(j) /\ j.msg = m
<1> DEFINE j == [Idle EXCEPT !.at = "invoke", !.msg = m]
<1>1. Idle \in Job /\ Ordered(Idle) /\ ~Showed(Idle) /\ Idle.at = "idle"
  BY SlackbotAssumption DEF Idle, Job, Stages, Ordered, Showed
<1>2. /\ j \in Job /\ j.at = "invoke" /\ j.msg = m /\ j.sent = Idle.sent /\ j.latest = Idle.latest
      /\ j.open = Idle.open /\ j.barred = Idle.barred
  BY <1>1 DEF Job, Stages
<1> HIDE DEF j
<1>3. j \in Job /\ Ordered(j) /\ ~Showed(j) /\ j.msg = m
  BY <1>2 DEF Idle, Ordered, Showed
<1> QED
  BY <1>1, <1>3 DEF j

LEMMA QueueStep ==
    ASSUME IInv, NEW m \in Messages, Post(m) \/ UNCHANGED queue, UNCHANGED <<job, shown>>
    PROVE  IInv'
<1>1. queue' \in Seq(Entry)
  <2>1. queue \in Seq(Entry)
    BY DEF IInv, QueueInv, Typed
  <2>2. [msg |-> m, receives |-> 0, worker |-> None] \in Entry
    BY DEF Entry
  <2>3. queue' = queue \/ queue' = Append(queue, [msg |-> m, receives |-> 0, worker |-> None])
    BY DEF Post
  <2> QED
    BY <2>1, <2>2, <2>3
<1>2. Typed'
  BY <1>1 DEF IInv, QueueInv, Typed
<1>3. QueueInv'
  BY <1>2, Posting DEF IInv
<1> QED
  BY <1>3, Outside

LEMMA ReceiveStep ==
    ASSUME IInv, NEW w \in Workers, Receive(w)
    PROVE  IInv'
<1>1. PICK i \in DOMAIN queue :
        /\ queue' = [queue EXCEPT ![i].receives = @ + 1, ![i].worker = w]
        /\ job' = [job EXCEPT ![w] = [Idle EXCEPT !.at = "invoke", !.msg = queue[i].msg]]
  BY DEF Receive
<1>2. queue \in Seq(Entry) /\ job \in [Workers -> Job] /\ queue[i] \in Entry
  BY DEF IInv, QueueInv, Typed
<1>3. queue[i].msg \in Messages
  BY <1>2 DEF Entry
<1> DEFINE j == [Idle EXCEPT !.at = "invoke", !.msg = queue[i].msg]
           e == [queue[i] EXCEPT !.receives = @ + 1, !.worker = w]
<1>4. j \in Job /\ Ordered(j) /\ ~Showed(j)
  BY <1>3, IdleFacts
<1>5. e \in Entry /\ queue' = [queue EXCEPT ![i] = e]
  <2>1. e \in Entry
    <3> DEFINE q == queue[i]
               n == q.receives + 1
    <3>1. q \in Entry
      BY <1>2
    <3> HIDE DEF q
    <3>2. n \in Nat
      BY <3>1 DEF Entry
    <3> HIDE DEF n
    <3>3. [q EXCEPT !.receives = n, !.worker = w] \in Entry
      BY <3>1, <3>2 DEF Entry
    <3> QED
      BY <3>3 DEF q, n
  <2>2. queue' = [queue EXCEPT ![i] = e]
    BY <1>1
  <2> QED
    BY <2>1, <2>2
<1> HIDE DEF j, e
<1>6. shown' = shown
  BY DEF Receive, slack
<1>7. Typed'
  <2>1. queue' \in Seq(Entry)
    BY <1>2, <1>5
  <2>2. job' \in [Workers -> Job]
    BY <1>1, <1>2, <1>4 DEF j
  <2> QED
    BY <2>1, <2>2, <1>6 DEF IInv, QueueInv, Typed
<1>8. QueueInv'
  BY <1>7, Receiving DEF IInv
<1>9. \A v \in Workers : job'[v] = job[v] \/ (Ordered(job'[v]) /\ ~Showed(job'[v]))
  BY <1>1, <1>2, <1>4 DEF j
<1> QED
  BY <1>6, <1>8, <1>9, Outside

LEMMA BuryStep ==
    ASSUME IInv, Bury
    PROVE  IInv'
<1>1. PICK i \in DOMAIN queue : Visible(i) /\ queue' = RemoveAt(queue, i)
  BY DEF Bury
<1>2. UNCHANGED <<job, shown>>
  BY DEF Bury, slack
<1>3. queue \in Seq(Entry)
  BY DEF IInv, QueueInv, Typed
<1>4. queue' \in Seq(Entry)
  BY <1>1, <1>3, RemoveOne
<1>5. Typed'
  BY <1>2, <1>4 DEF IInv, QueueInv, Typed
<1>6. \A v \in Workers : queue[i].worker # v
  BY <1>1, SlackbotAssumption DEF Visible
<1>7. QueueInv'
  BY <1>1, <1>2, <1>5, <1>6, Removing DEF IInv
<1> QED
  BY <1>2, <1>7, Outside

LEMMA LeavingStep ==
    ASSUME IInv, NEW w \in Workers, Return(w) \/ GiveUp(w)
    PROVE  IInv'
<1> DEFINE i == EntryOf(w)
<1>1. /\ job' = [job EXCEPT ![w] = Idle] /\ shown' = shown /\ ~At(w, "idle")
      /\ queue' = RemoveAt(queue, i) \/ queue' = [queue EXCEPT ![i].worker = None]
  BY DEF Return, GiveUp, slack, At
<1>2. i \in DOMAIN queue /\ queue[i].worker = w /\ Current(w) \in Messages
  BY <1>1, OwnEntry DEF IInv
<1> HIDE DEF i
<1>3. queue \in Seq(Entry) /\ job \in [Workers -> Job] /\ queue[i] \in Entry
  BY <1>2 DEF IInv, QueueInv, Typed
<1>4. Idle \in Job /\ Ordered(Idle) /\ ~Showed(Idle) /\ Idle.at = "idle"
  BY <1>2, IdleFacts
<1>5. \A v \in Workers : job'[v] = IF v = w THEN Idle ELSE job[v]
  BY <1>1, <1>3
<1>6. job' \in [Workers -> Job]
  BY <1>1, <1>3, <1>4
<1>7. queue' \in Seq(Entry)
  <2>1. CASE queue' = RemoveAt(queue, i)
    BY <2>1, <1>2, <1>3, RemoveOne
  <2>2. CASE queue' = [queue EXCEPT ![i].worker = None]
    <3>1. [queue[i] EXCEPT !.worker = None] \in Entry
      BY <1>3 DEF Entry
    <3>2. queue' = [queue EXCEPT ![i] = [queue[i] EXCEPT !.worker = None]]
      BY <2>2, <1>2, <1>3
    <3> QED
      BY <3>1, <3>2, <1>2, <1>3
  <2> QED
    BY <1>1, <2>1, <2>2
<1>8. Typed'
  BY <1>1, <1>6, <1>7 DEF IInv, QueueInv, Typed
<1>9. QueueInv'
  <2>1. CASE Return(w)
    <3>1. queue' = RemoveAt(queue, i)
      BY <2>1 DEF Return, i
    <3>2. \A v \in Workers : job'[v].at # "idle" => job'[v] = job[v] /\ queue[i].worker # v
      BY <1>2, <1>4, <1>5
    <3> QED
      BY <3>1, <3>2, <1>2, <1>8, Removing DEF IInv
  <2>2. CASE GiveUp(w)
    BY <2>2, <1>8, GivingUp DEF IInv
  <2> QED
    BY <2>1, <2>2
<1>10. \A v \in Workers : job'[v] = job[v] \/ (Ordered(job'[v]) /\ ~Showed(job'[v]))
  BY <1>4, <1>5
<1> QED
  BY <1>1, <1>9, <1>10, Outside

----------------------------------------------------------------------------
(* How many answers a message may have *)

\* What is in flight to a worker is what the worker works on.
InFlight ==
    \A i \in DOMAIN queue : queue[i].worker # None =>
        ~At(queue[i].worker, "idle") /\ Current(queue[i].worker) = queue[i].msg

\* The worker has ended the answer and has but to return.
Done(v) == v # None /\ job[v].at = "return"

\* The entries of the queue that may still come to an answer.
Pending(m) == {i \in DOMAIN queue : queue[i].msg = m /\ ~Done(queue[i].worker)}

\* Whether SQS would take the message (again).
Spare(m) == IF m \in remembered THEN 0 ELSE 1

\* Answers given and answers that may come need no more failures than there were.
Budget ==
    \A m \in Messages :
        Cardinality(Answers(m)) + Cardinality(Pending(m)) + Spare(m) <= 1 + failed[m]

CountInv == failed \in [Messages -> Nat] /\ InFlight /\ Budget

LEMMA Counts ==
    ASSUME NEW T, IsFiniteSet(T), NEW S, NEW x
    PROVE  /\ S \subseteq T => Cardinality(S) <= Cardinality(T)
           /\ S \subseteq T \cup {x} => Cardinality(S) <= Cardinality(T) + 1
           /\ x \in T /\ S \subseteq T \ {x} => Cardinality(S) <= Cardinality(T) - 1
           /\ Cardinality(T) \in Nat
<1>1. Cardinality(T) \in Nat
  BY FS_CardinalityType
<1>2. S \subseteq T => Cardinality(S) <= Cardinality(T)
  BY FS_Subset
<1>3. ASSUME S \subseteq T \cup {x}
      PROVE  Cardinality(S) <= Cardinality(T) + 1
  <2>1. IsFiniteSet(T \cup {x}) /\ Cardinality(T \cup {x}) = IF x \in T THEN Cardinality(T) ELSE Cardinality(T) + 1
    BY FS_AddElement
  <2>2. Cardinality(S) <= Cardinality(T \cup {x}) /\ IsFiniteSet(S)
    BY <1>3, <2>1, FS_Subset
  <2>3. Cardinality(S) \in Nat
    BY <2>2, FS_CardinalityType
  <2> QED
    BY <1>1, <2>1, <2>2, <2>3
<1>4. ASSUME x \in T, S \subseteq T \ {x}
      PROVE  Cardinality(S) <= Cardinality(T) - 1
  <2>1. IsFiniteSet(T \ {x}) /\ Cardinality(T \ {x}) = Cardinality(T) - 1
    BY <1>4, FS_RemoveElement
  <2> QED
    BY <1>4, <2>1, FS_Subset
<1> QED
  BY <1>1, <1>2, <1>3, <1>4

FiniteCounts == \A m \in Messages : IsFiniteSet(Answers(m)) /\ IsFiniteSet(Pending(m))

LEMMA FiniteParts == Typed => FiniteCounts
<1> SUFFICES ASSUME Typed, NEW m \in Messages
             PROVE  IsFiniteSet(Answers(m)) /\ IsFiniteSet(Pending(m))
  BY DEF FiniteCounts
<1>1. DOMAIN queue = 1 .. Len(queue) /\ Len(queue) \in Nat
  BY DEF Typed
<1>2. DOMAIN shown[m] = 1 .. Len(shown[m]) /\ Len(shown[m]) \in Nat
  BY DEF Typed
<1>3. IsFiniteSet(1 .. Len(queue)) /\ IsFiniteSet(1 .. Len(shown[m]))
  BY <1>1, <1>2, FS_Interval
<1>4. Answers(m) \subseteq 1 .. Len(shown[m]) /\ Pending(m) \subseteq 1 .. Len(queue)
  BY <1>1, <1>2 DEF Answers, Pending
<1> QED
  BY <1>3, <1>4, FS_Subset

LEMMA FinitePartsNext == Typed' => FiniteCounts'
  BY FiniteParts, PTL

\* The count of a message after a step, from how its parts have changed.
LEMMA Within ==
    ASSUME Typed, Typed', CountInv, failed' \in [Messages -> Nat], NEW m \in Messages,
           NEW a \in 0 .. 1, NEW p \in {-1, 0, 1}, NEW x, NEW y,
           Answers(m)' \subseteq IF a = 1 THEN Answers(m) \cup {x} ELSE Answers(m),
           Cardinality(Pending(m)') <= Cardinality(Pending(m)) + p,
           a + p + Spare(m)' - Spare(m) <= failed'[m] - failed[m]
    PROVE  Cardinality(Answers(m)') + Cardinality(Pending(m)') + Spare(m)' <= 1 + failed'[m]
<1>1. /\ Cardinality(Answers(m)) \in Nat /\ Cardinality(Pending(m)) \in Nat
      /\ Cardinality(Answers(m)') <= Cardinality(Answers(m)) + a
  <2>1. IsFiniteSet(Answers(m)) /\ IsFiniteSet(Pending(m))
    BY FiniteParts DEF FiniteCounts
  <2>2. CASE a = 1
    BY <2>1, <2>2, Counts
  <2>3. CASE a = 0
    BY <2>1, <2>3, Counts
  <2> QED
    BY <2>2, <2>3
<1>2. Cardinality(Answers(m)') \in Nat /\ Cardinality(Pending(m)') \in Nat
  <2>1. IsFiniteSet(Answers(m)') /\ IsFiniteSet(Pending(m)')
    BY FinitePartsNext DEF FiniteCounts
  <2> QED
    BY <2>1, FS_CardinalityType
<1>3. Cardinality(Answers(m)) + Cardinality(Pending(m)) + Spare(m) <= 1 + failed[m]
  BY DEF CountInv, Budget
<1>4. failed[m] \in Nat /\ failed'[m] \in Nat /\ Spare(m) \in 0 .. 1 /\ Spare(m)' \in 0 .. 1
  BY DEF CountInv, Spare
<1> QED
  BY <1>1, <1>2, <1>3, <1>4

LEMMA OwnMessage ==
    ASSUME QueueInv, InFlight, NEW w \in Workers, ~At(w, "idle")
    PROVE  /\ EntryOf(w) \in DOMAIN queue /\ queue[EntryOf(w)].worker = w
           /\ queue[EntryOf(w)].msg = Current(w) /\ Current(w) \in Messages
           /\ \A i \in DOMAIN queue : queue[i].worker = w => i = EntryOf(w)
<1> DEFINE e == EntryOf(w)
<1>1. e \in DOMAIN queue /\ queue[e].worker = w /\ Current(w) \in Messages /\ w # None
  BY OwnEntry, SlackbotAssumption
<1> HIDE DEF e
<1>2. queue[e].msg = Current(w)
  BY <1>1 DEF InFlight
<1>3. ASSUME NEW i \in DOMAIN queue, queue[i].worker = w
      PROVE  i = e
  <2>1. queue[i].msg = Current(w)
    BY <1>1, <1>3 DEF InFlight
  <2>2. i \in Nat /\ e \in Nat
    BY <1>1 DEF QueueInv, Typed
  <2>3. ~(i < e) /\ ~(e < i)
    BY <1>1, <1>2, <1>3, <2>1 DEF QueueInv, ConversationInTurn
  <2> QED
    BY <2>2, <2>3
<1> QED
  BY <1>1, <1>2, <1>3 DEF e

\* A step may end one attempt at a message, and none of another.
LEMMA NewAnswer ==
    ASSUME Typed, NEW c \in Messages, NEW n \in Nat, NEW k \in Nat, Becomes(c, n, k), NEW m \in Messages
    PROVE  /\ m # c \/ k = 0 => Answers(m)' \subseteq Answers(m)
           /\ \E x : Answers(m)' \subseteq Answers(m) \cup {x}
<1> DEFINE s == [text |-> Text(n), answer |-> k]
           old == shown[c]
           new == shown'[c]
<1>1. s \in Showing /\ s.answer = k
  BY TextOf DEF Showing
<1>2. old \in Seq(Showing) /\ shown \in [Messages -> Seq(Showing)]
  BY DEF Typed
<1>3. /\ \A o \in Messages : o # c => shown'[o] = shown[o]
      /\ new = Append(old, s) \/ (old # <<>> /\ new = [old EXCEPT ![Len(old)] = s])
  BY <1>2 DEF Becomes
<1>4. CASE m # c
  BY <1>3, <1>4 DEF Answers
<1>5. CASE m = c
  <2> HIDE DEF s, old, new
  <2>1. \A i \in DOMAIN new : \/ i = Len(new) /\ new[i] = s
                              \/ i \in DOMAIN old /\ new[i] = old[i]
    <3>1. CASE new = Append(old, s)
      BY <3>1, <1>1, <1>2
    <3>2. CASE old # <<>> /\ new = [old EXCEPT ![Len(old)] = s]
      BY <3>2, <1>1, <1>2
    <3> QED
      BY <3>1, <3>2, <1>3
  <2>2. /\ Answers(m)' = {i \in DOMAIN new : new[i].answer # 0}
        /\ Answers(m) = {i \in DOMAIN old : old[i].answer # 0}
    BY <1>5 DEF Answers, new, old
  <2>3. k = 0 => Answers(m)' \subseteq Answers(m)
    BY <2>1, <2>2, <1>1
  <2>4. Answers(m)' \subseteq Answers(m) \cup {Len(new)}
    BY <2>1, <2>2
  <2> QED
    BY <1>5, <2>3, <2>4
<1> QED
  BY <1>4, <1>5

\* What the workers do: an answer that is given was pending before.
LEMMA AdvanceCount ==
    ASSUME IInv, IInv', CountInv, NEW w \in Workers, Advances(w), UNCHANGED <<failed, remembered>>
    PROVE  CountInv'
<1> DEFINE c == Current(w)
           e == EntryOf(w)
<1>1. PICK j \in Job :
        /\ job' = [job EXCEPT ![w] = j] /\ j.msg = c /\ j.at # "idle"
        /\ \/ shown' = shown
           \/ \E n, k \in Nat : Becomes(c, n, k) /\ (k # 0 => k = n /\ j.at = "return")
  BY DEF Advances
<1>2. /\ e \in DOMAIN queue /\ queue[e].worker = w /\ queue[e].msg = c /\ c \in Messages
      /\ ~At(w, "idle") /\ ~At(w, "return") /\ queue' = queue /\ w # None
  BY OwnMessage, SlackbotAssumption DEF Advances, IInv, CountInv
<1> HIDE DEF e
<1>3. job'[w] = j /\ \A v \in Workers : v # w => job'[v] = job[v]
  BY <1>1 DEF IInv, QueueInv, Typed
<1>4. /\ Typed /\ Typed' /\ failed \in [Messages -> Nat] /\ failed' = failed
      /\ \A m \in Messages : Spare(m)' = Spare(m) /\ Spare(m) \in 0 .. 1
      /\ \A i \in DOMAIN queue : queue[i].worker \in Workers \cup {None}
  <2>1. Typed /\ Typed' /\ failed \in [Messages -> Nat] /\ failed' = failed
    BY DEF IInv, QueueInv, CountInv
  <2>2. \A m \in Messages : Spare(m)' = Spare(m) /\ Spare(m) \in 0 .. 1
    BY DEF Spare
  <2>3. \A i \in DOMAIN queue : queue[i] \in Entry
    BY <2>1 DEF Typed
  <2> QED
    BY <2>1, <2>2, <2>3 DEF Entry
<1>5. InFlight'
  <2> SUFFICES ASSUME NEW i \in DOMAIN queue, queue[i].worker # None
               PROVE  job'[queue[i].worker].at # "idle" /\ job'[queue[i].worker].msg = queue[i].msg
    BY <1>2 DEF InFlight, At, Current
  <2>1. job[queue[i].worker].at # "idle" /\ job[queue[i].worker].msg = queue[i].msg
    BY DEF CountInv, InFlight, At, Current
  <2> QED
    BY <2>1, <1>1, <1>3, <1>4 DEF Current
<1>6. ASSUME NEW m \in Messages
      PROVE  /\ Pending(m)' \subseteq Pending(m)
             /\ m = c /\ j.at = "return" => e \in Pending(m) /\ Pending(m)' \subseteq Pending(m) \ {e}
  BY <1>2, <1>3, <1>4 DEF Pending, Done, At
<1>7. Budget'
  <2> SUFFICES ASSUME NEW m \in Messages
               PROVE  Cardinality(Answers(m)') + Cardinality(Pending(m)') + Spare(m)' <= 1 + failed'[m]
    BY DEF Budget
  <2>1. IsFiniteSet(Pending(m))
    BY <1>4, FiniteParts DEF FiniteCounts
  <2>2. Cardinality(Pending(m)') <= Cardinality(Pending(m)) /\ Cardinality(Pending(m)) \in Nat
    BY <1>6, <2>1, Counts
  <2>3. CASE Answers(m)' \subseteq Answers(m)
    <3>1. Cardinality(Pending(m)') <= Cardinality(Pending(m)) + 0
      BY <2>2
    <3>2. 0 + 0 + Spare(m)' - Spare(m) <= failed'[m] - failed[m]
      BY <1>4
    <3>3. 0 \in 0 .. 1 /\ 0 \in {-1, 0, 1} /\ Answers(m)' \subseteq IF 0 = 1 THEN Answers(m) \cup {0} ELSE Answers(m)
      BY <2>3
    <3> QED
      BY <1>4, <3>1, <3>2, <3>3, Within
  <2>4. CASE m = c /\ j.at = "return" /\ \E x : Answers(m)' \subseteq Answers(m) \cup {x}
    <3>1. PICK x : Answers(m)' \subseteq Answers(m) \cup {x}
      BY <2>4
    <3>2. Cardinality(Pending(m)') <= Cardinality(Pending(m)) + -1
      BY <1>6, <2>1, <2>2, <2>4, Counts
    <3>3. 1 + -1 + Spare(m)' - Spare(m) <= failed'[m] - failed[m]
      BY <1>4
    <3>4. 1 \in 0 .. 1 /\ -1 \in {-1, 0, 1} /\ Answers(m)' \subseteq IF 1 = 1 THEN Answers(m) \cup {x} ELSE Answers(m)
      BY <3>1
    <3> QED
      BY <1>4, <3>2, <3>3, <3>4, Within
  <2>5. \/ Answers(m)' \subseteq Answers(m)
        \/ m = c /\ j.at = "return" /\ \E x : Answers(m)' \subseteq Answers(m) \cup {x}
    <3>1. CASE shown' = shown
      BY <3>1 DEF Answers
    <3>2. ASSUME NEW n \in Nat, NEW k \in Nat, Becomes(c, n, k), k # 0 => k = n /\ j.at = "return"
          PROVE  \/ Answers(m)' \subseteq Answers(m)
                 \/ m = c /\ j.at = "return" /\ \E x : Answers(m)' \subseteq Answers(m) \cup {x}
      BY <3>2, <1>2, <1>4, NewAnswer
    <3> QED
      BY <1>1, <3>1, <3>2
  <2> QED
    BY <2>3, <2>4, <2>5
<1> QED
  BY <1>4, <1>5, <1>7 DEF CountInv

\* The ingress and the window of SQS: the first copy of a message uses up what
\* SQS would take, and the end of the window gives it back as a failure.
LEMMA IngressCount ==
    ASSUME IInv, IInv', CountInv, NEW c \in Messages,
           Deliver(c) \/ DeliverFails(c) \/ WindowEnds(c)
    PROVE  CountInv'
<1> DEFINE e == [msg |-> c, receives |-> 0, worker |-> None]
<1>1. /\ Typed /\ Typed' /\ failed \in [Messages -> Nat] /\ job' = job /\ shown' = shown
      /\ \A i \in DOMAIN queue : i \in 1 .. Len(queue)
      /\ queue \in Seq(Entry) /\ e \in Entry /\ e.worker = None /\ e.msg = c
  BY DEF IInv, QueueInv, CountInv, Typed, Entry, Deliver, DeliverFails, WindowEnds, slack
<1> HIDE DEF e
<1>2. \/ queue' = queue /\ remembered' = remembered /\ failed' = failed
      \/ /\ queue' = Append(queue, e) /\ remembered' = remembered \cup {c} /\ failed' = failed
         /\ c \notin remembered
      \/ /\ queue' = queue /\ remembered' = remembered \ {c}
         /\ failed' = [failed EXCEPT ![c] = @ + 1]
  BY DEF Deliver, DeliverFails, WindowEnds, Post, slack, e
<1>3. \/ queue' = queue
      \/ /\ DOMAIN queue' = DOMAIN queue \cup {Len(queue) + 1} /\ queue'[Len(queue) + 1] = e
         /\ \A i \in DOMAIN queue : queue'[i] = queue[i]
  <2>1. CASE queue' = Append(queue, e)
    <3>1. /\ DOMAIN queue = 1 .. Len(queue) /\ Len(queue) \in Nat
          /\ DOMAIN queue' = 1 .. Len(queue) + 1 /\ queue'[Len(queue) + 1] = e
          /\ \A i \in DOMAIN queue : queue'[i] = queue[i]
      BY <2>1, <1>1
    <3> QED
      BY <3>1
  <2> QED
    BY <2>1, <1>2
<1>4. InFlight'
  BY <1>1, <1>3 DEF CountInv, InFlight, At, Current
<1>5. failed' \in [Messages -> Nat]
  BY <1>1, <1>2
<1>6. Budget'
  <2> SUFFICES ASSUME NEW m \in Messages
               PROVE  Cardinality(Answers(m)') + Cardinality(Pending(m)') + Spare(m)' <= 1 + failed'[m]
    BY DEF Budget
  <2>1. IsFiniteSet(Pending(m)) /\ Answers(m)' = Answers(m)
    BY <1>1, FiniteParts DEF FiniteCounts, Answers
  <2>2. /\ 0 \in 0 .. 1 /\ Answers(m)' \subseteq IF 0 = 1 THEN Answers(m) \cup {0} ELSE Answers(m)
        /\ failed[m] \in Nat /\ Spare(m) \in 0 .. 1 /\ Spare(m)' \in 0 .. 1
    BY <1>1, <2>1 DEF Spare
  <2>3. CASE queue' = queue
    <3>1. Cardinality(Pending(m)') <= Cardinality(Pending(m)) + 0
      <4>1. Pending(m)' = Pending(m)
        BY <1>1, <2>3 DEF Pending, Done
      <4> QED
        BY <4>1, <2>1, Counts
    <3>2. 0 + 0 + Spare(m)' - Spare(m) <= failed'[m] - failed[m]
      <4>1. CASE remembered' = remembered /\ failed' = failed
        BY <4>1, <2>2 DEF Spare
      <4>2. CASE remembered' = remembered \ {c} /\ failed' = [failed EXCEPT ![c] = @ + 1]
        <5>1. CASE m = c
          BY <5>1, <4>2, <1>1, <2>2
        <5>2. CASE m # c
          BY <5>2, <4>2, <1>1, <2>2 DEF Spare
        <5> QED
          BY <5>1, <5>2
      <4>3. queue' # Append(queue, e)
        BY <1>1, <2>3
      <4> QED
        BY <4>1, <4>2, <4>3, <1>2
    <3> QED
      BY <1>1, <1>5, <2>2, <3>1, <3>2, Within
  <2>4. CASE /\ queue' = Append(queue, e) /\ remembered' = remembered \cup {c} /\ failed' = failed
             /\ c \notin remembered
    <3>1. Pending(m)' \subseteq IF m = c THEN Pending(m) \cup {Len(queue) + 1} ELSE Pending(m)
      <4>1. /\ DOMAIN queue' = DOMAIN queue \cup {Len(queue) + 1} /\ queue'[Len(queue) + 1] = e
            /\ \A i \in DOMAIN queue : queue'[i] = queue[i]
        BY <1>1, <2>4
      <4> QED
        BY <4>1, <1>1 DEF Pending, Done
    <3>2. CASE m = c
      <4>1. Cardinality(Pending(m)') <= Cardinality(Pending(m)) + 1
        BY <3>1, <3>2, <2>1, Counts
      <4>2. Spare(m)' = 0 /\ Spare(m) = 1
        BY <2>4, <3>2 DEF Spare
      <4>3. 0 + 1 + Spare(m)' - Spare(m) <= failed'[m] - failed[m]
        BY <2>2, <2>4, <4>2
      <4> QED
        BY <1>1, <1>5, <2>2, <4>1, <4>3, Within
    <3>3. CASE m # c
      <4>1. Cardinality(Pending(m)') <= Cardinality(Pending(m)) + 0
        BY <3>1, <3>3, <2>1, Counts
      <4>2. Spare(m)' = Spare(m)
        BY <2>4, <3>3 DEF Spare
      <4>3. 0 + 0 + Spare(m)' - Spare(m) <= failed'[m] - failed[m]
        BY <2>2, <2>4, <4>2
      <4> QED
        BY <1>1, <1>5, <2>2, <4>1, <4>3, Within
    <3> QED
      BY <3>2, <3>3
  <2> QED
    BY <1>2, <2>3, <2>4
<1> QED
  BY <1>4, <1>5, <1>6 DEF CountInv

\* An entry that a worker takes was pending, and stays so.
LEMMA ReceiveCount ==
    ASSUME IInv, IInv', CountInv, NEW w \in Workers, Receive(w)
    PROVE  CountInv'
<1>1. PICK e \in DOMAIN queue :
        /\ Visible(e)
        /\ queue' = [queue EXCEPT ![e].receives = @ + 1, ![e].worker = w]
        /\ job' = [job EXCEPT ![w] = [Idle EXCEPT !.at = "invoke", !.msg = queue[e].msg]]
  BY DEF Receive
<1>2. /\ Typed /\ Typed' /\ failed \in [Messages -> Nat] /\ failed' = failed /\ shown' = shown
      /\ remembered' = remembered /\ At(w, "idle") /\ w # None
  BY SlackbotAssumption DEF IInv, QueueInv, CountInv, Receive, slack
<1>3. /\ DOMAIN queue' = DOMAIN queue
      /\ \A i \in DOMAIN queue : queue'[i].msg = queue[i].msg
      /\ \A i \in DOMAIN queue : i # e => queue'[i].worker = queue[i].worker
      /\ queue'[e].worker = w /\ queue[e].worker = None
  <2>1. /\ DOMAIN queue' = DOMAIN queue
        /\ \A i \in DOMAIN queue : i # e => queue'[i] = queue[i]
        /\ queue'[e] = [queue[e] EXCEPT !.receives = @ + 1, !.worker = w]
    BY <1>1, <1>2 DEF Typed
  <2>2. queue[e] \in Entry
    BY <1>2 DEF Typed
  <2> QED
    BY <2>1, <2>2, <1>1 DEF Entry, Visible
<1>4. /\ \A v \in Workers : v # w => job'[v] = job[v]
      /\ job'[w].at = "invoke" /\ job'[w].msg = queue[e].msg
  BY <1>1, <1>2 DEF Typed, Idle
<1>5. \A i \in DOMAIN queue : queue[i].worker \in Workers \cup {None}
  <2>1. \A i \in DOMAIN queue : queue[i] \in Entry
    BY <1>2 DEF Typed
  <2> QED
    BY <2>1 DEF Entry
<1>6. \A i \in DOMAIN queue : queue[i].worker # w
  BY <1>2 DEF CountInv, InFlight
<1>7. InFlight'
  <2> SUFFICES ASSUME NEW i \in DOMAIN queue, queue'[i].worker # None
               PROVE  /\ job'[queue'[i].worker].at # "idle"
                      /\ job'[queue'[i].worker].msg = queue'[i].msg
    BY <1>3 DEF InFlight, At, Current
  <2>1. CASE i = e
    BY <2>1, <1>3, <1>4
  <2>2. CASE i # e
    BY <2>2, <1>3, <1>4, <1>5, <1>6 DEF CountInv, InFlight, At, Current
  <2> QED
    BY <2>1, <2>2
<1>8. Budget'
  <2> SUFFICES ASSUME NEW m \in Messages
               PROVE  Cardinality(Answers(m)') + Cardinality(Pending(m)') + Spare(m)' <= 1 + failed'[m]
    BY DEF Budget
  <2>1. Pending(m)' \subseteq Pending(m)
    BY <1>3, <1>4, <1>5, <1>6 DEF Pending, Done
  <2>2. Cardinality(Pending(m)') <= Cardinality(Pending(m)) + 0
    BY <1>2, <2>1, FiniteParts, Counts DEF FiniteCounts
  <2>3. /\ 0 \in 0 .. 1 /\ Answers(m)' \subseteq IF 0 = 1 THEN Answers(m) \cup {0} ELSE Answers(m)
        /\ failed[m] \in Nat /\ Spare(m) \in 0 .. 1 /\ Spare(m)' = Spare(m)
    BY <1>2 DEF Spare, Answers
  <2>4. 0 + 0 + Spare(m)' - Spare(m) <= failed'[m] - failed[m]
    BY <1>2, <2>3
  <2> QED
    BY <1>2, <2>2, <2>3, <2>4, Within
<1> QED
  BY <1>2, <1>7, <1>8 DEF CountInv

\* What leaves the queue: those behind it move up, and none is added.
LEMMA RemoveCount ==
    ASSUME IInv, IInv', CountInv, NEW k \in DOMAIN queue, queue' = RemoveAt(queue, k),
           UNCHANGED <<remembered, shown, failed>>,
           \A i \in DOMAIN queue : i # k /\ queue[i].worker # None =>
               job'[queue[i].worker] = job[queue[i].worker]
    PROVE  CountInv'
<1> DEFINE Old(i) == IF i < k THEN i ELSE i + 1
<1>1. /\ Typed /\ Typed' /\ failed \in [Messages -> Nat] /\ queue \in Seq(Entry)
      /\ k \in 1 .. Len(queue) /\ Len(queue) \in Nat /\ DOMAIN queue = 1 .. Len(queue)
  BY DEF IInv, QueueInv, CountInv, Typed
<1>2. /\ DOMAIN queue' = 1 .. Len(queue) - 1
      /\ \A i \in 1 .. Len(queue) - 1 : queue'[i] = IF i < k THEN queue[i] ELSE queue[i + 1]
  BY <1>1, RemoveOne
<1>3. \A i \in DOMAIN queue' : Old(i) \in DOMAIN queue /\ Old(i) # k /\ queue'[i] = queue[Old(i)]
  BY <1>1, <1>2
<1>4. \A i, l \in DOMAIN queue' : Old(i) = Old(l) => i = l
  BY <1>1, <1>2
<1> HIDE DEF Old
<1>5. InFlight'
  BY <1>3 DEF CountInv, InFlight, At, Current
<1>6. Budget'
  <2> SUFFICES ASSUME NEW m \in Messages
               PROVE  Cardinality(Answers(m)') + Cardinality(Pending(m)') + Spare(m)' <= 1 + failed'[m]
    BY DEF Budget
  <2> DEFINE P == Pending(m)
             Q == Pending(m)'
             f == [i \in Q |-> Old(i)]
  <2>1. \A i \in Q : i \in DOMAIN queue' /\ Old(i) \in P
    BY <1>3 DEF Pending, Done
  <2>2. IsFiniteSet(P)
    BY <1>1, FiniteParts DEF FiniteCounts
  <2> HIDE DEF P, Q
  <2>3. f \in Injection(Q, P)
    BY <2>1, <1>4 DEF Injection, IsInjective
  <2>4. Cardinality(Q) <= Cardinality(P)
    BY <2>2, <2>3, FS_Injection
  <2>5. Cardinality(P) \in Nat /\ IsFiniteSet(Q)
    BY <2>2, <2>3, FS_CardinalityType, FS_Injection
  <2>6. Cardinality(Q) \in Nat
    BY <2>5, FS_CardinalityType
  <2>7. Cardinality(Pending(m)') <= Cardinality(Pending(m)) + 0
    BY <2>4, <2>5, <2>6 DEF P, Q
  <2>8. /\ 0 \in 0 .. 1 /\ Answers(m)' \subseteq IF 0 = 1 THEN Answers(m) \cup {0} ELSE Answers(m)
        /\ failed[m] \in Nat /\ failed' = failed /\ Spare(m) \in 0 .. 1 /\ Spare(m)' = Spare(m)
    BY <1>1 DEF Spare, Answers
  <2>9. 0 + 0 + Spare(m)' - Spare(m) <= failed'[m] - failed[m]
    BY <2>8
  <2> QED
    BY <1>1, <2>7, <2>8, <2>9, Within
<1> QED
  BY <1>1, <1>5, <1>6 DEF CountInv

\* A failure gives the message back to the queue.
LEMMA GiveUpCount ==
    ASSUME IInv, IInv', CountInv, NEW w \in Workers, GiveUp(w)
    PROVE  CountInv'
<1> DEFINE e == EntryOf(w)
           c == Current(w)
<1>1. /\ e \in DOMAIN queue /\ queue[e].worker = w /\ queue[e].msg = c /\ c \in Messages
      /\ \A i \in DOMAIN queue : queue[i].worker = w => i = e
      /\ ~At(w, "idle")
  BY OwnMessage DEF GiveUp, IInv, CountInv
<1>2. /\ Typed /\ Typed' /\ failed \in [Messages -> Nat] /\ shown' = shown /\ remembered' = remembered
      /\ queue' = [queue EXCEPT ![e].worker = None] /\ job' = [job EXCEPT ![w] = Idle]
      /\ failed' = [failed EXCEPT ![c] = @ + 1]
  BY DEF IInv, QueueInv, CountInv, GiveUp
<1> HIDE DEF e, c
<1>3. /\ DOMAIN queue' = DOMAIN queue
      /\ \A i \in DOMAIN queue : queue'[i].msg = queue[i].msg
      /\ \A i \in DOMAIN queue : i # e => queue'[i].worker = queue[i].worker
      /\ queue'[e].worker = None
  <2>1. /\ DOMAIN queue' = DOMAIN queue
        /\ \A i \in DOMAIN queue : i # e => queue'[i] = queue[i]
        /\ queue'[e] = [queue[e] EXCEPT !.worker = None]
    BY <1>1, <1>2 DEF Typed
  <2>2. queue[e] \in Entry
    BY <1>1, <1>2 DEF Typed
  <2> QED
    BY <2>1, <2>2 DEF Entry
<1>4. \A i \in DOMAIN queue : i # e /\ queue[i].worker # None =>
          queue[i].worker # w /\ job'[queue[i].worker] = job[queue[i].worker]
  <2>1. \A i \in DOMAIN queue : queue[i] \in Entry
    BY <1>2 DEF Typed
  <2>2. \A v \in Workers : v # w => job'[v] = job[v]
    BY <1>2 DEF Typed
  <2> QED
    BY <2>1, <2>2, <1>1 DEF Entry
<1>5. InFlight'
  BY <1>3, <1>4 DEF CountInv, InFlight, At, Current
<1>6. failed' \in [Messages -> Nat]
  BY <1>1, <1>2
<1>7. Budget'
  <2> SUFFICES ASSUME NEW m \in Messages
               PROVE  Cardinality(Answers(m)') + Cardinality(Pending(m)') + Spare(m)' <= 1 + failed'[m]
    BY DEF Budget
  <2>1. IsFiniteSet(Pending(m))
    BY <1>2, FiniteParts DEF FiniteCounts
  <2>2. Pending(m)' \subseteq IF m = c THEN Pending(m) \cup {e} ELSE Pending(m)
    BY <1>1, <1>3, <1>4 DEF Pending, Done
  <2>3. /\ 0 \in 0 .. 1 /\ Answers(m)' \subseteq IF 0 = 1 THEN Answers(m) \cup {0} ELSE Answers(m)
        /\ failed[m] \in Nat /\ Spare(m) \in 0 .. 1 /\ Spare(m)' = Spare(m)
    BY <1>2 DEF Spare, Answers
  <2>4. CASE m = c
    <3>1. Cardinality(Pending(m)') <= Cardinality(Pending(m)) + 1
      BY <2>1, <2>2, <2>4, Counts
    <3>2. failed'[m] = failed[m] + 1
      BY <1>2, <2>4
    <3>3. 0 + 1 + Spare(m)' - Spare(m) <= failed'[m] - failed[m]
      BY <2>3, <3>2
    <3> QED
      BY <1>2, <1>6, <2>3, <3>1, <3>3, Within
  <2>5. CASE m # c
    <3>1. Cardinality(Pending(m)') <= Cardinality(Pending(m)) + 0
      BY <2>1, <2>2, <2>5, Counts
    <3>2. failed'[m] = failed[m]
      BY <1>2, <2>5
    <3>3. 0 + 0 + Spare(m)' - Spare(m) <= failed'[m] - failed[m]
      BY <2>3, <3>2
    <3> QED
      BY <1>2, <1>6, <2>3, <3>1, <3>3, Within
  <2> QED
    BY <2>4, <2>5
<1> QED
  BY <1>5, <1>6, <1>7 DEF CountInv


----------------------------------------------------------------------------
(* Theorems *)

LEMMA InitInv == Init => IInv
<1> SUFFICES ASSUME Init
             PROVE  IInv
  OBVIOUS
<1>1. QueueInv /\ AnswerFaithful
  BY QueueInit DEF Init, AnswerFaithful
<1>2. SentShown
  BY DEF Init, SentShown, Idle, Ordered, Showed
<1> QED
  BY <1>1, <1>2 DEF IInv

LEMMA NextInv ==
    ASSUME IInv, [Next]_vars
    PROVE  IInv'
<1>1. ASSUME NEW m \in Messages, Deliver(m) \/ DeliverFails(m) \/ WindowEnds(m)
      PROVE  IInv'
  <2>1. (Post(m) \/ UNCHANGED queue) /\ UNCHANGED <<job, shown>>
    BY <1>1 DEF Deliver, DeliverFails, WindowEnds, slack
  <2> QED
    BY <2>1, QueueStep
<1>2. ASSUME NEW w \in Workers, Receive(w) \/ StartFails(w) \/ GiveUp(w)
      PROVE  IInv'
  BY <1>2, ReceiveStep, StartFailsStep, AdvanceStep, LeavingStep
<1>3. ASSUME NEW w \in Workers, Work(w)
      PROVE  IInv'
  BY <1>3, InvokeStep, PublishStep, StartStep, AppendStep, FlushedStep, FinishStep, StopStep, PostStep,
     AdvanceStep, LeavingStep DEF Work
<1>4. CASE UNCHANGED vars
  <2>1. UNCHANGED <<queue, job, shown>>
    BY <1>4 DEF vars, sqs, slack
  <2>2. Typed' /\ QueueInv'
    BY <2>1, Working DEF IInv, QueueInv, Typed
  <2> QED
    BY <2>1, <2>2, Outside
<1> QED
  BY <1>1, <1>2, <1>3, <1>4, BuryStep DEF Next

LEMMA Inductive == Spec => []IInv
  BY InitInv, NextInv, PTL DEF Spec

\* One message of a conversation is with a worker at a time, and none while an
\* earlier one waits: the runtime session of a message is its group in the
\* queue, and a message stays in flight until its worker is done with it.
THEOREM ConversationsInTurn == Spec => []ConversationInTurn
<1>1. IInv => ConversationInTurn
  BY DEF IInv, QueueInv
<1> QED
  BY <1>1, Inductive, PTL

\* Whatever fails and however the answer is cut, an attempt that Slack shows is
\* a prefix of the answer, and the whole of it when it has ended: no other
\* worker is at the message, and a stream that Slack refused has sent nothing.
THEOREM AnswersFaithful == Spec => []AnswerFaithful
<1>1. IInv => AnswerFaithful
  BY DEF IInv
<1> QED
  BY <1>1, Inductive, PTL

----------------------------------------------------------------------------
(* One answer to a message *)

LEMMA InitCount == Init => CountInv
<1> SUFFICES ASSUME Init
             PROVE  CountInv
  OBVIOUS
<1>1. failed \in [Messages -> Nat] /\ InFlight
  BY DEF Init, InFlight
<1>2. ASSUME NEW m \in Messages
      PROVE  Answers(m) = {} /\ Pending(m) = {} /\ Spare(m) = 1 /\ failed[m] = 0
  BY DEF Init, Answers, Pending, Spare
<1>3. Budget
  BY <1>2, FS_EmptySet DEF Budget
<1> QED
  BY <1>1, <1>3 DEF CountInv

LEMMA NextCount ==
    ASSUME IInv, IInv', CountInv, [Next]_vars
    PROVE  CountInv'
<1>1. ASSUME NEW m \in Messages, Deliver(m) \/ DeliverFails(m) \/ WindowEnds(m)
      PROVE  CountInv'
  BY <1>1, IngressCount
<1>2. ASSUME NEW w \in Workers,
             \/ Invoke(w) \/ Publish(w) \/ StartStream(w) \/ AppendStream(w) \/ Flushed(w)
             \/ Finish(w) \/ StopStream(w) \/ PostFallback(w) \/ StartFails(w)
      PROVE  CountInv'
  <2>1. Advances(w)
    BY <1>2, InvokeStep, PublishStep, StartStep, AppendStep, FlushedStep, FinishStep, StopStep,
       PostStep, StartFailsStep
  <2>2. UNCHANGED <<failed, remembered>>
    BY <1>2 DEF Invoke, Publish, StartStream, AppendStream, Flushed, Finish, StopStream, PostFallback,
       StartFails, sqs, slack
  <2> QED
    BY <2>1, <2>2, AdvanceCount
<1>3. ASSUME NEW w \in Workers, Return(w)
      PROVE  CountInv'
  <2>1. /\ EntryOf(w) \in DOMAIN queue
        /\ \A i \in DOMAIN queue : queue[i].worker = w => i = EntryOf(w)
    BY <1>3, OwnMessage DEF Return, At, IInv, CountInv
  <2>2. /\ queue' = RemoveAt(queue, EntryOf(w)) /\ UNCHANGED <<remembered, shown, failed>>
        /\ \A v \in Workers : v # w => job'[v] = job[v]
    BY <1>3 DEF Return, slack, IInv, QueueInv, Typed
  <2>3. \A i \in DOMAIN queue : queue[i] \in Entry
    BY DEF IInv, QueueInv, Typed
  <2>4. \A i \in DOMAIN queue : i # EntryOf(w) /\ queue[i].worker # None =>
            job'[queue[i].worker] = job[queue[i].worker]
    BY <2>1, <2>2, <2>3 DEF Entry
  <2> QED
    BY <2>1, <2>2, <2>4, RemoveCount
<1>4. CASE Bury
  BY <1>4, RemoveCount DEF Bury, slack
<1>5. CASE UNCHANGED vars
  BY <1>5 DEF vars, sqs, slack, CountInv, InFlight, At, Current, Budget, Answers, Pending, Done, Spare
<1> QED
  BY <1>1, <1>2, <1>3, <1>4, <1>5, ReceiveCount, GiveUpCount DEF Next, Work

\* A message is answered once for every failure and once more: the copies that
\* SQS recognises add none, a worker ends an answer only while its message is
\* pending, and the end of one attempt leaves nothing pending of it.
THEOREM NoAnswersTwice == Spec => []NoAnswerTwice
<1>1. IInv /\ CountInv => NoAnswerTwice
  <2> SUFFICES ASSUME IInv, CountInv, NEW m \in Messages
               PROVE  Cardinality(Answers(m)) <= 1 + failed[m]
    BY DEF NoAnswerTwice
  <2>1. Cardinality(Answers(m)) \in Nat /\ Cardinality(Pending(m)) \in Nat
    BY FiniteParts, FS_CardinalityType DEF FiniteCounts, IInv, QueueInv
  <2>2. Cardinality(Answers(m)) + Cardinality(Pending(m)) + Spare(m) <= 1 + failed[m]
    BY DEF CountInv, Budget
  <2>3. Spare(m) \in Nat /\ failed[m] \in Nat
    BY DEF CountInv, Spare
  <2> QED
    BY <2>1, <2>2, <2>3
<1> QED
  BY <1>1, InitInv, NextInv, InitCount, NextCount, PTL DEF Spec

=============================================================================
