------------------------ MODULE SlackDelivery_proofs ------------------------
(***************************************************************************)
(* Theorems about SlackDelivery, for every set of messages, threads,       *)
(* containers and faults, and for every value of the bounds.               *)
(***************************************************************************)
EXTENDS SlackDelivery, ListFunctions_proofs, FiniteSetTheorems, TLAPS

----------------------------------------------------------------------------
(* Selecting entries of a sequence *)

\* Among returns a sequence of such entries of s as are in T.
LEMMA AmongType ==
    ASSUME NEW S, NEW s \in Seq(S), NEW T
    PROVE  Among(s, T) \in Seq({e \in ToSet(s) : e \in T})
<1>1. s \in Seq(ToSet(s))
  BY DEF ToSet
<1> QED
  BY <1>1, AmongEntries

----------------------------------------------------------------------------
(* Type correctness, and what a container's job is *)

PCs == {"idle", "enqueue", "claim", "guard", "post", "stream", "invoke", "reply"}

Job == [pc : PCs, batch : Seq(Events), todo : Seq(Events), shown : BOOLEAN]

MarkNames == {"asked", "shadowed", "fallback", "timeout", "open", "guarded",
              "failed", "busy", "refused", "crashed", "unheard"}

\* Every variable has its type (Slack's counts of indicators may not fall below
\* zero, but that is not a matter of type).
TypeOK ==
    /\ sends \in [Messages -> Nat]
    /\ old \subseteq Messages /\ window \subseteq Messages /\ claimed \subseteq Messages
    /\ seen \in [Containers -> SUBSET Messages]
    /\ processed \in [Containers -> SUBSET Messages]
    /\ queue \in Seq(Events) /\ inflight \subseteq Events
    /\ botLast \subseteq Messages
    /\ indicators \in [Messages -> Int] /\ replies \in [Messages -> Nat]
    /\ job \in [Containers -> Job]
    /\ faults \in Nat
    /\ marks \in [Messages -> SUBSET MarkNames]

\* A container c that is at work, with job j and marks mk, has something to do,
\* one event at send_message; it has posted an indicator only when it has come to the agent; a worker's
\* records are of its batch, and an ack container has come past send_message
\* only with an event of which that has failed.
JobOK(c, j, mk) ==
    /\ j.pc = "idle" => j = Idle
    /\ j.pc # "idle" => j.todo # <<>>
    /\ j.pc = "enqueue" => ToSet(j.todo) = {Head(j.todo)}
    /\ j.shown => j.pc \in {"stream", "invoke", "reply"}
    /\ c \in Workers => /\ j.pc # "enqueue"
                        /\ ToSet(j.todo) \subseteq ToSet(j.batch)
    /\ c \in Acks => /\ j.batch = <<>>
                     /\ j.pc \notin {"idle", "enqueue"} =>
                            \A e \in ToSet(j.todo) : "fallback" \in mk[e[1]]

JobInv == \A c \in Containers : JobOK(c, job[c], marks)

LEMMA EntriesOf ==
    ASSUME NEW S, NEW s \in Seq(S)
    PROVE  /\ ToSet(s) \subseteq S
           /\ \A m : OfMessage(s, m) <=> \E e \in ToSet(s) : e[1] = m
BY DEF ToSet, OfMessage

LEMMA FirstOf ==
    ASSUME NEW S, NEW s \in Seq(S), s # <<>>
    PROVE  /\ Head(s) \in S /\ Head(s) \in ToSet(s)
           /\ Tail(s) \in Seq(S) /\ ToSet(Tail(s)) \subseteq ToSet(s)
           /\ Len(s) > 1 => Tail(s) # <<>>
<1>1. Len(s) \in Nat \ {0} /\ DOMAIN s = 1 .. Len(s) /\ Head(s) = s[1]
  OBVIOUS
<1>2. /\ Tail(s) \in Seq(S) /\ Len(Tail(s)) = Len(s) - 1
      /\ \A i \in 1 .. Len(s) - 1 : Tail(s)[i] = s[i + 1]
  OBVIOUS
<1>3. DOMAIN Tail(s) = 1 .. Len(s) - 1
  BY <1>1, <1>2
<1>4. ToSet(Tail(s)) \subseteq ToSet(s)
  BY <1>1, <1>2, <1>3 DEF ToSet
<1>5. Head(s) \in S /\ Head(s) \in ToSet(s)
  BY <1>1 DEF ToSet
<1>6. Len(s) > 1 => Tail(s) # <<>>
  <2> DEFINE t == Tail(s)
  <2>1. t \in Seq(S) /\ Len(t) = Len(s) - 1
    BY <1>2
  <2> HIDE DEF t
  <2>2. Len(t) > 0 => t # <<>>
    BY <2>1
  <2>3. Len(s) > 1 => t # <<>>
    BY <1>1, <2>1, <2>2
  <2> QED
    BY <2>3 DEF t
<1> QED
  BY <1>2, <1>4, <1>5, <1>6

LEMMA Batching ==
    ASSUME NEW S, NEW s \in Seq(S), NEW n \in 1 .. Len(s)
    PROVE  /\ SubSeq(s, 1, n) \in Seq(S) /\ SubSeq(s, 1, n) # <<>>
           /\ ToSet(SubSeq(s, 1, n)) \subseteq ToSet(s)
<1>1. /\ SubSeq(s, 1, n) \in Seq(S) /\ Len(SubSeq(s, 1, n)) = n
      /\ \A i \in 1 .. n : SubSeq(s, 1, n)[i] = s[i]
  OBVIOUS
<1>2. DOMAIN SubSeq(s, 1, n) = 1 .. n /\ DOMAIN s = 1 .. Len(s) /\ Len(s) \in Nat
  BY <1>1
<1> HIDE DEF OfMessage
<1> QED
  BY <1>1, <1>2 DEF ToSet

LEMMA IdleIsJob == Idle \in Job /\ ToSet(<<>>) = {} /\ \A c, mk : JobOK(c, Idle, mk)
BY DEF Idle, Job, PCs, JobOK, ToSet

LEMMA ContainersApart == \A c \in Acks : c \notin Workers
BY DeliveryAssumption

\* The event in a container's hands.
LEMMA InHand ==
    ASSUME TypeOK, JobInv, NEW c \in Containers, job[c].pc # "idle"
    PROVE  /\ job[c] \in Job /\ Event(c) \in Events /\ Event(c) \in ToSet(job[c].todo)
           /\ Current(c) \in Messages /\ Handled(Current(c))
<1>1. job[c] \in Job /\ job[c].todo \in Seq(Events) /\ job[c].todo # <<>>
  BY DEF TypeOK, JobInv, JobOK, Job
<1>2. Event(c) \in Events /\ Event(c) \in ToSet(job[c].todo)
  BY <1>1, FirstOf DEF Event
<1>3. Current(c) \in Messages
  BY <1>2 DEF Current, Events
<1>4. OfMessage(job[c].todo, Current(c))
  BY <1>1, <1>2, EntriesOf DEF Current
<1> QED
  BY <1>1, <1>2, <1>3, <1>4 DEF Handled

----------------------------------------------------------------------------
(* How a step changes a job *)

Moves(c, r) == job' = [job EXCEPT ![c] = r]

LEMMA GotoJob ==
    ASSUME TypeOK, NEW c \in Containers, NEW pc \in PCs, Goto(c, pc)
    PROVE  \E r \in Job : /\ Moves(c, r)
                          /\ r.pc = pc /\ r.batch = job[c].batch
                          /\ r.todo = job[c].todo /\ r.shown = job[c].shown
<1> DEFINE r == [job[c] EXCEPT !.pc = pc]
<1>1. job[c] \in Job
  BY DEF TypeOK
<1>2. /\ r \in Job /\ r.pc = pc /\ r.batch = job[c].batch
      /\ r.todo = job[c].todo /\ r.shown = job[c].shown
  BY <1>1 DEF Job
<1>3. Moves(c, r)
  BY DEF Goto, Moves
<1> QED
  BY <1>2, <1>3

\* handle returns to the loop over the records.
LEMMA ReturnJob ==
    ASSUME TypeOK, JobInv, NEW c \in Containers, ~At(c, "idle"), Return(c)
    PROVE  /\ \E r \in Job :
                /\ Moves(c, r) /\ ~r.shown
                /\ \/ r = Idle
                   \/ /\ r.pc = "claim" /\ r.batch = job[c].batch
                      /\ inflight' = inflight
                      /\ r.todo # <<>> /\ ToSet(r.todo) \subseteq ToSet(job[c].todo)
           /\ window' = window
           /\ queue' \in Seq(Events) /\ ToSet(queue') \subseteq ToSet(queue)
           /\ inflight' = inflight \/ inflight' = inflight \ ToSet(job[c].batch)
<1>1. /\ job[c] \in Job /\ job[c].batch \in Seq(Events)
      /\ job[c].todo \in Seq(Events) /\ job[c].todo # <<>>
  BY DEF TypeOK, JobInv, JobOK, Job, At
<1>2. CASE Len(job[c].todo) > 1
  <2> DEFINE r == [job[c] EXCEPT !.pc = "claim", !.todo = Tail(job[c].todo), !.shown = FALSE]
  <2>1. job' = [job EXCEPT ![c] = r] /\ UNCHANGED sqs
    BY <1>2 DEF Return
  <2>2. Tail(job[c].todo) \in Seq(Events) /\ Tail(job[c].todo) # <<>>
    BY <1>1, <1>2, FirstOf
  <2>3. /\ r \in Job /\ r.pc = "claim" /\ r.batch = job[c].batch
        /\ r.todo = Tail(job[c].todo) /\ ~r.shown
    BY <1>1, <2>2 DEF Job, PCs
  <2>4. ToSet(r.todo) \subseteq ToSet(job[c].todo)
    BY <1>1, <2>3, FirstOf
  <2> HIDE DEF r
  <2> QED
    BY <2>1, <2>2, <2>3, <2>4 DEF Moves, sqs, TypeOK
<1>3. CASE ~(Len(job[c].todo) > 1)
  <2>1. /\ job' = [job EXCEPT ![c] = Idle]
        /\ queue' = Among(queue, Events \ ToSet(job[c].batch))
        /\ inflight' = inflight \ ToSet(job[c].batch) /\ window' = window
    BY <1>3 DEF Return
  <2> DEFINE E == {e \in ToSet(queue) : e \in Events \ ToSet(job[c].batch)}
  <2>2. queue' \in Seq(E) /\ queue \in Seq(Events)
    BY <2>1, AmongType DEF TypeOK
  <2>3. E \subseteq Events /\ E \subseteq ToSet(queue)
    BY <2>2, EntriesOf
  <2> HIDE DEF E
  <2>4. queue' \in Seq(Events) /\ ToSet(queue') \subseteq ToSet(queue)
    BY <2>2, <2>3, EntriesOf
  <2>5. Idle \in Job /\ ~Idle.shown
    BY IdleIsJob DEF Idle
  <2> QED
    BY <2>1, <2>4, <2>5 DEF Moves
<1> QED
  BY <1>2, <1>3

LEMMA MarksStep ==
    ASSUME TypeOK, NEW m \in Messages, NEW what \in SUBSET MarkNames, Marks(m, what)
    PROVE  /\ marks' \in [Messages -> SUBSET MarkNames]
           /\ what \subseteq marks'[m]
           /\ \A n \in Messages : marks[n] \subseteq marks'[n]
BY DEF Marks, TypeOK

\* A job that is as it should be may take the place of another.
LEMMA JobStep ==
    ASSUME TypeOK, JobInv, NEW c \in Containers, NEW r \in Job, Moves(c, r),
           JobOK(c, r, marks'), \A n \in Messages : marks[n] \subseteq marks'[n]
    PROVE  job' \in [Containers -> Job] /\ JobInv'
<1>1. job' \in [Containers -> Job]
  BY DEF Moves, TypeOK
<1>2. ASSUME NEW b \in Containers PROVE JobOK(b, job'[b], marks')
  <2>1. CASE b = c
    BY <2>1 DEF Moves, TypeOK
  <2>2. CASE b # c
    <3>1. job'[b] = job[b] /\ JobOK(b, job[b], marks) /\ job[b].todo \in Seq(Events)
      BY <2>2 DEF Moves, TypeOK, JobInv, Job
    <3>2. \A e \in ToSet(job[b].todo) : e[1] \in Messages
      BY <3>1, EntriesOf DEF Events
    <3> QED
      BY <3>1, <3>2 DEF JobOK
  <2> QED
    BY <2>1, <2>2
<1> QED
  BY <1>1, <1>2 DEF JobInv

----------------------------------------------------------------------------
(* Type correctness is inductive, with JobInv *)

\* What remains of TypeOK.
Others ==
    /\ sends \in [Messages -> Nat]
    /\ old \subseteq Messages /\ window \subseteq Messages /\ claimed \subseteq Messages
    /\ seen \in [Containers -> SUBSET Messages]
    /\ processed \in [Containers -> SUBSET Messages]
    /\ queue \in Seq(Events) /\ inflight \subseteq Events
    /\ botLast \subseteq Messages
    /\ indicators \in [Messages -> Int] /\ replies \in [Messages -> Nat]
    /\ faults \in Nat

LEMMA TakenType ==
    ASSUME NEW e
    PROVE  /\ Taken(e) \in SUBSET MarkNames /\ InPlace(e) \in SUBSET MarkNames
           /\ InPlace(e) \ {"asked"} \in SUBSET MarkNames
<1> HIDE DEF Actionable
<1>1. Taken(e) \in {{"asked"}, {}}
  BY DEF Taken
<1>2. InPlace(e) \in {{"asked"}, {"shadowed"}}
  BY DEF InPlace
<1> QED
  BY <1>1, <1>2 DEF MarkNames

LEMMA FaultType == ASSUME TypeOK, NEW kind, Fault(kind) PROVE faults' \in Nat
BY DEF Fault, TypeOK

LEMMA DeliverStep ==
    ASSUME TypeOK, JobInv, NEW c \in Acks, NEW e \in Events, Deliver(c, e)
    PROVE  TypeOK' /\ JobInv'
<1>1. e[1] \in Messages /\ c \in Containers /\ Taken(e) \in SUBSET MarkNames
  BY TakenType DEF Events, Containers
<1>2. Others'
  <2>1. sends' \in [Messages -> Nat]
    BY <1>1 DEF Deliver, TypeOK
  <2>2. botLast' \subseteq Messages
    BY <1>1 DEF Deliver, TypeOK
  <2>3. seen' \in [Containers -> SUBSET Messages]
    BY <1>1 DEF Deliver, TypeOK
  <2> QED
    BY <2>1, <2>2, <2>3 DEF Deliver, TypeOK, sqs, Others
<1>3. CASE UNCHANGED <<job, marks>>
  BY <1>2, <1>3 DEF TypeOK, Others, JobInv
<1>4. CASE UNCHANGED job /\ Marks(e[1], Taken(e))
  <2>1. /\ marks' \in [Messages -> SUBSET MarkNames]
        /\ \A n \in Messages : marks[n] \subseteq marks'[n]
    BY <1>1, <1>4, MarksStep
  <2>2. job[c] \in Job /\ JobOK(c, job[c], marks)
    BY <1>1 DEF TypeOK, JobInv
  <2>3. \A b \in Containers : \A f \in ToSet(job[b].todo) : f[1] \in Messages
    <3> SUFFICES ASSUME NEW b \in Containers
                 PROVE  \A f \in ToSet(job[b].todo) : f[1] \in Messages
      OBVIOUS
    <3>1. job[b].todo \in Seq(Events)
      BY DEF TypeOK, Job
    <3> QED
      BY <3>1, EntriesOf DEF Events
  <2>4. JobInv'
    BY <1>4, <2>1, <2>3 DEF JobInv, JobOK
  <2> QED
    BY <1>2, <1>4, <2>1, <2>4 DEF TypeOK, Others
<1>5. CASE job' = [job EXCEPT ![c] = [Idle EXCEPT !.pc = "enqueue", !.todo = <<e>>]] /\ UNCHANGED marks
  <2> DEFINE r == [Idle EXCEPT !.pc = "enqueue", !.todo = <<e>>]
  <2>1. <<e>> \in Seq(Events) /\ <<e>> # <<>> /\ ToSet(<<e>>) = {Head(<<e>>)}
    BY DEF ToSet
  <2>3. r \in Job /\ r.pc = "enqueue" /\ r.todo = <<e>> /\ ~r.shown /\ r.batch = <<>>
    <3> DEFINE todo == <<e>>
    <3>1. todo \in Seq(Events) /\ "enqueue" \in PCs
      BY <2>1 DEF PCs
    <3> HIDE DEF todo, r
    <3>2. /\ [Idle EXCEPT !.pc = "enqueue", !.todo = todo] \in Job
          /\ [Idle EXCEPT !.pc = "enqueue", !.todo = todo].pc = "enqueue"
          /\ [Idle EXCEPT !.pc = "enqueue", !.todo = todo].todo = todo
          /\ ~[Idle EXCEPT !.pc = "enqueue", !.todo = todo].shown
          /\ [Idle EXCEPT !.pc = "enqueue", !.todo = todo].batch = <<>>
      <4>1. Idle \in Job /\ Idle.batch = <<>> /\ ~Idle.shown
        BY IdleIsJob DEF Idle
      <4> QED
        BY <3>1, <4>1 DEF Job
    <3> QED
      BY <3>2, Zenon DEF todo, r
  <2>4. Moves(c, r)
    BY <1>5 DEF Moves
  <2> HIDE DEF r
  <2>5. JobOK(c, r, marks')
    BY <2>1, <2>3, ContainersApart DEF JobOK
  <2>6. job' \in [Containers -> Job] /\ JobInv'
    BY <1>1, <1>5, <2>3, <2>4, <2>5, JobStep
  <2> QED
    BY <1>2, <1>5, <2>6 DEF TypeOK, Others
<1> QED
  BY <1>3, <1>4, <1>5 DEF Deliver

LEMMA EnqueueStep ==
    ASSUME TypeOK, JobInv, NEW c \in Containers, Enqueue(c) \/ EnqueueFails(c)
    PROVE  TypeOK' /\ JobInv'
<1>1. /\ Event(c) \in Events /\ Current(c) \in Messages /\ Current(c) = Event(c)[1]
      /\ job[c] \in Job /\ job[c].pc = "enqueue"
  BY InHand DEF Enqueue, EnqueueFails, At, Current
<1>2. Taken(Event(c)) \in SUBSET MarkNames /\ InPlace(Event(c)) \in SUBSET MarkNames
  BY TakenType
<1>3. Accept(Event(c)) \/ UNCHANGED sqs
  BY DEF Enqueue, EnqueueFails
<1>4. queue' \in Seq(Events) /\ window' \subseteq Messages /\ inflight' \subseteq Events
  <2>1. queue \in Seq(Events) /\ window \subseteq Messages /\ inflight \subseteq Events
    BY DEF TypeOK
  <2> QED
    BY <1>1, <1>3, <2>1 DEF Accept, sqs
<1>5. Others'
  BY <1>4, FaultType DEF Enqueue, EnqueueFails, TypeOK, Others, slack
<1>6. CASE Enqueue(c)
  <2>1. /\ marks' \in [Messages -> SUBSET MarkNames]
        /\ \A n \in Messages : marks[n] \subseteq marks'[n]
    BY <1>1, <1>2, <1>6, MarksStep DEF Enqueue
  <2>2. Moves(c, Idle)
    BY <1>6 DEF Enqueue, Moves
  <2>3. job' \in [Containers -> Job] /\ JobInv'
    BY <2>1, <2>2, IdleIsJob, JobStep
  <2> QED
    BY <1>5, <2>1, <2>3 DEF TypeOK, Others
<1>7. CASE EnqueueFails(c)
  <2>1. PICK what \in SUBSET MarkNames : "fallback" \in what /\ Marks(Current(c), what)
    <3>1. {"fallback"} \cup InPlace(Event(c)) \in SUBSET MarkNames
      BY <1>2 DEF MarkNames
    <3>2. {"fallback"} \cup (InPlace(Event(c)) \ {"asked"}) \in SUBSET MarkNames
      BY TakenType DEF MarkNames
    <3> QED
      BY <1>7, <3>1, <3>2 DEF EnqueueFails
  <2>2. /\ marks' \in [Messages -> SUBSET MarkNames]
        /\ "fallback" \in marks'[Current(c)]
        /\ \A n \in Messages : marks[n] \subseteq marks'[n]
    BY <1>1, <2>1, MarksStep
  <2>3. PICK r \in Job : /\ Moves(c, r)
                         /\ r.pc = "claim" /\ r.batch = job[c].batch
                         /\ r.todo = job[c].todo /\ r.shown = job[c].shown
    BY <1>7, GotoJob DEF EnqueueFails, PCs
  <2>4. c \in Acks /\ JobOK(c, job[c], marks)
    BY <1>1 DEF JobInv, JobOK, Containers
  <2>5. \A e \in ToSet(job[c].todo) : e = Event(c)
    BY <1>1 DEF JobInv, JobOK, Event
  <2>6. JobOK(c, r, marks')
    BY <1>1, <2>2, <2>3, <2>4, <2>5, ContainersApart DEF JobOK
  <2>7. job' \in [Containers -> Job] /\ JobInv'
    BY <2>2, <2>3, <2>6, JobStep
  <2> QED
    BY <1>5, <2>2, <2>7 DEF TypeOK, Others
<1> QED
  BY <1>6, <1>7

LEMMA ReceiveStep ==
    ASSUME TypeOK, JobInv, NEW c \in Workers, Receive(c)
    PROVE  /\ TypeOK' /\ JobInv'
           /\ \E g : \E r \in Job :
                /\ Moves(c, r) /\ r.pc = "claim" /\ ~r.shown /\ r.todo = r.batch
                /\ \A e \in ToSet(r.batch) : e \in ToSet(queue) /\ Group(e[1]) = g
                /\ \A e \in inflight : Group(e[1]) # g
                /\ inflight' = inflight \cup ToSet(r.batch)
<1>1. PICK g \in {Group(m) : m \in Messages}, n \in 1 .. MaxBatch :
         /\ n <= Len(Waiting(g))
         /\ \A e \in inflight : Group(e[1]) # g
         /\ inflight' = inflight \cup ToSet(SubSeq(Waiting(g), 1, n))
         /\ job' = [job EXCEPT ![c] = [Idle EXCEPT !.pc = "claim",
                            !.batch = SubSeq(Waiting(g), 1, n), !.todo = SubSeq(Waiting(g), 1, n)]]
  BY DEF Receive
<1> DEFINE E == {e \in ToSet(queue) : e \in {f \in Events : Group(f[1]) = g}}
           batch == SubSeq(Waiting(g), 1, n)
           r == [Idle EXCEPT !.pc = "claim", !.batch = batch, !.todo = batch]
<1>2. queue \in Seq(Events) /\ E \subseteq Events
  BY DEF TypeOK
<1>3. Waiting(g) \in Seq(E)
  BY <1>2, AmongType DEF Waiting
<1>4. n \in 1 .. Len(Waiting(g))
  <2> HIDE DEF E
  <2> QED
    BY <1>1, <1>3, DeliveryAssumption
<1>5. batch \in Seq(E) /\ batch # <<>>
  <2> HIDE DEF E
  <2> QED
    BY <1>3, <1>4, Batching
<1>6. ToSet(batch) \subseteq E /\ batch \in Seq(Events)
  <2> HIDE DEF E, batch
  <2> QED
    BY <1>2, <1>5, EntriesOf
<1>7. /\ r \in Job /\ r.pc = "claim" /\ r.batch = batch /\ r.todo = batch /\ ~r.shown
      /\ Moves(c, r)
  <2> HIDE DEF batch
  <2>1. "claim" \in PCs
    BY DEF PCs
  <2>2. r \in Job /\ r.pc = "claim" /\ r.batch = batch /\ r.todo = batch /\ ~r.shown
    <3>1. batch \in Seq(Events)
      BY <1>6
    <3>2. /\ [Idle EXCEPT !.pc = "claim", !.batch = batch, !.todo = batch] \in Job
          /\ [Idle EXCEPT !.pc = "claim", !.batch = batch, !.todo = batch].pc = "claim"
          /\ [Idle EXCEPT !.pc = "claim", !.batch = batch, !.todo = batch].batch = batch
          /\ [Idle EXCEPT !.pc = "claim", !.batch = batch, !.todo = batch].todo = batch
          /\ ~[Idle EXCEPT !.pc = "claim", !.batch = batch, !.todo = batch].shown
      <4> HIDE DEF r
      <4>1. Idle \in Job /\ Idle.batch = <<>> /\ ~Idle.shown
        BY IdleIsJob DEF Idle
      <4> QED
        BY <2>1, <3>1, <4>1 DEF Job
    <3> QED
      BY <3>2
  <2> QED
    BY <1>1, <2>2 DEF Moves, batch
<1>8. \A e \in ToSet(batch) : e \in ToSet(queue) /\ e \in Events /\ Group(e[1]) = g
  BY <1>6
<1> HIDE DEF E, batch, r
<1>9. marks' = marks /\ c \in Containers /\ c \notin Acks
  BY ContainersApart DEF Receive, Containers
<1>10. JobOK(c, r, marks')
  BY <1>5, <1>7, <1>9 DEF JobOK
<1>11. job' \in [Containers -> Job] /\ JobInv'
  BY <1>7, <1>9, <1>10, JobStep
<1>12. inflight' = inflight \cup ToSet(batch)
  BY <1>1 DEF batch
<1>13. TypeOK'
  BY <1>8, <1>9, <1>11, <1>12 DEF Receive, TypeOK, slack
<1> QED
  BY <1>1, <1>7, <1>8, <1>11, <1>12, <1>13

\* The steps of a container that has come past the queue.
Handles(c) ==
    \/ Ignore(c) \/ Claim(c) \/ Skip(c) \/ ClaimFails(c) \/ GuardSkips(c) \/ GuardPasses(c)
    \/ PostIndicator(c) \/ PostFails(c) \/ Stream(c) \/ StreamFails(c) \/ Answer(c)
    \/ AgentBusy(c) \/ TransientError(c) \/ Reply(c) \/ ReplyFails(c) \/ Crash(c)

\* What such a step does to the job, the queue and the marks.
Carries(c, r) ==
    /\ Moves(c, r)
    /\ \A mk : JobOK(c, job[c], mk) => JobOK(c, r, mk)
    /\ r # Idle => r.batch = job[c].batch /\ inflight' = inflight
    /\ r # Idle => ToSet(r.todo) \subseteq ToSet(job[c].todo)

LEMMA Carrying ==
    ASSUME TypeOK, JobInv, NEW c \in Containers, NEW r \in Job, Moves(c, r),
           \/ r = Idle
           \/ /\ job[c].pc \notin {"idle", "enqueue"}
              /\ r.pc \notin {"idle", "enqueue"} /\ r.batch = job[c].batch /\ inflight' = inflight
              /\ r.todo # <<>> /\ ToSet(r.todo) \subseteq ToSet(job[c].todo)
              /\ r.shown => r.pc \in {"stream", "invoke", "reply"}
    PROVE  Carries(c, r)
<1>1. CASE r = Idle
  BY <1>1, IdleIsJob DEF Carries
<1>2. CASE r # Idle
  <2>1. /\ job[c].pc \notin {"idle", "enqueue"}
        /\ r.pc \notin {"idle", "enqueue"} /\ r.batch = job[c].batch /\ inflight' = inflight
        /\ r.todo # <<>> /\ ToSet(r.todo) \subseteq ToSet(job[c].todo)
        /\ r.shown => r.pc \in {"stream", "invoke", "reply"}
    BY <1>2
  <2> HIDE DEF Moves
  <2> QED
    BY <2>1 DEF Carries, JobOK
<1> QED
  BY <1>1, <1>2

\* The four ways in which it may go on.
GoesOn(c) ==
    \/ Return(c) /\ job[c].pc # "enqueue"
    \/ \E pc \in PCs \ {"idle", "enqueue"} :
            /\ Goto(c, pc) /\ UNCHANGED sqs /\ job[c].pc # "enqueue"
            /\ job[c].shown => pc \in {"stream", "invoke", "reply"}
    \/ PostIndicator(c)
    \/ Moves(c, Idle) /\ UNCHANGED sqs

LEMMA GoingOn ==
    ASSUME TypeOK, JobInv, NEW c \in Containers, Handles(c)
    PROVE  /\ job[c].pc # "idle"
           /\ UNCHANGED marks \/ \E what \in SUBSET MarkNames : Marks(Current(c), what)
           /\ GoesOn(c)
<1>1. job[c].shown => job[c].pc \in {"stream", "invoke", "reply"}
  BY DEF JobInv, JobOK
<1> USE DEF At, MarkNames, GoesOn
<1>2. CASE Ignore(c) \/ Skip(c)
  BY <1>2 DEF Ignore, Skip, Claiming
<1>3. CASE Claim(c) \/ ClaimFails(c)
  <2>1. job[c].pc = "claim" /\ ~job[c].shown /\ Admitted(c)
    BY <1>1, <1>3 DEF Claim, ClaimFails, Claiming
  <2>2. \E pc \in {"guard", "post"} : Goto(c, pc) /\ UNCHANGED sqs
    BY <2>1 DEF Admitted
  <2>3. GoesOn(c)
    BY <2>1, <2>2 DEF PCs
  <2>4. UNCHANGED marks \/ Marks(Current(c), {"open"})
    BY <1>3 DEF Claim, ClaimFails, Mark
  <2> QED
    BY <2>1, <2>3, <2>4
<1>4. CASE GuardSkips(c)
  BY <1>4 DEF GuardSkips, Mark
<1>5. CASE GuardPasses(c) \/ PostFails(c) \/ Stream(c) \/ StreamFails(c) \/ Answer(c)
  <2>1. UNCHANGED marks \/ Marks(Current(c), {"unheard"})
    BY <1>5 DEF GuardPasses, PostFails, Stream, StreamFails, Answer, Mark
  <2>2. GoesOn(c) /\ job[c].pc # "idle"
    BY <1>1, <1>5 DEF GuardPasses, PostFails, Stream, StreamFails, Answer, PCs, sqs
  <2> QED
    BY <2>1, <2>2
<1>6. CASE PostIndicator(c)
  BY <1>6 DEF PostIndicator
<1>7. CASE AgentBusy(c)
  BY <1>7 DEF AgentBusy, Mark, Raise, Moves
<1>8. CASE TransientError(c)
  <2>1. \/ Marks(Current(c), {"failed"})
        \/ Marks(Current(c), {"failed", "refused"})
    BY <1>8 DEF TransientError, DeleteIndicator, Mark, Marks
  <2> QED
    BY <1>8, <2>1 DEF TransientError, Raise, Moves
<1>9. CASE Reply(c) \/ ReplyFails(c)
  BY <1>9 DEF Reply, ReplyFails, Mark
<1>10. CASE Crash(c)
  <2>1. UNCHANGED marks \/ Marks(Current(c), {"crashed"})
    BY <1>10 DEF Crash, Mark
  <2> QED
    BY <1>10, <2>1 DEF Crash, Moves, sqs
<1> QED
  BY <1>2, <1>3, <1>4, <1>5, <1>6, <1>7, <1>8, <1>9, <1>10 DEF Handles

LEMMA HandleJob ==
    ASSUME TypeOK, JobInv, NEW c \in Containers, Handles(c)
    PROVE  /\ \E r \in Job : Carries(c, r)
           /\ marks' \in [Messages -> SUBSET MarkNames]
           /\ \A n \in Messages : marks[n] \subseteq marks'[n]
           /\ window' = window
           /\ queue' \in Seq(Events) /\ ToSet(queue') \subseteq ToSet(queue)
           /\ inflight' = inflight \/ inflight' = inflight \ ToSet(job[c].batch)
<1>1. /\ job[c].pc # "idle" /\ Current(c) \in Messages
      /\ UNCHANGED marks \/ \E what \in SUBSET MarkNames : Marks(Current(c), what)
  BY GoingOn, InHand
<1>2. /\ marks' \in [Messages -> SUBSET MarkNames]
      /\ \A n \in Messages : marks[n] \subseteq marks'[n]
  <2>1. CASE UNCHANGED marks
    BY <2>1 DEF TypeOK
  <2> QED
    BY <1>1, <2>1, MarksStep
<1>3. /\ job[c] \in Job /\ job[c].todo # <<>>
      /\ job[c].shown => job[c].pc \in {"stream", "invoke", "reply"}
  BY <1>1 DEF TypeOK, JobInv, JobOK
<1>4. UNCHANGED sqs => /\ window' = window /\ inflight' = inflight
                       /\ queue' \in Seq(Events) /\ ToSet(queue') \subseteq ToSet(queue)
  BY DEF sqs, TypeOK
<1>5. CASE Return(c) /\ job[c].pc # "enqueue"
  <2>1. PICK r \in Job :
                /\ Moves(c, r) /\ ~r.shown
                /\ \/ r = Idle
                   \/ /\ r.pc = "claim" /\ r.batch = job[c].batch
                      /\ inflight' = inflight
                      /\ r.todo # <<>> /\ ToSet(r.todo) \subseteq ToSet(job[c].todo)
    BY <1>1, <1>5, ReturnJob DEF At
  <2>2. Carries(c, r)
    BY <1>1, <1>5, <2>1, Carrying
  <2> QED
    BY <1>1, <1>2, <1>5, <2>2, ReturnJob DEF At
<1>6. ASSUME NEW pc \in PCs \ {"idle", "enqueue"},
             Goto(c, pc), UNCHANGED sqs, job[c].pc # "enqueue",
             job[c].shown => pc \in {"stream", "invoke", "reply"}
      PROVE  \E r \in Job : Carries(c, r)
  <2>1. PICK r \in Job : /\ Moves(c, r)
                         /\ r.pc = pc /\ r.batch = job[c].batch
                         /\ r.todo = job[c].todo /\ r.shown = job[c].shown
    BY <1>6, GotoJob
  <2>2. Carries(c, r)
    BY <1>1, <1>3, <1>4, <1>6, <2>1, Carrying
  <2> QED
    BY <2>2
<1>7. CASE PostIndicator(c)
  <2> DEFINE r == [job[c] EXCEPT !.pc = "stream", !.shown = TRUE]
  <2>1. /\ r \in Job /\ r.pc = "stream" /\ r.batch = job[c].batch
        /\ r.todo = job[c].todo /\ r.shown
    BY <1>3 DEF Job, PCs
  <2>2. Moves(c, r) /\ UNCHANGED sqs /\ job[c].pc = "post"
    BY <1>7 DEF PostIndicator, Moves, At
  <2> HIDE DEF r
  <2>3. Carries(c, r)
    BY <1>3, <1>4, <2>1, <2>2, Carrying
  <2> QED
    BY <1>2, <1>4, <2>1, <2>2, <2>3
<1>8. CASE Moves(c, Idle) /\ UNCHANGED sqs
  <2>1. Carries(c, Idle)
    BY <1>8, IdleIsJob, Carrying
  <2> QED
    BY <1>2, <1>4, <1>8, <2>1, IdleIsJob
<1> QED
  BY <1>2, <1>4, <1>5, <1>6, <1>7, <1>8, GoingOn DEF GoesOn

LEMMA HandleStep ==
    ASSUME TypeOK, JobInv, NEW c \in Containers, Handles(c)
    PROVE  TypeOK' /\ JobInv'
<1>1. job[c].pc # "idle" /\ Current(c) \in Messages
  BY GoingOn, InHand
<1>2. PICK r \in Job : Carries(c, r)
  BY HandleJob
<1>3. job' \in [Containers -> Job] /\ JobInv'
  <2>1. JobOK(c, job[c], marks')
    <3>1. job[c].todo \in Seq(Events) /\ JobOK(c, job[c], marks)
      BY DEF TypeOK, Job, JobInv
    <3>2. \A e \in ToSet(job[c].todo) : e[1] \in Messages
      BY <3>1, EntriesOf DEF Events
    <3>3. \A n \in Messages : marks[n] \subseteq marks'[n]
      BY HandleJob
    <3> QED
      BY <3>1, <3>2, <3>3 DEF JobOK
  <2>2. JobOK(c, r, marks') /\ Moves(c, r)
    BY <1>2, <2>1 DEF Carries
  <2> QED
    BY <2>2, HandleJob, JobStep
<1>4. /\ queue' \in Seq(Events) /\ window' \subseteq Messages /\ inflight' \subseteq Events
      /\ marks' \in [Messages -> SUBSET MarkNames]
  BY HandleJob DEF TypeOK
<1>5. UNCHANGED <<sends, old, seen>> \/ Crash(c)
  BY DEF Handles, Ignore, Claim, Skip, ClaimFails, GuardSkips, GuardPasses, PostIndicator,
         PostFails, Stream, StreamFails, Answer, AgentBusy, TransientError, Reply, ReplyFails
<1>6. sends' = sends /\ old' = old /\ seen' \in [Containers -> SUBSET Messages]
  BY <1>5 DEF Crash, TypeOK
<1>7. faults' \in Nat
  <2>1. UNCHANGED faults \/ \E kind : Fault(kind)
    BY DEF Handles, Ignore, Claim, Skip, ClaimFails, GuardSkips, GuardPasses, PostIndicator,
           PostFails, Stream, StreamFails, Answer, AgentBusy, TransientError, Reply, ReplyFails,
           Crash, FaultAgain
  <2> QED
    BY <2>1, FaultType DEF TypeOK
<1>8. /\ processed' \in [Containers -> SUBSET Messages]
      /\ claimed' \subseteq Messages
  <2>1. UNCHANGED claimed \/ claimed' = claimed \cup {Current(c)}
    BY DEF Handles, Ignore, Claim, Skip, ClaimFails, GuardSkips, GuardPasses, PostIndicator, slack,
           PostFails, Stream, StreamFails, Answer, AgentBusy, TransientError, Reply, ReplyFails,
           Crash
  <2>2. \/ UNCHANGED processed
        \/ processed' = [processed EXCEPT ![c] = @ \cup {Current(c)}]
        \/ processed' = [processed EXCEPT ![c] = {}]
    BY DEF Handles, Ignore, Claim, Skip, ClaimFails, GuardSkips, GuardPasses, PostIndicator, slack,
           PostFails, Stream, StreamFails, Answer, AgentBusy, TransientError, Reply, ReplyFails,
           Crash, Admitted
  <2> QED
    BY <1>1, <2>1, <2>2, ZenonT(30) DEF TypeOK
<1>9. /\ botLast' \subseteq Messages
      /\ indicators' \in [Messages -> Int] /\ replies' \in [Messages -> Nat]
  <2>1. UNCHANGED botLast \/ BotPosts(Current(c))
    BY DEF Handles, Ignore, Claim, Skip, ClaimFails, GuardSkips, GuardPasses, PostIndicator, slack,
           PostFails, Stream, StreamFails, Answer, AgentBusy, TransientError, Reply, ReplyFails,
           Crash
  <2>2. botLast' \subseteq Messages
    BY <1>1, <2>1, DeliveryAssumption DEF BotPosts, SameDM, TypeOK
  <2>3. \/ UNCHANGED indicators
        \/ indicators' = [indicators EXCEPT ![Current(c)] = @ + 1]
        \/ indicators' = [indicators EXCEPT ![Current(c)] = @ - 1]
    BY DEF Handles, Ignore, Claim, Skip, ClaimFails, GuardSkips, GuardPasses, PostIndicator, slack,
           PostFails, Stream, StreamFails, Answer, AgentBusy, TransientError, DeleteIndicator,
           Reply, ReplyFails, Crash
  <2>4. UNCHANGED replies \/ replies' = [replies EXCEPT ![Current(c)] = @ + 1]
    BY DEF Handles, Ignore, Claim, Skip, ClaimFails, GuardSkips, GuardPasses, PostIndicator, slack,
           PostFails, Stream, StreamFails, Answer, AgentBusy, TransientError, Reply, ReplyFails,
           Crash
  <2>5. indicators' \in [Messages -> Int]
    BY <1>1, <2>3 DEF TypeOK
  <2>6. replies' \in [Messages -> Nat]
    <3>1. replies \in [Messages -> Nat] /\ replies[Current(c)] + 1 \in Nat
      BY <1>1 DEF TypeOK
    <3>2. CASE replies' = [replies EXCEPT ![Current(c)] = @ + 1]
      BY <3>1, <3>2
    <3> QED
      BY <2>4, <3>1, <3>2
  <2> QED
    BY <2>2, <2>5, <2>6
<1> QED
  BY <1>3, <1>4, <1>6, <1>7, <1>8, <1>9 DEF TypeOK

\* The steps of SQS and of time, and of none.
Outside ==
    \/ \E c \in Containers : Forget(c)
    \/ \E e \in Events : VisibleAgain(e) \/ TimesOut(e)
    \/ \E m \in Messages : WindowEnds(m) \/ GrowsOld(m) \/ RowExpires(m)
    \/ UNCHANGED vars

LEMMA OutsideStep ==
    ASSUME TypeOK, JobInv, Outside
    PROVE  /\ TypeOK' /\ JobInv' /\ job' = job /\ queue' = queue /\ slack' = slack
           /\ \A n \in Messages : marks[n] \subseteq marks'[n]
<1>1. job' = job /\ queue' = queue /\ slack' = slack
  BY DEF Outside, Forget, VisibleAgain, TimesOut, Reappears, WindowEnds, GrowsOld, RowExpires,
         vars, sqs
<1>2. /\ marks' \in [Messages -> SUBSET MarkNames]
      /\ \A n \in Messages : marks[n] \subseteq marks'[n]
  <2>1. CASE UNCHANGED marks
    BY <2>1 DEF TypeOK
  <2>2. ASSUME NEW e \in Events, TimesOut(e)
        PROVE  <1>2
    <3>1. e[1] \in Messages /\ {"timeout"} \in SUBSET MarkNames
      BY DEF Events, MarkNames
    <3> QED
      BY <2>2, <3>1, MarksStep DEF TimesOut, Mark
  <2> QED
    BY <2>1, <2>2
       DEF Outside, Forget, VisibleAgain, WindowEnds, GrowsOld, RowExpires, vars
<1>3. /\ sends' = sends /\ old' \subseteq Messages /\ window' \subseteq Messages
      /\ claimed' \subseteq Messages /\ inflight' \subseteq Events
      /\ seen' \in [Containers -> SUBSET Messages]
      /\ processed' \in [Containers -> SUBSET Messages]
  BY DEF Outside, Forget, VisibleAgain, TimesOut, Reappears, WindowEnds, GrowsOld, RowExpires,
         vars, sqs, TypeOK
<1>4. faults' \in Nat
  <2>1. UNCHANGED faults \/ \E kind : Fault(kind)
    BY DEF Outside, Forget, VisibleAgain, TimesOut, WindowEnds, GrowsOld, RowExpires, vars
  <2> QED
    BY <2>1, FaultType DEF TypeOK
<1>5. JobInv'
  <2>1. \A c \in Containers : \A f \in ToSet(job[c].todo) : f[1] \in Messages
    <3> SUFFICES ASSUME NEW c \in Containers
                 PROVE  \A f \in ToSet(job[c].todo) : f[1] \in Messages
      OBVIOUS
    <3>1. job[c].todo \in Seq(Events)
      BY DEF TypeOK, Job
    <3> QED
      BY <3>1, EntriesOf DEF Events
  <2> QED
    BY <1>1, <1>2, <2>1 DEF JobInv, JobOK
<1> QED
  BY <1>1, <1>2, <1>3, <1>4, <1>5 DEF TypeOK, slack

LEMMA Steps ==
    ASSUME [Next]_vars
    PROVE  \/ \E c \in Acks, e \in Events : Deliver(c, e)
           \/ \E c \in Containers : Enqueue(c) \/ EnqueueFails(c)
           \/ \E c \in Workers : Receive(c)
           \/ \E c \in Containers : Handles(c)
           \/ Outside
BY DEF Next, Work, Break, Handles, Outside

LEMMA TypeInit == Init => TypeOK /\ JobInv
<1> SUFFICES ASSUME Init PROVE TypeOK /\ JobInv
  OBVIOUS
<1>1. JobInv
  BY IdleIsJob DEF Init, JobInv
<1>2. job \in [Containers -> Job]
  BY IdleIsJob DEF Init
<1> QED
  BY <1>1, <1>2 DEF Init, TypeOK

LEMMA TypeNext == TypeOK /\ JobInv /\ [Next]_vars => TypeOK' /\ JobInv'
BY Steps, DeliverStep, EnqueueStep, ReceiveStep, HandleStep, OutsideStep

----------------------------------------------------------------------------
(* One reply *)

\* Container c has passed the claim of message m.
Past(c, m) ==
    /\ job[c].pc \in {"guard", "post", "stream", "invoke", "reply"}
    /\ Current(c) = m

\* No event of m will be handled any more.
Gone(m) == m \in old /\ ~OfMessage(queue, m) /\ ~Handled(m)

\* At most one container has passed the claim of m; while it is at work there
\* is a row and no reply, and when the row has expired either there is no reply
\* or m is gone.
ClaimOK(m) ==
    /\ replies[m] <= 1
    /\ \A c \in Containers : Past(c, m) => m \in claimed /\ replies[m] = 0
    /\ \A b, c \in Containers : Past(b, m) /\ Past(c, m) => b = c
    /\ m \notin claimed => replies[m] = 0 \/ Gone(m)

ClaimInv == \A m \in Messages : "open" \in marks[m] \/ ClaimOK(m)

LEMMA Appended ==
    ASSUME NEW S, NEW s \in Seq(S), NEW e \in S
    PROVE  ToSet(Append(s, e)) = ToSet(s) \cup {e}
<1>1. /\ Append(s, e) \in Seq(S) /\ Len(Append(s, e)) = Len(s) + 1 /\ Len(s) \in Nat
      /\ \A i \in 1 .. Len(s) : Append(s, e)[i] = s[i]
      /\ Append(s, e)[Len(s) + 1] = e
  OBVIOUS
<1>2. DOMAIN Append(s, e) = 1 .. Len(s) + 1 /\ DOMAIN s = 1 .. Len(s)
  BY <1>1
<1>3. 1 .. Len(s) + 1 = (1 .. Len(s)) \cup {Len(s) + 1}
  BY <1>1
<1> QED
  BY <1>1, <1>2, <1>3 DEF ToSet

\* A step that gives container c a job of events that are not of m, or that the
\* container or the queue has had.
LEMMA GoneKept ==
    ASSUME TypeOK, TypeOK', NEW m \in Messages, Gone(m), old \subseteq old',
           \A e \in ToSet(queue') : e[1] = m => e \in ToSet(queue) \/ Handled(m),
           \A b \in Containers : \A e \in ToSet(job'[b].todo) :
                e[1] = m => e \in ToSet(job[b].todo) \cup ToSet(queue)
    PROVE  Gone(m)'
<1>1. queue \in Seq(Events) /\ queue' \in Seq(Events)
  BY DEF TypeOK
<1>2. ~OfMessage(queue', m)
  BY <1>1, EntriesOf DEF Gone
<1>3. ASSUME NEW b \in Containers PROVE ~OfMessage(job'[b].todo, m)
  <2>1. job[b].todo \in Seq(Events) /\ job'[b].todo \in Seq(Events)
    BY DEF TypeOK, Job
  <2>2. ~OfMessage(job[b].todo, m) /\ ~OfMessage(queue, m)
    BY DEF Gone, Handled
  <2> QED
    BY <1>1, <2>1, <2>2, EntriesOf
<1> QED
  BY <1>2, <1>3 DEF Gone, Handled

LEMMA ClaimKept ==
    ASSUME NEW m \in Messages, ClaimOK(m), replies'[m] = replies[m],
           m \in claimed => m \in claimed', Gone(m) => Gone(m)',
           \A c \in Containers : Past(c, m)' => Past(c, m)
    PROVE  ClaimOK(m)'
BY DEF ClaimOK

LEMMA MovedJob ==
    ASSUME TypeOK, NEW c \in Containers, NEW r, Moves(c, r)
    PROVE  /\ job'[c] = r /\ Head(job'[c].todo) = Head(r.todo)
           /\ \A b \in Containers \ {c} : job'[b] = job[b]
BY DEF Moves, TypeOK

LEMMA DeliverClaim ==
    ASSUME TypeOK, JobInv, TypeOK', NEW m \in Messages, ClaimOK(m),
           NEW c \in Acks, NEW e \in Events, Deliver(c, e)
    PROVE  ClaimOK(m)'
<1>1. UNCHANGED <<replies, claimed, old, queue>> /\ c \in Containers
  BY DEF Deliver, sqs, Containers
<1>2. CASE UNCHANGED job
  BY <1>1, <1>2, ClaimKept DEF Past, Current, Event, Gone, Handled
<1>3. CASE job' = [job EXCEPT ![c] = [Idle EXCEPT !.pc = "enqueue", !.todo = <<e>>]] /\ e[1] \notin old
  <2> DEFINE r == [Idle EXCEPT !.pc = "enqueue", !.todo = <<e>>]
  <2>1. job'[c] = r /\ \A b \in Containers \ {c} : job'[b] = job[b]
    BY <1>1, <1>3, MovedJob DEF Moves
  <2>2. r.pc = "enqueue" /\ r.todo = <<e>>
    BY DEF Idle
  <2> HIDE DEF r
  <2>3. ToSet(r.todo) = {e}
    BY <2>2 DEF ToSet
  <2>4. ASSUME Gone(m) PROVE Gone(m)'
    <3>1. m # e[1]
      BY <1>3, <2>4 DEF Gone
    <3> QED
      BY <1>1, <2>1, <2>3, <2>4, <3>1, GoneKept
  <2> QED
    BY <1>1, <2>1, <2>2, <2>4, ClaimKept DEF Past, Current, Event
<1> QED
  BY <1>2, <1>3 DEF Deliver, Stale

LEMMA EnqueueClaim ==
    ASSUME TypeOK, JobInv, TypeOK', NEW m \in Messages, ClaimOK(m),
           NEW c \in Containers, Enqueue(c) \/ EnqueueFails(c)
    PROVE  ClaimOK(m)'
<1>1. UNCHANGED <<replies, claimed, old>> /\ job[c].pc = "enqueue"
  BY DEF Enqueue, EnqueueFails, slack, At
<1>2. Event(c) \in Events /\ Current(c) = Event(c)[1] /\ Handled(Current(c))
  BY <1>1, InHand DEF Current
<1>3. PICK r \in Job : Moves(c, r) /\ ToSet(r.todo) \subseteq ToSet(job[c].todo) /\ r.pc \in {"idle", "claim"}
  <2>1. CASE Enqueue(c)
    BY <2>1, IdleIsJob DEF Enqueue, Moves, Idle
  <2>2. CASE EnqueueFails(c)
    <3>1. Goto(c, "claim") /\ "claim" \in PCs
      BY <2>2 DEF EnqueueFails, PCs
    <3> QED
      BY <3>1, GotoJob
  <2> QED
    BY <2>1, <2>2
<1>4. job'[c] = r /\ \A b \in Containers \ {c} : job'[b] = job[b]
  BY <1>3, MovedJob
<1>5. ToSet(queue') \subseteq ToSet(queue) \cup {Event(c)}
  <2>1. queue' = queue \/ queue' = Append(queue, Event(c))
    BY DEF Enqueue, EnqueueFails, Accept, sqs
  <2>2. queue \in Seq(Events)
    BY DEF TypeOK
  <2>3. ToSet(Append(queue, Event(c))) = ToSet(queue) \cup {Event(c)}
    BY <1>2, <2>2, Appended
  <2> QED
    BY <2>1, <2>3, Zenon
<1>6. Gone(m) => Gone(m)'
  BY <1>1, <1>2, <1>3, <1>4, <1>5, GoneKept
<1> QED
  BY <1>1, <1>3, <1>4, <1>6, ClaimKept DEF Past, Current, Event

LEMMA ReceiveClaim ==
    ASSUME TypeOK, JobInv, TypeOK', NEW m \in Messages, ClaimOK(m),
           NEW c \in Workers, Receive(c)
    PROVE  ClaimOK(m)'
<1>1. UNCHANGED <<replies, claimed, old, queue>> /\ c \in Containers
  BY DEF Receive, slack, Containers
<1>2. PICK r \in Job : /\ Moves(c, r) /\ r.pc = "claim" /\ r.todo = r.batch
                       /\ \A e \in ToSet(r.batch) : e \in ToSet(queue)
  BY ReceiveStep
<1>3. job'[c] = r /\ \A b \in Containers \ {c} : job'[b] = job[b]
  BY <1>1, <1>2, MovedJob
<1>4. Gone(m) => Gone(m)'
  BY <1>1, <1>2, <1>3, GoneKept
<1> QED
  BY <1>1, <1>2, <1>3, <1>4, ClaimKept DEF Past, Current, Event

\* A claim makes the one container that has passed it, if the row is written, and
\* Reply makes it one that has not; the other steps do neither.
LEMMA HandleClaim ==
    ASSUME TypeOK, JobInv, TypeOK', NEW m \in Messages, ClaimOK(m),
           NEW c \in Containers, Handles(c), "open" \notin marks'[m]
    PROVE  ClaimOK(m)'
<1>1. /\ job[c].pc # "idle" /\ Current(c) \in Messages /\ Handled(Current(c))
      /\ UNCHANGED old
  <2>1. UNCHANGED old
    BY DEF Handles, Ignore, Claim, Skip, ClaimFails, GuardSkips, GuardPasses, PostIndicator,
           PostFails, Stream, StreamFails, Answer, AgentBusy, TransientError, Reply, ReplyFails,
           Crash
  <2> QED
    BY <2>1, GoingOn, InHand
<1>2. PICK r \in Job : Carries(c, r)
  BY HandleJob
<1>3. job'[c] = r /\ \A b \in Containers \ {c} : job'[b] = job[b]
  BY <1>2, MovedJob DEF Carries
<1>4. ToSet(r.todo) \subseteq ToSet(job[c].todo)
  BY <1>2, IdleIsJob DEF Carries, Idle
<1>5. Gone(m) => Gone(m)'
  BY <1>1, <1>3, <1>4, HandleJob, GoneKept
<1>6. \A b \in Containers \ {c} : Past(b, m)' <=> Past(b, m)
  BY <1>3 DEF Past, Current, Event
<1>7. ASSUME Return(c), job[c].pc # "enqueue" PROVE ~Past(c, m)'
  <2>1. PICK q \in Job : Moves(c, q) /\ (q = Idle \/ q.pc = "claim")
    BY <1>1, <1>7, ReturnJob DEF At
  <2>2. job'[c] = q
    BY <2>1, MovedJob
  <2> QED
    BY <2>1, <2>2 DEF Past, Idle
<1>8. ASSUME NEW pc \in PCs, Goto(c, pc)
      PROVE  job'[c].pc = pc /\ job'[c].todo = job[c].todo
  <2>1. PICK q \in Job : Moves(c, q) /\ q.pc = pc /\ q.todo = job[c].todo
    BY <1>8, GotoJob
  <2> QED
    BY <2>1, MovedJob
<1>9. CASE Ignore(c) \/ Skip(c) \/ GuardSkips(c) \/ ReplyFails(c)
  <2>1. Return(c) /\ job[c].pc # "enqueue" /\ UNCHANGED <<replies, claimed>>
    BY <1>9 DEF Ignore, Skip, GuardSkips, ReplyFails, Claiming, At, slack
  <2> QED
    BY <1>5, <1>6, <1>7, <2>1, ClaimKept
<1>10. CASE AgentBusy(c) \/ TransientError(c) \/ Crash(c)
  <2>1. job'[c] = Idle /\ UNCHANGED <<replies, claimed>>
    BY <1>10 DEF AgentBusy, TransientError, Crash, Raise, slack, TypeOK
  <2>2. ~Past(c, m)'
    BY <2>1 DEF Past, Idle
  <2> QED
    BY <1>5, <1>6, <2>1, <2>2, ClaimKept
<1>11. CASE GuardPasses(c) \/ PostFails(c) \/ Stream(c) \/ StreamFails(c) \/ Answer(c)
  <2>1. /\ job[c].pc \in {"guard", "post", "stream", "invoke"}
        /\ UNCHANGED <<replies, claimed>> /\ \E pc \in PCs : Goto(c, pc)
    BY <1>11 DEF GuardPasses, PostFails, Stream, StreamFails, Answer, At, slack, PCs
  <2>2. Past(c, m)' => Past(c, m)
    BY <1>8, <2>1 DEF Past, Current, Event
  <2> QED
    BY <1>5, <1>6, <2>1, <2>2, ClaimKept
<1>12. CASE PostIndicator(c)
  <2>1. /\ job[c].pc = "post" /\ UNCHANGED <<replies, claimed>>
        /\ job' = [job EXCEPT ![c].pc = "stream", ![c].shown = TRUE]
    BY <1>12 DEF PostIndicator, At
  <2>2. job'[c].todo = job[c].todo
    BY <2>1 DEF TypeOK, Job
  <2>3. Past(c, m)' => Past(c, m)
    BY <2>1, <2>2 DEF Past, Current, Event
  <2> QED
    BY <1>5, <1>6, <2>1, <2>3, ClaimKept
<1>13. CASE Claim(c) \/ ClaimFails(c)
  <2>1. /\ replies' = replies /\ claimed \subseteq claimed' /\ job[c].pc = "claim"
        /\ \E pc \in PCs : Goto(c, pc)
    BY <1>13 DEF Claim, ClaimFails, Admitted, Claiming, slack, PCs, At
  <2>2. job'[c].todo = job[c].todo
    BY <1>8, <2>1
  <2>3. CASE m # Current(c)
    <3>1. ~Past(c, m)'
      BY <2>2, <2>3 DEF Past, Current, Event
    <3> QED
      BY <1>5, <1>6, <2>1, <3>1, ClaimKept
  <2>4. CASE m = Current(c) /\ Claim(c)
    <3>1. m \notin claimed /\ m \in claimed'
      BY <2>4 DEF Claim
    <3>2. replies[m] = 0 /\ \A b \in Containers : ~Past(b, m)
      BY <1>1, <2>4, <3>1 DEF ClaimOK, Gone
    <3> QED
      BY <1>6, <2>1, <3>1, <3>2 DEF ClaimOK
  <2>5. CASE m = Current(c) /\ ClaimFails(c)
    <3>1. "open" \in marks'[m]
      BY <2>5 DEF ClaimFails, Mark, Marks, TypeOK
    <3> QED
      BY <3>1
  <2> QED
    BY <1>13, <2>3, <2>4, <2>5
<1>14. CASE Reply(c)
  <2>1. /\ job[c].pc = "reply" /\ claimed' = claimed /\ Return(c)
        /\ replies' = [replies EXCEPT ![Current(c)] = @ + 1]
    BY <1>14 DEF Reply, At
  <2>2. ~Past(c, m)'
    BY <1>7, <2>1
  <2>3. CASE m # Current(c)
    <3>1. replies'[m] = replies[m]
      BY <2>1, <2>3 DEF TypeOK
    <3> QED
      BY <1>5, <1>6, <2>1, <2>2, <3>1, ClaimKept
  <2>4. CASE m = Current(c)
    <3>1. Past(c, m)
      BY <2>1, <2>4 DEF Past
    <3>2. replies[m] = 0 /\ m \in claimed /\ \A b \in Containers : Past(b, m) => b = c
      BY <3>1 DEF ClaimOK
    <3>3. replies'[m] = 1
      BY <2>1, <2>4, <3>2 DEF TypeOK
    <3>4. \A b \in Containers : ~Past(b, m)'
      BY <1>6, <2>2, <3>2
    <3> QED
      BY <2>1, <3>2, <3>3, <3>4 DEF ClaimOK
  <2> QED
    BY <2>3, <2>4
<1> QED
  BY <1>9, <1>10, <1>11, <1>12, <1>13, <1>14 DEF Handles

LEMMA OutsideClaim ==
    ASSUME TypeOK, JobInv, TypeOK', NEW m \in Messages, ClaimOK(m), Outside
    PROVE  ClaimOK(m)'
<1>1. UNCHANGED <<job, queue, replies>>
  BY OutsideStep DEF slack
<1>2. old \subseteq old'
  BY DEF Outside, Forget, VisibleAgain, TimesOut, Reappears, WindowEnds, GrowsOld, RowExpires,
         vars
<1>3. Gone(m) => Gone(m)'
  BY <1>1, <1>2, GoneKept
<1>4. \A c \in Containers : Past(c, m)' <=> Past(c, m)
  BY <1>1 DEF Past, Current, Event
<1>5. CASE m \in claimed => m \in claimed'
  BY <1>1, <1>3, <1>4, <1>5, ClaimKept
<1>6. CASE RowExpires(m)
  <2>1. Gone(m)
    BY <1>6 DEF RowExpires, Gone
  <2>2. ASSUME NEW c \in Containers PROVE ~Past(c, m)
    <3>1. job[c].pc # "idle" => Handled(Current(c))
      BY InHand
    <3> QED
      BY <2>1, <3>1 DEF Gone, Past
  <2> QED
    BY <1>1, <1>3, <1>4, <2>1, <2>2 DEF ClaimOK
<1>7. \/ claimed' = claimed
      \/ \E n \in Messages : claimed' = claimed \ {n} /\ RowExpires(n)
  BY DEF Outside, Forget, VisibleAgain, TimesOut, Reappears, WindowEnds, GrowsOld, RowExpires,
         vars
<1> QED
  BY <1>5, <1>6, <1>7

LEMMA ClaimInit == Init => ClaimInv
BY DEF Init, ClaimInv, ClaimOK, Past, Idle

LEMMA MarksGrow ==
    ASSUME TypeOK, JobInv, [Next]_vars, NEW m \in Messages
    PROVE  marks[m] \subseteq marks'[m]
<1>1. ASSUME NEW c \in Acks, NEW e \in Events, Deliver(c, e)
      PROVE  marks[m] \subseteq marks'[m]
  <2>1. e[1] \in Messages /\ Taken(e) \in SUBSET MarkNames
    BY TakenType DEF Events
  <2> QED
    BY <1>1, <2>1, MarksStep DEF Deliver
<1>2. ASSUME NEW c \in Containers, Enqueue(c) \/ EnqueueFails(c)
      PROVE  marks[m] \subseteq marks'[m]
  <2>1. \E what : Marks(Current(c), what)
    BY <1>2 DEF Enqueue, EnqueueFails
  <2> QED
    BY <2>1 DEF Marks, TypeOK
<1>3. ASSUME NEW c \in Workers, Receive(c) PROVE marks' = marks
  BY <1>3 DEF Receive
<1> QED
  BY <1>1, <1>2, <1>3, Steps, HandleJob, OutsideStep

LEMMA ClaimNext == TypeOK /\ JobInv /\ ClaimInv /\ [Next]_vars => ClaimInv'
<1> SUFFICES ASSUME TypeOK, JobInv, ClaimInv, [Next]_vars,
                    NEW m \in Messages, "open" \notin marks'[m]
             PROVE  ClaimOK(m)'
  BY DEF ClaimInv
<1>1. TypeOK' /\ "open" \notin marks[m]
  BY TypeNext, MarksGrow
<1>2. ClaimOK(m)
  BY <1>1 DEF ClaimInv
<1> QED
  BY <1>1, <1>2, Steps, DeliverClaim, EnqueueClaim, ReceiveClaim, HandleClaim, OutsideClaim

----------------------------------------------------------------------------
(* Indicators *)

Showing(m) == {c \in Containers : job[c].shown /\ Current(c) = m}

Excused(m) == marks[m] \cap {"refused", "crashed", "busy", "unheard"} # {}

\* A message has as many indicators as containers that will settle one.
Counted(m) == Excused(m) \/ indicators[m] = Cardinality(Showing(m))

ShownInv == \A m \in Messages : IsFiniteSet(Showing(m)) /\ Counted(m)

\* Container c is the only one of which it may change whether it shows an
\* indicator.
LEMMA ShowingMoved ==
    ASSUME TypeOK, NEW c \in Containers, NEW r, Moves(c, r), NEW m \in Messages
    PROVE  Showing(m)' = (Showing(m) \ {c}) \cup (IF r.shown /\ Head(r.todo)[1] = m THEN {c} ELSE {})
<1>1. /\ job'[c] = r /\ Head(job'[c].todo) = Head(r.todo)
      /\ \A b \in Containers \ {c} : job'[b] = job[b]
  BY MovedJob
<1>2. \A b \in Containers : b \in Showing(m)' <=>
            \/ b # c /\ b \in Showing(m)
            \/ b = c /\ r.shown /\ Head(r.todo)[1] = m
  BY <1>1 DEF Showing, Current, Event
<1> QED
  BY <1>2 DEF Showing

\* Nothing changes for m.
LEMMA ShownKept ==
    ASSUME NEW m \in Messages, IsFiniteSet(Showing(m)), Counted(m),
           marks[m] \subseteq marks'[m], indicators'[m] = indicators[m], Showing(m)' = Showing(m)
    PROVE  IsFiniteSet(Showing(m))' /\ Counted(m)'
BY DEF Counted, Excused

\* Container c begins to show an indicator, or ceases to.
LEMMA ShownMore ==
    ASSUME TypeOK, NEW m \in Messages, IsFiniteSet(Showing(m)), Counted(m), marks[m] \subseteq marks'[m],
           NEW c, c \notin Showing(m), Showing(m)' = Showing(m) \cup {c},
           indicators'[m] = indicators[m] + 1
    PROVE  IsFiniteSet(Showing(m))' /\ Counted(m)'
<1>1. /\ IsFiniteSet(Showing(m) \cup {c})
      /\ Cardinality(Showing(m) \cup {c}) = Cardinality(Showing(m)) + 1
  BY FS_AddElement
<1> QED
  BY <1>1 DEF Counted, Excused

LEMMA ShownLess ==
    ASSUME TypeOK, NEW m \in Messages, IsFiniteSet(Showing(m)), Counted(m), marks[m] \subseteq marks'[m],
           NEW c \in Showing(m), Showing(m)' = Showing(m) \ {c},
           Excused(m)' \/ indicators'[m] = indicators[m] - 1
    PROVE  IsFiniteSet(Showing(m))' /\ Counted(m)'
<1>1. /\ IsFiniteSet(Showing(m) \ {c})
      /\ Cardinality(Showing(m) \ {c}) = Cardinality(Showing(m)) - 1
  BY FS_RemoveElement
<1> QED
  BY <1>1 DEF Counted, Excused

\* A job in which no indicator is shown takes the place of one in which that of
\* another message is, or none.
LEMMA ShowingDropped ==
    ASSUME TypeOK, NEW c \in Containers, NEW r, Moves(c, r), ~r.shown, NEW m \in Messages
    PROVE  Showing(m)' = Showing(m) \ {c}
BY ShowingMoved

LEMMA ShowingCarried ==
    ASSUME TypeOK, NEW c \in Containers, NEW pc \in PCs, Goto(c, pc), NEW m \in Messages
    PROVE  Showing(m)' = Showing(m)
<1>1. PICK r \in Job : Moves(c, r) /\ r.todo = job[c].todo /\ r.shown = job[c].shown
  BY GotoJob
<1>2. c \in Showing(m) <=> r.shown /\ Head(r.todo)[1] = m
  BY <1>1 DEF Showing, Current, Event
<1> QED
  BY <1>1, <1>2, ShowingMoved

LEMMA HandleShown ==
    ASSUME TypeOK, JobInv, NEW m \in Messages, IsFiniteSet(Showing(m)), Counted(m),
           NEW c \in Containers, Handles(c)
    PROVE  IsFiniteSet(Showing(m))' /\ Counted(m)'
<1>1. job[c].pc # "idle" /\ Current(c) \in Messages /\ marks[m] \subseteq marks'[m]
  BY GoingOn, InHand, HandleJob
<1>2. job[c].shown => job[c].pc \in {"stream", "invoke", "reply"}
  BY DEF JobInv, JobOK
<1>3. c \in Showing(m) <=> job[c].shown /\ m = Current(c)
  BY DEF Showing
<1>4. ASSUME Return(c) PROVE Showing(m)' = Showing(m) \ {c}
  <2>1. \E r \in Job : Moves(c, r) /\ ~r.shown
    BY <1>1, <1>4, ReturnJob DEF At
  <2> QED
    BY <2>1, ShowingDropped
<1>5. ASSUME Moves(c, Idle) PROVE Showing(m)' = Showing(m) \ {c}
  BY <1>5, ShowingDropped DEF Idle
<1>6. ASSUME NEW what \in SUBSET MarkNames, Marks(Current(c), what),
             what \cap {"refused", "crashed", "busy", "unheard"} # {}, m = Current(c)
      PROVE  Excused(m)'
  BY <1>6, MarksStep DEF Excused
<1>7. CASE Ignore(c) \/ Skip(c) \/ GuardSkips(c)
  <2>1. job[c].pc \in {"claim", "guard"} /\ Return(c) /\ indicators' = indicators
    BY <1>7 DEF Ignore, Skip, GuardSkips, Claiming, At, slack
  <2> QED
    BY <1>1, <1>2, <1>3, <1>4, <2>1, ShownKept
<1>8. CASE Claim(c) \/ ClaimFails(c) \/ GuardPasses(c) \/ Stream(c) \/ StreamFails(c) \/ Answer(c)
  <2>1. indicators' = indicators /\ \E pc \in PCs : Goto(c, pc)
    BY <1>8 DEF Claim, ClaimFails, Admitted, GuardPasses, Stream, StreamFails, Answer, slack, PCs
  <2> QED
    BY <1>1, <2>1, ShowingCarried, ShownKept
<1>16. CASE PostFails(c)
  <2>1. Showing(m)' = Showing(m)
    BY <1>16, ShowingCarried DEF PostFails, PCs
  <2>2. CASE indicators' = indicators
    BY <1>1, <2>1, <2>2, ShownKept
  <2>3. CASE /\ indicators' = [indicators EXCEPT ![Current(c)] = @ + 1]
             /\ Marks(Current(c), {"unheard"})
    <3>1. CASE m = Current(c)
      <4>1. Excused(m)'
        BY <1>6, <2>3, <3>1 DEF MarkNames
      <4> QED
        BY <1>1, <2>1, <4>1 DEF Counted
    <3>2. CASE m # Current(c)
      <4>1. indicators'[m] = indicators[m]
        BY <2>3, <3>2 DEF TypeOK
      <4> QED
        BY <1>1, <2>1, <4>1, ShownKept
    <3> QED
      BY <3>1, <3>2
  <2> QED
    BY <1>16, <2>2, <2>3 DEF PostFails, slack, Mark
<1>9. CASE PostIndicator(c)
  <2> DEFINE r == [job[c] EXCEPT !.pc = "stream", !.shown = TRUE]
  <2>1. /\ job[c].pc = "post" /\ Moves(c, r)
        /\ indicators' = [indicators EXCEPT ![Current(c)] = @ + 1]
    BY <1>9 DEF PostIndicator, Moves, At
  <2>2. r.todo = job[c].todo /\ r.shown
    BY DEF TypeOK, Job
  <2> HIDE DEF r
  <2>3. c \notin Showing(m)
    BY <1>2, <1>3, <2>1
  <2>4. Showing(m)' = Showing(m) \cup (IF m = Current(c) THEN {c} ELSE {})
    BY <2>1, <2>2, <2>3, ShowingMoved DEF Current, Event
  <2>5. CASE m = Current(c)
    <3>1. indicators'[m] = indicators[m] + 1
      BY <2>1, <2>5 DEF TypeOK
    <3> QED
      BY <1>1, <2>3, <2>4, <2>5, <3>1, ShownMore
  <2>6. CASE m # Current(c)
    <3>1. indicators'[m] = indicators[m]
      BY <2>1, <2>6 DEF TypeOK
    <3> QED
      BY <1>1, <2>4, <2>6, <3>1, ShownKept
  <2> QED
    BY <2>5, <2>6
<1>10. ASSUME Showing(m)' = Showing(m) \ {c},
              \/ m # Current(c) \/ ~job[c].shown
              \/ indicators'[m] = indicators[m] - 1 \/ Excused(m)',
              m # Current(c) \/ ~job[c].shown => indicators'[m] = indicators[m]
       PROVE  IsFiniteSet(Showing(m))' /\ Counted(m)'
  <2>1. CASE c \in Showing(m)
    BY <1>1, <1>3, <1>10, <2>1, ShownLess
  <2>2. CASE c \notin Showing(m)
    BY <1>1, <1>3, <1>10, <2>2, ShownKept
  <2> QED
    BY <2>1, <2>2
<1>11. CASE AgentBusy(c)
  <2>1. Moves(c, Idle) /\ indicators' = indicators /\ Marks(Current(c), {"busy"})
    BY <1>11 DEF AgentBusy, Raise, Moves, slack, Mark
  <2>2. m = Current(c) => Excused(m)'
    BY <1>6, <2>1 DEF MarkNames
  <2> QED
    BY <1>5, <1>10, <2>1, <2>2
<1>12. CASE Crash(c)
  <2>1. Moves(c, Idle) /\ indicators' = indicators
    BY <1>12 DEF Crash, Moves, slack
  <2>2. m = Current(c) /\ job[c].shown => Excused(m)'
    BY <1>2, <1>6, <1>12 DEF Crash, Mark, At, MarkNames
  <2> QED
    BY <1>5, <1>10, <2>1, <2>2
<1>13. CASE ReplyFails(c)
  <2>1. Return(c) /\ indicators' = indicators /\ Marks(Current(c), {"refused"})
    BY <1>13 DEF ReplyFails, slack, Mark
  <2>2. m = Current(c) => Excused(m)'
    BY <1>6, <2>1 DEF MarkNames
  <2> QED
    BY <1>4, <1>10, <2>1, <2>2
<1>14. CASE Reply(c)
  <2>1. /\ Return(c)
        /\ indicators' = IF job[c].shown THEN [indicators EXCEPT ![Current(c)] = @ - 1]
                                         ELSE indicators
    BY <1>14 DEF Reply
  <2>2. /\ m # Current(c) \/ ~job[c].shown => indicators'[m] = indicators[m]
        /\ m = Current(c) /\ job[c].shown => indicators'[m] = indicators[m] - 1
    BY <2>1 DEF TypeOK
  <2> QED
    BY <1>4, <1>10, <2>1, <2>2
<1>15. CASE TransientError(c)
  <2>1. Moves(c, Idle)
    BY <1>15 DEF TransientError, Raise, Moves
  <2>2. CASE indicators' = indicators /\ ~job[c].shown
    BY <1>5, <1>10, <2>1, <2>2
  <2>3. CASE job[c].shown /\ indicators' = [indicators EXCEPT ![Current(c)] = @ - 1]
    <3>1. /\ m # Current(c) => indicators'[m] = indicators[m]
          /\ m = Current(c) => indicators'[m] = indicators[m] - 1
      BY <2>3 DEF TypeOK
    <3> QED
      BY <1>5, <1>10, <2>1, <2>3, <3>1
  <2>4. CASE indicators' = indicators /\ Marks(Current(c), {"failed", "refused"})
    <3>1. m = Current(c) => Excused(m)'
      BY <1>6, <2>4 DEF MarkNames
    <3> QED
      BY <1>5, <1>10, <2>1, <2>4, <3>1
  <2> QED
    BY <1>15, <2>2, <2>3, <2>4 DEF TransientError, DeleteIndicator, Marks
<1> QED
  BY <1>7, <1>8, <1>9, <1>11, <1>12, <1>13, <1>14, <1>15, <1>16 DEF Handles

LEMMA ShownInit == Init => ShownInv
<1> SUFFICES ASSUME Init, NEW m \in Messages
             PROVE  IsFiniteSet(Showing(m)) /\ Counted(m)
  BY DEF ShownInv
<1>1. Showing(m) = {}
  BY DEF Init, Showing, Idle
<1> QED
  BY <1>1, FS_EmptySet DEF Init, Counted

LEMMA ShownNext == TypeOK /\ JobInv /\ ShownInv /\ [Next]_vars => ShownInv'
<1> SUFFICES ASSUME TypeOK, JobInv, ShownInv, [Next]_vars, NEW m \in Messages
             PROVE  IsFiniteSet(Showing(m))' /\ Counted(m)'
  BY DEF ShownInv
<1>1. IsFiniteSet(Showing(m)) /\ Counted(m) /\ marks[m] \subseteq marks'[m]
  BY MarksGrow DEF ShownInv
<1>2. ASSUME UNCHANGED <<job, indicators>>
      PROVE  IsFiniteSet(Showing(m))' /\ Counted(m)'
  <2>1. Showing(m)' = Showing(m)
    BY <1>2 DEF Showing, Current, Event
  <2> QED
    BY <1>1, <1>2, <2>1, ShownKept
<1>3. ASSUME NEW c \in Containers, job[c].pc \in {"idle", "enqueue"},
             NEW r, Moves(c, r), ~r.shown, UNCHANGED indicators
      PROVE  IsFiniteSet(Showing(m))' /\ Counted(m)'
  <2>1. c \notin Showing(m)
    BY <1>3 DEF JobInv, JobOK, Showing
  <2>2. Showing(m)' = Showing(m)
    BY <1>3, <2>1, ShowingDropped
  <2> QED
    BY <1>1, <1>3, <2>2, ShownKept
<1>4. ASSUME NEW c \in Acks, NEW e \in Events, Deliver(c, e)
      PROVE  IsFiniteSet(Showing(m))' /\ Counted(m)'
  <2> DEFINE r == [Idle EXCEPT !.pc = "enqueue", !.todo = <<e>>]
  <2>1. /\ c \in Containers /\ job[c].pc = "idle" /\ UNCHANGED indicators
        /\ UNCHANGED job \/ Moves(c, r)
    BY <1>4 DEF Deliver, Containers, Moves, At
  <2>2. ~r.shown
    BY DEF Idle
  <2> HIDE DEF r
  <2> QED
    BY <1>2, <1>3, <2>1, <2>2
<1>5. ASSUME NEW c \in Containers, Enqueue(c) \/ EnqueueFails(c)
      PROVE  IsFiniteSet(Showing(m))' /\ Counted(m)'
  <2>1. job[c].pc = "enqueue" /\ UNCHANGED indicators /\ (Moves(c, Idle) \/ Goto(c, "claim"))
    BY <1>5 DEF Enqueue, EnqueueFails, slack, Moves, At
  <2>2. CASE Moves(c, Idle)
    BY <1>3, <2>1, <2>2 DEF Idle
  <2>3. CASE Goto(c, "claim")
    <3>1. Showing(m)' = Showing(m)
      BY <2>3, ShowingCarried DEF PCs
    <3> QED
      BY <1>1, <2>1, <3>1, ShownKept
  <2> QED
    BY <2>1, <2>2, <2>3
<1>6. ASSUME NEW c \in Workers, Receive(c)
      PROVE  IsFiniteSet(Showing(m))' /\ Counted(m)'
  <2>1. c \in Containers /\ job[c].pc = "idle" /\ UNCHANGED indicators
    BY <1>6 DEF Receive, slack, Containers, At
  <2>2. \E r \in Job : Moves(c, r) /\ ~r.shown
    BY <1>6, ReceiveStep
  <2> QED
    BY <1>3, <2>1, <2>2
<1>7. ASSUME Outside
      PROVE  IsFiniteSet(Showing(m))' /\ Counted(m)'
  BY <1>2, <1>7, OutsideStep DEF slack
<1> QED
  BY <1>1, <1>4, <1>5, <1>6, <1>7, Steps, HandleShown

----------------------------------------------------------------------------
(* Batches *)

\* What excuses a thread.
Disturbed(t) == \E m \in Messages : ThreadOf[m] = t /\ marks[m] \cap {"fallback", "timeout"} # {}

\* A batch is of one group; it is in flight, and the only one of its group,
\* unless something has disturbed the thread.
BatchOK(c, e) ==
    /\ \A f \in ToSet(job[c].batch) : Group(f[1]) = Group(e[1])
    /\ e \in inflight \/ Disturbed(Group(e[1]))
    /\ \A b \in Workers : \A f \in ToSet(job[b].batch) :
            Group(f[1]) = Group(e[1]) => b = c \/ Disturbed(Group(e[1]))

BatchInv == \A c \in Workers : \A e \in ToSet(job[c].batch) : BatchOK(c, e)

LEMMA DisturbedStays ==
    ASSUME TypeOK, JobInv, [Next]_vars, NEW t, Disturbed(t)
    PROVE  Disturbed(t)'
BY MarksGrow DEF Disturbed

\* Batches are as they were or are gone, and what has left the flight was of a
\* batch that is gone, or of none, or has disturbed its thread.
LEMMA BatchKept ==
    ASSUME TypeOK, JobInv, [Next]_vars, BatchInv,
           \A b \in Workers : job'[b].batch = job[b].batch \/ ToSet(job'[b].batch) = {},
           \A b \in Workers : \A e \in ToSet(job'[b].batch) :
                e \in inflight => e \in inflight' \/ Disturbed(Group(e[1]))'
    PROVE  BatchInv'
<1> SUFFICES ASSUME NEW c \in Workers, NEW e \in ToSet(job'[c].batch)
             PROVE  BatchOK(c, e)'
  BY DEF BatchInv
<1>1. \A b \in Workers : \A f \in ToSet(job'[b].batch) : f \in ToSet(job[b].batch)
  OBVIOUS
<1>2. BatchOK(c, e)
  BY <1>1 DEF BatchInv
<1>3. \A t : Disturbed(t) => Disturbed(t)'
  BY DisturbedStays
<1> HIDE DEF Disturbed
<1>4. e \in inflight' \/ Disturbed(Group(e[1]))'
  BY <1>2, <1>3 DEF BatchOK, Group
<1> QED
  BY <1>1, <1>2, <1>3, <1>4 DEF BatchOK, Group

LEMMA BatchNext == TypeOK /\ JobInv /\ BatchInv /\ [Next]_vars => BatchInv'
<1> SUFFICES ASSUME TypeOK, JobInv, BatchInv, [Next]_vars
             PROVE  BatchInv'
  OBVIOUS
<1>1. ASSUME NEW c \in Acks, NEW e \in Events, Deliver(c, e)
      PROVE  BatchInv'
  <2>1. c \in Containers /\ c \notin Workers /\ inflight' = inflight
    BY <1>1, ContainersApart DEF Deliver, sqs, Containers
  <2>2. \A b \in Workers : job'[b] = job[b]
    BY <1>1, <2>1 DEF Deliver, TypeOK, Containers
  <2> QED
    BY <2>1, <2>2, BatchKept
<1>2. ASSUME NEW c \in Containers, Enqueue(c) \/ EnqueueFails(c)
      PROVE  BatchInv'
  <2>1. job[c].pc = "enqueue" /\ inflight' = inflight
    BY <1>2 DEF Enqueue, EnqueueFails, Accept, At, sqs
  <2>2. c \notin Workers
    BY <2>1 DEF JobInv, JobOK
  <2>3. \A b \in Workers : job'[b] = job[b]
    BY <1>2, <2>2 DEF Enqueue, EnqueueFails, Goto, TypeOK, Containers
  <2> QED
    BY <2>1, <2>3, BatchKept
<1>3. ASSUME NEW c \in Workers, Receive(c)
      PROVE  BatchInv'
  <2>0. PICK g : \E r \in Job :
                /\ Moves(c, r) /\ \A e \in ToSet(r.batch) : Group(e[1]) = g
                /\ \A e \in inflight : Group(e[1]) # g
                /\ inflight' = inflight \cup ToSet(r.batch)
    BY <1>3, ReceiveStep
  <2>1. PICK r \in Job :
                /\ Moves(c, r) /\ \A e \in ToSet(r.batch) : Group(e[1]) = g
                /\ \A e \in inflight : Group(e[1]) # g
                /\ inflight' = inflight \cup ToSet(r.batch)
    BY <2>0
  <2>2. c \in Containers /\ job'[c] = r /\ \A b \in Workers \ {c} : job'[b] = job[b]
    BY <2>1, MovedJob DEF Containers
  <2>3. \A t : Disturbed(t) => Disturbed(t)'
    BY DisturbedStays
  <2>4. \A b \in Workers : \A f \in ToSet(job[b].batch) : Group(f[1]) = g => Disturbed(g)
    BY <2>1 DEF BatchInv, BatchOK
  <2> SUFFICES ASSUME NEW b \in Workers, NEW e \in ToSet(job'[b].batch)
               PROVE  BatchOK(b, e)'
    BY DEF BatchInv
  <2> HIDE DEF Disturbed
  <2>5. CASE b = c
    <3>1. Group(e[1]) = g /\ e \in inflight'
      BY <2>1, <2>2, <2>5
    <3>2. \A a \in Workers : \A f \in ToSet(job'[a].batch) : Group(f[1]) = g => a = c \/ Disturbed(g)'
      BY <2>2, <2>3, <2>4
    <3> QED
      BY <2>1, <2>2, <2>5, <3>1, <3>2 DEF BatchOK, Group
  <2>6. CASE b # c
    <3>1. job'[b] = job[b] /\ BatchOK(b, e)
      BY <2>2, <2>6 DEF BatchInv
    <3>2. e \in inflight' \/ Disturbed(Group(e[1]))'
      BY <2>1, <2>3, <3>1 DEF BatchOK, Group
    <3>3. ASSUME NEW a \in Workers, NEW f \in ToSet(job'[a].batch), Group(f[1]) = Group(e[1])
          PROVE  a = b \/ Disturbed(Group(e[1]))'
      <4>1. CASE a = c
        <5>1. Group(e[1]) = g
          BY <2>1, <2>2, <3>3, <4>1
        <5> QED
          BY <2>3, <2>4, <3>1, <5>1 DEF Group
      <4>2. CASE a # c
        BY <2>2, <2>3, <3>1, <3>3, <4>2 DEF BatchOK, Group
      <4> QED
        BY <4>1, <4>2
    <3> QED
      BY <3>1, <3>2, <3>3 DEF BatchOK, Group
  <2> QED
    BY <2>5, <2>6
<1>4. ASSUME NEW c \in Containers, Handles(c)
      PROVE  BatchInv'
  <2>1. PICK r \in Job : Carries(c, r)
    BY <1>4, HandleJob
  <2>2. job'[c] = r /\ \A b \in Workers \ {c} : job'[b] = job[b]
    BY <2>1, MovedJob DEF Carries, Containers
  <2>3. r.batch = job[c].batch \/ ToSet(r.batch) = {}
    BY <2>1, IdleIsJob DEF Carries, Idle
  <2>4. inflight' = inflight \/ (r = Idle /\ inflight' = inflight \ ToSet(job[c].batch))
    BY <1>4, <2>1, HandleJob DEF Carries
  <2>5. \A t : Disturbed(t) => Disturbed(t)'
    BY DisturbedStays
  <2> HIDE DEF Disturbed
  <2>6. ASSUME NEW b \in Workers, NEW e \in ToSet(job'[b].batch), e \in inflight, e \notin inflight'
        PROVE  Disturbed(Group(e[1]))'
    <3>1. r = Idle /\ e \in ToSet(job[c].batch)
      BY <2>4, <2>6
    <3>2. b # c /\ job'[b] = job[b]
      BY <2>2, <3>1, IdleIsJob DEF Idle
    <3>3. c \in Workers
      BY <3>1, IdleIsJob DEF JobInv, JobOK, Containers
    <3>4. BatchOK(c, e)
      BY <3>1, <3>3 DEF BatchInv
    <3>5. Disturbed(Group(e[1]))
      BY <3>2, <3>4 DEF BatchOK
    <3> QED
      BY <2>5, <3>5 DEF Group
  <2>7. \A b \in Workers : job'[b].batch = job[b].batch \/ ToSet(job'[b].batch) = {}
    BY <2>2, <2>3
  <2> QED
    BY <2>6, <2>7, BatchKept
<1>5. ASSUME Outside
      PROVE  BatchInv'
  <2>1. job' = job
    BY <1>5, OutsideStep
  <2>2. CASE inflight' = inflight
    BY <2>1, <2>2, BatchKept
  <2>3. ASSUME NEW e \in Events, VisibleAgain(e)
        PROVE  BatchInv'
    <3>1. inflight' = inflight \ {e}
      BY <2>3 DEF VisibleAgain, Reappears
    <3>2. ASSUME NEW b \in Workers, e \in ToSet(job[b].batch) PROVE FALSE
      <4>1. job[b].batch \in Seq(Events)
        BY DEF TypeOK, Job, Containers
      <4>2. Contains(job[b].batch, e)
        BY <3>2, <4>1 DEF Contains, ToSet
      <4> QED
        BY <2>3, <4>2 DEF VisibleAgain, AtWork
    <3> QED
      BY <2>1, <3>1, <3>2, BatchKept
  <2>4. ASSUME NEW e \in Events, TimesOut(e)
        PROVE  BatchInv'
    <3>1. inflight' = inflight \ {e} /\ Marks(e[1], {"timeout"})
      BY <2>4 DEF TimesOut, Reappears, Mark
    <3>2. e[1] \in Messages /\ {"timeout"} \in SUBSET MarkNames
      BY DEF Events, MarkNames
    <3>3. "timeout" \in marks'[e[1]]
      BY <3>1, <3>2, MarksStep
    <3>4. Disturbed(Group(e[1]))'
      BY <3>2, <3>3 DEF Disturbed, Group
    <3> QED
      BY <2>1, <3>1, <3>4, BatchKept
  <2> QED
    BY <1>5, <2>2, <2>3, <2>4
       DEF Outside, Forget, WindowEnds, GrowsOld, RowExpires, vars, sqs
<1> QED
  BY <1>1, <1>2, <1>3, <1>4, <1>5, Steps

----------------------------------------------------------------------------
(* The theorems *)

IInv == TypeOK /\ JobInv /\ ClaimInv /\ ShownInv /\ BatchInv

\* The inductive invariant holds when the delivery path starts.
THEOREM InitInv == Init => IInv
<1>1. Init => BatchInv
  BY IdleIsJob DEF Init, BatchInv, Idle, Containers
<1> QED
  BY <1>1, TypeInit, ClaimInit, ShownInit DEF IInv

\* No step of Slack, of an invocation, of a queue or of the clock breaks it.
THEOREM NextInv == IInv /\ [Next]_vars => IInv'
BY TypeNext, ClaimNext, ShownNext, BatchNext DEF IInv

\* Every reachable state of the delivery path has it.
THEOREM Invariance == Spec => []IInv
BY InitInv, NextInv, PTL DEF Spec

\* Every variable of the delivery path keeps its type.
THEOREM TypeCorrect == Spec => []TypeOK
<1>1. IInv => TypeOK
  BY DEF IInv
<1> QED
  BY <1>1, Invariance, PTL

\* A message gets one reply, whatever Slack and SQS deliver twice and whichever
\* entries have expired, unless the table could not be asked.
THEOREM OneReplyHolds == Spec => []OneReply
<1>1. IInv => OneReply
  BY DEF IInv, TypeOK, ClaimInv, ClaimOK, OneReply
<1> QED
  BY <1>1, Invariance, PTL

\* An indicator of a message that nobody is handling has an excuse.
THEOREM IndicatorsSettled == Spec => []IndicatorSettled
<1>1. ASSUME IInv PROVE IndicatorSettled
  <2> SUFFICES ASSUME NEW m \in Messages, indicators[m] > 0, ~Handled(m), ~Excused(m)
               PROVE  FALSE
    BY DEF IndicatorSettled, Excused
  <2>1. ASSUME NEW c \in Showing(m) PROVE FALSE
    <3>1. c \in Containers /\ job[c].shown /\ Current(c) = m
      BY <2>1 DEF Showing
    <3>2. job[c].pc # "idle"
      BY <1>1, <3>1 DEF IInv, JobInv, Idle, JobOK
    <3> QED
      BY <1>1, <3>1, <3>2, InHand DEF IInv
  <2>2. Showing(m) = {}
    BY <2>1
  <2> QED
    BY <1>1, <2>2, FS_EmptySet DEF IInv, ShownInv, Counted
<1> QED
  BY <1>1, Invariance, PTL

\* Messages of a thread are answered one at a time, unless one was handled by
\* the ack container or became visible under a worker's hands.
THEOREM ThreadsSequential == Spec => []ThreadSequential
<1>1. ASSUME IInv PROVE ThreadSequential
  <2> SUFFICES ASSUME NEW b \in Containers, NEW c \in Containers, Invoking(b), Invoking(c),
                      ThreadOf[Current(b)] = ThreadOf[Current(c)]
               PROVE  b = c \/ Disturbed(ThreadOf[Current(b)])
    BY DEF ThreadSequential, Disturbed
  <2>1. ASSUME NEW a \in Containers, Invoking(a)
        PROVE  /\ Event(a) \in ToSet(job[a].todo) /\ Current(a) \in Messages
               /\ JobOK(a, job[a], marks) /\ job[a].pc \notin {"idle", "enqueue"}
    BY <1>1, <2>1, InHand DEF Invoking, At, IInv, JobInv
  <2>2. ASSUME NEW a \in Containers, Invoking(a), a \in Acks
        PROVE  Disturbed(ThreadOf[Current(a)])
    BY <2>1, <2>2 DEF JobOK, Disturbed, Current
  <2>3. CASE b \in Workers /\ c \in Workers
    <3>1. Event(b) \in ToSet(job[b].batch) /\ Event(c) \in ToSet(job[c].batch)
      BY <2>1, <2>3 DEF JobOK
    <3>2. BatchOK(b, Event(b))
      BY <1>1, <2>3, <3>1 DEF IInv, BatchInv
    <3> QED
      BY <2>3, <3>1, <3>2 DEF BatchOK, Group, Current
  <2> QED
    BY <2>2, <2>3 DEF Containers
<1> QED
  BY <1>1, Invariance, PTL
=============================================================================
