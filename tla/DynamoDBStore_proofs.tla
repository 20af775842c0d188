------------------------ MODULE DynamoDBStore_proofs ------------------------
(***************************************************************************)
(* Theorems about DynamoDBStore, for every number of processes, agents and *)
(* tasks: what holds whatever requests of other processes come between two *)
(* requests of a call, and wherever a process crashes.                     *)
(***************************************************************************)
EXTENDS DynamoDBStore, TLAPS

----------------------------------------------------------------------------
(* Types *)

AgentItem == [state : AgentState, index : AgentState, whole : BOOLEAN, caps : SUBSET Capabilities]

TaskItem == [status : TaskStatus, index : TaskStatus, assigned_to : AgentIds \cup {None}]

IndexCall == [op : {"index"}, key : Keys, left : SUBSET Capabilities]
StateCall == [op : {"state"}, key : Keys, seen : AgentState, to : AgentState]
ClaimCall == [op : {"claim"}, task : Tasks, agent : AgentIds, seen : TaskStatus]
DispatchCall == [op : {"dispatch"}, task : Tasks, ready : SUBSET Keys]
AssignCall == [op : {"assign"}, task : Tasks, agent : AgentIds]

Call == IndexCall \cup StateCall \cup ClaimCall \cup DispatchCall \cup AssignCall

Typed ==
    /\ agentItems \in [Keys -> AgentItem \cup {None}]
    /\ capItems \subseteq Keys \X Capabilities
    /\ taskItems \in [Tasks -> TaskItem \cup {None}]
    /\ calls \in [Clients -> Call \cup {None}]
    /\ granted \in [Tasks -> SUBSET AgentIds]
    /\ incomplete \subseteq Keys

LEMMA TypedInit == Init => Typed
  BY DEF Init, Typed

LEMMA CallTypes ==
    ASSUME Typed, NEW c \in Clients, ~Idle(c)
    PROVE  /\ In(c, "index") => calls[c] \in IndexCall
           /\ In(c, "state") => calls[c] \in StateCall
           /\ In(c, "claim") => calls[c] \in ClaimCall
           /\ In(c, "dispatch") => calls[c] \in DispatchCall
           /\ In(c, "assign") => calls[c] \in AssignCall
  BY DEF Typed, Idle, In, Call, IndexCall, StateCall, ClaimCall, DispatchCall, AssignCall

LEMMA CallKept ==
    ASSUME Typed, NEW c \in Clients, NEW call \in Call \cup {None}, GoOn(c, call)
    PROVE  calls' \in [Clients -> Call \cup {None}]
  BY DEF Typed, GoOn

LEMMA TypedStep ==
    ASSUME Typed, [Next]_vars
    PROVE  Typed'
<1>1. ASSUME NEW c \in Clients, NEW k \in Keys, NEW caps \in SUBSET Capabilities, Register(c, k, caps)
      PROVE  Typed'
  <2>1. NewItem(caps) \in AgentItem
    BY DEF NewItem, AgentItem, AgentState
  <2>2. [op |-> "index", key |-> k, left |-> caps] \in Call
    BY DEF Call, IndexCall
  <2>3. calls' \in [Clients -> Call \cup {None}]
    BY <1>1, <2>2, CallKept DEF Register, Typed
  <2> QED
    BY <1>1, <2>1, <2>3 DEF Register, Typed, taskVars
<1>2. ASSUME NEW c \in Clients, NEW k \in Keys, NEW s \in Asked, UpdateStateRead(c, k, s)
      PROVE  Typed'
  <2>1. agentItems[k].state \in AgentState /\ s \in AgentState
    BY <1>2, StoreAssumption DEF UpdateStateRead, Stored, Typed, AgentItem
  <2>2. [op |-> "state", key |-> k, seen |-> agentItems[k].state, to |-> s] \in Call
    BY <2>1 DEF Call, StateCall
  <2> QED
    BY <1>2, <2>2, CallKept DEF UpdateStateRead, registryVars, taskVars, Typed
<1>3. ASSUME NEW c \in Clients, PutCapability(c)
      PROVE  Typed'
  <2>1. calls[c] \in IndexCall
    BY <1>3, CallTypes DEF PutCapability, In
  <2>2. PICK cap \in calls[c].left : /\ capItems' = capItems \cup {<<calls[c].key, cap>>}
                                     /\ IF calls[c].left = {cap}
                                        THEN Return(c)
                                        ELSE GoOn(c, [calls[c] EXCEPT !.left = @ \ {cap}])
    BY <1>3 DEF PutCapability
  <2>3. [calls[c] EXCEPT !.left = @ \ {cap}] \in Call
    BY <2>1 DEF Call, IndexCall
  <2>4. calls' \in [Clients -> Call \cup {None}]
    BY <2>2, <2>3, CallKept DEF Return
  <2>5. calls[c].key \in Keys /\ cap \in Capabilities
    BY <2>1 DEF IndexCall
  <2> QED
    BY <1>3, <2>2, <2>4, <2>5 DEF PutCapability, taskVars, Typed
<1>4. ASSUME NEW c \in Clients, UpdateStateWrite(c)
      PROVE  Typed'
  <2>1. calls[c].key \in Keys /\ calls[c].to \in AgentState
    BY <1>4, CallTypes DEF UpdateStateWrite, In, StateCall
  <2>2. WithState(agentItems[calls[c].key], calls[c].to) \in AgentItem
    BY <2>1 DEF WithState, Typed, AgentItem
  <2>3. calls' \in [Clients -> Call \cup {None}]
    BY <1>4, CallKept DEF UpdateStateWrite, Return
  <2> QED
    BY <1>4, <2>1, <2>2, <2>3 DEF UpdateStateWrite, taskVars, Typed
<1>5. ASSUME NEW c \in Clients, NEW t \in Tasks, NEW a \in AgentIds, ClaimRead(c, t, a)
      PROVE  Typed'
  <2>1. [op |-> "claim", task |-> t, agent |-> a, seen |-> taskItems[t].status] \in Call
    BY <1>5 DEF ClaimRead, Exists, Typed, TaskItem, Call, ClaimCall
  <2> QED
    BY <1>5, <2>1, CallKept DEF ClaimRead, registryVars, taskVars, Typed
<1>6. ASSUME NEW c \in Clients, NEW t \in Tasks, DispatchQuery(c, t)
      PROVE  Typed'
  <2>1. [op |-> "dispatch", task |-> t, ready |-> ReadyInIndex(TaskTenant[t])] \in Call
    BY DEF ReadyInIndex, Call, DispatchCall
  <2> QED
    BY <1>6, <2>1, CallKept DEF DispatchQuery, registryVars, taskVars, Typed
<1>7. ASSUME NEW c \in Clients, ClaimWrite(c)
      PROVE  Typed'
  <2>1. calls[c].task \in Tasks /\ calls[c].agent \in AgentIds
    BY <1>7, CallTypes DEF ClaimWrite, In, ClaimCall
  <2>2. WithStatus(taskItems[calls[c].task], "claimed", calls[c].agent) \in TaskItem
    BY <2>1 DEF WithStatus, TaskItem, TaskStatus
  <2>3. calls' \in [Clients -> Call \cup {None}]
    BY <1>7, CallKept DEF ClaimWrite, Return
  <2> QED
    BY <1>7, <2>1, <2>2, <2>3 DEF ClaimWrite, registryVars, taskVars, Typed
<1>8. ASSUME NEW c \in Clients, AssignWrite(c)
      PROVE  Typed'
  <2>1. calls[c].task \in Tasks /\ calls[c].agent \in AgentIds
    BY <1>8, CallTypes DEF AssignWrite, In, AssignCall
  <2>2. WithStatus(taskItems[calls[c].task], "assigned", calls[c].agent) \in TaskItem
    BY <2>1 DEF WithStatus, TaskItem, TaskStatus
  <2>3. calls' \in [Clients -> Call \cup {None}]
    BY <1>8, CallKept DEF AssignWrite, Return
  <2> QED
    BY <1>8, <2>1, <2>2, <2>3 DEF AssignWrite, registryVars, Typed
<1>9. ASSUME NEW c \in Clients, DispatchPick(c)
      PROVE  Typed'
  <2>1. calls[c] \in DispatchCall
    BY <1>9, CallTypes DEF DispatchPick, In
  <2>2. \A k \in calls[c].ready : [op |-> "assign", task |-> calls[c].task, agent |-> k[2]] \in Call
    BY <2>1, KeysAssumption DEF DispatchCall, Call, AssignCall
  <2>3. Return(c) \/ \E k \in calls[c].ready : GoOn(c, [op |-> "assign", task |-> calls[c].task, agent |-> k[2]])
    BY <1>9 DEF DispatchPick
  <2>4. calls' \in [Clients -> Call \cup {None}]
    BY <2>2, <2>3, CallKept DEF Return
  <2> QED
    BY <1>9, <2>4 DEF DispatchPick, registryVars, taskVars, Typed
<1>10. ASSUME NEW c \in Clients, Crash(c)
       PROVE  Typed'
  <2>1. In(c, "index") => calls[c].key \in Keys
    BY <1>10, CallTypes DEF Crash, IndexCall
  <2>2. calls' \in [Clients -> Call \cup {None}]
    BY <1>10, CallKept DEF Crash, Return
  <2> QED
    BY <1>10, <2>1, <2>2 DEF Crash, taskVars, Typed
<1>11. ASSUME NEW k \in Keys, Deregister(k)
       PROVE  Typed'
  BY <1>11 DEF Deregister, taskVars, Typed
<1>12. ASSUME NEW t \in Tasks, CreateTask(t)
       PROVE  Typed'
  <2>1. NewTask \in TaskItem
    BY DEF NewTask, TaskItem, TaskStatus
  <2> QED
    BY <1>12, <2>1 DEF CreateTask, registryVars, Typed
<1>13. ASSUME NEW t \in Tasks, NEW s \in Said, UpdateStatus(t, s)
       PROVE  Typed'
  <2>1. s \in TaskStatus
    BY StoreAssumption DEF Reports, Terminal, TaskStatus
  <2>2. WithStatus(taskItems[t], s, taskItems[t].assigned_to) \in TaskItem
    BY <1>13, <2>1 DEF UpdateStatus, Exists, WithStatus, Typed, TaskItem
  <2> QED
    BY <1>13, <2>2 DEF UpdateStatus, registryVars, Typed
<1>14. CASE UNCHANGED vars
  BY <1>14 DEF vars, registryVars, taskVars, Typed
<1> QED
  BY <1>1, <1>2, <1>3, <1>4, <1>5, <1>6, <1>7, <1>8, <1>9, <1>10, <1>11, <1>12, <1>13, <1>14 DEF Next

----------------------------------------------------------------------------
(* Tasks *)

\* A pending task has no owner, and was given to nobody since it was created:
\* the condition of a claim makes sure that it is the first.
PendingUntaken ==
    \A t \in Tasks : taskItems[t].status = "pending" =>
        /\ granted[t] = {}
        /\ Exists(t) => taskItems[t].assigned_to = None

TaskInv == Typed /\ PendingUntaken /\ ClaimExclusive

LEMMA TasksUntouched ==
    ASSUME TaskInv, UNCHANGED taskVars
    PROVE  PendingUntaken' /\ ClaimExclusive'
  BY DEF TaskInv, PendingUntaken, ClaimExclusive, Exists, taskVars

LEMMA TaskInvInductive == TaskInv /\ [Next]_vars => TaskInv'
<1> SUFFICES ASSUME TaskInv, [Next]_vars
             PROVE  TaskInv'
  OBVIOUS
<1>1. Typed'
  BY TypedStep DEF TaskInv
<1>2. ASSUME NEW c \in Clients, ClaimWrite(c)
      PROVE  PendingUntaken' /\ ClaimExclusive'
  <2>1. calls[c].task \in Tasks
    BY <1>2, CallTypes DEF ClaimWrite, In, ClaimCall, TaskInv
  <2>2. CASE UNCHANGED taskVars
    BY <2>2, TasksUntouched
  <2>3. CASE ~UNCHANGED taskVars
    <3>1. /\ taskItems' = [taskItems EXCEPT ![calls[c].task] = WithStatus(@, "claimed", calls[c].agent)]
          /\ granted' = [granted EXCEPT ![calls[c].task] = @ \cup {calls[c].agent}]
          /\ taskItems[calls[c].task].status = "pending"
      BY <1>2, <2>3 DEF ClaimWrite, ClaimCondition
    <3>2. granted[calls[c].task] = {}
      BY <2>1, <3>1 DEF TaskInv, PendingUntaken
    <3>3. taskItems'[calls[c].task].status = "claimed"
      BY <2>1, <3>1 DEF WithStatus, TaskInv, Typed
    <3> QED
      BY <2>1, <3>1, <3>2, <3>3 DEF TaskInv, Typed, PendingUntaken, ClaimExclusive, Exists
  <2> QED
    BY <2>2, <2>3
<1>3. ASSUME NEW c \in Clients, AssignWrite(c)
      PROVE  PendingUntaken' /\ ClaimExclusive'
  <2>1. calls[c].task \in Tasks
    BY <1>3, CallTypes DEF AssignWrite, In, AssignCall, TaskInv
  <2>2. taskItems'[calls[c].task].status = "assigned"
    BY <1>3, <2>1 DEF AssignWrite, WithStatus, TaskInv, Typed
  <2> QED
    BY <1>3, <2>1, <2>2 DEF AssignWrite, TaskInv, Typed, PendingUntaken, ClaimExclusive, Exists
<1>4. ASSUME NEW t \in Tasks, CreateTask(t)
      PROVE  PendingUntaken' /\ ClaimExclusive'
  BY <1>4 DEF CreateTask, NewTask, TaskInv, Typed, PendingUntaken, ClaimExclusive, Exists
<1>5. ASSUME NEW t \in Tasks, NEW s \in Said, UpdateStatus(t, s)
      PROVE  PendingUntaken' /\ ClaimExclusive'
  <2>1. s # "pending"
    BY StoreAssumption DEF Reports, Terminal
  <2>2. taskItems'[t].status = s
    BY <1>5 DEF UpdateStatus, WithStatus, TaskInv, Typed
  <2> QED
    BY <1>5, <2>1, <2>2 DEF UpdateStatus, TaskInv, Typed, PendingUntaken, ClaimExclusive, Exists
<1>6. CASE UNCHANGED taskVars
  BY <1>1, <1>6, TasksUntouched DEF TaskInv
<1>7. \/ \E c \in Clients : ClaimWrite(c) \/ AssignWrite(c)
      \/ \E t \in Tasks : CreateTask(t) \/ \E s \in Said : UpdateStatus(t, s)
      \/ UNCHANGED taskVars
  BY DEF Next, vars, taskVars, registryVars, Register, PutCapability, UpdateStateRead, UpdateStateWrite,
         ClaimRead, DispatchQuery, DispatchPick, Crash, Deregister
<1> QED
  BY <1>1, <1>2, <1>3, <1>4, <1>5, <1>6, <1>7 DEF TaskInv

LEMMA TaskInvInit == Init => TaskInv
  BY TypedInit DEF Init, TaskInv, PendingUntaken, ClaimExclusive, Exists

\* Every reachable state has the invariant of the task table.
THEOREM TaskInvariant == Spec => []TaskInv
  BY TaskInvInit, TaskInvInductive, PTL DEF Spec

\* Of all agents that claim a task after it was created, through any number of
\* processes, claim_task gives it to one at most (claim_task's conditional
\* update).
THEOREM ClaimsExclusive == Spec => []ClaimExclusive
<1>1. TaskInv => ClaimExclusive
  BY DEF TaskInv
<1> QED
  BY <1>1, TaskInvariant, PTL

Taken(t) == Owner(t) # None /\ Owner(t)' \notin {None, Owner(t)}

\* Whatever crashes and interleaves, only the unconditional update of the
\* dispatcher's assign_task moves a task from one agent straight to another.
THEOREM TakesAreDispatches == Spec => TakenOnlyByDispatch
<1> DEFINE Step == \A t \in Tasks : Taken(t) => \E c \in Clients : In(c, "assign") /\ calls[c].task = t
<1>1. TaskInv /\ [Next]_vars => Step
  <2> SUFFICES ASSUME TaskInv, [Next]_vars, NEW t \in Tasks, Taken(t)
               PROVE  \E c \in Clients : In(c, "assign") /\ calls[c].task = t
    OBVIOUS
  <2> USE DEF Taken, Owner, Exists
  <2>1. ASSUME NEW c \in Clients, ClaimWrite(c)
        PROVE  FALSE
    <3>1. calls[c].task \in Tasks
      BY <2>1, CallTypes DEF ClaimWrite, In, ClaimCall, TaskInv
    <3> QED
      BY <2>1, <3>1 DEF ClaimWrite, ClaimCondition, taskVars, TaskInv, Typed, PendingUntaken
  <2>2. ASSUME NEW c \in Clients, AssignWrite(c)
        PROVE  In(c, "assign") /\ calls[c].task = t
    <3>1. calls[c].task \in Tasks
      BY <2>2, CallTypes DEF AssignWrite, In, AssignCall, TaskInv
    <3> QED
      BY <2>2, <3>1 DEF AssignWrite, TaskInv, Typed
  <2>3. ASSUME NEW u \in Tasks, CreateTask(u)
        PROVE  FALSE
    BY <2>3 DEF CreateTask, NewTask, TaskInv, Typed
  <2>4. ASSUME NEW u \in Tasks, NEW s \in Said, UpdateStatus(u, s)
        PROVE  FALSE
    BY <2>4 DEF UpdateStatus, WithStatus, TaskInv, Typed
  <2>5. CASE UNCHANGED taskVars
    BY <2>5 DEF taskVars
  <2>6. \/ \E c \in Clients : ClaimWrite(c) \/ AssignWrite(c)
        \/ \E u \in Tasks : CreateTask(u) \/ \E s \in Said : UpdateStatus(u, s)
        \/ UNCHANGED taskVars
    BY DEF Next, vars, taskVars, registryVars, Register, PutCapability, UpdateStateRead, UpdateStateWrite,
           ClaimRead, DispatchQuery, DispatchPick, Crash, Deregister
  <2> QED
    BY <2>6, <2>1, <2>2, <2>3, <2>4, <2>5
<1>2. Step => \A t \in Tasks :
         Owner(t) # None /\ Owner(t)' \notin {None, Owner(t)} =>
             \E c \in Clients : In(c, "assign") /\ calls[c].task = t
  BY DEF Taken
<1> QED
  BY <1>1, <1>2, TaskInvariant, PTL DEF Spec, TakenOnlyByDispatch

----------------------------------------------------------------------------
(* Agents *)

\* The state index goes with the state, and what a capability index does not
\* name yet is left to a registration that is still under way, or was left by
\* one that crashed. A call of update_state asks for a valid transition from
\* the state that it has read.
IndexAgrees ==
    \A k \in Keys : Stored(k) =>
        /\ agentItems[k].index = agentItems[k].state
        /\ \A cap \in agentItems[k].caps :
              \/ <<k, cap>> \in capItems
              \/ k \in incomplete
              \/ \E c \in Clients : calls[c] \in IndexCall /\ calls[c].key = k /\ cap \in calls[c].left

AsksValid == \A c \in Clients : In(c, "state") => calls[c].to \in ValidTransitions[calls[c].seen]

AgentInv == Typed /\ IndexAgrees /\ AsksValid

LEMMA NoIndexCall == None \notin IndexCall
  BY StoreAssumption DEF IndexCall

LEMMA AsksStep ==
    ASSUME AgentInv, [Next]_vars
    PROVE  AsksValid'
<1> USE DEF AgentInv, AsksValid, In, Idle
<1>1. CASE UNCHANGED calls
  BY <1>1
<1>2. ASSUME NEW c \in Clients, NEW call \in Call \cup {None}, GoOn(c, call),
             call # None /\ call.op = "state" => call.to \in ValidTransitions[call.seen]
      PROVE  AsksValid'
  BY <1>2 DEF GoOn, Typed
<1>3. ASSUME NEW c \in Clients, Return(c)
      PROVE  AsksValid'
  BY <1>2, <1>3 DEF Return
<1>4. ASSUME NEW c \in Clients, NEW k \in Keys, NEW caps \in SUBSET Capabilities, Register(c, k, caps)
      PROVE  AsksValid'
  <2>1. [op |-> "index", key |-> k, left |-> caps] \in Call
    BY DEF Call, IndexCall
  <2> QED
    BY <1>1, <1>2, <1>4, <2>1 DEF Register
<1>5. ASSUME NEW c \in Clients, NEW k \in Keys, NEW s \in Asked, UpdateStateRead(c, k, s)
      PROVE  AsksValid'
  <2> DEFINE call == [op |-> "state", key |-> k, seen |-> agentItems[k].state, to |-> s]
  <2>1. agentItems[k].state \in AgentState /\ s \in AgentState
    BY <1>5, StoreAssumption DEF UpdateStateRead, Stored, Typed, AgentItem
  <2>2. call \in Call
    BY <2>1 DEF Call, StateCall
  <2>3. GoOn(c, call) /\ call.to \in ValidTransitions[call.seen]
    BY <1>5 DEF UpdateStateRead
  <2> HIDE DEF call
  <2> QED
    BY <1>2, <2>2, <2>3
<1>6. ASSUME NEW c \in Clients, PutCapability(c)
      PROVE  AsksValid'
  <2>1. calls[c] \in IndexCall
    BY <1>6, CallTypes DEF PutCapability
  <2>2. PICK cap \in calls[c].left : IF calls[c].left = {cap}
                                     THEN Return(c)
                                     ELSE GoOn(c, [calls[c] EXCEPT !.left = @ \ {cap}])
    BY <1>6 DEF PutCapability
  <2>3. [calls[c] EXCEPT !.left = @ \ {cap}] \in IndexCall
    BY <2>1 DEF IndexCall
  <2>4. \A call \in IndexCall : call \in Call /\ call.op = "index"
    BY DEF IndexCall, Call
  <2> QED
    BY <1>2, <1>3, <2>2, <2>3, <2>4
<1>7. ASSUME NEW c \in Clients, NEW t \in Tasks, NEW a \in AgentIds, ClaimRead(c, t, a)
      PROVE  AsksValid'
  <2>1. [op |-> "claim", task |-> t, agent |-> a, seen |-> taskItems[t].status] \in Call
    BY <1>7 DEF ClaimRead, Exists, Typed, TaskItem, Call, ClaimCall
  <2> QED
    BY <1>2, <1>7, <2>1 DEF ClaimRead
<1>8. ASSUME NEW c \in Clients, NEW t \in Tasks, DispatchQuery(c, t)
      PROVE  AsksValid'
  <2>1. [op |-> "dispatch", task |-> t, ready |-> ReadyInIndex(TaskTenant[t])] \in Call
    BY DEF ReadyInIndex, Call, DispatchCall
  <2> QED
    BY <1>2, <1>8, <2>1 DEF DispatchQuery
<1>9. ASSUME NEW c \in Clients, DispatchPick(c)
      PROVE  AsksValid'
  <2>1. calls[c] \in DispatchCall
    BY <1>9, CallTypes DEF DispatchPick
  <2>2. \A k \in calls[c].ready : [op |-> "assign", task |-> calls[c].task, agent |-> k[2]] \in Call
    BY <2>1, KeysAssumption DEF DispatchCall, Call, AssignCall
  <2>3. Return(c) \/ \E k \in calls[c].ready : GoOn(c, [op |-> "assign", task |-> calls[c].task, agent |-> k[2]])
    BY <1>9 DEF DispatchPick
  <2> QED
    BY <1>2, <1>3, <2>2, <2>3
<1>10. \A c \in Clients : UpdateStateWrite(c) \/ ClaimWrite(c) \/ AssignWrite(c) \/ Crash(c) => Return(c)
  BY DEF UpdateStateWrite, ClaimWrite, AssignWrite, Crash
<1>11. (\E k \in Keys : Deregister(k)) \/ (\E t \in Tasks : CreateTask(t) \/ \E s \in Said : UpdateStatus(t, s))
          \/ UNCHANGED vars => UNCHANGED calls
  BY DEF Deregister, CreateTask, UpdateStatus, vars
<1> QED
  BY <1>1, <1>3, <1>4, <1>5, <1>6, <1>7, <1>8, <1>9, <1>10, <1>11 DEF Next

\* A call that is no registration starts or ends, and the agents stay.
LEMMA IndexKept ==
    ASSUME AgentInv, NEW c \in Clients, calls[c] \notin IndexCall, NEW call, GoOn(c, call),
           UNCHANGED registryVars
    PROVE  IndexAgrees'
  BY DEF AgentInv, Typed, IndexAgrees, Stored, GoOn, registryVars

LEMMA IndexStep ==
    ASSUME AgentInv, [Next]_vars
    PROVE  IndexAgrees'
<1> USE DEF AgentInv
<1>0. \A c \in Clients : Idle(c) => calls[c] \notin IndexCall
  BY NoIndexCall DEF Idle
<1>1. ASSUME NEW c \in Clients, NEW k \in Keys, NEW caps \in SUBSET Capabilities, Register(c, k, caps)
      PROVE  IndexAgrees'
  <2> DEFINE call == [op |-> "index", key |-> k, left |-> caps]
  <2>1. call \in IndexCall
    BY DEF IndexCall
  <2>2. agentItems' = [agentItems EXCEPT ![k] = NewItem(caps)] /\ UNCHANGED capItems
    BY <1>1 DEF Register
  <2>3. calls[c] \notin IndexCall
    BY <1>0, <1>1 DEF Register
  <2>4. caps = {} \/ calls' = [calls EXCEPT ![c] = call]
    BY <1>1 DEF Register, GoOn
  <2>5. caps = {} => calls' = calls
    BY <1>1 DEF Register
  <2>6. incomplete' = incomplete \ {k}
    BY <1>1 DEF Register
  <2>7. agentItems'[k].index = agentItems'[k].state /\ agentItems'[k].caps = caps
    BY <2>2 DEF NewItem, Typed
  <2>8. caps # {} => calls'[c] = call /\ call.key = k /\ call.left = caps
    BY <2>4 DEF Typed
  <2> HIDE DEF call
  <2>9. \A cap \in caps : \E d \in Clients : calls'[d] \in IndexCall /\ calls'[d].key = k /\ cap \in calls'[d].left
    BY <2>1, <2>8
  <2>10. ASSUME NEW l \in Keys, l # k, Stored(l)'
         PROVE  /\ agentItems'[l].index = agentItems'[l].state
                /\ \A cap \in agentItems'[l].caps :
                      \/ <<l, cap>> \in capItems'
                      \/ l \in incomplete'
                      \/ \E d \in Clients : calls'[d] \in IndexCall /\ calls'[d].key = l /\ cap \in calls'[d].left
    <3>1. agentItems'[l] = agentItems[l] /\ Stored(l)
      BY <2>2, <2>10 DEF Typed, Stored
    <3>2. \A d \in Clients : calls[d] \in IndexCall => calls'[d] = calls[d]
      BY <2>3, <2>4, <2>5 DEF Typed
    <3> QED
      BY <2>2, <2>6, <2>10, <3>1, <3>2 DEF IndexAgrees
  <2> QED
    BY <2>7, <2>9, <2>10 DEF IndexAgrees
<1>2. ASSUME NEW c \in Clients, PutCapability(c)
      PROVE  IndexAgrees'
  <2>1. calls[c] \in IndexCall
    BY <1>2, CallTypes DEF PutCapability, In
  <2>2. PICK cap \in calls[c].left : /\ capItems' = capItems \cup {<<calls[c].key, cap>>}
                                     /\ IF calls[c].left = {cap}
                                        THEN Return(c)
                                        ELSE GoOn(c, [calls[c] EXCEPT !.left = @ \ {cap}])
    BY <1>2 DEF PutCapability
  <2>3. \A d \in Clients \ {c} : calls'[d] = calls[d]
    BY <2>2 DEF Return, GoOn, Typed
  <2>4. calls[c].left = {cap} \/ (calls'[c] \in IndexCall /\ calls'[c].key = calls[c].key
                                     /\ calls'[c].left = calls[c].left \ {cap})
    BY <2>1, <2>2 DEF GoOn, Typed, IndexCall
  <2>5. agentItems' = agentItems /\ incomplete' = incomplete
    BY <1>2 DEF PutCapability
  <2>6. ASSUME NEW l \in Keys, NEW x \in Capabilities, NEW d \in Clients,
               calls[d] \in IndexCall, calls[d].key = l, x \in calls[d].left
        PROVE  \/ <<l, x>> \in capItems'
               \/ \E e \in Clients : calls'[e] \in IndexCall /\ calls'[e].key = l /\ x \in calls'[e].left
    <3>1. CASE d # c
      BY <2>3, <2>6, <3>1
    <3>2. CASE d = c
      BY <2>2, <2>4, <2>6, <3>2
    <3> QED
      BY <3>1, <3>2
  <2>7. \A l \in Keys : Stored(l) => agentItems[l].caps \subseteq Capabilities
    BY DEF Stored, Typed, AgentItem
  <2> QED
    BY <2>2, <2>5, <2>6, <2>7 DEF IndexAgrees, Stored
<1>3. ASSUME NEW c \in Clients, UpdateStateWrite(c)
      PROVE  IndexAgrees'
  <2> DEFINE k == calls[c].key
  <2>1. k \in Keys /\ calls[c].op = "state"
    BY <1>3, CallTypes DEF UpdateStateWrite, In, StateCall
  <2>2. \A d \in Clients : calls[d] \in IndexCall => calls'[d] = calls[d]
    BY <1>3, <2>1 DEF UpdateStateWrite, Return, GoOn, IndexCall, Typed
  <2>3. \A l \in Keys : l # k => agentItems'[l] = agentItems[l]
    BY <1>3 DEF UpdateStateWrite, Typed
  <2>4. \/ agentItems'[k] = None
        \/ agentItems'[k].caps = {} /\ agentItems'[k].index = agentItems'[k].state
        \/ /\ agentItems[k] # None /\ agentItems'[k].caps = agentItems[k].caps
           /\ agentItems'[k].index = agentItems'[k].state
    BY <1>3, <2>1 DEF UpdateStateWrite, WithState, Typed, AgentItem
  <2>5. capItems' = capItems /\ incomplete' = incomplete
    BY <1>3 DEF UpdateStateWrite
  <2> HIDE DEF k
  <2> QED
    BY <2>5, <2>1, <2>2, <2>3, <2>4 DEF IndexAgrees, Stored
<1>4. ASSUME NEW k \in Keys, Deregister(k)
      PROVE  IndexAgrees'
  BY <1>4 DEF Deregister, IndexAgrees, Stored, Typed
<1>5. ASSUME NEW c \in Clients, Crash(c)
      PROVE  IndexAgrees'
  <2>1. agentItems' = agentItems /\ capItems' = capItems
    BY <1>5 DEF Crash
  <2>2. \A d \in Clients \ {c} : calls'[d] = calls[d]
    BY <1>5 DEF Crash, Return, GoOn, Typed
  <2>3. calls[c] \in IndexCall => calls[c].key \in incomplete'
    BY <1>5 DEF Crash, In, IndexCall
  <2>4. incomplete \subseteq incomplete'
    BY <1>5 DEF Crash
  <2> QED
    BY <2>1, <2>2, <2>3, <2>4 DEF IndexAgrees, Stored
<1>6. ASSUME NEW c \in Clients, ClaimWrite(c) \/ AssignWrite(c) \/ DispatchPick(c)
      PROVE  IndexAgrees'
  <2>1. calls[c] \notin IndexCall
    BY <1>6 DEF ClaimWrite, AssignWrite, DispatchPick, In, IndexCall
  <2>2. \E call : GoOn(c, call)
    BY <1>6 DEF ClaimWrite, AssignWrite, DispatchPick, Return
  <2>3. UNCHANGED registryVars
    BY <1>6 DEF ClaimWrite, AssignWrite, DispatchPick
  <2> QED
    BY <2>1, <2>2, <2>3, IndexKept
<1>7. ASSUME NEW c \in Clients, \/ \E k \in Keys, s \in Asked : UpdateStateRead(c, k, s)
                                \/ \E t \in Tasks, a \in AgentIds : ClaimRead(c, t, a)
                                \/ \E t \in Tasks : DispatchQuery(c, t)
      PROVE  IndexAgrees'
  <2>1. Idle(c) /\ (\E call : GoOn(c, call)) /\ UNCHANGED registryVars
    BY <1>7 DEF UpdateStateRead, ClaimRead, DispatchQuery
  <2> QED
    BY <1>0, <2>1, IndexKept
<1>8. ASSUME UNCHANGED <<registryVars, calls>>
      PROVE  IndexAgrees'
  BY <1>8 DEF registryVars, IndexAgrees, Stored
<1>9. (\E t \in Tasks : CreateTask(t) \/ \E s \in Said : UpdateStatus(t, s)) \/ UNCHANGED vars
         => UNCHANGED <<registryVars, calls>>
  BY DEF CreateTask, UpdateStatus, vars
<1> QED
  BY <1>1, <1>2, <1>3, <1>4, <1>5, <1>6, <1>7, <1>8, <1>9 DEF Next

\* Every reachable state has the invariant of the agent table.
THEOREM AgentInvariant == Spec => []AgentInv
<1>1. Init => AgentInv
  BY TypedInit DEF Init, AgentInv, IndexAgrees, AsksValid, Stored, In, Idle
<1>2. AgentInv /\ [Next]_vars => AgentInv'
  BY TypedStep, AsksStep, IndexStep DEF AgentInv
<1> QED
  BY <1>1, <1>2, PTL DEF Spec

\* An agent that is registered can be found by the state that it has and by
\* every capability that it registered with, unless its registration is under
\* way or crashed (register, find_by_state and find_by_capability).
THEOREM AgentsFindable == Spec => []Findable
<1>1. AgentInv => Findable
  <2> SUFFICES ASSUME AgentInv, NEW k \in Keys, Stored(k)
               PROVE  /\ agentItems[k].index = agentItems[k].state
                      /\ \/ \A cap \in agentItems[k].caps : k \in FindByCapability(cap)
                         \/ k \in incomplete
                         \/ \E c \in Clients : In(c, "index") /\ calls[c].key = k
    BY DEF Findable
  <2>1. \A c \in Clients : calls[c] \in IndexCall => In(c, "index")
    BY NoIndexCall DEF In, Idle, IndexCall
  <2> QED
    BY <2>1 DEF AgentInv, IndexAgrees, FindByCapability
<1> QED
  BY <1>1, AgentInvariant, PTL

\* A step of an agent's life cycle that ValidTransitions forbids is one of an
\* update_state whose reading another process has made stale.
THEOREM InvalidStepsStale == Spec => InvalidOnlyIfStale
<1> DEFINE Stale(k) == \E c \in Clients : /\ In(c, "state") /\ calls[c].key = k
                                          /\ agentItems[k] = None \/ calls[c].seen # agentItems[k].state
           Step == \A k \in Keys : ValidStep(agentItems[k], agentItems'[k]) \/ Stale(k)
<1>1. AgentInv /\ [Next]_vars => Step
  <2> SUFFICES ASSUME AgentInv, [Next]_vars, NEW k \in Keys
               PROVE  ValidStep(agentItems[k], agentItems'[k]) \/ Stale(k)
    OBVIOUS
  <2> USE DEF AgentInv
  <2>1. ASSUME NEW c \in Clients, NEW l \in Keys, NEW caps \in SUBSET Capabilities, Register(c, l, caps)
        PROVE  ValidStep(agentItems[k], agentItems'[k])
    BY <2>1 DEF Register, Stored, NewItem, Typed, ValidStep
  <2>2. ASSUME NEW c \in Clients, UpdateStateWrite(c)
        PROVE  ValidStep(agentItems[k], agentItems'[k]) \/ Stale(k)
    <3>1. calls[c] \in StateCall /\ In(c, "state") /\ calls[c].to \in ValidTransitions[calls[c].seen]
      BY <2>2, CallTypes DEF UpdateStateWrite, AsksValid, In
    <3>2. CASE calls[c].key # k
      BY <2>2, <3>2 DEF UpdateStateWrite, Typed, ValidStep
    <3>3. CASE calls[c].key = k /\ (agentItems[k] = None \/ calls[c].seen # agentItems[k].state)
      BY <3>1, <3>3
    <3>4. CASE calls[c].key = k /\ agentItems[k] # None /\ calls[c].seen = agentItems[k].state
      <4>1. agentItems'[k] = IF calls[c].to = "terminated" THEN None ELSE WithState(agentItems[k], calls[c].to)
        BY <2>2, <3>4 DEF UpdateStateWrite, Typed
      <4>2. WithState(agentItems[k], calls[c].to).state = calls[c].to
        BY <3>4 DEF WithState, Typed, AgentItem
      <4> QED
        BY <3>1, <3>4, <4>1, <4>2 DEF ValidStep
    <3> QED
      BY <3>2, <3>3, <3>4
  <2>3. ASSUME NEW l \in Keys, Deregister(l)
        PROVE  ValidStep(agentItems[k], agentItems'[k])
    BY <2>3 DEF Deregister, Stored, Typed, ValidStep
  <2>4. CASE UNCHANGED agentItems
    BY <2>4 DEF ValidStep
  <2>5. \/ \E c \in Clients : \/ \E l \in Keys, caps \in SUBSET Capabilities : Register(c, l, caps)
                              \/ UpdateStateWrite(c)
        \/ \E l \in Keys : Deregister(l)
        \/ UNCHANGED agentItems
    BY DEF Next, vars, registryVars, taskVars, PutCapability, UpdateStateRead, ClaimRead, ClaimWrite,
           AssignWrite, DispatchQuery, DispatchPick, Crash, CreateTask, UpdateStatus
  <2> HIDE DEF Stale
  <2> QED
    BY <2>5, <2>1, <2>2, <2>3, <2>4
<1>2. Step => \A k \in Keys :
         ValidStep(agentItems[k], agentItems'[k])
         \/ \E c \in Clients :
               /\ In(c, "state") /\ calls[c].key = k
               /\ agentItems[k] = None \/ calls[c].seen # agentItems[k].state
  OBVIOUS
<1> QED
  BY <1>1, <1>2, AgentInvariant, PTL DEF Spec, InvalidOnlyIfStale
=============================================================================
