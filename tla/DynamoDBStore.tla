--------------------------- MODULE DynamoDBStore ---------------------------
(***************************************************************************)
(* The control plane on DynamoDB (control_plane/dynamodb_store.py): the    *)
(* persistent agent registry and task manager, and TaskDispatcher on top   *)
(* of them. Any number of processes share the table. One request to        *)
(* DynamoDB is one step; between the requests of a call, what the process  *)
(* has read is kept in calls, and the process may crash.                   *)
(*                                                                         *)
(* granted, incomplete are history variables: the agents whose claim_task  *)
(* returned since the task was created, and the agents whose registration  *)
(* crashed halfway.                                                        *)
(***************************************************************************)
EXTENDS ControlPlaneData

CONSTANTS
    Clients,        \* processes that use the table
    Asked,          \* the states update_state is called with
    Said,           \* the statuses update_status is called with
    PrefixOf        \* the pairs <<x, y>> of tenants with y's name starting with x

ASSUME StoreAssumption ==
    /\ Asked \subseteq AgentState
    /\ Said \subseteq Reports
    /\ PrefixOf \subseteq Tenants \X Tenants
    /\ \A x \in Tenants : <<x, x>> \in PrefixOf
    /\ None \notin [op : {"index"}, key : Keys, left : SUBSET Capabilities]

VARIABLES
    agentItems,     \* the AGENT# items; index is GSI1PK
    capItems,       \* the CAP# items, as pairs <<key, capability>>
    taskItems,      \* the TASK# items
    calls,          \* per client, the call it is in
    granted,        \* history, see above
    incomplete      \* history, see above

registryVars == <<agentItems, capItems, incomplete>>
taskVars == <<taskItems, granted>>
vars == <<registryVars, taskVars, calls>>

Init ==
    /\ agentItems = [k \in Keys |-> None]
    /\ capItems = {}
    /\ taskItems = [t \in Tasks |-> None]
    /\ calls = [c \in Clients |-> None]
    /\ granted = [t \in Tasks |-> {}]
    /\ incomplete = {}

Stored(k) == agentItems[k] # None

\* An item that update_item had to create has the attributes that it sets and no
\* others: it is not whole, and reading it raises KeyError.
Readable(k) == agentItems[k].whole

NewItem(caps) == [state |-> "boot", index |-> "boot", whole |-> TRUE, caps |-> caps]

NewTask == [status |-> "pending", index |-> "pending", assigned_to |-> None]

Exists(t) == taskItems[t] # None

Idle(c) == calls[c] = None
In(c, op) == ~Idle(c) /\ calls[c].op = op

GoOn(c, call) == calls' = [calls EXCEPT ![c] = call]
Return(c) == GoOn(c, None)

----------------------------------------------------------------------------
(* DynamoDBAgentRegistry *)

\* The conditional put of the agent, then one put for each capability.
Register(c, k, caps) ==
    /\ Idle(c)
    /\ ~Stored(k)
    /\ agentItems' = [agentItems EXCEPT ![k] = NewItem(caps)]
    /\ incomplete' = incomplete \ {k}
    /\ IF caps = {} THEN UNCHANGED calls
                    ELSE GoOn(c, [op |-> "index", key |-> k, left |-> caps])
    /\ UNCHANGED <<capItems, taskVars>>

\* A mutant of PutCapability: only the first capability is indexed.
PutFirstCapability(c) ==
    /\ In(c, "index")
    /\ \E cap \in calls[c].left : capItems' = capItems \cup {<<calls[c].key, cap>>}
    /\ Return(c)
    /\ UNCHANGED <<agentItems, incomplete, taskVars>>

PutCapability(c) ==
    /\ In(c, "index")
    /\ \E cap \in calls[c].left :
          /\ capItems' = capItems \cup {<<calls[c].key, cap>>}
          /\ IF calls[c].left = {cap}
             THEN Return(c)
             ELSE GoOn(c, [calls[c] EXCEPT !.left = @ \ {cap}])
    /\ UNCHANGED <<agentItems, incomplete, taskVars>>

\* find_by_capability: what the index names and get then finds.
FindByCapability(cap) == {k \in Keys : <<k, cap>> \in capItems /\ Stored(k)}

\* deregister deletes the agent's item and leaves its CAP# items.
Deregister(k) ==
    /\ Stored(k)
    /\ agentItems' = [agentItems EXCEPT ![k] = None]
    /\ UNCHANGED <<capItems, incomplete, taskVars, calls>>

\* A mutant of UpdateStateRead: the transition is not validated.
UpdateStateUnchecked(c, k, s) ==
    /\ Idle(c)
    /\ Stored(k) /\ Readable(k)
    /\ GoOn(c, [op |-> "state", key |-> k, seen |-> agentItems[k].state, to |-> s])
    /\ UNCHANGED <<registryVars, taskVars>>

\* update_state: get and validate ...
UpdateStateRead(c, k, s) ==
    /\ Idle(c)
    /\ Stored(k) /\ Readable(k)
    /\ s \in ValidTransitions[agentItems[k].state]
    /\ GoOn(c, [op |-> "state", key |-> k, seen |-> agentItems[k].state, to |-> s])
    /\ UNCHANGED <<registryVars, taskVars>>

WithState(item, s) ==
    IF item = None
    THEN [state |-> s, index |-> s, whole |-> FALSE, caps |-> {}]
    ELSE [item EXCEPT !.state = s, !.index = s]

\* ... then the unconditional update_item, or the delete for TERMINATED.
UpdateStateWrite(c) ==
    /\ In(c, "state")
    /\ agentItems' = [agentItems EXCEPT ![calls[c].key] =
                        IF calls[c].to = "terminated" THEN None
                                                      ELSE WithState(@, calls[c].to)]
    /\ Return(c)
    /\ UNCHANGED <<capItems, incomplete, taskVars>>

----------------------------------------------------------------------------
(* DynamoDBTaskManager. Each call first gets the task; what it uses of it,   *)
(* but for the status, never changes, and tasks are never deleted.           *)

\* create_task puts the item, whatever is there.
CreateTask(t) ==
    /\ taskItems' = [taskItems EXCEPT ![t] = NewTask]
    /\ granted' = [granted EXCEPT ![t] = {}]
    /\ UNCHANGED <<registryVars, calls>>

WithStatus(item, s, a) == [status |-> s, index |-> s, assigned_to |-> a]

ClaimRead(c, t, a) ==
    /\ Idle(c)
    /\ Exists(t)
    /\ GoOn(c, [op |-> "claim", task |-> t, agent |-> a, seen |-> taskItems[t].status])
    /\ UNCHANGED <<registryVars, taskVars>>

\* A mutant of ClaimCondition: the status that was read is compared, not the
\* one that is there when the update is made.
ClaimConditionAsRead(c) == calls[c].seen = "pending"

ClaimCondition(c) == taskItems[calls[c].task].status = "pending"

\* The conditional update: claim_task returns the task or raises ValueError.
ClaimWrite(c) ==
    /\ In(c, "claim")
    /\ LET t == calls[c].task
           a == calls[c].agent
       IN  IF ClaimCondition(c)
           THEN /\ taskItems' = [taskItems EXCEPT ![t] = WithStatus(@, "claimed", a)]
                /\ granted' = [granted EXCEPT ![t] = @ \cup {a}]
           ELSE UNCHANGED taskVars
    /\ Return(c)
    /\ UNCHANGED registryVars

\* assign_task's update has no condition.
AssignWrite(c) ==
    /\ In(c, "assign")
    /\ taskItems' = [taskItems EXCEPT ![calls[c].task] =
                       WithStatus(@, "assigned", calls[c].agent)]
    /\ Return(c)
    /\ UNCHANGED <<granted, registryVars>>

UpdateStatus(t, s) ==
    /\ Exists(t)
    /\ taskItems' = [taskItems EXCEPT ![t] = WithStatus(@, s, @.assigned_to)]
    /\ UNCHANGED <<granted, registryVars, calls>>

----------------------------------------------------------------------------
(* TaskDispatcher.dispatch on these two stores *)

\* find_by_state asks the index for the READY agents whose sort key starts
\* with the tenant's name, ...
ReadyInIndex(tenant) ==
    {k \in Keys : Stored(k) /\ agentItems[k].index = "ready" /\ <<tenant, k[1]>> \in PrefixOf}

DispatchQuery(c, t) ==
    /\ Idle(c)
    /\ Exists(t) /\ TaskNeeds[t] # {}
    /\ GoOn(c, [op |-> "dispatch", task |-> t, ready |-> ReadyInIndex(TaskTenant[t])])
    /\ UNCHANGED <<registryVars, taskVars>>

\* ... and gets each of them: those that are gone are skipped, and one that is
\* not whole ends the call with KeyError. Any candidate may score best.
DispatchPick(c) ==
    /\ In(c, "dispatch")
    /\ LET there == {k \in calls[c].ready : Stored(k)}
           candidates == {k \in there : TaskNeeds[calls[c].task] \subseteq agentItems[k].caps}
       IN  IF candidates = {} \/ \E k \in there : ~Readable(k)
           THEN Return(c)
           ELSE \E k \in candidates :
                   GoOn(c, [op |-> "assign", task |-> calls[c].task, agent |-> k[2]])
    /\ UNCHANGED <<registryVars, taskVars>>

----------------------------------------------------------------------------

\* A process dies; its requests so far stay.
Crash(c) ==
    /\ ~Idle(c)
    /\ incomplete' = IF In(c, "index") THEN incomplete \cup {calls[c].key} ELSE incomplete
    /\ Return(c)
    /\ UNCHANGED <<agentItems, capItems, taskVars>>

Next ==
    \/ \E c \in Clients :
          \/ \E k \in Keys : \/ \E caps \in SUBSET Capabilities : Register(c, k, caps)
                             \/ \E s \in Asked : UpdateStateRead(c, k, s)
          \/ PutCapability(c)
          \/ UpdateStateWrite(c)
          \/ \E t \in Tasks : \/ \E a \in AgentIds : ClaimRead(c, t, a)
                              \/ DispatchQuery(c, t)
          \/ ClaimWrite(c)
          \/ AssignWrite(c)
          \/ DispatchPick(c)
          \/ Crash(c)
    \/ \E k \in Keys : Deregister(k)
    \/ \E t \in Tasks : CreateTask(t) \/ \E s \in Said : UpdateStatus(t, s)

Spec == Init /\ [][Next]_vars

----------------------------------------------------------------------------

\* claim_task is atomic across processes: of the agents that claim a task
\* after it was created, one at most is given it.
ClaimExclusive == \A t \in Tasks : \A a, b \in granted[t] : a = b

\* The dispatcher's indexes lead to every agent: the state index says what the
\* item says, and find_by_capability finds an agent by each capability that it
\* registered with, once the registration has returned. Only a crash halfway
\* leaves an agent that is registered and cannot be found.
Findable ==
    \A k \in Keys : Stored(k) =>
        /\ agentItems[k].index = agentItems[k].state
        /\ \/ \A cap \in agentItems[k].caps : k \in FindByCapability(cap)
           \/ k \in incomplete
           \/ \E c \in Clients : In(c, "index") /\ calls[c].key = k

ValidStep(old, new) ==
    \/ new = old
    \/ old # None /\ new # None /\ new.state \in ValidTransitions[old.state]
    \/ old # None /\ new = None                              \* terminated or deleted
    \/ old = None /\ new # None /\ new.state = "boot"        \* registered

\* update_state breaks the agent life cycle only when another process changed
\* the agent between its read and its write.
InvalidOnlyIfStale ==
    [][\A k \in Keys :
         ValidStep(agentItems[k], agentItems'[k])
         \/ \E c \in Clients :
               /\ In(c, "state") /\ calls[c].key = k
               /\ agentItems[k] = None \/ calls[c].seen # agentItems[k].state]_vars

Owner(t) == IF Exists(t) THEN taskItems[t].assigned_to ELSE None

\* A task goes from one agent straight to another only by the hand of the
\* dispatcher, whose update has no condition; a claim never takes it away.
TakenOnlyByDispatch ==
    [][\A t \in Tasks :
         Owner(t) # None /\ Owner(t)' \notin {None, Owner(t)} =>
             \E c \in Clients : In(c, "assign") /\ calls[c].task = t]_vars

=============================================================================
