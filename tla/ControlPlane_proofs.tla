------------------------ MODULE ControlPlane_proofs ------------------------
(***************************************************************************)
(* Theorems about ControlPlane, for every set of tenants, agents, tasks    *)
(* and profiles and for every value of the limits.                         *)
(***************************************************************************)
EXTENDS ControlPlane, TLAPS

----------------------------------------------------------------------------
(* Ages *)

LEMMA AgeType ==
    ASSUME NEW limit \in Nat
    PROVE  /\ 0 \in Age(limit) /\ None \in Age(limit)
           /\ \A age \in Age(limit) : Older(age, limit) \in Age(limit)
BY NamesAssumption DEF Age, Older

LEMMA AgeKept ==
    ASSUME NEW limit \in Nat, NEW age \in Age(limit)
    PROVE  age = None <=> Older(age, limit) = None
BY NamesAssumption DEF Age, Older

----------------------------------------------------------------------------
(* Type correctness *)

LEMMA AgentsTypeStep ==
    ASSUME AgentsTypeOK, [Next]_vars
    PROVE  AgentsTypeOK'
<1> BeatTimeout \in Nat
  BY RegistryAssumption
<1> USE AgeType DEF AgentsTypeOK, AgentRecord, AgentState
<1>1. ASSUME NEW k \in Keys, NEW p \in Profiles, Register(k, p)
      PROVE  AgentsTypeOK'
  BY <1>1 DEF Register
<1>2. ASSUME NEW k \in Keys, Deregister(k)
      PROVE  AgentsTypeOK'
  BY <1>2 DEF Deregister
<1>3. ASSUME NEW k \in Keys, Boot(k)
      PROVE  AgentsTypeOK'
  BY <1>3 DEF Boot, InState, Registered
<1>4. ASSUME NEW k \in Keys, UpdateHeartbeat(k)
      PROVE  AgentsTypeOK'
  BY <1>4 DEF UpdateHeartbeat, Registered
<1>5. ASSUME NEW k \in Keys, AutoRestart(k)
      PROVE  AgentsTypeOK'
  BY <1>5 DEF AutoRestart, InState, Registered
<1>6. ASSUME NEW k \in Keys, NEW s \in AgentState, UpdateState(k, s)
      PROVE  AgentsTypeOK'
  BY <1>6 DEF UpdateState, Registered
<1>7. ASSUME NEW scope, CheckAll(scope)
      PROVE  AgentsTypeOK'
  BY <1>7 DEF CheckAll, InState, Registered
<1>8. ASSUME AgeBeats
      PROVE  AgentsTypeOK'
  BY <1>8 DEF AgeBeats, Registered
<1>9. CASE UNCHANGED agents
  BY <1>9
<1> QED
  BY <1>1, <1>2, <1>3, <1>4, <1>5, <1>6, <1>7, <1>8, <1>9
     DEF Next, vars, RegisterAgent, ForceDeregister, AgentStep, Dispatch,
         Drain, Shutdown, TaskStep, Tick

\* What every operation on tasks leaves alone, whoever calls it.
LEMMA TaskOperations ==
    ASSUME [Next]_vars
    PROVE  \/ \E t \in Tasks : CreateTask(t)
           \/ \E t \in Tasks, a \in AgentIds : ClaimCheck(t, a)
           \/ \E t \in Tasks : \E k \in Candidates(t) : AssignCheck(t, k[2])
           \/ \E c \in pending : ClaimWrite(c)
           \/ \E c \in pending : AssignWrite(c)
           \/ \E t \in Tasks, s \in Reports : UpdateStatus(t, s)
           \/ \E t \in Tasks : RetryOrFail(t)
           \/ ReleaseExpiredClaims
           \/ \E k \in Keys : RequeueAll(Holding(k)) /\ Quiet
           \/ AgeClaims /\ UNCHANGED <<pending, winners>>
           \/ UNCHANGED taskVars
BY DEF Next, vars, taskVars, RegisterAgent, ForceDeregister, RegistryCall,
       AgentStep, Dispatch, Drain, Shutdown, TaskStep, Tick

LEMMA RequeueAllType ==
    ASSUME TasksTypeOK, NEW ts, \A t \in ts \cap Tasks : Exists(t), RequeueAll(ts)
    PROVE  TasksTypeOK'
<1> LeaseTicks \in Nat
  BY TaskAssumption
<1> \A t \in ts \cap Tasks : Requeued(tasks[t]) \in Task
  BY AgeType, ZenonT(40) DEF TasksTypeOK, Exists, Task, TaskStatus, Requeued
<1> QED
  BY NoneIsNoTask DEF TasksTypeOK, RequeueAll, Exists, Call

LEMMA WriteType ==
    ASSUME TasksTypeOK, NEW t \in Tasks, NEW task \in Task,
           tasks' = [tasks EXCEPT ![t] = task],
           pending' \subseteq pending,
           winners' \in [Tasks -> SUBSET AgentIds]
    PROVE  TasksTypeOK'
BY NoneIsNoTask DEF TasksTypeOK, Exists, Call

LEMMA TasksTypeStep ==
    ASSUME TasksTypeOK, [Next]_vars
    PROVE  TasksTypeOK'
<1> LeaseTicks \in Nat /\ RetryCap \in Nat
  BY TaskAssumption
<1> USE AgeType
<1>1. ASSUME NEW t \in Tasks, CreateTask(t)
      PROVE  TasksTypeOK'
  <2>1. NewTask \in Task
    BY DEF NewTask, Task, TaskStatus
  <2> QED
    BY <1>1, <2>1, WriteType DEF CreateTask, TasksTypeOK
<1>2. ASSUME NEW t \in Tasks, NEW a \in AgentIds, ClaimCheck(t, a)
      PROVE  TasksTypeOK'
  BY <1>2 DEF ClaimCheck, Claimable, Exists, TasksTypeOK, Call
<1>3. ASSUME NEW t \in Tasks, NEW k \in Candidates(t), AssignCheck(t, k[2])
      PROVE  TasksTypeOK'
  <2>1. k[2] \in AgentIds
    BY KeysAssumption DEF Candidates
  <2> QED
    BY <1>3, <2>1 DEF AssignCheck, Assignable, Exists, TasksTypeOK, Call
<1>4. ASSUME NEW c \in pending, ClaimWrite(c)
      PROVE  TasksTypeOK'
  <2>1. c.task \in Tasks /\ c.agent \in AgentIds /\ tasks[c.task] \in Task
    BY DEF TasksTypeOK, Call, Exists
  <2>2. Claimed(tasks[c.task], c.agent) \in Task
    BY <2>1 DEF Claimed, Task, TaskStatus
  <2> QED
    BY <1>4, <2>1, <2>2, WriteType DEF ClaimWrite, TasksTypeOK
<1>5. ASSUME NEW c \in pending, AssignWrite(c)
      PROVE  TasksTypeOK'
  <2>1. c.task \in Tasks /\ c.agent \in AgentIds /\ tasks[c.task] \in Task
    BY DEF TasksTypeOK, Call, Exists
  <2>2. Assigned(tasks[c.task], c.agent) \in Task
    BY <2>1 DEF Assigned, Task, TaskStatus
  <2> QED
    BY <1>5, <2>1, <2>2, WriteType DEF AssignWrite, TasksTypeOK
<1>6. ASSUME NEW t \in Tasks, NEW s \in Reports, UpdateStatus(t, s)
      PROVE  TasksTypeOK'
  <2>1. tasks[t] \in Task /\ s \in TaskStatus
    BY <1>6 DEF UpdateStatus, Exists, Reports, Terminal, TasksTypeOK, TaskStatus
  <2>2. Reported(tasks[t], s) \in Task
    BY <2>1 DEF Reported, Task
  <2> QED
    BY <1>6, <2>2, WriteType DEF UpdateStatus, TasksTypeOK
<1>7. ASSUME NEW t \in Tasks, RetryOrFail(t)
      PROVE  TasksTypeOK'
  <2> DEFINE counted == [tasks[t] EXCEPT !.retry_count = @ + 1]
  <2>1. counted \in Task
    BY <1>7 DEF RetryOrFail, Exists, TasksTypeOK, Task
  <2>2. /\ Requeued(counted) \in Task
        /\ [counted EXCEPT !.status = "failed", !.completed = TRUE] \in Task
    BY <2>1 DEF Requeued, Task, TaskStatus
  <2>3. winners' \in [Tasks -> SUBSET AgentIds]
    BY <1>7 DEF RetryOrFail, TasksTypeOK
  <2> QED
    BY <1>7, <2>2, <2>3, WriteType DEF RetryOrFail
<1>8. ASSUME ReleaseExpiredClaims
      PROVE  TasksTypeOK'
  BY <1>8, RequeueAllType DEF ReleaseExpiredClaims, LeaseExpired
<1>9. ASSUME NEW k \in Keys, RequeueAll(Holding(k))
      PROVE  TasksTypeOK'
  BY <1>9, RequeueAllType DEF Holding
<1>10. ASSUME AgeClaims, UNCHANGED <<pending, winners>>
       PROVE  TasksTypeOK'
  BY <1>10, NoneIsNoTask DEF AgeClaims, Exists, TasksTypeOK, Task, Call
<1>11. CASE UNCHANGED taskVars
  BY <1>11 DEF taskVars, TasksTypeOK, Exists
<1> QED
  BY <1>1, <1>2, <1>3, <1>4, <1>5, <1>6, <1>7, <1>8, <1>9, <1>10, <1>11,
     TaskOperations

\* The control plane's variables keep their types.
THEOREM TypeCorrect == Spec => []TypeOK
<1>1. Init => TypeOK
  BY DEF Init, AgentsInit, TasksInit, TypeOK, AgentsTypeOK, TasksTypeOK
<1>2. TypeOK /\ [Next]_vars => TypeOK'
  <2> SUFFICES ASSUME TypeOK, [Next]_vars
               PROVE  TypeOK'
    OBVIOUS
  <2>1. (forced \subseteq Keys)'
    BY DEF TypeOK, Next, vars, RegisterAgent, ForceDeregister, AgentStep,
           Dispatch, Drain, Shutdown, TaskStep, Tick
  <2> QED
    BY <2>1, AgentsTypeStep, TasksTypeStep DEF TypeOK
<1> QED
  BY <1>1, <1>2, PTL DEF Spec

----------------------------------------------------------------------------
(* The shape of tasks *)

LEMMA WriteShape ==
    ASSUME TasksTypeOK, TaskShape, NEW t \in Tasks, NEW task, WellShaped(task),
           tasks' = [tasks EXCEPT ![t] = task]
    PROVE  TaskShape'
BY DEF TasksTypeOK, TaskShape, Exists, WellShaped

LEMMA RequeuedShape ==
    ASSUME NEW task \in Task
    PROVE  WellShaped(Requeued(task))
BY DEF WellShaped, Requeued, Task

LEMMA RequeueAllShape ==
    ASSUME TasksTypeOK, TaskShape, NEW ts, \A t \in ts \cap Tasks : Exists(t),
           RequeueAll(ts)
    PROVE  TaskShape'
<1>1. \A t \in ts \cap Tasks : WellShaped(Requeued(tasks[t]))
  BY RequeuedShape DEF TasksTypeOK, Exists
<1> QED
  BY <1>1 DEF TasksTypeOK, TaskShape, Exists, RequeueAll, WellShaped

LEMMA TaskShapeStep ==
    ASSUME TasksTypeOK, TaskShape, [Next]_vars
    PROVE  TaskShape'
<1> LeaseTicks \in Nat
  BY TaskAssumption
<1>1. ASSUME NEW t \in Tasks, CreateTask(t)
      PROVE  TaskShape'
  <2>1. WellShaped(NewTask)
    BY DEF WellShaped, NewTask
  <2> QED
    BY <1>1, <2>1, WriteShape DEF CreateTask
<1>2. ASSUME NEW c \in pending, ClaimWrite(c)
      PROVE  TaskShape'
  <2>1. c.task \in Tasks /\ c.agent \in AgentIds /\ tasks[c.task] \in Task
    BY DEF TasksTypeOK, Call, Exists
  <2>2. WellShaped(Claimed(tasks[c.task], c.agent))
    BY <2>1, NamesAssumption DEF WellShaped, Claimed, Task
  <2> QED
    BY <1>2, <2>1, <2>2, WriteShape DEF ClaimWrite
<1>3. ASSUME NEW c \in pending, AssignWrite(c)
      PROVE  TaskShape'
  <2>1. c.task \in Tasks /\ c.agent \in AgentIds /\ tasks[c.task] \in Task
    BY DEF TasksTypeOK, Call, Exists
  <2>2. WellShaped(Assigned(tasks[c.task], c.agent))
    BY <2>1, NamesAssumption DEF WellShaped, Assigned, Task
  <2> QED
    BY <1>3, <2>1, <2>2, WriteShape DEF AssignWrite
<1>4. ASSUME NEW t \in Tasks, NEW s \in Reports, UpdateStatus(t, s)
      PROVE  TaskShape'
  <2>1. tasks[t] \in Task
    BY <1>4 DEF UpdateStatus, Exists, TasksTypeOK
  <2>2. WellShaped(Reported(tasks[t], s))
    BY <2>1 DEF WellShaped, Reported, Task, Reports, Terminal
  <2> QED
    BY <1>4, <2>2, WriteShape DEF UpdateStatus
<1>5. ASSUME NEW t \in Tasks, RetryOrFail(t)
      PROVE  TaskShape'
  <2> DEFINE counted == [tasks[t] EXCEPT !.retry_count = @ + 1]
  <2>1. counted \in Task
    BY <1>5, TaskAssumption DEF RetryOrFail, Exists, TasksTypeOK, Task
  <2>2. WellShaped([counted EXCEPT !.status = "failed", !.completed = TRUE])
    BY <2>1 DEF WellShaped, Task
  <2>3. WellShaped(Requeued(counted))
    BY <2>1, RequeuedShape
  <2> QED
    BY <1>5, <2>2, <2>3, WriteShape DEF RetryOrFail
<1>6. ASSUME ReleaseExpiredClaims
      PROVE  TaskShape'
  BY <1>6, RequeueAllShape DEF ReleaseExpiredClaims, LeaseExpired
<1>7. ASSUME NEW k \in Keys, RequeueAll(Holding(k))
      PROVE  TaskShape'
  BY <1>7, RequeueAllShape DEF Holding
<1>8. ASSUME AgeClaims
      PROVE  TaskShape'
  <2>1. ASSUME NEW t \in Tasks, Exists(t)
        PROVE  WellShaped([tasks[t] EXCEPT !.claim_age = Older(@, LeaseTicks)])
    <3>1. tasks[t] \in Task /\ WellShaped(tasks[t])
      BY <2>1 DEF TasksTypeOK, TaskShape, Exists
    <3>2. tasks[t].claim_age = None <=> Older(tasks[t].claim_age, LeaseTicks) = None
      BY <3>1, AgeKept DEF Task
    <3> QED
      BY <3>1, <3>2 DEF WellShaped, Task
  <2> QED
    BY <1>8, <2>1 DEF AgeClaims, TaskShape, TasksTypeOK, Exists
<1>9. CASE UNCHANGED tasks
  BY <1>9 DEF TaskShape, Exists, WellShaped
<1> QED
  BY <1>1, <1>2, <1>3, <1>4, <1>5, <1>6, <1>7, <1>8, <1>9, TaskOperations
     DEF ClaimCheck, AssignCheck, taskVars

\* Queued, assigned and claimed tasks are what the dispatcher, claim_task and
\* the lease sweep take them to be; this holds for threads too.
THEOREM ShapeCorrect == Spec => []TaskShape
<1>1. Init => TaskShape
  BY DEF Init, TasksInit, TaskShape, Exists
<1>2. TypeOK /\ TaskShape /\ [Next]_vars => TaskShape'
  BY TaskShapeStep DEF TypeOK
<1> QED
  BY <1>1, <1>2, TypeCorrect, PTL DEF Spec

----------------------------------------------------------------------------
(* Calls on one event loop *)

LEMMA QuietMeansNone == ASSUME ~Threaded, Quiet PROVE pending = {}
BY DEF Quiet

\* A step that is not a claim's or an assignment's leaves no call half done.
LEMMA CallsCurrentStep ==
    ASSUME ~Threaded, TypeOK, CallsCurrent, [Next]_vars
    PROVE  CallsCurrent'
<1> USE QuietMeansNone
<1>1. ASSUME NEW t \in Tasks, NEW a \in AgentIds, ClaimCheck(t, a)
      PROVE  CallsCurrent'
  BY <1>1 DEF ClaimCheck, CallsCurrent, Claimable, Exists
<1>2. ASSUME NEW t \in Tasks, Dispatch(t)
      PROVE  CallsCurrent'
  <2>1. PICK k \in Candidates(t) : AssignCheck(t, k[2])
    BY <1>2 DEF Dispatch
  <2>2. k = <<TaskTenant[t], k[2]>> /\ k \in Keys /\ Registered(k)
    BY KeysAssumption DEF Candidates, InState
  <2>3. UNCHANGED agents
    BY <1>2 DEF Dispatch
  <2>4. pending' = {[op |-> "assign", task |-> t, agent |-> k[2]]}
    BY <2>1 DEF AssignCheck
  <2>5. Assignable(t)'
    BY <2>1 DEF AssignCheck, Assignable, Exists
  <2> QED
    BY <2>2, <2>3, <2>4, <2>5 DEF CallsCurrent, Registered
<1>3. ASSUME NEW c \in pending, ClaimWrite(c) \/ AssignWrite(c)
      PROVE  CallsCurrent'
  <2>1. pending' = {}
    BY <1>3 DEF ClaimWrite, AssignWrite, CallsCurrent
  <2> QED
    BY <2>1 DEF CallsCurrent
<1>4. CASE Tick
  <2>1. ASSUME NEW t \in Tasks
        PROVE  /\ Exists(t)' <=> Exists(t)
               /\ Exists(t) => /\ tasks'[t].status = tasks[t].status
                               /\ tasks'[t].assigned_to = tasks[t].assigned_to
    <3>1. tasks[t] = None \/ tasks[t] \in Task
      BY DEF TypeOK, TasksTypeOK
    <3>2. CASE tasks[t] = None
      BY <1>4, <3>2 DEF Tick, AgeClaims, Exists
    <3>3. CASE tasks[t] \in Task
      <4>1. tasks'[t] = [tasks[t] EXCEPT !.claim_age = Older(@, LeaseTicks)]
        BY <1>4, <3>3, NoneIsNoTask DEF Tick, AgeClaims, Exists
      <4>2. tasks'[t] \in Task
        BY <3>3, <4>1, AgeType, TaskAssumption DEF Task
      <4> QED
        BY <3>3, <4>1, <4>2, NoneIsNoTask DEF Exists, Task
    <3> QED
      BY <3>1, <3>2, <3>3
  <2>2. ASSUME NEW k \in Keys, Registered(k)
        PROVE  Registered(k)'
    <3>1. agents'[k] = [agents[k] EXCEPT !.beat = Older(@, BeatTimeout)]
      BY <1>4, <2>2 DEF Tick, AgeBeats
    <3>2. agents'[k] \in AgentRecord
      BY <2>2, <3>1, AgeType, RegistryAssumption
         DEF TypeOK, AgentsTypeOK, Registered, AgentRecord
    <3> QED
      BY <3>2, NoneIsNoAgent DEF Registered
  <2>3. UNCHANGED pending /\ pending \subseteq Call
    BY <1>4 DEF Tick, TypeOK, TasksTypeOK
  <2> QED
    BY <2>1, <2>2, <2>3 DEF CallsCurrent, Claimable, Assignable, Call
<1>5. CASE UNCHANGED vars
  BY <1>5 DEF vars, CallsCurrent, Claimable, Assignable, Exists, Registered
<1>6. ASSUME pending' \subseteq pending, Quiet
      PROVE  CallsCurrent'
  BY <1>6 DEF CallsCurrent
<1>7. ASSUME RegistryCall
      PROVE  CallsCurrent'
  BY <1>7, <1>6 DEF RegistryCall, taskVars
<1>8. ASSUME NEW ts, RequeueAll(ts), Quiet
      PROVE  CallsCurrent'
  BY <1>8, <1>6 DEF RequeueAll
<1>9. ASSUME NEW t \in Tasks,
             CreateTask(t) \/ RetryOrFail(t) \/ \E s \in Reports : UpdateStatus(t, s)
      PROVE  CallsCurrent'
  BY <1>9, <1>6 DEF CreateTask, RetryOrFail, UpdateStatus
<1> QED
  BY <1>1, <1>2, <1>3, <1>4, <1>5, <1>7, <1>8, <1>9
     DEF Next, RegisterAgent, ForceDeregister, AgentStep, Drain, Shutdown,
         TaskStep, ReleaseExpiredClaims

----------------------------------------------------------------------------
(* Claims *)

\* What a step of the task manager does to one task, and to who was told
\* that it is theirs.
LEMMA WriteClaims ==
    ASSUME TasksTypeOK, QueueClean, ClaimExclusive,
           NEW t \in Tasks, NEW task, NEW w \in SUBSET AgentIds,
           tasks' = [tasks EXCEPT ![t] = task],
           winners' = [winners EXCEPT ![t] = w],
           w # {} => task # None /\ task.status \notin {"pending", "assigned"},
           \A a, b \in w : a = b
    PROVE  QueueClean' /\ ClaimExclusive'
BY DEF TasksTypeOK, QueueClean, ClaimExclusive, Exists

LEMMA RequeueAllClaims ==
    ASSUME TasksTypeOK, QueueClean, ClaimExclusive, NEW ts, RequeueAll(ts)
    PROVE  QueueClean' /\ ClaimExclusive'
BY DEF TasksTypeOK, QueueClean, ClaimExclusive, Exists, RequeueAll

LEMMA ClaimsStep ==
    ASSUME ~Threaded, TasksTypeOK, CallsCurrent, QueueClean, ClaimExclusive,
           [Next]_vars
    PROVE  QueueClean' /\ ClaimExclusive'
<1> LeaseTicks \in Nat /\ RetryCap \in Nat
  BY TaskAssumption
<1>1. ASSUME NEW t \in Tasks, CreateTask(t)
      PROVE  QueueClean' /\ ClaimExclusive'
  BY <1>1, WriteClaims DEF CreateTask
<1>2. ASSUME NEW c \in pending, ClaimWrite(c)
      PROVE  QueueClean' /\ ClaimExclusive'
  <2>1. c.task \in Tasks /\ c.agent \in AgentIds /\ tasks[c.task] \in Task
    BY DEF TasksTypeOK, Call, Exists
  <2>2. winners[c.task] = {}
    BY <1>2, <2>1 DEF ClaimWrite, CallsCurrent, Claimable, QueueClean
  <2>3. winners' = [winners EXCEPT ![c.task] = {c.agent}]
    BY <1>2, <2>2 DEF ClaimWrite
  <2>4. Claimed(tasks[c.task], c.agent) \in Task
    BY <2>1, AgeType DEF Claimed, Task, TaskStatus
  <2>5. Claimed(tasks[c.task], c.agent).status = "claimed"
    BY <2>1 DEF Claimed, Task
  <2> QED
    <3> DEFINE task == Claimed(tasks[c.task], c.agent)
    <3>1. tasks' = [tasks EXCEPT ![c.task] = task]
      BY <1>2 DEF ClaimWrite
    <3>2. task # None /\ task.status \notin {"pending", "assigned"}
      BY <2>4, <2>5, NoneIsNoTask
    <3>3. {c.agent} \in SUBSET AgentIds /\ \A a, b \in {c.agent} : a = b
      BY <2>1
    <3> HIDE DEF task
    <3> QED
      BY <2>1, <2>3, <3>1, <3>2, <3>3, WriteClaims
<1>3. ASSUME NEW c \in pending, AssignWrite(c)
      PROVE  QueueClean' /\ ClaimExclusive'
  <2>1. c.task \in Tasks /\ winners[c.task] = {}
    BY <1>3 DEF AssignWrite, CallsCurrent, Assignable, QueueClean, TasksTypeOK, Call
  <2>2. winners' = [winners EXCEPT ![c.task] = {}]
    BY <1>3, <2>1 DEF AssignWrite, TasksTypeOK
  <2> QED
    BY <1>3, <2>1, <2>2, WriteClaims DEF AssignWrite
<1>4. ASSUME NEW t \in Tasks, NEW s \in Reports, UpdateStatus(t, s)
      PROVE  QueueClean' /\ ClaimExclusive'
  <2>1. tasks[t] \in Task
    BY <1>4 DEF UpdateStatus, Exists, TasksTypeOK
  <2>2. Reported(tasks[t], s) \in Task /\ Reported(tasks[t], s).status = s
    BY <2>1 DEF Reported, Task, Reports, Terminal, TaskStatus
  <2>3. s \notin {"pending", "assigned"}
    BY DEF Reports, Terminal
  <2>4. winners[t] \in SUBSET AgentIds /\ winners' = [winners EXCEPT ![t] = winners[t]]
    BY <1>4 DEF UpdateStatus, TasksTypeOK
  <2> QED
    BY <1>4, <2>2, <2>3, <2>4, NoneIsNoTask, WriteClaims
       DEF UpdateStatus, ClaimExclusive
<1>5. ASSUME NEW t \in Tasks, RetryOrFail(t)
      PROVE  QueueClean' /\ ClaimExclusive'
  <2> DEFINE counted == [tasks[t] EXCEPT !.retry_count = @ + 1]
             ended == [counted EXCEPT !.status = "failed", !.completed = TRUE]
  <2>1. counted \in Task
    BY <1>5 DEF RetryOrFail, Exists, TasksTypeOK, Task
  <2>2. ended \in Task /\ ended.status = "failed"
    BY <2>1 DEF Task, TaskStatus
  <2>3. CASE counted.retry_count > MaxRetries
    <3>1. tasks' = [tasks EXCEPT ![t] = ended]
      BY <1>5, <2>3 DEF RetryOrFail
    <3>2. winners[t] \in SUBSET AgentIds /\ winners' = [winners EXCEPT ![t] = winners[t]]
      BY <1>5, <2>3 DEF RetryOrFail, TasksTypeOK
    <3> QED
      <4>1. ended # None /\ ended.status \notin {"pending", "assigned"}
        BY <2>2, NoneIsNoTask
      <4>2. \A a, b \in winners[t] : a = b
        BY DEF ClaimExclusive
      <4> HIDE DEF ended
      <4> QED
        BY <3>1, <3>2, <4>1, <4>2, WriteClaims
  <2>4. CASE ~(counted.retry_count > MaxRetries)
    <3>1. /\ tasks' = [tasks EXCEPT ![t] = Requeued(counted)]
          /\ winners' = [winners EXCEPT ![t] = {}]
      BY <1>5, <2>4 DEF RetryOrFail
    <3> QED
      BY <3>1, WriteClaims
  <2> QED
    BY <2>3, <2>4
<1>6. ASSUME NEW ts, RequeueAll(ts)
      PROVE  QueueClean' /\ ClaimExclusive'
  BY <1>6, RequeueAllClaims
<1>7. ASSUME AgeClaims, UNCHANGED winners
      PROVE  QueueClean' /\ ClaimExclusive'
  <2>1. ASSUME NEW t \in Tasks, Exists(t)
        PROVE  Exists(t)' /\ tasks'[t].status = tasks[t].status
    <3>1. tasks[t] \in Task /\ tasks'[t] = [tasks[t] EXCEPT !.claim_age = Older(@, LeaseTicks)]
      BY <1>7, <2>1 DEF AgeClaims, TasksTypeOK, Exists
    <3>2. tasks'[t] \in Task
      BY <3>1, AgeType DEF Task
    <3> QED
      BY <3>1, <3>2, NoneIsNoTask DEF Exists, Task
  <2> QED
    BY <1>7, <2>1 DEF QueueClean, ClaimExclusive
<1>8. CASE UNCHANGED <<tasks, winners>>
  BY <1>8 DEF QueueClean, ClaimExclusive, Exists
<1> QED
  BY <1>1, <1>2, <1>3, <1>4, <1>5, <1>6, <1>7, <1>8, TaskOperations
     DEF ClaimCheck, AssignCheck, taskVars, ReleaseExpiredClaims

\* The inductive invariant: on one event loop no call's check is out of date
\* when it writes, and nobody holds a task that is waiting to be claimed.
THEOREM Inductive ==
    ASSUME ~Threaded
    PROVE  Spec => [](IInv /\ ClaimExclusive)
<1>1. Init => IInv /\ ClaimExclusive
  BY DEF Init, AgentsInit, TasksInit, IInv, TypeOK, AgentsTypeOK, TasksTypeOK,
         TaskShape, QueueClean, CallsCurrent, ClaimExclusive, Exists
<1>2. IInv /\ ClaimExclusive /\ [Next]_vars => (IInv /\ ClaimExclusive)'
  <2> SUFFICES ASSUME IInv, ClaimExclusive, [Next]_vars
               PROVE  (IInv /\ ClaimExclusive)'
    OBVIOUS
  <2>1. (forced \subseteq Keys)'
    BY DEF IInv, TypeOK, Next, vars, RegisterAgent, ForceDeregister, AgentStep,
           Dispatch, Drain, Shutdown, TaskStep, Tick
  <2> QED
    BY <2>1, AgentsTypeStep, TasksTypeStep, TaskShapeStep, CallsCurrentStep,
       ClaimsStep DEF IInv, TypeOK
<1> QED
  BY <1>1, <1>2, PTL DEF Spec

\* claim_task hands a task to one agent at a time when its callers share an
\* event loop (with threads it does not: the run MCClaimRace).
THEOREM ClaimsExclusive ==
    ASSUME ~Threaded
    PROVE  Spec => []ClaimExclusive
BY Inductive, PTL

----------------------------------------------------------------------------
(* Assignees *)

LEMMA RegisteredKept ==
    ASSUME AgentsTypeOK, NEW k \in Keys, Registered(k), AgentStep \/ AgeBeats
    PROVE  Registered(k)'
<1> BeatTimeout \in Nat
  BY RegistryAssumption
<1> SUFFICES agents'[k] \in AgentRecord
  BY NoneIsNoAgent DEF Registered
<1> USE AgeType DEF AgentsTypeOK, AgentRecord, AgentState, Registered
<1>1. ASSUME NEW l \in Keys, Boot(l)
      PROVE  agents'[k] \in AgentRecord
  BY <1>1 DEF Boot, InState
<1>2. ASSUME NEW l \in Keys, UpdateHeartbeat(l)
      PROVE  agents'[k] \in AgentRecord
  BY <1>2 DEF UpdateHeartbeat
<1>3. ASSUME NEW l \in Keys, AutoRestart(l)
      PROVE  agents'[k] \in AgentRecord
  BY <1>3 DEF AutoRestart, InState
<1>4. ASSUME NEW l \in Keys, NEW s \in AgentState, UpdateState(l, s)
      PROVE  agents'[k] \in AgentRecord
  BY <1>4 DEF UpdateState
<1>5. ASSUME NEW scope, CheckAll(scope)
      PROVE  agents'[k] \in AgentRecord
  BY <1>5 DEF CheckAll, InState
<1>6. ASSUME AgeBeats
      PROVE  agents'[k] \in AgentRecord
  BY <1>6 DEF AgeBeats
<1> QED
  BY <1>1, <1>2, <1>3, <1>4, <1>5, <1>6 DEF AgentStep

\* k is with us, or left without a shutdown.
Known(t, a) == LET k == <<TaskTenant[t], a>>
               IN  k \in Keys /\ (Registered(k) \/ k \in forced)

LEMMA KnownKept ==
    ASSUME TypeOK, [Next]_vars, NEW t \in Tasks, NEW a, Known(t, a),
           ~ Shutdown(<<TaskTenant[t], a>>)
    PROVE  Known(t, a)'
<1> DEFINE k == <<TaskTenant[t], a>>
<1>1. k \in Keys /\ (Registered(k) \/ k \in forced)
  BY DEF Known
<1> SUFFICES (Registered(k) \/ k \in forced)'
  BY <1>1 DEF Known
<1> HIDE DEF k
<1>2. ASSUME NEW l \in Keys, NEW p \in Profiles, RegisterAgent(l, p)
      PROVE  (Registered(k) \/ k \in forced)'
  <2>1. [state |-> "boot", profile |-> p, beat |-> None] \in AgentRecord
    BY AgeType, RegistryAssumption DEF AgentRecord, AgentState
  <2> QED
    BY <1>1, <1>2, <2>1, NoneIsNoAgent
       DEF RegisterAgent, Register, Registered, TypeOK, AgentsTypeOK
<1>3. ASSUME NEW l \in Keys, ForceDeregister(l)
      PROVE  (Registered(k) \/ k \in forced)'
  BY <1>1, <1>3 DEF ForceDeregister, Deregister, Registered, TypeOK, AgentsTypeOK
<1>4. ASSUME NEW l \in Keys, l # k, Shutdown(l)
      PROVE  (Registered(k) \/ k \in forced)'
  BY <1>1, <1>4 DEF Shutdown, Deregister, Registered, TypeOK, AgentsTypeOK
<1>5. CASE AgentStep
  BY <1>1, <1>5, RegisteredKept DEF AgentStep, TypeOK
<1>6. CASE Tick
  BY <1>1, <1>6, RegisteredKept DEF Tick, TypeOK
<1>7. CASE UNCHANGED <<agents, forced>>
  BY <1>1, <1>7 DEF Registered
<1> QED
  BY <1>2, <1>3, <1>4, <1>5, <1>6, <1>7 DEF Next, vars, Dispatch, Drain, TaskStep, k

InHand(t) == Exists(t) /\ tasks[t].status = "assigned"

\* A task becomes an agent's by an assignment only, and stays as it was
\* assigned until something else becomes of it.
LEMMA AssignedBefore ==
    ASSUME TasksTypeOK, [Next]_vars, NEW t \in Tasks, InHand(t)'
    PROVE  \/ InHand(t) /\ tasks'[t].assigned_to = tasks[t].assigned_to
           \/ \E c \in pending : /\ c.op = "assign" /\ c.task = t
                                 /\ tasks'[t].assigned_to = c.agent
                                 /\ AssignWrite(c)
<1> DEFINE kept == InHand(t) /\ tasks'[t].assigned_to = tasks[t].assigned_to
<1> LeaseTicks \in Nat /\ RetryCap \in Nat
  BY TaskAssumption
<1> USE DEF InHand, Exists
<1>1. ASSUME NEW u \in Tasks, CreateTask(u)
      PROVE  kept
  BY <1>1 DEF CreateTask, NewTask, TasksTypeOK
<1>2. ASSUME NEW c \in pending, ClaimWrite(c)
      PROVE  kept
  <2>1. c.task \in Tasks /\ tasks[c.task] \in Task
    BY DEF TasksTypeOK, Call
  <2>2. Claimed(tasks[c.task], c.agent).status = "claimed"
    BY <2>1 DEF Claimed, Task
  <2> QED
    BY <1>2, <2>1, <2>2 DEF ClaimWrite, TasksTypeOK
<1>3. ASSUME NEW c \in pending, AssignWrite(c)
      PROVE  kept \/ (c.task = t /\ tasks'[t].assigned_to = c.agent)
  <2>1. c.task \in Tasks /\ tasks[c.task] \in Task
    BY DEF TasksTypeOK, Call
  <2>2. Assigned(tasks[c.task], c.agent).assigned_to = c.agent
    BY <2>1 DEF Assigned, Task
  <2> QED
    BY <1>3, <2>1, <2>2 DEF AssignWrite, TasksTypeOK
<1>4. ASSUME NEW u \in Tasks, NEW s \in Reports, UpdateStatus(u, s)
      PROVE  kept
  <2>1. tasks[u] \in Task
    BY <1>4 DEF UpdateStatus, TasksTypeOK
  <2>2. Reported(tasks[u], s).status # "assigned"
    BY <2>1 DEF Reported, Task, Reports, Terminal
  <2> QED
    BY <1>4, <2>2 DEF UpdateStatus, TasksTypeOK
<1>5. ASSUME NEW u \in Tasks, RetryOrFail(u)
      PROVE  kept
  <2> DEFINE counted == [tasks[u] EXCEPT !.retry_count = @ + 1]
             ended == [counted EXCEPT !.status = "failed", !.completed = TRUE]
  <2>1. counted \in Task
    BY <1>5 DEF RetryOrFail, TasksTypeOK, Task
  <2>2. ended.status # "assigned" /\ Requeued(counted).status # "assigned"
    BY <2>1 DEF Requeued, Task
  <2>3. tasks' = [tasks EXCEPT ![u] = ended] \/ tasks' = [tasks EXCEPT ![u] = Requeued(counted)]
    BY <1>5 DEF RetryOrFail
  <2> HIDE DEF counted, ended
  <2> QED
    BY <2>2, <2>3 DEF TasksTypeOK
<1>6. ASSUME NEW ts, RequeueAll(ts), \A u \in ts \cap Tasks : Exists(u)
      PROVE  kept
  <2>1. ASSUME t \in ts
        PROVE  FALSE
    <3>1. tasks[t] \in Task /\ tasks'[t] = Requeued(tasks[t])
      BY <1>6, <2>1 DEF RequeueAll, TasksTypeOK
    <3> QED
      BY <3>1 DEF Requeued, Task
  <2> QED
    BY <1>6, <2>1 DEF RequeueAll
<1>6a. ASSUME ReleaseExpiredClaims
      PROVE  kept
  BY <1>6a, <1>6 DEF ReleaseExpiredClaims, LeaseExpired
<1>6b. ASSUME NEW k \in Keys, RequeueAll(Holding(k))
      PROVE  kept
  BY <1>6b, <1>6 DEF Holding
<1>7. ASSUME AgeClaims
      PROVE  kept
  <2>1. tasks[t] # None
    BY <1>7 DEF AgeClaims
  <2>2. tasks[t] \in Task /\ tasks'[t] = [tasks[t] EXCEPT !.claim_age = Older(@, LeaseTicks)]
    BY <1>7, <2>1 DEF AgeClaims, TasksTypeOK
  <2> QED
    BY <2>1, <2>2 DEF Task
<1>8. ASSUME UNCHANGED tasks
      PROVE  kept
  BY <1>8
<1> HIDE DEF kept, InHand, Exists
<1>9. kept \/ \E c \in pending : /\ c.task = t /\ tasks'[t].assigned_to = c.agent
                                /\ AssignWrite(c)
  BY <1>1, <1>2, <1>3, <1>4, <1>5, <1>6a, <1>6b, <1>7, <1>8, TaskOperations
     DEF ClaimCheck, AssignCheck, taskVars
<1> QED
  BY <1>9 DEF kept, AssignWrite

\* GracefulShutdown leaves nothing in the hands of the agent it removes.
LEMMA ShutdownDrains ==
    ASSUME TasksTypeOK, NEW t \in Tasks, InHand(t),
           Shutdown(<<TaskTenant[t], tasks[t].assigned_to>>)
    PROVE  ~ InHand(t)'
<1>1. tasks[t] \in Task
  BY DEF InHand, Exists, TasksTypeOK
<1>2. t \in Holding(<<TaskTenant[t], tasks[t].assigned_to>>)
  BY DEF InHand, Holding, Terminal
<1>3. tasks'[t] = Requeued(tasks[t])
  BY <1>2 DEF Shutdown, RequeueAll
<1> QED
  BY <1>1, <1>3 DEF InHand, Requeued, Task

AllKnown == \A t \in Tasks : InHand(t) => Known(t, tasks[t].assigned_to)

\* The dispatcher's assignments stay with agents that are registered, but for
\* the agents that a caller deregistered without a shutdown.
THEOREM AssigneesRegistered ==
    ASSUME ~Threaded
    PROVE  Spec => []AssigneeRegistered
<1>1. AllKnown <=> AssigneeRegistered
  BY DEF AllKnown, InHand, Known, AssigneeRegistered
<1>2. Init => AllKnown
  BY DEF Init, TasksInit, AllKnown, InHand, Exists
<1>3. IInv /\ AllKnown /\ [Next]_vars => AllKnown'
  <2> SUFFICES ASSUME IInv, AllKnown, [Next]_vars, NEW t \in Tasks, InHand(t)'
               PROVE  Known(t, tasks[t].assigned_to)'
    BY DEF AllKnown
  <2> TypeOK /\ TasksTypeOK
    BY DEF IInv, TypeOK
  <2>1. CASE InHand(t) /\ tasks'[t].assigned_to = tasks[t].assigned_to
    <3>1. Known(t, tasks[t].assigned_to)
      BY <2>1 DEF AllKnown
    <3>2. ~ Shutdown(<<TaskTenant[t], tasks[t].assigned_to>>)
      BY <2>1, ShutdownDrains
    <3>3. PICK a : a = tasks[t].assigned_to
      OBVIOUS
    <3>4. Known(t, a)'
      BY <3>1, <3>2, <3>3, KnownKept
    <3>5. tasks'[t].assigned_to = a
      BY <2>1, <3>3
    <3> QED
      BY <3>4, <3>5 DEF Known
  <2>2. CASE \E c \in pending : /\ c.op = "assign" /\ c.task = t
                                /\ tasks'[t].assigned_to = c.agent
                                /\ AssignWrite(c)
    <3>1. PICK c \in pending : /\ c.op = "assign" /\ c.task = t
                               /\ tasks'[t].assigned_to = c.agent
                               /\ AssignWrite(c)
      BY <2>2
    <3>2. LET k == <<TaskTenant[t], c.agent>>
          IN  k \in Keys /\ Registered(k)
      BY <3>1 DEF IInv, CallsCurrent
    <3>3. UNCHANGED agents
      <4>1. pending' # pending
        BY <3>1 DEF AssignWrite
      <4> QED
        BY <4>1 DEF Next, vars, RegisterAgent, ForceDeregister, RegistryCall,
                    AgentStep, Dispatch, Drain, Shutdown, RequeueAll, TaskStep,
                    Tick, taskVars
    <3> QED
      BY <3>1, <3>2, <3>3 DEF Known, Registered
  <2> QED
    BY <2>1, <2>2, AssignedBefore
<1>4. Spec => [](IInv /\ ClaimExclusive)
  BY Inductive
<1> QED
  BY <1>1, <1>2, <1>3, <1>4, PTL DEF Spec

----------------------------------------------------------------------------
(* ControlPlane implements TaskOwnership when its callers share an event   *)
(* loop.                                                                   *)

LEMMA OwnerOf ==
    ASSUME NEW t \in Tasks
    PROVE  /\ Owner[t] = IF Exists(t) THEN tasks[t].assigned_to ELSE None
           /\ Owner'[t] = IF Exists(t)' THEN tasks'[t].assigned_to ELSE None
BY DEF Owner

LEMMA OwnerIsFunction ==
    /\ Owner = [t \in Tasks |-> Owner[t]]
    /\ Owner' = [t \in Tasks |-> Owner'[t]]
BY DEF Owner

\* A step that leaves the other tasks alone takes, releases or keeps a task.
LEMMA OneOwner ==
    ASSUME NEW t \in Tasks, \A u \in Tasks \ {t} : Owner'[u] = Owner[u],
           \/ Owner'[t] = Owner[t]
           \/ Owner'[t] = None
           \/ Owner[t] = None /\ Owner'[t] \in AgentIds
    PROVE  [Ownership!Next]_Owner
<1>1. CASE Owner'[t] = Owner[t]
  <2>1. Owner' = Owner
    BY <1>1, OwnerIsFunction
  <2> QED
    BY <2>1
<1>2. CASE Owner'[t] = None
  <2>1. Owner' = [u \in Tasks |-> IF u \in {t} THEN None ELSE Owner[u]]
    BY <1>2, OwnerIsFunction
  <2>2. Ownership!Release({t})
    BY <2>1 DEF Ownership!Release
  <2> QED
    BY <2>2 DEF Ownership!Next
<1>3. CASE Owner[t] = None /\ Owner'[t] \in AgentIds
  <2>1. Owner' = [Owner EXCEPT ![t] = Owner'[t]]
    BY OwnerIsFunction
  <2>2. PICK a \in AgentIds : a = Owner'[t]
    BY <1>3
  <2>3. Ownership!Take(t, a)
    BY <1>3, <2>1, <2>2 DEF Ownership!Take, Ownership!Free
  <2> QED
    BY <2>3 DEF Ownership!Next
<1> QED
  BY <1>1, <1>2, <1>3

\* The same for a step that writes one task.
LEMMA WriteOwner ==
    ASSUME TasksTypeOK, NEW t \in Tasks, NEW task \in Task,
           tasks' = [tasks EXCEPT ![t] = task],
           \/ Exists(t) /\ task.assigned_to = tasks[t].assigned_to
           \/ task.assigned_to = None
           \/ Exists(t) /\ tasks[t].assigned_to = None
    PROVE  [Ownership!Next]_Owner
<1>1. tasks'[t] = task /\ Exists(t)'
  BY NoneIsNoTask DEF TasksTypeOK, Exists
<1>2. Owner'[t] = task.assigned_to
  BY <1>1, OwnerOf
<1>3. \A u \in Tasks \ {t} : Owner'[u] = Owner[u]
  BY OwnerOf DEF TasksTypeOK, Exists
<1>4. task.assigned_to \in AgentIds \cup {None}
  BY DEF Task
<1>5. Exists(t) => Owner[t] = tasks[t].assigned_to
  BY OwnerOf
<1> QED
  BY <1>2, <1>3, <1>4, <1>5, OneOwner

LEMMA RequeueAllOwner ==
    ASSUME TasksTypeOK, NEW ts \in SUBSET Tasks, \A t \in ts : Exists(t), RequeueAll(ts)
    PROVE  [Ownership!Next]_Owner
<1>1. ASSUME NEW t \in ts
      PROVE  Owner'[t] = None
  <2>1. tasks[t] \in Task /\ tasks'[t] = Requeued(tasks[t])
    BY DEF TasksTypeOK, Exists, RequeueAll
  <2>2. Requeued(tasks[t]).assigned_to = None
    BY <2>1 DEF Requeued, Task
  <2> QED
    BY <2>1, <2>2, OwnerOf
<1>2. \A t \in Tasks \ ts : Owner'[t] = Owner[t]
  BY OwnerOf DEF RequeueAll, Exists
<1>3. CASE ts = {}
  <2>1. Owner' = Owner
    BY <1>2, <1>3, OwnerIsFunction
  <2> QED
    BY <2>1
<1>4. CASE ts # {}
  <2>1. Owner' = [t \in Tasks |-> IF t \in ts THEN None ELSE Owner[t]]
    BY <1>1, <1>2, OwnerIsFunction
  <2>2. Ownership!Release(ts)
    BY <1>4, <2>1 DEF Ownership!Release
  <2> QED
    BY <2>2 DEF Ownership!Next
<1> QED
  BY <1>3, <1>4

LEMMA OwnershipStep ==
    ASSUME ~Threaded, TasksTypeOK, TaskShape, CallsCurrent, [Next]_vars
    PROVE  [Ownership!Next]_Owner
<1> LeaseTicks \in Nat /\ RetryCap \in Nat
  BY TaskAssumption
<1>1. ASSUME NEW t \in Tasks, CreateTask(t)
      PROVE  [Ownership!Next]_Owner
  <2>1. NewTask \in Task /\ NewTask.assigned_to = None
    BY AgeType DEF NewTask, Task, TaskStatus
  <2> QED
    BY <1>1, <2>1, WriteOwner DEF CreateTask
<1>2. ASSUME NEW c \in pending, ClaimWrite(c)
      PROVE  [Ownership!Next]_Owner
  <2> DEFINE task == Claimed(tasks[c.task], c.agent)
  <2>1. c.task \in Tasks /\ c.agent \in AgentIds /\ tasks[c.task] \in Task
    BY DEF TasksTypeOK, Call, Exists
  <2>2. task \in Task /\ task.assigned_to = c.agent
    BY <2>1, AgeType DEF Claimed, Task, TaskStatus
  <2>3. Claimable(c.task, c.agent)
    BY <1>2 DEF ClaimWrite, CallsCurrent
  <2>4. Exists(c.task) /\ tasks[c.task].assigned_to \in {None, c.agent}
    BY <2>1, <2>3 DEF Claimable, TaskShape, WellShaped
  <2>5. tasks' = [tasks EXCEPT ![c.task] = task]
    BY <1>2 DEF ClaimWrite
  <2> HIDE DEF task
  <2> QED
    BY <2>1, <2>2, <2>4, <2>5, WriteOwner
<1>3. ASSUME NEW c \in pending, AssignWrite(c)
      PROVE  [Ownership!Next]_Owner
  <2> DEFINE task == Assigned(tasks[c.task], c.agent)
  <2>1. c.task \in Tasks /\ c.agent \in AgentIds /\ tasks[c.task] \in Task
    BY DEF TasksTypeOK, Call, Exists
  <2>2. task \in Task
    BY <2>1 DEF Assigned, Task, TaskStatus
  <2>3. Exists(c.task) /\ tasks[c.task].assigned_to = None
    BY <1>3, <2>1 DEF AssignWrite, CallsCurrent, Assignable, TaskShape, WellShaped
  <2>4. tasks' = [tasks EXCEPT ![c.task] = task]
    BY <1>3 DEF AssignWrite
  <2> HIDE DEF task
  <2> QED
    BY <2>1, <2>2, <2>3, <2>4, WriteOwner
<1>4. ASSUME NEW t \in Tasks, NEW s \in Reports, UpdateStatus(t, s)
      PROVE  [Ownership!Next]_Owner
  <2> DEFINE task == Reported(tasks[t], s)
  <2>1. Exists(t) /\ tasks[t] \in Task /\ s \in TaskStatus
    BY <1>4 DEF UpdateStatus, Exists, TasksTypeOK, Reports, Terminal, TaskStatus
  <2>2. task \in Task /\ task.assigned_to = tasks[t].assigned_to
    BY <2>1 DEF Reported, Task
  <2>3. tasks' = [tasks EXCEPT ![t] = task]
    BY <1>4 DEF UpdateStatus
  <2> HIDE DEF task
  <2> QED
    BY <2>1, <2>2, <2>3, WriteOwner
<1>5. ASSUME NEW t \in Tasks, RetryOrFail(t)
      PROVE  [Ownership!Next]_Owner
  <2> DEFINE counted == [tasks[t] EXCEPT !.retry_count = @ + 1]
             ended == [counted EXCEPT !.status = "failed", !.completed = TRUE]
  <2>1. Exists(t) /\ tasks[t] \in Task
    BY <1>5 DEF RetryOrFail, Exists, TasksTypeOK
  <2>2. counted \in Task /\ counted.assigned_to = tasks[t].assigned_to
    BY <1>5, <2>1 DEF RetryOrFail, Task
  <2>3. ended \in Task /\ ended.assigned_to = counted.assigned_to
    BY <2>2 DEF Task, TaskStatus
  <2>4. Requeued(counted) \in Task /\ Requeued(counted).assigned_to = None
    BY <2>2, AgeType DEF Requeued, Task, TaskStatus
  <2>5. tasks' = [tasks EXCEPT ![t] = ended] \/ tasks' = [tasks EXCEPT ![t] = Requeued(counted)]
    BY <1>5 DEF RetryOrFail
  <2> HIDE DEF counted, ended
  <2> QED
    BY WriteOwner, <2>5, <2>1, <2>2, <2>3, <2>4
<1>6. ASSUME ReleaseExpiredClaims
      PROVE  [Ownership!Next]_Owner
  <2>1. \A t \in {u \in Tasks : LeaseExpired(u)} : Exists(t)
    BY DEF LeaseExpired
  <2> QED
    BY <1>6, <2>1, RequeueAllOwner DEF ReleaseExpiredClaims
<1>7. ASSUME NEW k \in Keys, RequeueAll(Holding(k))
      PROVE  [Ownership!Next]_Owner
  BY <1>7, RequeueAllOwner DEF Holding
<1>8. ASSUME AgeClaims
      PROVE  [Ownership!Next]_Owner
  <2>1. ASSUME NEW t \in Tasks
        PROVE  Owner'[t] = Owner[t]
    <3>1. CASE tasks[t] = None
      BY <1>8, <3>1, OwnerOf DEF AgeClaims, Exists
    <3>2. CASE tasks[t] \in Task
      <4>1. tasks'[t] = [tasks[t] EXCEPT !.claim_age = Older(@, LeaseTicks)]
        BY <1>8, <3>2, NoneIsNoTask DEF AgeClaims, Exists
      <4>2. tasks'[t] \in Task /\ tasks'[t].assigned_to = tasks[t].assigned_to
        BY <3>2, <4>1, AgeType DEF Task
      <4> QED
        BY <3>2, <4>2, NoneIsNoTask, OwnerOf DEF Exists
    <3> QED
      BY <3>1, <3>2 DEF TasksTypeOK
  <2>2. Owner' = Owner
    BY <2>1, OwnerIsFunction
  <2> QED
    BY <2>2
<1>9. ASSUME UNCHANGED tasks
      PROVE  [Ownership!Next]_Owner
  BY <1>9 DEF Owner, Exists
<1> QED
  BY <1>1, <1>2, <1>3, <1>4, <1>5, <1>6, <1>7, <1>8, <1>9, TaskOperations
     DEF ClaimCheck, AssignCheck, taskVars

\* No operation of the control plane moves a task from one agent straight to
\* another: dispatch, claims, reports, retries, leases and drains together
\* implement TaskOwnership.
THEOREM OwnershipImplemented ==
    ASSUME ~Threaded
    PROVE  Spec => OwnershipSpec
<1>1. Init => Ownership!Init
  BY DEF Init, TasksInit, Ownership!Init, Owner, Exists
<1>2. IInv /\ [Next]_vars => [Ownership!Next]_Owner
  BY OwnershipStep DEF IInv, TypeOK
<1>3. Spec => [](IInv /\ ClaimExclusive)
  BY Inductive
<1> QED
  BY <1>1, <1>2, <1>3, PTL DEF Spec, OwnershipSpec, Ownership!Spec

=============================================================================
