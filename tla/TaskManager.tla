---------------------------- MODULE TaskManager ----------------------------
(***************************************************************************)
(* The in-memory task store (control_plane/task_manager.py, TaskManager).  *)
(*                                                                         *)
(* claim_task and assign_task read a task, check it and only then write    *)
(* it, without a lock. Each is two steps here, with the checked call kept  *)
(* in pending in between. Threaded says whether the callers are threads,   *)
(* which may interleave there, or share one event loop, in which a call    *)
(* that does not await runs to its end before another begins (Quiet). The  *)
(* other operations are one step each.                                     *)
(*                                                                         *)
(* A claim's age stands for claimed_at. winners is a history variable: the *)
(* agents whose claim_task returned the task since it was last put back to *)
(* PENDING.                                                                *)
(***************************************************************************)
EXTENDS ControlPlaneData

CONSTANTS
    MaxRetries,     \* Task.max_retries
    LeaseTicks,     \* lease_minutes, in ticks
    RetryCap,       \* bound of the model: retry_or_fail is called on a task
                    \* at most this many times
    Threaded        \* are the callers threads?

ASSUME TaskAssumption ==
    /\ MaxRetries \in Nat /\ LeaseTicks \in Nat /\ RetryCap \in Nat
    /\ Threaded \in BOOLEAN

VARIABLES
    tasks,          \* TaskManager._tasks
    pending,        \* claim_task and assign_task calls past their checks
    winners         \* history: who was told that the task is theirs

taskVars == <<tasks, pending, winners>>

Task == [status      : TaskStatus,
         assigned_to : AgentIds \cup {None},
         claim_age   : Age(LeaseTicks),
         retry_count : 0 .. RetryCap,
         completed   : BOOLEAN]             \* completed_at is set

ASSUME NoneIsNoTask == None \notin Task

Call == [op : {"claim", "assign"}, task : Tasks, agent : AgentIds]

TasksInit ==
    /\ tasks = [t \in Tasks |-> None]
    /\ pending = {}
    /\ winners = [t \in Tasks |-> {}]

Exists(t) == tasks[t] # None

\* No call is between its check and its write, or the callers are threads.
Quiet == Threaded \/ pending = {}

----------------------------------------------------------------------------

NewTask == [status |-> "pending", assigned_to |-> None, claim_age |-> None,
            retry_count |-> 0, completed |-> FALSE]

\* create_task; an explicit id that is already in use replaces the old task,
\* and a call that holds the old Task object no longer writes to the store.
CreateTask(t) ==
    /\ Quiet
    /\ tasks' = [tasks EXCEPT ![t] = NewTask]
    /\ winners' = [winners EXCEPT ![t] = {}]
    /\ pending' = {c \in pending : c.task # t}

\* Mutants of Claimable: the assignee is not compared; a claimed task can be
\* claimed again.
ClaimAnyAssigned(t, a) == Exists(t) /\ tasks[t].status \in {"pending", "assigned"}

ClaimAgain(t, a) ==
    Exists(t) /\ tasks[t].status \in {"pending", "assigned", "claimed"}

Claimable(t, a) ==
    /\ Exists(t)
    /\ \/ tasks[t].status = "pending"
       \/ tasks[t].status = "assigned" /\ tasks[t].assigned_to = a

Assignable(t) == Exists(t) /\ tasks[t].status = "pending"

ClaimCheck(t, a) ==
    /\ Quiet
    /\ Claimable(t, a)
    /\ pending' = pending \cup {[op |-> "claim", task |-> t, agent |-> a]}
    /\ UNCHANGED <<tasks, winners>>

AssignCheck(t, a) ==
    /\ Quiet
    /\ Assignable(t)
    /\ pending' = pending \cup {[op |-> "assign", task |-> t, agent |-> a]}
    /\ UNCHANGED <<tasks, winners>>

Claimed(task, a) ==
    [task EXCEPT !.status = "claimed", !.assigned_to = a, !.claim_age = 0]

Assigned(task, a) == [task EXCEPT !.status = "assigned", !.assigned_to = a]

ClaimWrite(c) ==
    /\ c \in pending /\ c.op = "claim"
    /\ tasks' = [tasks EXCEPT ![c.task] = Claimed(@, c.agent)]
    /\ winners' = [winners EXCEPT ![c.task] = @ \cup {c.agent}]
    /\ pending' = pending \ {c}

AssignWrite(c) ==
    /\ c \in pending /\ c.op = "assign"
    /\ tasks' = [tasks EXCEPT ![c.task] = Assigned(@, c.agent)]
    /\ pending' = pending \ {c}
    /\ UNCHANGED winners

\* update_status checks neither the old status nor who is calling.
Reported(task, s) ==
    [task EXCEPT !.status = s,
                 !.completed = IF s = "completed" THEN TRUE ELSE @]

UpdateStatus(t, s) ==
    /\ Quiet
    /\ Exists(t)
    /\ tasks' = [tasks EXCEPT ![t] = Reported(@, s)]
    /\ UNCHANGED <<pending, winners>>

\* The task as it goes back to the queue.
Requeued(task) == [task EXCEPT !.status = "pending",
                               !.assigned_to = None,
                               !.claim_age = None]

RequeueAll(ts) ==
    /\ tasks' = [t \in Tasks |-> IF t \in ts THEN Requeued(tasks[t]) ELSE tasks[t]]
    /\ winners' = [t \in Tasks |-> IF t \in ts THEN {} ELSE winners[t]]
    /\ UNCHANGED pending

LeaseExpired(t) ==
    /\ Exists(t)
    /\ tasks[t].status = "claimed"
    /\ Expired(tasks[t].claim_age, LeaseTicks)

ReleaseExpiredClaims ==
    /\ Quiet
    /\ \E t \in Tasks : LeaseExpired(t)
    /\ RequeueAll({t \in Tasks : LeaseExpired(t)})

\* retry_or_fail: back to PENDING while retries are left, FAILED after that,
\* whatever the status was.
RetryOrFail(t) ==
    /\ Quiet
    /\ Exists(t)
    /\ tasks[t].retry_count < RetryCap
    /\ LET counted == [tasks[t] EXCEPT !.retry_count = @ + 1]
       IN  IF counted.retry_count > MaxRetries
           THEN /\ tasks' = [tasks EXCEPT ![t] =
                               [counted EXCEPT !.status = "failed", !.completed = TRUE]]
                /\ UNCHANGED winners
           ELSE /\ tasks' = [tasks EXCEPT ![t] = Requeued(counted)]
                /\ winners' = [winners EXCEPT ![t] = {}]
    /\ UNCHANGED pending

\* One tick passes for every claim.
AgeClaims ==
    tasks' = [t \in Tasks |->
                IF Exists(t)
                THEN [tasks[t] EXCEPT !.claim_age = Older(@, LeaseTicks)]
                ELSE tasks[t]]

----------------------------------------------------------------------------

TasksTypeOK ==
    /\ tasks \in [Tasks -> Task \cup {None}]
    /\ pending \subseteq Call
    /\ \A c \in pending : Exists(c.task)
    /\ winners \in [Tasks -> SUBSET AgentIds]

WellShaped(task) ==
    /\ task.status = "pending" => task.assigned_to = None /\ task.claim_age = None
    /\ task.status \in {"assigned", "claimed"} => task.assigned_to # None
    /\ task.status = "claimed" => task.claim_age # None

\* What the dispatcher, the lease sweep and claim_task take for granted of a
\* task: a queued task has no owner and no lease left over from an earlier
\* claim, an assigned or claimed one has an owner, and a claimed one has the
\* time stamp without which release_expired_claims would never release it.
TaskShape == \A t \in Tasks : Exists(t) => WellShaped(tasks[t])

\* claim_task is atomic: between two visits of a task to the queue, at most
\* one agent is told that the task is its own.
ClaimExclusive ==
    \A t \in Tasks : \A a, b \in winners[t] : a = b

=============================================================================
