---------------------------- MODULE ControlPlane ----------------------------
(***************************************************************************)
(* The in-memory control plane as one system: the registry, the task       *)
(* manager, the dispatcher that reads the one and writes the other         *)
(* (TaskDispatcher) and the shutdown that drains an agent's tasks before   *)
(* it leaves (GracefulShutdown).                                           *)
(*                                                                         *)
(* forced is a history variable: the agents that a caller deregistered     *)
(* without a shutdown and that have not registered again.                  *)
(***************************************************************************)
EXTENDS AgentRegistry, TaskManager, FiniteSetsExt

VARIABLE forced

vars == <<agents, tasks, pending, winners, forced>>

Init == AgentsInit /\ TasksInit /\ forced = {}

----------------------------------------------------------------------------
(* Registry and lifecycle calls leave the tasks alone. *)

RegistryCall ==
    /\ Quiet
    /\ UNCHANGED taskVars

RegisterAgent(k, p) ==
    /\ RegistryCall
    /\ Register(k, p)
    /\ forced' = forced \ {k}

\* A bare deregister: nothing is drained.
ForceDeregister(k) ==
    /\ RegistryCall
    /\ Deregister(k)
    /\ forced' = forced \cup {k}

AgentStep ==
    /\ RegistryCall
    /\ \/ \E k \in Keys : \/ Boot(k)
                          \/ UpdateHeartbeat(k)
                          \/ AutoRestart(k)
                          \/ \E s \in AgentState : UpdateState(k, s)
       \/ \E scope \in {Tenants} \cup {{x} : x \in Tenants} : CheckAll(scope)
    /\ UNCHANGED forced

----------------------------------------------------------------------------
(* TaskDispatcher.dispatch *)

Candidates(t) ==
    {k \in Keys :
        /\ k[1] = TaskTenant[t]
        /\ InState(k, "ready")
        /\ \A c \in TaskNeeds[t] : agents[k].profile.skill[c] # None}

Score(t, k) == MapThenSumSet(LAMBDA c : agents[k].profile.skill[c], TaskNeeds[t])

\* The best candidate gets the task; without requirements or candidates the
\* task stays as it is, for whoever claims it first.
Dispatch(t) ==
    /\ TaskNeeds[t] # {}
    /\ \E best \in Candidates(t) :
          /\ \A k \in Candidates(t) : Score(t, k) <= Score(t, best)
          /\ AssignCheck(t, best[2])
    /\ UNCHANGED <<agents, forced>>

----------------------------------------------------------------------------
(* GracefulShutdown *)

\* A mutant of Holding: only what the agent has claimed is taken back.
HoldingClaimed(k) ==
    {t \in Tasks : /\ Exists(t)
                   /\ TaskTenant[t] = k[1]
                   /\ tasks[t].assigned_to = k[2]
                   /\ tasks[t].status \in {"claimed", "in_progress"}}

\* The unfinished tasks of k's tenant that are in the hands of k.
Holding(k) ==
    {t \in Tasks : /\ Exists(t)
                   /\ TaskTenant[t] = k[1]
                   /\ tasks[t].assigned_to = k[2]
                   /\ tasks[t].status \notin Terminal}

Drain(k) ==
    /\ Quiet
    /\ Holding(k) # {}
    /\ RequeueAll(Holding(k))
    /\ UNCHANGED <<agents, forced>>

Shutdown(k) ==
    /\ Quiet
    /\ Deregister(k)
    /\ RequeueAll(Holding(k))
    /\ UNCHANGED forced

----------------------------------------------------------------------------

TaskStep ==
    /\ \/ \E t \in Tasks :
             \/ CreateTask(t)
             \/ \E a \in AgentIds : ClaimCheck(t, a)
             \/ \E s \in Reports : UpdateStatus(t, s)
             \/ RetryOrFail(t)
       \/ ReleaseExpiredClaims
       \/ \E c \in pending : ClaimWrite(c) \/ AssignWrite(c)
    /\ UNCHANGED <<agents, forced>>

Tick ==
    /\ AgeBeats
    /\ AgeClaims
    /\ UNCHANGED <<pending, winners, forced>>

Next ==
    \/ \E k \in Keys : \/ \E p \in Profiles : RegisterAgent(k, p)
                       \/ ForceDeregister(k)
                       \/ Drain(k)
                       \/ Shutdown(k)
    \/ AgentStep
    \/ \E t \in Tasks : Dispatch(t)
    \/ TaskStep
    \/ Tick

Spec == Init /\ [][Next]_vars

----------------------------------------------------------------------------

TypeOK ==
    /\ AgentsTypeOK
    /\ TasksTypeOK
    /\ forced \subseteq Keys

\* A task that the dispatcher has handed to an agent is never left with an
\* agent that is gone: the lease sweep looks at claimed tasks only, so nobody
\* would ever take it back. Agents that a caller deregistered without the
\* shutdown are the exception.
AssigneeRegistered ==
    \A t \in Tasks : Exists(t) /\ tasks[t].status = "assigned" =>
        LET k == <<TaskTenant[t], tasks[t].assigned_to>>
        IN  k \in Keys /\ (Registered(k) \/ k \in forced)

Owner == [t \in Tasks |-> IF Exists(t) THEN tasks[t].assigned_to ELSE None]

Ownership == INSTANCE TaskOwnership WITH owner <- Owner

\* The control plane keeps the promise of TaskOwnership: no operation moves a
\* task from one agent straight to another.
OwnershipSpec == Ownership!Spec

----------------------------------------------------------------------------
(* The inductive invariant behind ClaimExclusive and AssigneeRegistered.   *)

\* Nobody holds a task that is waiting to be claimed.
QueueClean ==
    \A t \in Tasks :
        winners[t] # {} => Exists(t) /\ tasks[t].status \notin {"pending", "assigned"}

\* On one event loop, what a call checked still holds when it writes.
CallsCurrent ==
    ~Threaded =>
        /\ \A c, d \in pending : c = d
        /\ \A c \in pending :
              /\ c.op = "claim" => Claimable(c.task, c.agent)
              /\ c.op = "assign" =>
                    /\ Assignable(c.task)
                    /\ <<TaskTenant[c.task], c.agent>> \in Keys
                    /\ Registered(<<TaskTenant[c.task], c.agent>>)

IInv == TypeOK /\ TaskShape /\ QueueClean /\ CallsCurrent

=============================================================================
