-------------------------- MODULE ControlPlaneData --------------------------
(***************************************************************************)
(* What the two control planes, in memory and on DynamoDB, have in common: *)
(* names, the states of agents and tasks, and ages.                        *)
(***************************************************************************)
EXTENDS Integers

CONSTANTS
    Tenants,        \* tenant ids
    AgentIds,       \* agent ids; two tenants may use the same one
    Keys,           \* the (tenant, agent id) pairs that register
    Capabilities,   \* capability names
    Tasks,          \* task ids
    TaskTenant,     \* the tenant each task is created for
    TaskNeeds,      \* the capabilities each task requires
    None            \* Python's None, and an absent dict entry or item

ASSUME NamesAssumption == None \notin AgentIds \cup Int

ASSUME KeysAssumption ==
    /\ Keys \subseteq Tenants \X AgentIds
    /\ TaskTenant \in [Tasks -> Tenants]
    /\ TaskNeeds \in [Tasks -> SUBSET Capabilities]

AgentState ==
    {"boot", "initializing", "ready", "busy", "degraded", "terminated"}

ValidTransitions ==
    [boot         |-> {"initializing", "terminated"},
     initializing |-> {"ready", "degraded", "terminated"},
     ready        |-> {"busy", "degraded", "terminated"},
     busy         |-> {"ready", "degraded", "terminated"},
     degraded     |-> {"ready", "terminated"},
     terminated   |-> {}]

TaskStatus == {"pending", "assigned", "claimed", "in_progress",
               "completed", "failed", "cancelled", "retrying"}

Terminal == {"completed", "failed", "cancelled"}

\* What callers pass to update_status.
Reports == {"in_progress"} \cup Terminal

\* A time stamp that the code compares with a limit, as the number of ticks
\* since: it stops one tick after the limit, expired for good.
Age(limit) == (0 .. limit + 1) \cup {None}

Older(age, limit) == IF age = None \/ age > limit THEN age ELSE age + 1

Expired(age, limit) == age # None /\ age > limit
=============================================================================
