----------------------------- MODULE Messaging -----------------------------
(***************************************************************************)
(* Messages between agents: the router and its middleware                  *)
(* (control_plane/message_router.py) in the documented order               *)
(* authenticate, policy check, content filter, audit log, circuit breaker, *)
(* with the policy engine (control_plane/policy_engine.py over             *)
(* foundation/guardrails) and the audit store (control_plane/audit.py).    *)
(*                                                                         *)
(* A message is a Python object that its sender may send again. Texts are  *)
(* not modelled: the content filter changes them and drops no message.     *)
(* Clocks are one counter of ticks, and neither the rate limit nor the     *)
(* breaker ever sees it go back.                                           *)
(*                                                                         *)
(* when, limitedAt and resetAt are history variables: the time of every    *)
(* delivery, and how many deliveries there were when a limit was set and   *)
(* a breaker reset.                                                        *)
(***************************************************************************)
EXTENDS Integers, Sequences, FiniteSets, SequencesExt, ListFunctions

CONSTANTS
    Tenants, AgentIds, Messages,
    Keys,           \* the (tenant, agent id) pairs that register
    Source,         \* Message.source_agent, Absent when it is empty
    Target,         \* Message.target_agent, which may be Star
    Tenant,         \* Message.tenant_id
    PolicyIds,      \* the ids of policies that are added one by one
    Policies,       \* those policies
    Roles,          \* the roles whose policies are added
    RemovedIds,     \* the ids of policies that are removed
    Questions,      \* what the engine is asked besides the router's requests
    Star,           \* "*" in a policy; as a target, a broadcast
    Threshold,      \* CircuitBreaker._threshold
    PairWindow,     \* CircuitBreaker._window_seconds, in ticks
    RateKeys,       \* the agents that rate limits are set for
    Rates,          \* values of RateLimitConfig.max_requests
    RateWindow,     \* RateLimitConfig.window_seconds, in ticks
    Horizon,        \* bound on the clock
    MaxSends,       \* bound on the deliveries and on the audit log
    Absent

Pairs == (AgentIds \cup {Absent}) \X (AgentIds \cup {Star})

\* Permit or forbid; whom, what and on which kind of resource, a name or a
\* path's beginning, each possibly Star; and what the context must hold.
Policy(effect, principal, action, type, resource, tenant, role) ==
    [effect |-> effect, principal |-> principal, action |-> action, type |-> type,
     resource |-> resource, conditions |-> [tenant |-> tenant, role |-> role]]

ASSUME MessagingAssumption ==
    /\ Keys \subseteq Tenants \X AgentIds
    /\ Source \in [Messages -> AgentIds \cup {Absent}]
    /\ Target \in [Messages -> AgentIds \cup {Star}]
    /\ Tenant \in [Messages -> Tenants]
    /\ {Threshold, PairWindow, RateWindow, Horizon, MaxSends} \subseteq Nat
    /\ RateKeys \subseteq AgentIds /\ Rates \subseteq Nat
    /\ \A q \in Questions : q.context.key \in AgentIds
    /\ \A i \in PolicyIds : i[1] \notin Roles \cup {"default"}
    /\ "default" \notin Roles
    /\ Absent \notin Tenants \cup AgentIds \cup Roles \cup {Star} \cup Nat

VARIABLES
    registered,     \* the (tenant, agent id) pairs in the registry
    store,          \* PolicyStore._policies
    limits,         \* PlatformPolicyEngine._rate_limits
    requestLog,     \* PlatformPolicyEngine._request_log
    counts,         \* CircuitBreaker._counts
    audit,          \* AuditStore._entries: the message of each
    inboxes,        \* MessageRouter._inboxes
    delivered,      \* MessageRouter._delivered
    now,
    when, limitedAt, resetAt

engineVars == <<store, limits, requestLog, limitedAt>>
routerVars == <<inboxes, delivered, when>>
messagingVars == <<registered, engineVars, counts, resetAt, audit, routerVars, now>>

----------------------------------------------------------------------------
(* The policies of a store *)

\* A policy of a row, by its name.
Row(name, effect, action, type, resource, role) ==
    [name |-> name, policy |-> Policy(effect, Star, action, type, resource, Absent, role)]

\* Rows as a store: the id of each is its owner and its name.
Named(owner, rows) ==
    [i \in {<<owner, r.name>> : r \in rows} |-> (CHOOSE r \in rows : r.name = i[2]).policy]

\* A store with others added, which replace those of the same ids.
With(policies, others) ==
    [i \in DOMAIN policies \cup DOMAIN others |->
        IF i \in DOMAIN others THEN others[i] ELSE policies[i]]

\* create_default_policies
DefaultPolicies ==
    Named("default", {Row("read", "permit", "read", "File", Star, Absent),
                      Row("write", "permit", "write", "File", "project/", Absent),
                      Row("secrets", "forbid", "read", "File", "secrets/", Absent),
                      Row("destructive", "forbid", "execute", "Command", "rm", Absent)})

\* A mutant of RolePolicies: the policies do not ask for the role.
RolePoliciesForAll(role) ==
    Named(role, {Row("read", "permit", "read", "File", Star, Absent),
                 Row("policies", "permit", "manage", "Policy", Star, Absent),
                 Row("secrets", "forbid", "read", "File", "secrets/", Absent)})

\* create_agent_policies: what a role may do, every one only with the role in
\* the request's context.
RolePolicies(role) ==
    LET permit(name, action, type, resource) == Row(name, "permit", action, type, resource, role)
        rows == {permit("read", "read", "File", Star),
                 permit("send", "send_message", "Message", Star),
                 Row("secrets", "forbid", "read", "File", "secrets/", role)}
             \cup (IF role \in {"developer", "admin"}
                   THEN {permit("write", "write", "File", "project/")} ELSE {})
             \cup (CASE role = "admin"    -> {permit("agents", "manage", "Agent", Star),
                                            permit("policies", "manage", "Policy", Star)}
                     [] role = "monitor"  -> {permit("metrics", "read", "Metrics", Star),
                                            permit("audit", "read", "AuditLog", Star)}
                     [] role = "reviewer" -> {permit("review", "review", "Code", Star)}
                     [] OTHER             -> {})
    IN  Named(role, rows)

MessagingInit ==
    /\ registered = {}
    /\ store \in {<<>>, DefaultPolicies}
    /\ limits = [a \in AgentIds |-> Absent]
    /\ requestLog = [a \in AgentIds |-> <<>>]
    /\ counts = [p \in Pairs |-> <<>>]
    /\ audit = <<>>
    /\ inboxes = [a \in AgentIds \cup {Star} |-> <<>>]
    /\ delivered = <<>>
    /\ now = 0
    /\ when = <<>>
    /\ limitedAt = [a \in AgentIds |-> 0]
    /\ resetAt = [p \in Pairs |-> 0]

----------------------------------------------------------------------------
(* The registry, the policies and the limits *)

Register(k) ==
    /\ k \notin registered
    /\ registered' = registered \cup {k}
    /\ UNCHANGED <<engineVars, counts, resetAt, audit, routerVars, now>>

Deregister(k) ==
    /\ k \in registered
    /\ registered' = registered \ {k}
    /\ UNCHANGED <<engineVars, counts, resetAt, audit, routerVars, now>>

\* add_policy replaces a policy of the same id.
AddPolicy(i, p) ==
    /\ store' = With(store, [j \in {i} |-> p])
    /\ UNCHANGED <<registered, limits, requestLog, limitedAt, counts, resetAt, audit,
                   routerVars, now>>

\* The policies of a role are added one after the other; nothing else runs.
AddRole(role) ==
    /\ store' = With(store, RolePolicies(role))
    /\ UNCHANGED <<registered, limits, requestLog, limitedAt, counts, resetAt, audit,
                   routerVars, now>>

RemovePolicy(i) ==
    /\ i \in DOMAIN store
    /\ store' = Restrict(store, DOMAIN store \ {i})
    /\ UNCHANGED <<registered, limits, requestLog, limitedAt, counts, resetAt, audit,
                   routerVars, now>>

\* set_rate_limit forgets the requests that have been recorded.
SetRateLimit(a, max) ==
    /\ limits' = [limits EXCEPT ![a] = max]
    /\ requestLog' = [requestLog EXCEPT ![a] = <<>>]
    /\ limitedAt' = [limitedAt EXCEPT ![a] = Len(delivered)]
    /\ UNCHANGED <<registered, store, counts, resetAt, audit, routerVars, now>>

\* CircuitBreaker.reset
Reset(p) ==
    /\ counts[p] # <<>>
    /\ counts' = [counts EXCEPT ![p] = <<>>]
    /\ resetAt' = [resetAt EXCEPT ![p] = Len(delivered)]
    /\ UNCHANGED <<registered, engineVars, audit, routerVars, now>>

----------------------------------------------------------------------------
(* What the middleware decides *)

\* The entries of a log that are still in a window.
Recent(log, width) == Among(log, now - width + 1 .. now)

PairOf(m) == <<Source[m], Target[m]>>

\* The source is registered with the message's tenant; whether the target is
\* registered, and with which tenant, is not looked at.
Authentic(m) == <<Tenant[m], Source[m]>> \in registered

\* A request for authorization. Of its context: the tenant, the role, the
\* agent's state and the resource's tenant, each possibly Absent, and whose rate
\* limit counts.
Question(principal, action, type, resource, context) ==
    [principal |-> principal, action |-> action, type |-> type, resource |-> resource,
     context |-> context @@ [tenant |-> Absent, role |-> Absent, state |-> Absent, owner |-> Absent,
                             key |-> principal]]

\* The one that PolicyCheckMiddleware makes of a message: it says the tenant,
\* but not the role, the agent's state or the target's tenant.
AsQuestion(m) ==
    Question(Source[m], "send_message", "Message", Target[m], [tenant |-> Tenant[m]])

\* Policy.matches
Matches(p, q) ==
    /\ p.principal \in {Star, q.principal}
    /\ p.action \in {Star, q.action}
    /\ p.type \in {Star, q.type}
    /\ p.resource \in {Star, q.resource}
    /\ p.conditions.tenant \in {Absent, q.context.tenant}
    /\ p.conditions.role \in {Absent, q.context.role}

\* PolicyEngine.evaluate: denied by default, a forbid overrides a permit.
Permitted(policies, q) ==
    LET effects == {policies[i].effect : i \in {j \in DOMAIN policies : Matches(policies[j], q)}}
    IN  effects = {"permit"}

\* The denials before a request is counted: the agent is not ready, or the
\* resource is another tenant's.
Barred(q) ==
    \/ q.context.state \notin {Absent, "ready"}
    \/ Absent \notin {q.context.tenant, q.context.owner} /\ q.context.tenant # q.context.owner

RateFull(a) ==
    limits[a] # Absent /\ Len(Recent(requestLog[a], RateWindow)) >= limits[a]

\* A mutant of PairFull: one more message than the threshold.
PairFullLate(p) == Len(Recent(counts[p], PairWindow)) > Threshold

PairFull(p) == Len(Recent(counts[p], PairWindow)) >= Threshold

----------------------------------------------------------------------------
(* MessageRouter.send: how far a message gets *)

\* The rate limit drops the old entries of its log whatever it decides.
CheckRate(a, records) ==
    requestLog' = IF limits[a] = Absent THEN requestLog
                  ELSE [requestLog EXCEPT ![a] =
                          Recent(@, RateWindow) \o IF records THEN <<now>> ELSE <<>>]

\* So does the breaker, which counts what it lets through.
CheckPair(p, records) ==
    counts' = [counts EXCEPT ![p] =
                 Recent(@, PairWindow) \o IF records THEN <<now>> ELSE <<>>]

\* Somebody else asks the engine, which counts what it has not barred.
Ask(q) ==
    /\ ~Barred(q)
    /\ CheckRate(q.context.key, ~RateFull(q.context.key))
    /\ UNCHANGED <<registered, store, limits, limitedAt, counts, resetAt, audit,
                   routerVars, now>>

RefuseUnknown(m) ==
    /\ ~Authentic(m)
    /\ UNCHANGED messagingVars

RefuseRate(m) ==
    /\ Authentic(m)
    /\ RateFull(Source[m])
    /\ CheckRate(Source[m], FALSE)
    /\ UNCHANGED <<registered, store, limits, limitedAt, counts, resetAt, audit,
                   routerVars, now>>

\* A request that the policies deny has been recorded by the rate limit.
RefusePolicy(m) ==
    /\ Authentic(m)
    /\ ~RateFull(Source[m])
    /\ ~Permitted(store, AsQuestion(m))
    /\ CheckRate(Source[m], TRUE)
    /\ UNCHANGED <<registered, store, limits, limitedAt, counts, resetAt, audit,
                   routerVars, now>>

\* AuditStore.log, of the message as sent.
Log(m) == audit' = Append(audit, m)

\* What is permitted is filtered and logged ...
Accept(m) ==
    /\ Authentic(m)
    /\ ~RateFull(Source[m])
    /\ Permitted(store, AsQuestion(m))
    /\ CheckRate(Source[m], TRUE)
    /\ Log(m)
    /\ UNCHANGED <<registered, store, limits, limitedAt, resetAt, now>>

\* A mutant of Break: the breaker counts what it drops.
BreakCounting(m) ==
    /\ PairFull(PairOf(m))
    /\ Accept(m)
    /\ CheckPair(PairOf(m), TRUE)
    /\ UNCHANGED <<inboxes, delivered, when>>

\* ... before the breaker, which drops it when its pair has talked enough ...
Break(m) ==
    /\ PairFull(PairOf(m))
    /\ Accept(m)
    /\ CheckPair(PairOf(m), FALSE)
    /\ UNCHANGED <<inboxes, delivered, when>>

\* ... or else it is delivered.
Deliver(m) ==
    /\ ~PairFull(PairOf(m))
    /\ Accept(m)
    /\ CheckPair(PairOf(m), TRUE)
    /\ inboxes' = [inboxes EXCEPT ![Target[m]] = Append(@, m)]
    /\ delivered' = Append(delivered, m)
    /\ when' = Append(when, now)

Send(m) ==
    /\ Len(delivered) < MaxSends /\ Len(audit) < MaxSends
    /\ RefuseUnknown(m) \/ RefuseRate(m) \/ RefusePolicy(m) \/ Break(m) \/ Deliver(m)

----------------------------------------------------------------------------

ClearInbox(a) ==
    /\ inboxes[a] # <<>>
    /\ inboxes' = [inboxes EXCEPT ![a] = <<>>]
    /\ UNCHANGED <<registered, engineVars, counts, resetAt, audit, delivered, when, now>>

\* AuditStore.clear
ClearAudit ==
    /\ audit # <<>>
    /\ audit' = <<>>
    /\ UNCHANGED <<registered, engineVars, counts, resetAt, routerVars, now>>

\* get_count drops the old entries too.
GetCount(p) ==
    /\ counts' = [counts EXCEPT ![p] = Recent(@, PairWindow)]
    /\ UNCHANGED <<registered, engineVars, resetAt, audit, routerVars, now>>

Tick ==
    /\ now < Horizon
    /\ now' = now + 1
    /\ UNCHANGED <<registered, engineVars, counts, resetAt, audit, routerVars>>

MessagingNext ==
    \/ \E k \in Keys : Register(k) \/ Deregister(k)
    \/ \E i \in PolicyIds, p \in Policies : AddPolicy(i, p)
    \/ \E role \in Roles : AddRole(role)
    \/ \E i \in RemovedIds : RemovePolicy(i)
    \/ \E q \in Questions : Ask(q)
    \/ \E a \in RateKeys, max \in Rates : SetRateLimit(a, max)
    \/ \E m \in Messages : Send(m)
    \/ \E p \in Pairs : Reset(p) \/ GetCount(p)
    \/ \E a \in AgentIds : ClearInbox(a)
    \/ ClearAudit
    \/ Tick

MessagingSpec == MessagingInit /\ [][MessagingNext]_messagingVars

----------------------------------------------------------------------------

\* The deliveries after the first n that are in a window of the given width.
Within(n, width) == {d \in n + 1 .. Len(delivered) : when[d] > now - width}

\* Whatever else the router does, and however often the counters are read, an
\* agent gets no more messages through in a window than its rate limit allows,
\* counted from when the limit was set, and two agents exchange no more in one
\* direction than the breaker's threshold since it was last reset ("Maximum
\* messages between a pair in the window", governance/references/routing-patterns.md).
LimitsKept ==
    /\ \A a \in AgentIds : limits[a] # Absent =>
          Cardinality({d \in Within(limitedAt[a], RateWindow) : Source[delivered[d]] = a})
              <= limits[a]
    /\ \A p \in Pairs :
          Cardinality({d \in Within(resetAt[p], PairWindow) : PairOf(delivered[d]) = p})
              <= Threshold

\* The breaker breaks on what was delivered, not on what was tried: it drops a
\* message only while as many as the threshold have been delivered in the
\* window, so that a pair that keeps sending gets through again.
BrokenOnlyIfFull ==
    [][\A m \in Messages :
          audit' = Append(audit, m) /\ delivered' = delivered =>
              Cardinality({d \in Within(resetAt[PairOf(m)], PairWindow) :
                              PairOf(delivered[d]) = PairOf(m)}) >= Threshold]_messagingVars

\* Whatever is added and removed, in whatever order, the policies of a role
\* change nothing for a request with another role or none; and as long as a
\* policy that denies the secrets to a request has not been removed, no policy
\* permits it to read them.
RolesApart ==
    \A q \in Questions :
        LET others == {i \in DOMAIN store : i[1] \in Roles /\ i[1] # q.context.role}
            denials == {<<i, "secrets">> : i \in {"default"} \cup ({q.context.role} \cap Roles)}
        IN  /\ Permitted(store, q) = Permitted(Restrict(store, DOMAIN store \ others), q)
            /\ q.action = "read" /\ q.type = "File" /\ q.resource = "secrets/"
               /\ denials \cap DOMAIN store # {} => ~Permitted(store, q)

=============================================================================
