----------------------------- MODULE AgentPool -----------------------------
(***************************************************************************)
(* The agents that the runtime's entry point keeps, one per session, and   *)
(* the requests that run on them (entrypoint.py: AgentPool, the HTTP       *)
(* handler invoke and the WebSocket handler ws_handler, threads of one     *)
(* process). A request gets its session's agent, is to apply its role's    *)
(* tool policy to it, takes the session's lock, runs the agent and         *)
(* releases the lock that the session then has.                            *)
(*                                                                         *)
(* The pool creates an agent and a lock together and drops them together:  *)
(* one instance, numbered in order of creation, stands for both. What a    *)
(* conversation holds is not modelled.                                     *)
(*                                                                         *)
(* evicted and dropped are history variables: the sessions that have been  *)
(* evicted and the instances whose WebSocket client went away while they   *)
(* ran.                                                                    *)
(***************************************************************************)
EXTENDS Integers, Sequences, FiniteSets, SequencesExt

CONSTANTS
    Requests,       \* the requests that arrive
    WebSocket,      \* those of them that come over a WebSocket
    Sessions,       \* session ids
    Limits,         \* values of AgentPool._max_size
    None

Instances == 1 .. Cardinality(Requests)

ASSUME PoolAssumption ==
    /\ IsFiniteSet(Requests) /\ WebSocket \subseteq Requests
    /\ Limits \subseteq Nat \ {0}
    /\ None \notin Instances /\ None \notin Sessions

VARIABLES
    limit,          \* AgentPool._max_size
    order,          \* AgentPool._agents: its sessions, least recently used first
    current,        \* AgentPool._agents and _session_locks: a session's instance
    made,           \* number of instances made so far
    held,           \* the instances whose lock is locked
    req,            \* the requests
    evicted, dropped

poolVars == <<order, current, made, evicted>>
runtimeVars == <<limit, poolVars, held, req, dropped>>

\* working: the agent's invocation for this request is running; with a
\* WebSocket it runs in a thread that may outlive the handler.
Request == [pc      : {"new", "policy", "lock", "acquire", "run", "release", "unlock", "done"},
            session : Sessions \cup {None},
            agent   : Instances \cup {None},
            lock    : Instances \cup {None},
            working : BOOLEAN]

NewRequest == [pc |-> "new", session |-> None, agent |-> None, lock |-> None,
               working |-> FALSE]

PoolInit ==
    /\ limit \in Limits
    /\ order = <<>>
    /\ current = [s \in Sessions |-> None]
    /\ made = 0
    /\ held = {}
    /\ req = [r \in Requests |-> NewRequest]
    /\ evicted = {} /\ dropped = {}

At(r, pc) == req[r].pc = pc

Move(r, pc) == req' = [req EXCEPT ![r].pc = pc]

----------------------------------------------------------------------------
(* AgentPool *)

\* The pooled sessions with s as the most recently used.
Touched(s) == Append(Remove(order, s), s)

\* How many of them are to go.
Excess(s) == IF Len(Touched(s)) > limit THEN Len(Touched(s)) - limit ELSE 0

\* get_or_create, under the pool's lock: the session's agent, or a new one,
\* after which the least recently used sessions go until the limit is kept.
GetOrCreate(r, s) ==
    /\ At(r, "new")
    /\ LET isNew == current[s] = None
           gone  == {Touched(s)[n] : n \in 1 .. Excess(s)}
           agent == IF isNew THEN made + 1 ELSE current[s]
       IN  /\ order' = SubSeq(Touched(s), Excess(s) + 1, Len(Touched(s)))
           /\ current' = [x \in Sessions |-> IF x \in gone THEN None
                                             ELSE IF x = s THEN agent ELSE current[x]]
           /\ made' = IF isNew THEN made + 1 ELSE made
           /\ evicted' = evicted \cup gone
           /\ req' = [req EXCEPT ![r] = [NewRequest EXCEPT
                        !.pc = "policy", !.session = s, !.agent = agent]]
    /\ UNCHANGED <<limit, held, dropped>>

\* _apply_role_tool_policy, before the session is locked. It would set the
\* role's denylist on an agent that has a tool_policy_hook; the agents of the
\* pool are created with a harness and do not have that attribute, so it
\* leaves them as they are.
Apply(r) ==
    /\ At(r, "policy")
    /\ Move(r, "lock")
    /\ UNCHANGED <<limit, poolVars, held, dropped>>

\* acquire_session looks the lock up under the pool's lock; a session that is
\* no longer in the pool has none, and the request goes on without.
LookUpLock(r) ==
    /\ At(r, "lock")
    /\ req' = [req EXCEPT ![r].lock = current[req[r].session],
                          ![r].pc = IF current[req[r].session] = None THEN "run" ELSE "acquire",
                          ![r].working = current[req[r].session] = None]
    /\ UNCHANGED <<limit, poolVars, held, dropped>>

\* A mutant of Acquire: the answer of a non-blocking acquire is not looked at.
AcquireRegardless(r) ==
    /\ At(r, "acquire")
    /\ r \in WebSocket \/ req[r].lock \notin held
    /\ held' = held \cup {req[r].lock}
    /\ req' = [req EXCEPT ![r].pc = "run", ![r].working = TRUE]
    /\ UNCHANGED <<limit, poolVars, dropped>>

\* It then takes the lock, over HTTP waiting for it.
Acquire(r) ==
    /\ At(r, "acquire")
    /\ req[r].lock \notin held
    /\ held' = held \cup {req[r].lock}
    /\ req' = [req EXCEPT ![r].pc = "run", ![r].working = TRUE]
    /\ UNCHANGED <<limit, poolVars, dropped>>

\* Over a WebSocket a busy session is an error at once.
Busy(r) ==
    /\ At(r, "acquire")
    /\ r \in WebSocket
    /\ req[r].lock \in held
    /\ Move(r, "done")
    /\ UNCHANGED <<limit, poolVars, held, dropped>>

----------------------------------------------------------------------------
(* The invocation *)

\* It returns or raises; the finally clause releases the session.
Finish(r) ==
    /\ At(r, "run")
    /\ req' = [req EXCEPT ![r].working = FALSE, ![r].pc = "release"]
    /\ UNCHANGED <<limit, poolVars, held, dropped>>

\* The WebSocket client is gone: the handler stops streaming and goes to its
\* finally clause, the thread that runs the agent does not stop.
Disconnect(r) ==
    /\ At(r, "run")
    /\ r \in WebSocket
    /\ dropped' = dropped \cup {req[r].agent}
    /\ Move(r, "release")
    /\ UNCHANGED <<limit, poolVars, held>>

ThreadEnds(r) ==
    /\ ~At(r, "run")
    /\ req[r].working
    /\ req' = [req EXCEPT ![r].working = FALSE]
    /\ UNCHANGED <<limit, poolVars, held, dropped>>

\* release_session looks up the lock that the session has now ...
LookUpRelease(r) ==
    /\ At(r, "release")
    /\ req' = [req EXCEPT ![r].lock = current[req[r].session], ![r].pc = "unlock"]
    /\ UNCHANGED <<limit, poolVars, held, dropped>>

\* A mutant of Release: a failed release is not the only one swallowed.
ReleaseNothing(r) ==
    /\ At(r, "unlock")
    /\ Move(r, "done")
    /\ UNCHANGED <<limit, poolVars, held, dropped>>

\* ... and releases it, whoever took it.
Release(r) ==
    /\ At(r, "unlock")
    /\ held' = held \ {req[r].lock}
    /\ Move(r, "done")
    /\ UNCHANGED <<limit, poolVars, dropped>>

----------------------------------------------------------------------------

Progress(r) == \/ Apply(r) \/ LookUpLock(r) \/ Acquire(r) \/ Busy(r)
               \/ Finish(r) \/ LookUpRelease(r) \/ Release(r)

PoolNext == \E r \in Requests :
            \/ \E s \in Sessions : GetOrCreate(r, s)
            \/ Progress(r)
            \/ Disconnect(r)
            \/ ThreadEnds(r)

\* Threads run, and an invocation ends (its calls to the model time out).
Fairness == \A r \in Requests : WF_runtimeVars(Progress(r))

PoolSpec == PoolInit /\ [][PoolNext]_runtimeVars /\ Fairness

----------------------------------------------------------------------------

\* The per-session lock keeps two requests from running on one agent, as long
\* as the session has not been evicted from the pool and no WebSocket client
\* has gone away from its agent.
ExclusiveWhileKept ==
    \A q, r \in Requests :
        /\ req[q].working /\ req[r].working /\ req[q].agent = req[r].agent
        /\ req[r].session \notin evicted
        /\ req[r].agent \notin dropped
        => q = r

\* Every request is answered, unless its session is evicted from the pool.
Answered ==
    \A r \in Requests : At(r, "policy") ~> (At(r, "done") \/ req[r].session \in evicted)

----------------------------------------------------------------------------
(* The inductive invariant behind ExclusiveWhileKept. It does without the   *)
(* order of the sessions.                                                  *)

Asking == {r \in Requests : ~At(r, "new")}

\* The types of the rest, and what a request knows at each place.
PoolTyped ==
    /\ current \in [Sessions -> Instances \cup {None}]
    /\ made \in Nat /\ made <= Cardinality(Asking)
    /\ held \subseteq Instances
    /\ req \in [Requests -> Request]
    /\ \A r \in Asking : req[r].session # None /\ req[r].agent # None
    /\ \A r \in Requests : At(r, "acquire") => req[r].lock # None

Uses(r) == {req[r].agent, req[r].lock} \ {None}

\* An instance is one session's for good: of the pool's and of those that
\* requests still know.
OneSessionEach ==
    /\ \A s, t \in Sessions : current[s] = current[t] /\ current[s] # None => s = t
    /\ \A s \in Sessions : current[s] # None => current[s] <= made
    /\ \A r \in Requests : \A i \in Uses(r) :
          /\ i <= made
          /\ \A s \in Sessions : current[s] = i => req[r].session = s
          /\ \A q \in Requests : i \in Uses(q) => req[q].session = req[r].session

Kept(r) == req[r].session \notin evicted

\* The requests of a session that has never been evicted all have its agent
\* and, when they take or release a lock, its lock.
SameAgent ==
    \A r \in Asking : Kept(r) =>
        /\ current[req[r].session] = req[r].agent
        /\ At(r, "acquire") \/ At(r, "unlock") => req[r].lock = req[r].agent

Inside(r) == req[r].pc \in {"run", "release", "unlock"}

\* One of them at a time is between its acquire and its release, and it has
\* the lock.
OneInside ==
    \A r \in Requests : Inside(r) /\ Kept(r) =>
        /\ req[r].agent \in held
        /\ \A q \in Requests : Inside(q) /\ req[q].agent = req[r].agent => q = r

\* An agent works for a request that runs, or for a WebSocket client that is
\* gone.
WorkingInside ==
    \A r \in Requests : req[r].working =>
        \/ At(r, "run")
        \/ req[r].pc \in {"release", "unlock", "done"} /\ req[r].agent \in dropped

PoolInv == /\ PoolTyped /\ OneSessionEach /\ SameAgent /\ OneInside
        /\ WorkingInside

=============================================================================
