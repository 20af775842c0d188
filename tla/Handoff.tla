------------------------------- MODULE Handoff -------------------------------
(***************************************************************************)
(* Requests for a human (foundation/handoff/agent.py): the HandoffAgent    *)
(* and its CLIHandoffChannel.  The agent and the channel hold the same     *)
(* request object, so a request has one status; the channel also keeps the *)
(* responses, which the agent polls.                                       *)
(***************************************************************************)
EXTENDS Integers

CONSTANTS
    Requests,     \* ids of requests
    MaxEscalations,   \* bound: how often one request is sent
    NoRequest, NoResponse

VARIABLES
    status,       \* HandoffRequest.status, NoRequest before it is created
    basis,        \* what the request was created from
    pending,      \* CLIHandoffChannel._pending (the ids)
    responses,    \* CLIHandoffChannel._responses
    sends         \* ghost: how often a request was sent

handoffVars == <<status, basis, pending, responses, sends>>

Decisions == {"approve", "reject", "revise", "override"}
Decided == {"resolved", "rejected"}

ASSUME HandoffAssumption ==
    /\ NoRequest \notin Decided \cup {"pending"}
    /\ NoResponse \notin [status : Decided, decision : Decisions]

HandoffInit ==
    /\ status = [r \in Requests |-> NoRequest]
    /\ basis = [r \in Requests |-> NoRequest]
    /\ pending = {}
    /\ responses = [r \in Requests |-> NoResponse]
    /\ sends = [r \in Requests |-> 0]

\* create_request and create_from_evaluation, each with a new id.
Create(r, b) ==
    /\ status[r] = NoRequest
    /\ status' = [status EXCEPT ![r] = "pending"]
    /\ basis' = [basis EXCEPT ![r] = b]
    /\ UNCHANGED <<pending, responses, sends>>

\* escalate through CLIHandoffChannel.send, which always succeeds.
Escalate(r) ==
    /\ status[r] # NoRequest
    /\ sends[r] < MaxEscalations
    /\ pending' = pending \cup {r}
    /\ status' = [status EXCEPT ![r] = "pending"]
    /\ sends' = [sends EXCEPT ![r] = @ + 1]
    /\ UNCHANGED <<basis, responses>>

\* CLIHandoffChannel.resolve: a human decides; an unknown id or decision raises.
Resolve(r, d) ==
    /\ r \in pending
    /\ d \in Decisions
    /\ LET s == IF d \in {"approve", "override"} THEN "resolved" ELSE "rejected"
       IN  /\ responses' = [responses EXCEPT ![r] = [status |-> s, decision |-> d]]
           /\ status' = [status EXCEPT ![r] = s]
    /\ UNCHANGED <<basis, pending, sends>>

\* check_status: the agent polls the channel and takes over the status.
CheckStatus(r) ==
    /\ status' = IF responses[r] # NoResponse /\ status[r] # NoRequest
                 THEN [status EXCEPT ![r] = responses[r].status] ELSE status
    /\ UNCHANGED <<basis, pending, responses, sends>>

\* pending_requests of the agent.
PendingRequests == {r \in Requests : status[r] = "pending"}
=============================================================================
