--------------------------- MODULE AgentRegistry ---------------------------
(***************************************************************************)
(* The in-memory agent registry of the control plane                       *)
(* (control_plane/registry.py) and the parts of control_plane/lifecycle.py *)
(* that act on it alone: cold start, the heartbeat sweep, auto-restart.    *)
(*                                                                         *)
(* An agent is keyed by its tenant and its id, as the registry's dict is.  *)
(* Time is abstracted to the age of a heartbeat.                           *)
(***************************************************************************)
EXTENDS ControlPlaneData

CONSTANTS
    Profiles,       \* what register is called with: [role, skill]
    BeatTimeout     \* HeartbeatManager.timeout_seconds, in ticks

ASSUME RegistryAssumption ==
    /\ BeatTimeout \in Nat
    /\ \A p \in Profiles : /\ p.role \in BOOLEAN
                           /\ p.skill \in [Capabilities -> Nat \cup {None}]

VARIABLE agents     \* AgentRegistry._agents

\* profile.role says whether the role is non-empty; profile.skill[c] is the
\* confidence in c, None when the agent lacks the capability.
AgentRecord == [state   : AgentState,
                profile : Profiles,
                beat    : Age(BeatTimeout)]

ASSUME NoneIsNoAgent == None \notin AgentRecord

AgentsInit == agents = [k \in Keys |-> None]

Registered(k) == agents[k] # None

InState(k, s) == Registered(k) /\ agents[k].state = s

----------------------------------------------------------------------------
(* AgentRegistry *)

Register(k, p) ==
    /\ ~Registered(k)
    /\ agents' = [agents EXCEPT ![k] =
                    [state |-> "boot", profile |-> p, beat |-> None]]

Deregister(k) ==
    /\ Registered(k)
    /\ agents' = [agents EXCEPT ![k] = None]

UpdateState(k, s) ==
    /\ Registered(k)
    /\ s \in ValidTransitions[agents[k].state]
    /\ agents' = [agents EXCEPT ![k].state = s]

UpdateHeartbeat(k) ==
    /\ Registered(k)
    /\ agents' = [agents EXCEPT ![k].beat = 0]

----------------------------------------------------------------------------
(* Lifecycle *)

\* boot: INITIALIZING, then READY with a heartbeat if the self-check passes
\* and DEGRADED if it does not. From any state but BOOT it changes nothing.
Boot(k) ==
    /\ InState(k, "boot")
    /\ agents' = [agents EXCEPT ![k] =
                    IF agents[k].profile.role
                    THEN [@ EXCEPT !.state = "ready", !.beat = 0]
                    ELSE [@ EXCEPT !.state = "degraded"]]

BeatCurrent(k) ==
    agents[k].beat # None /\ ~Expired(agents[k].beat, BeatTimeout)

\* check_all over the agents of one tenant, or of all of them.
CheckAll(scope) ==
    LET missed == {k \in Keys :
                     /\ k[1] \in scope
                     /\ InState(k, "ready") \/ InState(k, "busy")
                     /\ ~BeatCurrent(k)}
    IN  /\ missed # {}
        /\ agents' = [k \in Keys |-> IF k \in missed
                                     THEN [agents[k] EXCEPT !.state = "degraded"]
                                     ELSE agents[k]]

AutoRestart(k) ==
    /\ InState(k, "degraded")
    /\ agents' = [agents EXCEPT ![k].state = "ready", ![k].beat = 0]

\* One tick passes for every recorded heartbeat.
AgeBeats ==
    agents' = [k \in Keys |->
                 IF Registered(k)
                 THEN [agents[k] EXCEPT !.beat = Older(@, BeatTimeout)]
                 ELSE agents[k]]

----------------------------------------------------------------------------

AgentsTypeOK == agents \in [Keys -> AgentRecord \cup {None}]

=============================================================================
