---------------------------- MODULE MCMessaging ----------------------------
(* Agent a talks to b, and to everybody; a store with or without the default *)
(* policies, to which a role's are added, and one that permits or forbids    *)
(* everything.                                                              *)
EXTENDS Messaging

CONSTANTS t1, a, b, x, z, rule

MCKeys == {<<t1, a>>}
MCSource == x :> a @@ z :> a
MCTarget == x :> b @@ z :> Star
MCTenant == x :> t1 @@ z :> t1

MCPolicyIds == {<<rule, "custom">>}

MCPolicies == {Policy(effect, Star, Star, Star, Star, Absent, Absent) : effect \in {"permit", "forbid"}}

MCRemovedIds == {<<rule, "custom">>, <<"default", "secrets">>}

MCQuestions ==
    {Question(a, "read", "File", "secrets/", [role |-> role, tenant |-> t1, owner |-> t1]) :
        role \in {Absent, "admin"}}
    \cup {Question(a, "manage", "Policy", rule, [role |-> "monitor", state |-> "ready"]),
          Question(a, "write", "File", "project/", [state |-> "booting"])}

=============================================================================
