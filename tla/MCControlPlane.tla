--------------------------- MODULE MCControlPlane ---------------------------
(* ControlPlane on an instance of two tenants that both know an agent id.  *)
EXTENDS ControlPlane

CONSTANTS t1, t2, a, b, x, y, code

MCKeys == {<<t1, a>>, <<t2, a>>}
MCTaskTenant == [t \in Tasks |-> IF t = x THEN t1 ELSE t2]
MCTaskNeeds == [t \in Tasks |-> {code}]
MCProfiles == {[role |-> TRUE,  skill |-> [c \in {code} |-> 1]],
               [role |-> FALSE, skill |-> [c \in {code} |-> 0]],
               [role |-> TRUE,  skill |-> [c \in {code} |-> None]]}
=============================================================================
