-------------------------- MODULE MCDynamoDBStore --------------------------
(* DynamoDBStore with two tenants, the name of one a prefix of the other's. *)
EXTENDS DynamoDBStore, TLC

CONSTANTS t1, t2, a1, a2, x, code, test

MCKeys == {<<t1, a1>>}
MCPrefixOf == {<<t1, t1>>, <<t1, t2>>, <<t2, t2>>}
MCTaskTenant == [t \in Tasks |-> t1]
MCTaskNeeds == [t \in Tasks |-> {code}]
MCSymmetry == Permutations(Clients)
=============================================================================
