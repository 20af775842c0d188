--------------------------- MODULE TaskOwnership ---------------------------
(***************************************************************************)
(* What a task store promises, whatever it is built on: a task has at most *)
(* one owner, and passes from one owner to another only through a state in *)
(* which it has none.                                                      *)
(***************************************************************************)
CONSTANTS Tasks, AgentIds, None

VARIABLE owner

Free(t) == owner[t] = None

Init == owner = [t \in Tasks |-> None]

Take(t, a) ==
    /\ Free(t)
    /\ owner' = [owner EXCEPT ![t] = a]

Release(ts) ==
    /\ ts # {}
    /\ owner' = [t \in Tasks |-> IF t \in ts THEN None ELSE owner[t]]

Next ==
    \/ \E t \in Tasks, a \in AgentIds : Take(t, a)
    \/ \E ts \in SUBSET Tasks : Release(ts)

Spec == Init /\ [][Next]_owner

=============================================================================
