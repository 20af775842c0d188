--------------------------- MODULE MCAgentMemory ---------------------------
(* A small instance of AgentMemory: two users, the name of one the beginning *)
(* of the other's, in one thread, and somebody without an identity.          *)
EXTENDS AgentMemory

CONSTANTS r1, r2

Symmetry == Permutations({r1, r2})

U1 == <<"U", "1">>
U12 == <<"U", "1", "2">>

Caller(token, username, sub, header, payload, session) ==
    [token |-> token, username |-> username, sub |-> sub, header |-> header,
     payload |-> payload, session |-> session]

MCCallers == {Caller(TRUE, U1, <<"s">>, None, <<>>, "thread"),
              Caller(FALSE, None, None, None, <<None, U12>>, "thread"),
              Caller(FALSE, None, None, None, <<>>, "other")}

\* One strategy with two namespaces, one by the session, one that everybody
\* shares, and one that the context's namespaces and names fit.
MCTemplates == <<
    [strategy |-> "facts-1", namespace |-> <<"/", "users", "/", "{actorId}", "/", "facts", "/">>],
    [strategy |-> "facts-1", namespace |-> <<"/", "users", "/", "{actorId}", "/">>],
    [strategy |-> "summaries-1",
     namespace |-> <<"/", "summaries", "/", "{actorId}", "/", "{sessionId}", "/">>],
    [strategy |-> "global", namespace |-> <<"/">>],
    [strategy |-> "userPreferences",
     namespace |-> <<"/", "strategies", "/", "{memoryStrategyId}", "/", "actors", "/", "{actorId}", "/">>]>>

Record(id, actor, strategy, score, text) ==
    [id |-> id, actor |-> actor, strategy |-> strategy, score |-> score, text |-> text,
     namespaces |-> {ResolveNamespace(t.namespace, actor, "thread", strategy) :
                     t \in {x \in ToSet(MCTemplates) : x.strategy = strategy}}]

MCStores == {
    {Record(1, U1, "facts-1", 1, "short"), Record(2, U1, "summaries-1", 2, "short"),
     Record(3, U12, "facts-1", 2, "long"), Record(4, U1, "userPreferences", 1, "long")},
    {Record(1, U1, "userPreferences", 2, "huge"), Record(2, U1, "userPreferences", 1, "short"),
     Record(3, U1, "facts-1", 2, "short"), Record(4, U12, "userPreferences", 1, "short")}}

MCToolNamespaces == {<<>>, <<"/", "users", "/">> \o U12 \o <<"/">>}
MCSizeOf == [short |-> 1, long |-> 3, huge |-> 9]
=============================================================================
