---------------------------- MODULE AgentMemory ----------------------------
(***************************************************************************)
(* What the runtime remembers of its users between sessions (memory.py,    *)
(* foundation/tools/memory_tools.py, memory_access_guard.py and the        *)
(* memory parts of entrypoint.py). A request whose session has no agent    *)
(* yet is given a context of long-term records; its agent may save and     *)
(* recall memories with tools bound to the actor the agent was made for;   *)
(* when it has answered, the turn is written as two events. The memory     *)
(* service extracts long-term records from the events in its own time.     *)
(*                                                                         *)
(* A namespace is a sequence of tokens; an actor's name is one of          *)
(* characters, for one name may be the beginning of another. Embeddings    *)
(* are not modelled: a record has its relevance to whatever is asked.      *)
(***************************************************************************)
EXTENDS Integers, Sequences, FiniteSets, SequencesExt, ListFunctions

CONSTANTS
    Requests,       \* the requests that arrive
    Callers,        \* who may send one, and in which session
    Templates,      \* the strategies' namespace templates, as get_memory lists them
    ToolNamespaces, \* values of create_memory_tools' namespace; the entry point gives none
    Stores,         \* what the service may hold at the start: sets of records
    Texts, SizeOf,  \* texts of extracted records, and how long each is
    Scores,         \* relevance of a record
    Overhead,       \* what a line of the context costs besides its text
    Budget,         \* MAX_LTM_CHARS
    TopK,           \* recall_memory's top_k
    MaxRecords,     \* bound: records in the service
    MaxCalls,       \* bound: tool calls of a request
    MaxRestarts,    \* bound: restarts of the process
    MaxFailures,    \* bound: calls to the service that fail
    None

Slash == <<"/">>
Default == <<"default">>

VARIABLES
    backend,        \* "agentcore" or "local"
    toolNamespace,
    cache,          \* AgentCoreMemory._strategy_templates: None until it is loaded
    events,         \* per actor and session, the conversation's events
    records,        \* the service's long-term records
    bound,          \* per session, the actor its agent's tools are bound to
    talked,         \* the sessions whose agent has messages
    busy,           \* per session, the request that holds its lock
    req,
    strays,         \* whether the service's answers stray from the namespace asked for
    restarts, failures

settings == <<backend, toolNamespace, strays>>
memoryVars == <<settings, cache, events, records, bound, talked, busy, req, restarts, failures>>

----------------------------------------------------------------------------
(* Who asks *)

\* _extract_identity: a token's username or else its subject; without a token
\* the custom header; then the payload's fields in their order, where a space
\* becomes an underscore.
ActorOf(c) ==
    LET first(s) == LET given == SelectSeq(s, LAMBDA n : n # None)
                    IN  IF given = <<>> THEN Default ELSE given[1]
    IN  IF c.token THEN first(<<c.username, c.sub>>)
        ELSE IF c.header # None THEN c.header
        ELSE [i \in DOMAIN first(c.payload) |->
                IF first(c.payload)[i] = " " THEN "_" ELSE first(c.payload)[i]]

Actors == {ActorOf(c) : c \in Callers}
Sessions == {c.session : c \in Callers}

----------------------------------------------------------------------------
(* Namespaces *)

\* _resolve_namespace. Without a session its placeholder goes, at the end
\* together with the slash that follows it.
ResolveNamespace(template, actor, session, strategy) ==
    LET n == Len(template)
        atEnd == n > 1 /\ template[n - 1] = "{sessionId}" /\ template[n] = "/"
        kept == IF session = None /\ atEnd THEN SubSeq(template, 1, n - 2) ELSE template
        value(x) == CASE x = "{actorId}" -> actor
                      [] x = "{memoryStrategyId}" -> <<strategy>>
                      [] x = "{sessionId}" -> IF session = None THEN <<>> ELSE <<session>>
                      [] OTHER -> <<x>>
    IN  FlattenSeq([i \in DOMAIN kept |-> value(kept[i])])

\* A mutant of BelongsTo: whatever the service answers is taken.
TakenAsAnswered(record, prefixes) == TRUE

\* _record_belongs_to_actor, the post-filter of a search.
BelongsTo(record, prefixes) ==
    \E ns \in record.namespaces, p \in prefixes : IsPrefix(p, ns)

\* MemoryAccessGuard._check_namespace: the actor is a part of the namespace,
\* which is neither empty nor the root; placeholders and the shared
\* namespaces are let through.
NamespaceAllowed(ns, actor) ==
    /\ ns # <<>> /\ ns # Slash /\ actor # <<>>
    /\ \/ Contains(ns, "{actorId}") \/ Contains(ns, "{actor_id}")
       \/ IsPrefix(<<"shared", "/">>, ns) /\ ~Contains(ns, "..")
       \/ IsPrefix(<<"public", "/">>, ns) /\ ~Contains(ns, "..")
       \/ \E i, j \in DOMAIN ns :
            /\ SubSeq(ns, i, j) = actor
            /\ i = 1 \/ ns[i - 1] = "/"
            /\ j = Len(ns) \/ ns[j + 1] = "/"

\* validate_retrieval_request, for tools that were given a namespace; the guard
\* is strict, and the tool answers a violation with an error.
RequestValid(ns, actor) == ns = <<>> \/ NamespaceAllowed(ns, actor)

\* validate_retrieval_config: the namespaces that it leaves to an actor.
SafeNamespaces(namespaces, actor) == {ns \in namespaces : NamespaceAllowed(ns, actor)}

\* The namespace of a template's records, and the one in which an actor's
\* records of all sessions are looked for.
Held(t, actor, session) == ResolveNamespace(t.namespace, actor, session, t.strategy)
Asked(t, actor) == ResolveNamespace(t.namespace, actor, None, t.strategy)

\* The namespaces of what a strategy extracts from a conversation.
NamespacesOf(actor, session, strategy) ==
    {Held(t, actor, session) : t \in {x \in ToSet(Templates) : x.strategy = strategy}}

Strategies == {t.strategy : t \in ToSet(Templates)}

\* A record that the service has extracted from some conversation.
LongTermRecord ==
    {x \in [id : Nat, actor : Actors, strategy : Strategies, score : Int, text : DOMAIN SizeOf,
            namespaces : {NamespacesOf(a, s, g) : a \in Actors, s \in Sessions, g \in Strategies}] :
        \E s \in Sessions : x.namespaces = NamespacesOf(x.actor, s, x.strategy)}

\* The ids of the service's records: a new one gets the next.
Numbered(set) ==
    /\ IsFiniteSet(set)
    /\ \A x \in set : x.id \in 1 .. Cardinality(set)
    /\ \A x, y \in set : x.id = y.id => x = y

\* What there is to remember, and how much of it is shown.
ASSUME MemoryAssumption ==
    /\ Templates \in Seq([strategy : STRING, namespace : Seq(STRING)])
    /\ \A store \in Stores : store \subseteq LongTermRecord /\ Numbered(store)
    /\ Texts \subseteq DOMAIN SizeOf /\ Scores \subseteq Int
    /\ Budget \in Nat /\ TopK \in Nat \ {0}
    /\ None \notin {"context", "recall"}

\* The templates keep the actors apart: but for the root, which no search asks
\* for, what begins with the namespace of an actor's records is a namespace of
\* that actor, and one that the access guard lets it read.
ASSUME TemplatesApart ==
    \A t, u \in ToSet(Templates), a, b \in Actors, s \in Sessions :
        Asked(t, a) \notin {Slash, <<>>} /\ IsPrefix(Asked(t, a), Held(u, b, s)) =>
            a = b /\ NamespaceAllowed(Held(u, b, s), a)

\* They reach all of an actor's records: what the guard lets it read of a
\* strategy is in a namespace that a search of the strategy asks for.
ASSUME TemplatesReach ==
    \A u \in ToSet(Templates), a, b \in Actors, s \in Sessions :
        NamespaceAllowed(Held(u, b, s), a) =>
            \E t \in ToSet(Templates) :
                /\ t.strategy = u.strategy
                /\ Asked(t, a) \notin {Slash, <<>>} /\ IsPrefix(Asked(t, a), Held(u, b, s))

----------------------------------------------------------------------------
(* Rankings *)

\* The elements of a set in the order of a relation: of each, how many come before.
InOrder(set, before) ==
    [n \in 1 .. Cardinality(set) |->
        CHOOSE x \in set : Cardinality({y \in set : <<y, x>> \in before}) = n - 1]

\* Records by their relevance.
Better(set) ==
    {p \in set \X set :
        p[1].score > p[2].score \/ (p[1].score = p[2].score /\ p[1].id < p[2].id)}

FirstN(s, n) == SubSeq(s, 1, IF Len(s) < n THEN Len(s) ELSE n)

\* The places of a sequence, stably by score, as sorted(..., reverse=True) has them.
Ahead(s) ==
    {p \in (DOMAIN s) \X (DOMAIN s) :
        s[p[1]].score > s[p[2]].score \/ (s[p[1]].score = s[p[2]].score /\ p[1] < p[2])}

ByScore(s) == LET order == InOrder(DOMAIN s, Ahead(s)) IN [i \in DOMAIN s |-> s[order[i]]]

\* The entries of a sequence whose key no earlier entry has.
FirstOfEach(s, key) ==
    LET new == {i \in DOMAIN s : \A j \in 1 .. i - 1 : key[j] # key[i]}
        places == InOrder(new, {p \in new \X new : p[1] < p[2]})
    IN  [i \in DOMAIN places |-> s[places[i]]]

Ids(s) == [n \in DOMAIN s |-> s[n].id]
TextsOf(s) == [n \in DOMAIN s |-> s[n].text]

\* What retrieve_memory_records answers: the best k of the strategy's records
\* in a namespace that begins with the one asked for; or, when the service
\* does not keep to the namespace, of all.
Answer(query) ==
    LET inNamespace(x) == \E ns \in x.namespaces : IsPrefix(query.namespace, ns)
        matching == {x \in records : strays \/ (x.strategy = query.strategy /\ inNamespace(x))}
    IN  FirstN(InOrder(matching, Better(matching)), query.topK)

\* The records of a search's answers that belong to the actor.
Own(found, prefixes) == Among(found, {x \in ToSet(found) : BelongsTo(x, prefixes)})

\* Ranked, each once.
Ranked(own) == FirstOfEach(ByScore(own), Ids(ByScore(own)))

\* A mutant of Merged: the limit is applied before the ranking.
MergedTooEarly(found, prefixes) == Ranked(FirstN(Own(found, prefixes), TopK))

\* search_long_term on what the strategies gave: the actor's own records, the
\* most relevant first, each once, at most top_k.
Merged(found, prefixes) == FirstN(Ranked(Own(found, prefixes)), TopK)

\* What records cost in the context.
Cost(s) == Total([n \in DOMAIN s |-> SizeOf[s[n].text] + Overhead])

\* A mutant of Selected: also the first record must fit.
SelectedWithin(s) ==
    LET fits == {n \in 0 .. Len(s) : Cost(SubSeq(s, 1, n)) <= Budget}
    IN  SubSeq(s, 1, CHOOSE n \in fits : \A m \in fits : m <= n)

\* _load_ltm_context's selection: from the best on, until one exceeds the
\* budget; the first is taken in any case.
Selected(s) ==
    LET fits == {n \in 0 .. Len(s) : n <= 1 \/ Cost(SubSeq(s, 1, n)) <= Budget}
    IN  SubSeq(s, 1, CHOOSE n \in fits : \A m \in fits : m <= n)

\* The records of the context: sorted, one of each text, cut to the budget.
ContextOf(found) == Selected(FirstOfEach(ByScore(found), TextsOf(ByScore(found))))

----------------------------------------------------------------------------
(* Conversations *)

Turn(role, text) == [role |-> role, text |-> text]

\* What get_conversation_history may give of a conversation: the last turns,
\* from LocalMemory; from the service, the last of those it lists, which may
\* stop at a page.
Histories(conversation) ==
    LET last(s) == {SubSeq(s, n, Len(s)) : n \in DOMAIN s}
    IN  IF backend = "local" THEN last(conversation)
        ELSE UNION {last(SubSeq(conversation, 1, page)) : page \in DOMAIN conversation}

\* LocalMemory.search_long_term: turns of the actor's sessions that hold what
\* is asked for (a saved memory), in any order of the sessions, until enough.
LocalAnswers(actor) ==
    LET hits(s) == {n \in DOMAIN events[<<actor, s>>] : events[<<actor, s>>][n].text = "memory"}
        found == UNION {{[id |-> <<s, n>>, actor |-> actor, score |-> 1, namespaces |-> {}] :
                         n \in hits(s)} : s \in Sessions}
        enough == IF Cardinality(found) < TopK THEN Cardinality(found) ELSE TopK
    IN  {some \in [1 .. enough -> found] : \A m, n \in 1 .. enough : some[m] = some[n] => m = n}

\* Messages and one more: what has the role of the last goes into that.
Extended(messages, m) ==
    LET n == Len(messages)
    IN  IF n > 0 /\ messages[n].role = m.role
        THEN [messages EXCEPT ![n] = [role |-> m.role, texts |-> messages[n].texts \o m.texts]]
        ELSE Append(messages, m)

\* Runs of turns of one role, as one message each.
MergeRoles(messages) ==
    LET upTo[n \in 0 .. Len(messages)] ==
            IF n = 0 THEN <<>> ELSE Extended(upTo[n - 1], messages[n])
    IN  upTo[Len(messages)]

\* A mutant of WithUserFirst: a conversation begins with whoever spoke first.
AsItBegins(messages) == messages

\* A message of the assistant is not the first.
WithUserFirst(messages) ==
    IF messages # <<>> /\ messages[1].role # "user"
    THEN <<[role |-> "user", texts |-> <<"context">>]>> \o messages
    ELSE messages

\* turns_to_bedrock_messages: blank turns skipped, roles merged, a user first,
\* roles merged again.
Singles(turns) == [i \in DOMAIN turns |-> [role |-> turns[i].role, texts |-> <<turns[i].text>>]]

ToBedrock(turns) ==
    LET spoken == Among(turns, {t \in ToSet(turns) : t.text # "blank"})
    IN  MergeRoles(WithUserFirst(MergeRoles(Singles(spoken))))

----------------------------------------------------------------------------
(* The runtime *)

NoSearch == [kind |-> None, actor |-> Default, strategy |-> None, known |-> {}, todo |-> <<>>,
             prefixes |-> {}, found |-> <<>>, sound |-> TRUE, result |-> <<>>]

Idle == [pc |-> "idle", caller |-> CHOOSE c \in Callers : TRUE, calls |-> 0, search |-> NoSearch]

Over == [Idle EXCEPT !.pc = "done"]

MemoryInit ==
    /\ backend \in {"agentcore", "local"}
    /\ toolNamespace \in ToolNamespaces
    /\ strays \in BOOLEAN /\ (strays => backend = "agentcore")
    /\ cache = None
    /\ events = [k \in Actors \X Sessions |-> <<>>]
    /\ records \in IF backend = "agentcore" THEN Stores ELSE {{}}
    /\ bound = [s \in Sessions |-> None]
    /\ talked = {}
    /\ busy = [s \in Sessions |-> None]
    /\ req = [r \in Requests |-> Idle]
    /\ restarts = 0 /\ failures = 0

At(r, pc) == req[r].pc = pc
Session(r) == req[r].caller.session
Actor(r) == ActorOf(req[r].caller)
ToolActor(r) == bound[Session(r)]

\* Whether a call to the service succeeds; and the count of those that do not.
Outcomes == {TRUE} \cup (IF backend = "agentcore" /\ failures < MaxFailures THEN {FALSE} ELSE {})
Count(ok) == failures' = IF ok THEN failures ELSE failures + 1

Move(r, pc) == req' = [req EXCEPT ![r].pc = pc]
Proceed(r, pc, search) == req' = [req EXCEPT ![r].pc = pc, ![r].search = search]

\* The namespaces that _load_ltm_context asks for, by the strategies' names.
ContextQueries(actor) ==
    LET query(name, top, boost) ==
            [namespace |-> <<"/", "strategies", "/", name, "/", "actors", "/">> \o actor \o Slash,
             strategy |-> name, topK |-> top, boost |-> boost]
    IN  <<query("userPreferences", 5, 1), query("conversationSummary", 3, 0),
          query("semanticKnowledge", 5, 0), query("episodicMemory", 3, 0)>>

\* invoke, once it has the session's agent and lock: a new agent is bound to
\* the request's actor, and one without messages has the context loaded.
Begin(r, c) ==
    /\ At(r, "idle")
    /\ busy[c.session] = None
    /\ busy' = [busy EXCEPT ![c.session] = r]
    /\ LET isNew == bound[c.session] = None
           loads == c.session \notin talked /\ backend = "agentcore"
       IN  /\ bound' = IF isNew THEN [bound EXCEPT ![c.session] = ActorOf(c)] ELSE bound
           /\ req' = [req EXCEPT ![r] = [Idle EXCEPT
                        !.pc = IF loads THEN "context" ELSE "run",
                        !.caller = c,
                        !.search = IF loads
                            THEN [NoSearch EXCEPT !.kind = "context", !.actor = ActorOf(c),
                                                  !.known = records, !.todo = ContextQueries(ActorOf(c))]
                            ELSE NoSearch]]
    /\ UNCHANGED <<settings, cache, events, records, talked, restarts, failures>>

Boosted(s, boost) == [i \in DOMAIN s |-> [s[i] EXCEPT !.score = 10 * s[i].score + boost]]

\* One call to the service for the search in hand; what fails gives nothing.
Retrieve(r) ==
    /\ req[r].pc \in {"context", "recall"} /\ req[r].search.todo # <<>>
    /\ LET search == req[r].search
           query == Head(search.todo)
           more == Boosted(Answer(query), query.boost)
       IN  \E ok \in Outcomes :
            /\ Proceed(r, req[r].pc, [search EXCEPT
                    !.todo = Tail(search.todo),
                    !.found = IF ok THEN search.found \o more ELSE search.found,
                    !.sound = search.sound /\ ok /\ ~strays])
            /\ Count(ok)
    /\ UNCHANGED <<settings, cache, events, records, bound, talked, busy, restarts>>

\* The context is put before the first message.
EndContext(r) ==
    /\ At(r, "context") /\ req[r].search.todo = <<>>
    /\ Proceed(r, "run", [req[r].search EXCEPT !.result = ContextOf(req[r].search.found)])
    /\ UNCHANGED <<settings, cache, events, records, bound, talked, busy, restarts, failures>>

\* save_memory's categories and the strategies recall_memory makes of them.
StrategyOf(category) ==
    CASE category \in {"fact", "decision", "todo"} -> "semanticKnowledge"
      [] category = "preference" -> "userPreferences"
      [] category = "lesson" -> "episodicMemory"
      [] OTHER -> None

\* LocalMemory._add_turn: a turn is added to the conversation.
AddTurn(actor, session, turn) ==
    events' = [events EXCEPT ![<<actor, session>>] = Append(@, turn)]

\* add_user_message, add_assistant_message: with the service, a call that may
\* fail, which is only logged.
CreateEvent(actor, session, turn) ==
    \E ok \in Outcomes :
        /\ IF ok THEN AddTurn(actor, session, turn) ELSE UNCHANGED events
        /\ Count(ok)

\* save_memory: a memory is an event of the tools' actor, written at once.
SaveMemory(r, category) ==
    /\ At(r, "run") /\ req[r].calls < MaxCalls
    /\ req' = [req EXCEPT ![r].calls = @ + 1]
    /\ IF StrategyOf(category) # None
       THEN CreateEvent(ToolActor(r), Session(r), Turn("assistant", "memory"))
       ELSE UNCHANGED <<events, failures>>
    /\ UNCHANGED <<settings, cache, records, bound, talked, busy, restarts>>

RecallQuery(t, actor) ==
    [namespace |-> Asked(t, actor), strategy |-> t.strategy, topK |-> TopK, boost |-> 0]

\* The queries of a search: one per template of the strategy, or of them all,
\* that does not resolve to the root.
Queries(templates, actor, strategy) ==
    LET wanted == Among(templates, {t \in ToSet(templates) : strategy \in {None, t.strategy}})
        queries == [i \in DOMAIN wanted |-> RecallQuery(wanted[i], actor)]
    IN  Among(queries, {q \in ToSet(queries) : q.namespace \notin {Slash, <<>>}})

\* The search with the templates it is given.
WithTemplates(search, templates) ==
    LET queries == Queries(templates, search.actor, search.strategy)
    IN  [search EXCEPT !.todo = queries, !.prefixes = {q.namespace : q \in ToSet(queries)},
                       !.sound = templates # <<>>]

\* recall_memory: the guard, if the tools have a namespace; then the search,
\* which is refused without an actor and first needs the templates.
RecallMemory(r, category) ==
    /\ At(r, "run") /\ req[r].calls < MaxCalls
    /\ LET search == [NoSearch EXCEPT !.kind = "recall", !.actor = ToolActor(r), !.known = records,
                                      !.strategy = StrategyOf(category)]
           refused == \/ ~RequestValid(toolNamespace, ToolActor(r))
                      \/ backend = "agentcore" /\ ToolActor(r) = Default
           called(pc, done) == req' = [req EXCEPT ![r].pc = pc, ![r].calls = @ + 1,
                                                  ![r].search = done]
       IN  \/ refused /\ called("run", [search EXCEPT !.sound = FALSE])
           \/ /\ ~refused /\ backend = "local"
              /\ \E answer \in LocalAnswers(ToolActor(r)) :
                    called("run", [search EXCEPT !.known = {}, !.result = answer])
           \/ ~refused /\ backend = "agentcore" /\ cache = None /\ called("load", search)
           \/ /\ ~refused /\ backend = "agentcore" /\ cache # None
              /\ called("recall", WithTemplates(search, cache))
    /\ UNCHANGED <<settings, cache, events, records, bound, talked, busy, restarts, failures>>

\* _load_strategy_templates: what get_memory lists, or nothing if it fails;
\* either is kept.
LoadTemplates(r) ==
    /\ At(r, "load")
    /\ \E ok \in Outcomes : LET templates == IF ok THEN Templates ELSE <<>> IN
        /\ Count(ok)
        /\ cache' = templates
        /\ Proceed(r, "recall", WithTemplates(req[r].search, templates))
    /\ UNCHANGED <<settings, events, records, bound, talked, busy, restarts>>

\* The search is merged and the tool answers.
EndRecall(r) ==
    /\ At(r, "recall") /\ req[r].search.todo = <<>>
    /\ LET search == req[r].search
       IN  Proceed(r, "run", [search EXCEPT !.result = Merged(search.found, search.prefixes)])
    /\ UNCHANGED <<settings, cache, events, records, bound, talked, busy, restarts, failures>>

\* The agent has answered, or its invocation raised, before it had a message or
\* after; the session's lock goes.
Respond(r) ==
    /\ At(r, "run")
    /\ busy' = [busy EXCEPT ![Session(r)] = None]
    /\ \/ /\ req' = [req EXCEPT ![r] = [Idle EXCEPT !.pc = "user", !.caller = req[r].caller]]
          /\ talked' = talked \cup {Session(r)}
       \/ /\ req' = [req EXCEPT ![r] = Over]
          /\ talked' \in {talked, talked \cup {Session(r)}}
    /\ UNCHANGED <<settings, cache, events, records, bound, restarts, failures>>

\* _ingest_to_stm, of the request's own actor: first what the user said.
IngestUser(r) ==
    /\ At(r, "user")
    /\ CreateEvent(Actor(r), Session(r), Turn("user", "message"))
    /\ Move(r, "assistant")
    /\ UNCHANGED <<settings, cache, records, bound, talked, busy, restarts>>

\* Then what the agent answered, which may be blank.
IngestAnswer(r) ==
    /\ At(r, "assistant")
    /\ \E text \in {"answer", "blank"} :
        CreateEvent(Actor(r), Session(r), Turn("assistant", text))
    /\ req' = [req EXCEPT ![r] = Over]
    /\ UNCHANGED <<settings, cache, records, bound, talked, busy, restarts>>

\* The service extracts a record of a strategy from a conversation.
Extract(actor, session, strategy) ==
    /\ backend = "agentcore"
    /\ events[<<actor, session>>] # <<>>
    /\ Cardinality(records) < MaxRecords
    /\ \E score \in Scores, text \in Texts :
        records' = records \cup {[id |-> Cardinality(records) + 1, actor |-> actor,
            strategy |-> strategy, score |-> score, text |-> text,
            namespaces |-> NamespacesOf(actor, session, strategy)]}
    /\ UNCHANGED <<settings, cache, events, bound, talked, busy, req, restarts, failures>>

\* The process stops and starts again: requests, agents and the loaded
\* templates are gone, and with LocalMemory the conversations.
Restart ==
    /\ restarts < MaxRestarts
    /\ restarts' = restarts + 1
    /\ cache' = None
    /\ bound' = [s \in Sessions |-> None]
    /\ talked' = {}
    /\ busy' = [s \in Sessions |-> None]
    /\ req' = [r \in Requests |-> IF At(r, "idle") THEN Idle ELSE Over]
    /\ events' = IF backend = "local" THEN [k \in DOMAIN events |-> <<>>] ELSE events
    /\ UNCHANGED <<settings, records, failures>>

Categories == {"fact", "decision", "todo", "preference", "lesson", ""}

MemoryNext ==
    \/ \E r \in Requests :
        \/ \E c \in Callers : Begin(r, c)
        \/ Retrieve(r) \/ EndContext(r)
        \/ \E category \in {"fact", ""} : SaveMemory(r, category)
        \/ \E category \in Categories \ {"decision", "todo", "lesson"} : RecallMemory(r, category)
        \/ LoadTemplates(r) \/ EndRecall(r)
        \/ Respond(r) \/ IngestUser(r) \/ IngestAnswer(r)
    \/ \E actor \in Actors, session \in Sessions, t \in ToSet(Templates) :
        Extract(actor, session, t.strategy)
    \/ Restart

MemorySpec == MemoryInit /\ [][MemoryNext]_memoryVars

----------------------------------------------------------------------------
(* Properties *)

Done(r) == req[r].pc \notin {"context", "load", "recall"}

\* Whatever the service answers, what a recall gives to an agent are records of
\* the actor its tools are bound to, from a namespace that the access guard,
\* which finds names in a namespace in another way, would let that actor read.
RecallScoped ==
    \A r \in Requests : req[r].search.kind = "recall" /\ Done(r) =>
        \A x \in ToSet(req[r].search.result) :
            /\ x.actor = req[r].search.actor
            /\ backend = "agentcore" => SafeNamespaces(x.namespaces, req[r].search.actor) # {}

\* A recall of which no call failed leaves out none of the actor's records that
\* were there when it began, of the strategy asked for, unless it is full of
\* records that are at least as relevant; and it names none twice.
RecallComplete ==
    \A r \in Requests :
        LET s == req[r].search
            visible(x) == /\ s.strategy \in {None, x.strategy}
                          /\ SafeNamespaces(x.namespaces, s.actor) # {}
        IN  s.kind = "recall" /\ s.sound /\ Done(r) =>
                /\ \A x \in s.known : visible(x) =>
                    \/ \E n \in DOMAIN s.result : s.result[n].id = x.id
                    \/ /\ Len(s.result) = TopK
                       /\ \A n \in DOMAIN s.result : s.result[n].score >= 10 * x.score
                /\ \A m, n \in DOMAIN s.result : s.result[m].id = s.result[n].id => m = n

\* The context of a new session is the best of what was found, each text once,
\* and within the budget unless it is one record; it is empty only if nothing
\* was found, and what the budget cut off ranks below what it kept.
ContextBest ==
    \A r \in Requests :
        LET s == req[r].search
            kept == s.result
            texts(q) == {q[n].text : n \in DOMAIN q}
        IN  s.kind = "context" /\ Done(r) =>
                /\ (kept = <<>>) = (s.found = <<>>)
                /\ Cost(kept) <= Budget \/ Len(kept) = 1
                /\ Cardinality(texts(kept)) = Len(kept)
                /\ \A n \in DOMAIN s.found : s.found[n].text \notin texts(kept) =>
                    \A m \in DOMAIN kept : kept[m].score >= s.found[n].score

\* Any history of a conversation, also one that a save_memory, a lost event or
\* another request's turn has put out of order, becomes messages that begin with
\* the user and take turns, with every text in its place.
BedrockReady ==
    \A k \in DOMAIN events : \A turns \in Histories(events[k]) :
        LET messages == ToBedrock(turns)
            texts == Joined([n \in DOMAIN messages |-> messages[n].texts])
            said == TextsOf(turns)
            spoken == Among(said, ToSet(said) \ {"blank"})
        IN  /\ \A n \in DOMAIN messages :
                messages[n].role = IF n % 2 = 1 THEN "user" ELSE "assistant"
            /\ texts \in {spoken, <<"context">> \o spoken}
=============================================================================
