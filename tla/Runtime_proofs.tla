--------------------------- MODULE Runtime_proofs ---------------------------
(***************************************************************************)
(* Theorems about the runtime: AgentPool, for every set of requests and    *)
(* sessions and every limit of the pool; and AgentTurn, what a request's   *)
(* agent then does, for any tools, hooks, calls and turns.                 *)
(***************************************************************************)
EXTENDS AgentPool, AgentTurn, FiniteSetTheorems, TLAPS

----------------------------------------------------------------------------
(* The pool.  The inductive invariant, conjunct by conjunct *)

\* There is an instance left for the next request.
LEMMA Fresh ==
    ASSUME PoolTyped, NEW r \in Requests, At(r, "new")
    PROVE  made + 1 \in Instances /\ 1 .. made + 1 \subseteq Instances
<1> USE DEF PoolTyped, Asking
<1>1. Asking \subseteq Requests /\ r \notin Asking /\ IsFiniteSet(Asking)
  BY PoolAssumption, FS_Subset
<1>2. Cardinality(Asking \cup {r}) = Cardinality(Asking) + 1 /\ Cardinality(Asking) \in Nat
  BY <1>1, FS_AddElement, FS_CardinalityType
<1>3. Cardinality(Asking \cup {r}) <= Cardinality(Requests) /\ Cardinality(Requests) \in Nat
  BY <1>1, PoolAssumption, FS_Subset, FS_CardinalityType
<1> QED
  BY <1>2, <1>3 DEF Instances

\* A request that goes on with its session and its agent.
LEMMA GoesOn ==
    ASSUME PoolTyped, NEW r \in Requests, NEW p,
           req' = [req EXCEPT ![r] = p], p \in Request, p.session = req[r].session, p.agent = req[r].agent,
           p.pc = "new" <=> req[r].pc = "new", p.pc = "acquire" => p.lock # None,
           UNCHANGED <<current, made>>,
           held' \subseteq Instances
    PROVE  PoolTyped'
<1>1. \A q \in Requests : req'[q] = IF q = r THEN p ELSE req[q]
  BY DEF PoolTyped
<1>2. Asking' = Asking
  BY <1>1 DEF Asking, At
<1>3. req' \in [Requests -> Request]
  BY DEF PoolTyped
<1>4. \A q \in Asking' : req'[q].session # None /\ req'[q].agent # None
  BY <1>1, <1>2 DEF PoolTyped, Asking
<1>5. \A q \in Requests : req'[q].pc = "acquire" => req'[q].lock # None
  BY <1>1 DEF PoolTyped, At
<1> QED
  BY <1>2, <1>3, <1>4, <1>5 DEF PoolTyped, At

LEMMA PoolTypedStep ==
    ASSUME PoolTyped, [PoolNext]_runtimeVars
    PROVE  PoolTyped'
<1>1. ASSUME NEW r \in Requests, NEW s \in Sessions, GetOrCreate(r, s)
      PROVE  PoolTyped'
  <2> USE DEF PoolTyped, Asking, At, Request
  <2>1. made + 1 \in Instances
    BY <1>1, Fresh DEF GetOrCreate
  <2>2. Asking' = Asking \cup {r}
    BY <1>1 DEF GetOrCreate
  <2>3. made' \in Nat /\ made' <= Cardinality(Asking')
    <3>1. IsFiniteSet(Asking) /\ r \notin Asking
      BY <1>1, PoolAssumption, FS_Subset DEF GetOrCreate
    <3>2. Cardinality(Asking') = Cardinality(Asking) + 1 /\ Cardinality(Asking) \in Nat
      BY <2>2, <3>1, FS_AddElement, FS_CardinalityType
    <3> QED
      BY <1>1, <3>2 DEF GetOrCreate
  <2> QED
    BY <1>1, <2>1, <2>2, <2>3, PoolAssumption DEF GetOrCreate, NewRequest
<1>2. ASSUME NEW r \in Requests, Apply(r)
      PROVE  PoolTyped'
  <2>1. PICK o : o = req[r]
    OBVIOUS
  <2>2. PICK p : p = [o EXCEPT !.pc = "lock"]
    OBVIOUS
  <2>3. /\ req' = [req EXCEPT ![r] = p] /\ UNCHANGED <<current, made>>
        /\ held' = held
    BY <1>2, <2>1, <2>2 DEF Apply, Move, poolVars
  <2>4. o.pc # "new"
    BY <1>2, <2>1 DEF Apply, At
  <2>5. o \in Request
    BY <2>1 DEF PoolTyped
  <2>6. /\ p \in Request /\ p.session = o.session /\ p.agent = o.agent
        /\ (p.pc = "new" <=> o.pc = "new") /\ (p.pc = "acquire" => p.lock # None)
    BY <2>2, <2>4, <2>5 DEF Request
  <2>7. held' \subseteq Instances
    BY <2>3 DEF PoolTyped
  <2> QED
    BY <2>1, <2>3, <2>6, <2>7, GoesOn
<1>3. ASSUME NEW r \in Requests, LookUpLock(r)
      PROVE  PoolTyped'
  <2>1. PICK o : o = req[r]
    OBVIOUS
  <2>a. PICK k : k = current[o.session]
    OBVIOUS
  <2>b. PICK free, to : free = (k = None) /\ to = IF k = None THEN "run" ELSE "acquire"
    OBVIOUS
  <2>2. PICK p : p = [o EXCEPT !.lock = k, !.pc = to, !.working = free]
    OBVIOUS
  <2>3. /\ req' = [req EXCEPT ![r] = p] /\ UNCHANGED <<current, made>>
        /\ held' = held
    BY <1>3, <2>1, <2>2, <2>a, <2>b DEF LookUpLock, poolVars
  <2>4. o.pc # "new"
    BY <1>3, <2>1 DEF LookUpLock, At
  <2>5. o \in Request
    BY <2>1 DEF PoolTyped
  <2>6. k \in Instances \cup {None}
    <3>1. o.session # None
      BY <2>1, <2>4 DEF PoolTyped, Asking, At
    <3> QED
      BY <2>a, <2>5, <3>1 DEF PoolTyped, Request
  <2>7. /\ p \in Request /\ p.session = o.session /\ p.agent = o.agent
        /\ (p.pc = "new" <=> o.pc = "new") /\ (p.pc = "acquire" => p.lock # None)
    BY <2>2, <2>4, <2>5, <2>6, <2>b DEF Request
  <2>8. held' \subseteq Instances
    BY <2>3, <2>5 DEF PoolTyped
  <2> QED
    BY <2>1, <2>3, <2>7, <2>8, GoesOn
<1>4. ASSUME NEW r \in Requests, Acquire(r)
      PROVE  PoolTyped'
  <2>1. PICK o : o = req[r]
    OBVIOUS
  <2>2. PICK p : p = [o EXCEPT !.pc = "run", !.working = TRUE]
    OBVIOUS
  <2>3. /\ req' = [req EXCEPT ![r] = p] /\ UNCHANGED <<current, made>>
        /\ held' = held \cup {o.lock}
    BY <1>4, <2>1, <2>2 DEF Acquire, poolVars
  <2>4. o.pc # "new"
    BY <1>4, <2>1 DEF Acquire, At
  <2>5. o \in Request
    BY <2>1 DEF PoolTyped
  <2>6. o.lock \in Instances
    BY <1>4, <2>1, <2>5 DEF Acquire, PoolTyped, Request, At
  <2>7. /\ p \in Request /\ p.session = o.session /\ p.agent = o.agent
        /\ (p.pc = "new" <=> o.pc = "new") /\ (p.pc = "acquire" => p.lock # None)
    BY <2>2, <2>4, <2>5 DEF Request
  <2>8. held' \subseteq Instances
    BY <2>3, <2>5, <2>6 DEF PoolTyped
  <2> QED
    BY <2>1, <2>3, <2>7, <2>8, GoesOn
<1>5. ASSUME NEW r \in Requests, Busy(r)
      PROVE  PoolTyped'
  <2>1. PICK o : o = req[r]
    OBVIOUS
  <2>2. PICK p : p = [o EXCEPT !.pc = "done"]
    OBVIOUS
  <2>3. /\ req' = [req EXCEPT ![r] = p] /\ UNCHANGED <<current, made>>
        /\ held' = held
    BY <1>5, <2>1, <2>2 DEF Busy, Move, poolVars
  <2>4. o.pc # "new"
    BY <1>5, <2>1 DEF Busy, At
  <2>5. o \in Request
    BY <2>1 DEF PoolTyped
  <2>7. /\ p \in Request /\ p.session = o.session /\ p.agent = o.agent
        /\ (p.pc = "new" <=> o.pc = "new") /\ (p.pc = "acquire" => p.lock # None)
    BY <2>2, <2>4, <2>5 DEF Request
  <2>8. held' \subseteq Instances
    BY <2>3, <2>5 DEF PoolTyped
  <2> QED
    BY <2>1, <2>3, <2>7, <2>8, GoesOn
<1>6. ASSUME NEW r \in Requests, Finish(r)
      PROVE  PoolTyped'
  <2>1. PICK o : o = req[r]
    OBVIOUS
  <2>2. PICK p : p = [o EXCEPT !.working = FALSE, !.pc = "release"]
    OBVIOUS
  <2>3. /\ req' = [req EXCEPT ![r] = p] /\ UNCHANGED <<current, made>>
        /\ held' = held
    BY <1>6, <2>1, <2>2 DEF Finish, poolVars
  <2>4. o.pc # "new"
    BY <1>6, <2>1 DEF Finish, At
  <2>5. o \in Request
    BY <2>1 DEF PoolTyped
  <2>7. /\ p \in Request /\ p.session = o.session /\ p.agent = o.agent
        /\ (p.pc = "new" <=> o.pc = "new") /\ (p.pc = "acquire" => p.lock # None)
    BY <2>2, <2>4, <2>5 DEF Request
  <2>8. held' \subseteq Instances
    BY <2>3, <2>5 DEF PoolTyped
  <2> QED
    BY <2>1, <2>3, <2>7, <2>8, GoesOn
<1>7. ASSUME NEW r \in Requests, LookUpRelease(r)
      PROVE  PoolTyped'
  <2>1. PICK o : o = req[r]
    OBVIOUS
  <2>a. PICK k : k = current[o.session]
    OBVIOUS
  <2>2. PICK p : p = [o EXCEPT !.lock = k, !.pc = "unlock"]
    OBVIOUS
  <2>3. /\ req' = [req EXCEPT ![r] = p] /\ UNCHANGED <<current, made>>
        /\ held' = held
    BY <1>7, <2>1, <2>2, <2>a DEF LookUpRelease, poolVars
  <2>4. o.pc # "new"
    BY <1>7, <2>1 DEF LookUpRelease, At
  <2>5. o \in Request
    BY <2>1 DEF PoolTyped
  <2>6. k \in Instances \cup {None}
    <3>1. o.session # None
      BY <2>1, <2>4 DEF PoolTyped, Asking, At
    <3> QED
      BY <2>a, <2>5, <3>1 DEF PoolTyped, Request
  <2>7. /\ p \in Request /\ p.session = o.session /\ p.agent = o.agent
        /\ (p.pc = "new" <=> o.pc = "new") /\ (p.pc = "acquire" => p.lock # None)
    BY <2>2, <2>4, <2>5, <2>6 DEF Request
  <2>8. held' \subseteq Instances
    BY <2>3, <2>5 DEF PoolTyped
  <2> QED
    BY <2>1, <2>3, <2>7, <2>8, GoesOn
<1>8. ASSUME NEW r \in Requests, Release(r)
      PROVE  PoolTyped'
  <2>1. PICK o : o = req[r]
    OBVIOUS
  <2>2. PICK p : p = [o EXCEPT !.pc = "done"]
    OBVIOUS
  <2>3. /\ req' = [req EXCEPT ![r] = p] /\ UNCHANGED <<current, made>>
        /\ held' = held \ {o.lock}
    BY <1>8, <2>1, <2>2 DEF Release, Move, poolVars
  <2>4. o.pc # "new"
    BY <1>8, <2>1 DEF Release, At
  <2>5. o \in Request
    BY <2>1 DEF PoolTyped
  <2>7. /\ p \in Request /\ p.session = o.session /\ p.agent = o.agent
        /\ (p.pc = "new" <=> o.pc = "new") /\ (p.pc = "acquire" => p.lock # None)
    BY <2>2, <2>4, <2>5 DEF Request
  <2>8. held' \subseteq Instances
    BY <2>3, <2>5 DEF PoolTyped
  <2> QED
    BY <2>1, <2>3, <2>7, <2>8, GoesOn
<1>9. ASSUME NEW r \in Requests, Disconnect(r)
      PROVE  PoolTyped'
  <2>1. PICK o : o = req[r]
    OBVIOUS
  <2>2. PICK p : p = [o EXCEPT !.pc = "release"]
    OBVIOUS
  <2>3. /\ req' = [req EXCEPT ![r] = p] /\ UNCHANGED <<current, made>>
        /\ held' = held
    BY <1>9, <2>1, <2>2 DEF Disconnect, Move, poolVars
  <2>4. o.pc # "new"
    BY <1>9, <2>1 DEF Disconnect, At
  <2>5. o \in Request
    BY <2>1 DEF PoolTyped
  <2>7. /\ p \in Request /\ p.session = o.session /\ p.agent = o.agent
        /\ (p.pc = "new" <=> o.pc = "new") /\ (p.pc = "acquire" => p.lock # None)
    BY <2>2, <2>4, <2>5 DEF Request
  <2>8. held' \subseteq Instances
    BY <2>3, <2>5 DEF PoolTyped
  <2> QED
    BY <2>1, <2>3, <2>7, <2>8, GoesOn
<1>10. ASSUME NEW r \in Requests, ThreadEnds(r)
      PROVE  PoolTyped'
  <2>1. PICK o : o = req[r]
    OBVIOUS
  <2>2. PICK p : p = [o EXCEPT !.working = FALSE]
    OBVIOUS
  <2>3. /\ req' = [req EXCEPT ![r] = p] /\ UNCHANGED <<current, made>>
        /\ held' = held
    BY <1>10, <2>1, <2>2 DEF ThreadEnds, poolVars
  <2>5. o \in Request
    BY <2>1 DEF PoolTyped
  <2>6. o.pc = "acquire" => o.lock # None
    BY <2>1 DEF PoolTyped, At
  <2>7. /\ p \in Request /\ p.session = o.session /\ p.agent = o.agent
        /\ (p.pc = "new" <=> o.pc = "new") /\ (p.pc = "acquire" => p.lock # None)
    BY <2>2, <2>5, <2>6 DEF Request
  <2>8. held' \subseteq Instances
    BY <2>3, <2>5 DEF PoolTyped
  <2> QED
    BY <2>1, <2>3, <2>7, <2>8, GoesOn
<1>11. CASE UNCHANGED runtimeVars
  BY <1>11 DEF runtimeVars, poolVars, PoolTyped, Asking, At
<1> QED
  BY <1>1, <1>2, <1>3, <1>4, <1>5, <1>6, <1>7, <1>8, <1>9, <1>10, <1>11 DEF PoolNext, Progress

LEMMA OneSessionStep ==
    ASSUME PoolTyped, OneSessionEach, [PoolNext]_runtimeVars
    PROVE  OneSessionEach'
<1> USE DEF PoolTyped, Asking, At, Request, OneSessionEach, Uses
<1>1. ASSUME NEW r \in Requests, NEW s \in Sessions, GetOrCreate(r, s)
      PROVE  OneSessionEach'
  <2> DEFINE given == IF current[s] = None THEN made + 1 ELSE current[s]
  <2>1. /\ made \in Nat /\ None \notin 1 .. made + 1
        /\ made' = IF current[s] = None THEN made + 1 ELSE made
    BY <1>1, Fresh, PoolAssumption DEF GetOrCreate
  <2>2. \A x \in Sessions : /\ current'[x] # None =>
                                current'[x] = IF x = s THEN given ELSE current[x]
                            /\ current[x] # None => current[x] \in 1 .. made
    BY <1>1 DEF GetOrCreate, Instances
  <2>3. \A q \in Requests \ {r} : req'[q] = req[q]
    BY <1>1 DEF GetOrCreate
  <2>4. req'[r].agent = given /\ req'[r].session = s /\ req'[r].lock = None
    BY <1>1 DEF GetOrCreate, NewRequest
  <2>5. Uses(r)' \subseteq {given} /\ \A q \in Requests \ {r} : Uses(q)' = Uses(q)
    BY <2>3, <2>4
  <2>6. \A q \in Requests : \A i \in Uses(q) : i \in 1 .. made
    BY DEF Instances
  <2>7. current[s] # None => \A q \in Requests : current[s] \in Uses(q) => req[q].session = s
    OBVIOUS
  <2>8. /\ \A x, y \in Sessions : current[x] = current[y] /\ current[x] # None => x = y
        /\ \A q \in Requests : \A i \in Uses(q) :
              /\ \A x \in Sessions : current[x] = i => req[q].session = x
              /\ \A p \in Requests : i \in Uses(p) => req[p].session = req[q].session
    OBVIOUS
  <2> HIDE DEF Uses, given, OneSessionEach, PoolTyped, Request, At, Asking
  <2>9. given \in 1 .. made' /\ \A x \in Sessions : current[x] = given => x = s
    BY <2>8, <2>1, <2>2 DEF given
  <2>10. \A q \in Requests : given \in Uses(q) => req[q].session = s
    BY <2>1, <2>6, <2>7 DEF given
  <2>11. \A x, y \in Sessions : current'[x] = current'[y] /\ current'[x] # None => x = y
    BY <2>8, <2>2, <2>9
  <2>12. \A x \in Sessions : current'[x] # None => current'[x] <= made'
    BY <2>1, <2>2, <2>9
  <2>13. ASSUME NEW q \in Requests, NEW i \in Uses(q)'
         PROVE  /\ i <= made'
                /\ \A x \in Sessions : current'[x] = i => req'[q].session = x
                /\ \A p \in Requests : i \in Uses(p)' => req'[p].session = req'[q].session
    <3>1. i \in 1 .. made'
      BY <2>1, <2>5, <2>6, <2>13, <2>9
    <3>2. \A x \in Sessions : current'[x] = i => req'[q].session = x
      BY <3>1, <2>8, <2>2, <2>3, <2>4, <2>5, <2>13, <2>1, <2>9, <2>10
    <3>3. \A p \in Requests : i \in Uses(p)' => req'[p].session = req'[q].session
      BY <2>8, <2>3, <2>4, <2>5, <2>13, <2>10
    <3> QED
      BY <3>1, <3>2, <3>3, <2>1
  <2> QED
    BY <2>11, <2>12, <2>13 DEF OneSessionEach
<1>2. ASSUME NEW r \in Requests, Apply(r)
      PROVE  OneSessionEach'
  <2>1. /\ current' = current /\ made' = made
        /\ \A q \in Requests : /\ req'[q].session = req[q].session
                               /\ req'[q].agent = req[q].agent
                               /\ req'[q].lock = req[q].lock
    BY <1>2 DEF Apply, poolVars, Move
  <2>2. \A q \in Requests : Uses(q)' = Uses(q)
    BY <2>1
  <2> HIDE DEF Uses, Request
  <2> QED
    BY <2>1, <2>2
<1>3. ASSUME NEW r \in Requests, LookUpLock(r)
      PROVE  OneSessionEach'
  BY <1>3 DEF LookUpLock, poolVars
<1>4. ASSUME NEW r \in Requests, Acquire(r)
      PROVE  OneSessionEach'
  <2>1. /\ current' = current /\ made' = made
        /\ \A q \in Requests : /\ req'[q].session = req[q].session
                               /\ req'[q].agent = req[q].agent
                               /\ req'[q].lock = req[q].lock
    BY <1>4 DEF Acquire, poolVars
  <2>2. \A q \in Requests : Uses(q)' = Uses(q)
    BY <2>1
  <2> HIDE DEF Uses, Request
  <2> QED
    BY <2>1, <2>2
<1>5. ASSUME NEW r \in Requests, Busy(r)
      PROVE  OneSessionEach'
  <2>1. /\ current' = current /\ made' = made
        /\ \A q \in Requests : /\ req'[q].session = req[q].session
                               /\ req'[q].agent = req[q].agent
                               /\ req'[q].lock = req[q].lock
    BY <1>5 DEF Busy, poolVars, Move
  <2>2. \A q \in Requests : Uses(q)' = Uses(q)
    BY <2>1
  <2> HIDE DEF Uses, Request
  <2> QED
    BY <2>1, <2>2
<1>6. ASSUME NEW r \in Requests, Finish(r)
      PROVE  OneSessionEach'
  <2>1. /\ current' = current /\ made' = made
        /\ \A q \in Requests : /\ req'[q].session = req[q].session
                               /\ req'[q].agent = req[q].agent
                               /\ req'[q].lock = req[q].lock
    BY <1>6 DEF Finish, poolVars
  <2>2. \A q \in Requests : Uses(q)' = Uses(q)
    BY <2>1
  <2> HIDE DEF Uses, Request
  <2> QED
    BY <2>1, <2>2
<1>7. ASSUME NEW r \in Requests, LookUpRelease(r)
      PROVE  OneSessionEach'
  BY <1>7 DEF LookUpRelease, poolVars
<1>8. ASSUME NEW r \in Requests, Release(r)
      PROVE  OneSessionEach'
  <2>1. /\ current' = current /\ made' = made
        /\ \A q \in Requests : /\ req'[q].session = req[q].session
                               /\ req'[q].agent = req[q].agent
                               /\ req'[q].lock = req[q].lock
    BY <1>8 DEF Release, poolVars, Move
  <2>2. \A q \in Requests : Uses(q)' = Uses(q)
    BY <2>1
  <2> HIDE DEF Uses, Request
  <2> QED
    BY <2>1, <2>2
<1>9. ASSUME NEW r \in Requests, Disconnect(r)
      PROVE  OneSessionEach'
  <2>1. /\ current' = current /\ made' = made
        /\ \A q \in Requests : /\ req'[q].session = req[q].session
                               /\ req'[q].agent = req[q].agent
                               /\ req'[q].lock = req[q].lock
    BY <1>9 DEF Disconnect, poolVars, Move
  <2>2. \A q \in Requests : Uses(q)' = Uses(q)
    BY <2>1
  <2> HIDE DEF Uses, Request
  <2> QED
    BY <2>1, <2>2
<1>10. ASSUME NEW r \in Requests, ThreadEnds(r)
      PROVE  OneSessionEach'
  <2>1. /\ current' = current /\ made' = made
        /\ \A q \in Requests : /\ req'[q].session = req[q].session
                               /\ req'[q].agent = req[q].agent
                               /\ req'[q].lock = req[q].lock
    BY <1>10 DEF ThreadEnds, poolVars
  <2>2. \A q \in Requests : Uses(q)' = Uses(q)
    BY <2>1
  <2> HIDE DEF Uses, Request
  <2> QED
    BY <2>1, <2>2
<1>11. CASE UNCHANGED runtimeVars
  BY <1>11 DEF runtimeVars, poolVars
<1> QED
  BY <1>1, <1>2, <1>3, <1>4, <1>5, <1>6, <1>7, <1>8, <1>9, <1>10, <1>11 DEF PoolNext, Progress

LEMMA SameAgentStep ==
    ASSUME PoolTyped, OneSessionEach, SameAgent, [PoolNext]_runtimeVars
    PROVE  SameAgent'
<1> USE DEF PoolTyped, Asking, At, Request, SameAgent, Kept
<1>1. ASSUME NEW r \in Requests, NEW s \in Sessions, GetOrCreate(r, s)
      PROVE  SameAgent'
  BY <1>1 DEF GetOrCreate, NewRequest
<1>2. ASSUME NEW r \in Requests, Apply(r)
      PROVE  SameAgent'
  BY <1>2 DEF Apply, poolVars, Move
<1>3. ASSUME NEW r \in Requests, LookUpLock(r)
      PROVE  SameAgent'
  BY <1>3 DEF LookUpLock, poolVars
<1>4. ASSUME NEW r \in Requests, Acquire(r)
      PROVE  SameAgent'
  BY <1>4 DEF Acquire, poolVars
<1>5. ASSUME NEW r \in Requests, Busy(r)
      PROVE  SameAgent'
  BY <1>5 DEF Busy, poolVars, Move
<1>6. ASSUME NEW r \in Requests, Finish(r)
      PROVE  SameAgent'
  BY <1>6 DEF Finish, poolVars
<1>7. ASSUME NEW r \in Requests, LookUpRelease(r)
      PROVE  SameAgent'
  BY <1>7 DEF LookUpRelease, poolVars
<1>8. ASSUME NEW r \in Requests, Release(r)
      PROVE  SameAgent'
  BY <1>8 DEF Release, poolVars, Move
<1>9. ASSUME NEW r \in Requests, Disconnect(r)
      PROVE  SameAgent'
  BY <1>9 DEF Disconnect, poolVars, Move
<1>10. ASSUME NEW r \in Requests, ThreadEnds(r)
      PROVE  SameAgent'
  BY <1>10 DEF ThreadEnds, poolVars
<1>11. CASE UNCHANGED runtimeVars
  BY <1>11 DEF runtimeVars, poolVars
<1> QED
  BY <1>1, <1>2, <1>3, <1>4, <1>5, <1>6, <1>7, <1>8, <1>9, <1>10, <1>11 DEF PoolNext, Progress

LEMMA OneInsideStep ==
    ASSUME PoolTyped, OneSessionEach, SameAgent, OneInside, [PoolNext]_runtimeVars
    PROVE  OneInside'
<1> USE DEF PoolTyped, Asking, At, Request, SameAgent, Kept, Inside, OneInside
<1>1. ASSUME NEW r \in Requests, NEW s \in Sessions, GetOrCreate(r, s)
      PROVE  OneInside'
  BY <1>1 DEF GetOrCreate, NewRequest
<1>2. ASSUME NEW r \in Requests, Apply(r)
      PROVE  OneInside'
  BY <1>2 DEF Apply, poolVars, Move
<1>3. ASSUME NEW r \in Requests, LookUpLock(r)
      PROVE  OneInside'
  BY <1>3 DEF LookUpLock, poolVars
<1>4. ASSUME NEW r \in Requests, Acquire(r)
      PROVE  OneInside'
  <2>1. /\ req[r].lock \notin held /\ held' = held \cup {req[r].lock} /\ evicted' = evicted
        /\ req[r].pc = "acquire"
        /\ \A q \in Requests : /\ req'[q].session = req[q].session
                               /\ req'[q].agent = req[q].agent
        /\ \A q \in Requests \ {r} : req'[q].pc = req[q].pc
    BY <1>4 DEF Acquire, poolVars
  <2>2. Kept(r) => req[r].lock = req[r].agent
    BY <2>1
  <2>3. ASSUME NEW q \in Requests, req[q].agent = req[r].agent
        PROVE  req[q].session = req[r].session
    <3>1. req[r].agent \in Uses(q) /\ req[r].agent \in Uses(r)
      BY <2>1, <2>3 DEF Uses
    <3> QED
      BY <3>1 DEF OneSessionEach
  <2>4. \A q \in Requests : Inside(q) /\ Kept(q) => req[q].agent \in held
    OBVIOUS
  <2> QED
    BY <2>1, <2>2, <2>3, <2>4
<1>5. ASSUME NEW r \in Requests, Busy(r)
      PROVE  OneInside'
  BY <1>5 DEF Busy, poolVars, Move
<1>6. ASSUME NEW r \in Requests, Finish(r)
      PROVE  OneInside'
  BY <1>6 DEF Finish, poolVars
<1>7. ASSUME NEW r \in Requests, LookUpRelease(r)
      PROVE  OneInside'
  BY <1>7 DEF LookUpRelease, poolVars
<1>8. ASSUME NEW r \in Requests, Release(r)
      PROVE  OneInside'
  <2>1. /\ held' = held \ {req[r].lock} /\ evicted' = evicted
        /\ req[r].pc = "unlock" /\ req'[r].pc = "done"
        /\ \A q \in Requests : /\ req'[q].session = req[q].session
                               /\ req'[q].agent = req[q].agent
        /\ \A q \in Requests \ {r} : req'[q].pc = req[q].pc
    BY <1>8 DEF Release, Move, poolVars
  <2>2. ASSUME NEW q \in Requests, Inside(q), Kept(q), req[q].agent = req[r].lock
        PROVE  q = r
    <3>1. req[q].session = req[r].session
      BY <2>2 DEF OneSessionEach, Uses
    <3>2. req[r].lock = req[r].agent
      BY <3>1, <2>1, <2>2
    <3> QED
      BY <3>2, <2>1, <2>2
  <2> QED
    BY <2>1, <2>2
<1>9. ASSUME NEW r \in Requests, Disconnect(r)
      PROVE  OneInside'
  BY <1>9 DEF Disconnect, poolVars, Move
<1>10. ASSUME NEW r \in Requests, ThreadEnds(r)
      PROVE  OneInside'
  BY <1>10 DEF ThreadEnds, poolVars
<1>11. CASE UNCHANGED runtimeVars
  BY <1>11 DEF runtimeVars, poolVars
<1> QED
  BY <1>1, <1>2, <1>3, <1>4, <1>5, <1>6, <1>7, <1>8, <1>9, <1>10, <1>11 DEF PoolNext, Progress

LEMMA WorkingStep ==
    ASSUME PoolTyped, SameAgent, WorkingInside, [PoolNext]_runtimeVars
    PROVE  WorkingInside'
<1> USE DEF PoolTyped, Asking, At, Request, WorkingInside
<1>1. ASSUME NEW r \in Requests, NEW s \in Sessions, GetOrCreate(r, s)
      PROVE  WorkingInside'
  BY <1>1 DEF GetOrCreate, NewRequest
<1>2. ASSUME NEW r \in Requests, Apply(r)
      PROVE  WorkingInside'
  BY <1>2 DEF Apply, poolVars, Move
<1>3. ASSUME NEW r \in Requests, LookUpLock(r)
      PROVE  WorkingInside'
  BY <1>3 DEF LookUpLock, poolVars
<1>4. ASSUME NEW r \in Requests, Acquire(r)
      PROVE  WorkingInside'
  BY <1>4 DEF Acquire, poolVars
<1>5. ASSUME NEW r \in Requests, Busy(r)
      PROVE  WorkingInside'
  BY <1>5 DEF Busy, poolVars, Move
<1>6. ASSUME NEW r \in Requests, Finish(r)
      PROVE  WorkingInside'
  BY <1>6 DEF Finish, poolVars
<1>7. ASSUME NEW r \in Requests, LookUpRelease(r)
      PROVE  WorkingInside'
  BY <1>7 DEF LookUpRelease, poolVars
<1>8. ASSUME NEW r \in Requests, Release(r)
      PROVE  WorkingInside'
  BY <1>8 DEF Release, poolVars, Move
<1>9. ASSUME NEW r \in Requests, Disconnect(r)
      PROVE  WorkingInside'
  BY <1>9 DEF Disconnect, poolVars, Move
<1>10. ASSUME NEW r \in Requests, ThreadEnds(r)
      PROVE  WorkingInside'
  BY <1>10 DEF ThreadEnds, poolVars
<1>11. CASE UNCHANGED runtimeVars
  BY <1>11 DEF runtimeVars, poolVars
<1> QED
  BY <1>1, <1>2, <1>3, <1>4, <1>5, <1>6, <1>7, <1>8, <1>9, <1>10, <1>11 DEF PoolNext, Progress

LEMMA PoolAlways == PoolSpec => []PoolInv
<1>1. PoolInit => PoolInv
  <2> SUFFICES ASSUME PoolInit PROVE PoolInv
    OBVIOUS
  <2>1. Asking = {}
    BY DEF PoolInit, Asking, At, NewRequest
  <2> QED
    BY <2>1, FS_EmptySet, PoolAssumption
       DEF PoolInit, PoolInv, PoolTyped, Request, NewRequest, At, OneSessionEach, Uses, SameAgent,
           OneInside, Inside, WorkingInside
<1>2. PoolInv /\ [PoolNext]_runtimeVars => PoolInv'
  BY PoolTypedStep, OneSessionStep, SameAgentStep, OneInsideStep, WorkingStep DEF PoolInv
<1> QED
  BY <1>1, <1>2, PTL DEF PoolSpec

----------------------------------------------------------------------------

\* Two requests run on one agent at once only after its session has been
\* evicted from the pool or a WebSocket client has gone away from it: what the
\* per-session locks of AgentPool achieve.
THEOREM Exclusive == PoolSpec => []ExclusiveWhileKept
<1>1. PoolInv => ExclusiveWhileKept
  <2> SUFFICES ASSUME PoolInv, NEW q \in Requests, NEW r \in Requests,
                      req[q].working, req[r].working, req[q].agent = req[r].agent,
                      Kept(r), req[r].agent \notin dropped
               PROVE  q = r
    BY DEF ExclusiveWhileKept, Kept
  <2>1. At(q, "run") /\ At(r, "run")
    BY DEF PoolInv, WorkingInside
  <2> QED
    BY <2>1 DEF PoolInv, OneInside, Inside, At
<1> QED
  BY <1>1, PoolAlways, PTL

----------------------------------------------------------------------------
(* The turns of an agent.  The inductive invariant *)

CallState == {"asked", "refused", "running", "ran", "done", "cancelled"}
Skills == DOMAIN AllowedTools \cup {NoSkill}
Tools == {q.tool : q \in ToolUses}
Inputs == {q.input : q \in ToolUses}
Call == [state : CallState, tool : Tools, input : Inputs, skills : SUBSET Skills]

\* A turn that was begun is on a Strands agent, and has calls only then.
Typed ==
    /\ skill \in [Turns -> Skills]
    /\ calls \in [CallIds -> Call \cup {NoCall}]
    /\ DOMAIN on = Turns /\ DOMAIN phase = Turns
    /\ cached \in Turns \cup {NoTurn}
    /\ \A t \in Turns : phase[t] # "idle" => on[t] \in Turns
    /\ \A c \in Made : phase[c[1]] # "idle"

\* The active skill is among those noted of a call that the hooks have yet to
\* be asked of, and the guardrail has said nothing of it.
ActiveNoted == \A c \in CallIds : calls[c].state = "asked" => skill[on[c[1]]] \in calls[c].skills
Undecided == \A c \in CallIds : calls[c].state \in {"none", "asked"} => \A e \in decisions : e.call # c

\* A waiting call whose approval is not asked for has had that moment.
WaivedNoted == \A c \in CallIds : calls[c].state = "asked" /\ calls[c].tool \notin required => c \in waived

IInv == Typed /\ ActiveNoted /\ Undecided /\ WaivedNoted /\ RefusedNeverRuns

LEMMA CallFacts ==
    ASSUME Typed, NEW c \in CallIds
    PROVE  /\ c \in Made <=> calls[c] \in Call
           /\ c \in Made <=> calls[c].state \in CallState
           /\ c \notin Made => calls[c] = NoCall /\ calls[c].state = "none"
           /\ c \in Made => c[1] \in Turns /\ on[c[1]] \in Turns
  BY TurnAssumption DEF Typed, Made, Call, NoCall, CallState

LEMMA InitInv == Init => IInv
  BY DEF Init, IInv, Typed, ActiveNoted, Undecided, WaivedNoted, RefusedNeverRuns, Made, NoCall, RunsOrRan, Skills

\* A step that touches neither calls, skills nor decisions.
LEMMA Elsewhere ==
    ASSUME IInv, UNCHANGED <<agent, skill, calls, decisions>>, Typed',
           \A t \in Turns : phase[t] # "idle" => on'[t] = on[t],
           waived \subseteq waived', WaivedNoted'
    PROVE  IInv'
<1>1. ActiveNoted'
  <2> SUFFICES ASSUME NEW c \in CallIds, calls[c].state = "asked"
               PROVE  skill[on'[c[1]]] \in calls[c].skills
    BY DEF ActiveNoted
  <2>1. c[1] \in Turns /\ phase[c[1]] # "idle"
    BY TurnAssumption DEF IInv, Typed, Made
  <2> QED
    BY <2>1 DEF IInv, ActiveNoted
<1>2. \A c \in Made : RunsOrRan(c) => Passed(c)
  BY DEF IInv, RefusedNeverRuns
<1>3. RefusedNeverRuns'
  BY <1>2 DEF RefusedNeverRuns, Passed, Made, RunsOrRan, Has
<1> QED
  BY <1>1, <1>3 DEF IInv, Undecided

\* What a call that is let through has passed.
LEMMA LetThrough ==
    ASSUME NEW c \in CallIds, ~Refused(c)
    PROVE  /\ Has("ToolPolicyHook") /\ ToolAllowlist(agent.harness, agent.options) # NoList
                 => calls[c].tool \in ToolAllowlist(agent.harness, agent.options)
           /\ Has("ApprovalHook") => calls[c].tool \notin required
           /\ agent.harness # NoHarness /\ (Has("ToolPolicyHook") \/ Has("SecurityGuardrailHook"))
                 => calls[c].tool \notin agent.harness.deny
           /\ Has("SecurityGuardrailHook") => /\ ~GuardrailBlocks(c)
                                              /\ SkillAllows(skill[on[c[1]]], calls[c].tool)
<1>1. ASSUME agent.harness # NoHarness, Has("ToolPolicyHook")
      PROVE  calls[c].tool \notin agent.harness.deny
  BY <1>1 DEF Refused, PolicyBlocks, PolicyRefuses, ToolDenylist
<1>2. ASSUME Has("SecurityGuardrailHook")
      PROVE  ~GuardrailBlocks(c)
  BY <1>2 DEF Refused
<1>3. ASSUME agent.harness # NoHarness, Has("SecurityGuardrailHook")
      PROVE  calls[c].tool \notin agent.harness.deny
  BY <1>2, <1>3 DEF GuardrailBlocks, SecurityRefuses
<1>4. ASSUME Has("SecurityGuardrailHook")
      PROVE  SkillAllows(skill[on[c[1]]], calls[c].tool)
  BY <1>2, <1>4 DEF GuardrailBlocks, SecurityRefuses, SkillAllows
<1>5. ASSUME Has("ToolPolicyHook"), ToolAllowlist(agent.harness, agent.options) # NoList
      PROVE  calls[c].tool \in ToolAllowlist(agent.harness, agent.options)
  BY <1>5 DEF Refused, PolicyBlocks, PolicyRefuses
<1>6. ASSUME Has("ApprovalHook")
      PROVE  calls[c].tool \notin required
  BY <1>6 DEF Refused, ApprovalRefuses
<1> QED
  BY <1>1, <1>2, <1>3, <1>4, <1>5, <1>6

LEMMA AskingSafe ==
    ASSUME IInv, NEW c \in CallIds, BeforeToolCall(c)
    PROVE  IInv'
<1> DEFINE s == IF Refused(c) THEN "refused" ELSE "running"
<1>1. /\ calls[c] \in Call /\ calls[c].state = "asked" /\ c[1] \in Turns
      /\ calls' = [calls EXCEPT ![c].state = s]
      /\ UNCHANGED <<agent, cached, on, skill, phase, required, waived>>
  BY CallFacts DEF BeforeToolCall, strands, approvals, IInv, Made
<1>2. calls'[c] = [calls[c] EXCEPT !.state = s] /\ calls'[c] \in Call
  BY <1>1 DEF IInv, Typed, Call, CallState
<1>3. calls'[c].state = s /\ calls'[c].tool = calls[c].tool /\ calls'[c].skills = calls[c].skills
  BY <1>1, <1>2 DEF Call
<1>4. \A d \in CallIds \ {c} : calls'[d] = calls[d]
  BY <1>1 DEF IInv, Typed
<1>5. decisions' = IF Has("SecurityGuardrailHook") THEN decisions \cup {Decision(c)} ELSE decisions
  BY DEF BeforeToolCall
<1>6. Typed'
  BY <1>1, <1>2, <1>3, <1>4 DEF IInv, Typed, Made
<1>7. ActiveNoted'
  BY <1>1, <1>3, <1>4 DEF IInv, ActiveNoted
<1>8. Undecided'
  BY <1>3, <1>4, <1>5 DEF IInv, Undecided, Decision
<1>10. WaivedNoted'
  BY <1>1, <1>3, <1>4 DEF IInv, WaivedNoted
<1>9. RefusedNeverRuns'
  <2> SUFFICES ASSUME NEW d \in CallIds, RunsOrRan(d)'
               PROVE  Passed(d)'
    BY DEF RefusedNeverRuns, Made
  <2>1. CASE d # c
    <3>1. RunsOrRan(d) /\ d \in Made
      BY <1>4, <2>1 DEF RunsOrRan, Made
    <3>2. \A a \in {"ALLOW", "BLOCK"} : [call |-> d, action |-> a] \in decisions' <=> [call |-> d, action |-> a] \in decisions
      BY <1>5, <2>1 DEF Decision
    <3>3. Passed(d) /\ calls'[d] = calls[d]
      BY <1>4, <2>1, <3>1 DEF IInv, RefusedNeverRuns
    <3> QED
      BY <1>1, <3>2, <3>3 DEF Passed, Has
  <2>2. CASE d = c
    <3>1. ~Refused(c)
      BY <1>3, <2>2 DEF RunsOrRan
    <3>2. skill[on[c[1]]] \in calls[c].skills
      BY <1>1 DEF IInv, ActiveNoted
    <3>3. \A e \in decisions : e.call # c
      BY <1>1 DEF IInv, Undecided
    <3>4. Has("SecurityGuardrailHook") => decisions' = decisions \cup {[call |-> c, action |-> "ALLOW"]}
      BY <1>5, <3>1, LetThrough DEF Decision
    <3>5. Has("SecurityGuardrailHook") => /\ [call |-> c, action |-> "ALLOW"] \in decisions'
                                          /\ [call |-> c, action |-> "BLOCK"] \notin decisions'
      BY <3>3, <3>4
    <3>6. Has("ApprovalHook") => c \in waived
      BY <1>1, <3>1, LetThrough DEF IInv, WaivedNoted
    <3>7. Has("SecurityGuardrailHook") => \E k \in calls[c].skills : SkillAllows(k, calls[c].tool)
      BY <3>1, <3>2, LetThrough
    <3> QED
      BY <1>1, <1>3, <2>2, <3>1, <3>5, <3>6, <3>7, LetThrough DEF Passed, Has
  <2> QED
    BY <2>1, <2>2
<1> QED
  BY <1>6, <1>7, <1>8, <1>9, <1>10 DEF IInv

\* A call that the hooks have been asked of goes on; of those that wait, the
\* skills grow with the active one.
LEMMA GoingOn ==
    ASSUME IInv, NEW c \in CallIds, calls[c].state \in CallState \ {"asked"},
           NEW s \in CallState \ {"asked"}, RunsOrRan(c) \/ s \notin {"running", "ran", "done"},
           calls' \in [CallIds -> Call \cup {NoCall}],
           calls'[c] = [calls[c] EXCEPT !.state = s],
           \A d \in CallIds \ {c} :
              \/ calls'[d] = calls[d]
              \/ calls[d].state = "asked" /\ calls'[d].state = "asked" /\ calls'[d].tool = calls[d].tool,
           skill' \in [Turns -> Skills], ActiveNoted',
           UNCHANGED <<agent, cached, on, phase, decisions, required, waived>>
    PROVE  IInv'
<1>1. calls[c] \in Call /\ c \in Made
  BY CallFacts DEF IInv
<1>2. calls'[c].state = s /\ calls'[c].tool = calls[c].tool /\ calls'[c].skills = calls[c].skills
  BY <1>1 DEF Call
<1>3. Made' = Made
  BY <1>1, <1>2 DEF Made, CallState
<1>4. Typed'
  BY <1>3 DEF IInv, Typed
<1>5. Undecided'
  BY <1>2 DEF IInv, Undecided, CallState
<1>6. \A d \in CallIds : RunsOrRan(d)' => RunsOrRan(d) /\ calls'[d].tool = calls[d].tool /\ calls'[d].skills = calls[d].skills
  BY <1>2 DEF RunsOrRan
<1>7. RefusedNeverRuns'
  <2> SUFFICES ASSUME NEW d \in CallIds, d \in Made', RunsOrRan(d)'
               PROVE  Passed(d)'
    BY DEF RefusedNeverRuns, Made
  <2>1. d \in Made /\ RunsOrRan(d) /\ calls'[d].tool = calls[d].tool /\ calls'[d].skills = calls[d].skills
    BY <1>3, <1>6
  <2>2. Passed(d)
    BY <2>1 DEF IInv, RefusedNeverRuns
  <2> QED
    BY <2>1, <2>2 DEF Passed, Has
<1>8. WaivedNoted'
  BY <1>2 DEF IInv, WaivedNoted
<1> QED
  BY <1>4, <1>5, <1>7, <1>8 DEF IInv

LEMMA Executing ==
    ASSUME IInv, NEW c \in CallIds, ToolRuns(c)
    PROVE  IInv'
<1> USE DEF IInv
<1>1. calls[c] \in Call /\ calls[c].state = "running" /\ c[1] \in Turns /\ on[c[1]] \in Turns
  BY CallFacts DEF ToolRuns, Made
<1>2. UNCHANGED <<agent, cached, on, phase, decisions, required, waived>>
  BY DEF ToolRuns, approvals
<1>3. [calls[c] EXCEPT !.state = "ran"] \in Call
  BY <1>1 DEF Call, CallState
<1>4. CASE UNCHANGED skill /\ calls' = [calls EXCEPT ![c].state = "ran"]
  <2>1. calls'[c] = [calls[c] EXCEPT !.state = "ran"] /\ calls' \in [CallIds -> Call \cup {NoCall}]
    BY <1>3, <1>4 DEF Typed
  <2>2. \A d \in CallIds \ {c} : calls'[d] = calls[d]
    BY <1>4 DEF Typed
  <2>3. ActiveNoted'
    BY <1>1, <1>2, <1>4, <2>1, <2>2 DEF ActiveNoted, Call
  <2> QED
    BY <1>1, <1>2, <1>4, <2>1, <2>2, <2>3, GoingOn DEF RunsOrRan, CallState, Typed
<1>5. ASSUME NEW s \in DOMAIN AllowedTools, skill' = [skill EXCEPT ![on[c[1]]] = s], calls' = Activated(c, s)
      PROVE  IInv'
  <2>1. calls'[c] = [calls[c] EXCEPT !.state = "ran"]
    BY <1>1, <1>5 DEF Activated
  <2>2. ASSUME NEW d \in CallIds \ {c}, calls[d].state = "asked", on[d[1]] = on[c[1]]
        PROVE  /\ calls'[d] = [calls[d] EXCEPT !.skills = @ \cup {s}]
               /\ calls'[d] \in Call
               /\ calls'[d].state = "asked" /\ calls'[d].skills = calls[d].skills \cup {s}
               /\ calls'[d].tool = calls[d].tool
    <3>1. calls'[d] = [calls[d] EXCEPT !.skills = @ \cup {s}]
      BY <1>5, <2>2 DEF Activated
    <3>2. calls[d] \in Call
      BY <2>2, CallFacts DEF Made
    <3> QED
      BY <2>2, <3>1, <3>2 DEF Call, Skills
  <2>3. ASSUME NEW d \in CallIds \ {c}, ~(calls[d].state = "asked" /\ on[d[1]] = on[c[1]])
        PROVE  calls'[d] = calls[d]
    BY <1>5, <2>3 DEF Activated
  <2>4. calls' \in [CallIds -> Call \cup {NoCall}]
    <3>1. calls' = [d \in CallIds |-> calls'[d]]
      BY <1>5 DEF Activated
    <3>2. \A d \in CallIds : calls'[d] \in Call \cup {NoCall}
      BY <1>3, <2>1, <2>2, <2>3 DEF Typed
    <3> QED
      BY <3>1, <3>2
  <2>5. skill' \in [Turns -> Skills]
    BY <1>5 DEF Typed, Skills
  <2>6. ActiveNoted'
    <3> SUFFICES ASSUME NEW d \in CallIds, calls'[d].state = "asked"
                 PROVE  skill'[on[d[1]]] \in calls'[d].skills
      BY <1>2 DEF ActiveNoted
    <3>1. d # c
      BY <1>1, <2>1 DEF Call
    <3>2. CASE calls[d].state = "asked" /\ on[d[1]] = on[c[1]]
      BY <1>1, <1>5, <2>2, <3>1, <3>2 DEF Typed
    <3>3. CASE ~(calls[d].state = "asked" /\ on[d[1]] = on[c[1]])
      <4>1. calls'[d] = calls[d] /\ on[d[1]] # on[c[1]]
        BY <2>3, <3>1, <3>3
      <4>2. on[d[1]] \in Turns
        BY <4>1, CallFacts DEF Made
      <4> QED
        BY <1>5, <4>1, <4>2 DEF Typed, ActiveNoted
    <3> QED
      BY <3>2, <3>3
  <2> QED
    <3>1. /\ calls[c].state \in CallState \ {"asked"} /\ RunsOrRan(c)
          /\ "ran" \in CallState \ {"asked"}
      BY <1>1 DEF RunsOrRan, CallState
    <3>2. \A d \in CallIds \ {c} :
             \/ calls'[d] = calls[d]
             \/ calls[d].state = "asked" /\ calls'[d].state = "asked" /\ calls'[d].tool = calls[d].tool
      BY <2>2, <2>3
    <3> QED
      BY <1>2, <2>1, <2>4, <2>5, <2>6, <3>1, <3>2, GoingOn
<1> QED
  BY <1>4, <1>5 DEF ToolRuns

LEMMA Finishing ==
    ASSUME IInv, NEW c \in CallIds, AfterToolCall(c)
    PROVE  IInv'
<1> USE DEF IInv
<1> DEFINE s == IF calls[c].state = "ran" THEN "done" ELSE "cancelled"
<1>1. calls[c] \in Call /\ calls[c].state \in {"ran", "refused"}
  BY CallFacts DEF AfterToolCall, Made
<1>2. /\ UNCHANGED <<agent, cached, on, phase, skill, decisions, required, waived>>
      /\ calls' = [calls EXCEPT ![c].state = s]
  BY DEF AfterToolCall, strands, approvals
<1>3. s \in {"done", "cancelled"} /\ (s = "done" => calls[c].state = "ran")
  OBVIOUS
<1> HIDE DEF s
<1>4. [calls[c] EXCEPT !.state = s] \in Call
  BY <1>1, <1>3 DEF Call, CallState
<1>5. calls'[c] = [calls[c] EXCEPT !.state = s] /\ calls' \in [CallIds -> Call \cup {NoCall}]
  BY <1>2, <1>4 DEF Typed
<1>6. \A d \in CallIds \ {c} : calls'[d] = calls[d]
  BY <1>2 DEF Typed
<1>7. ActiveNoted'
  BY <1>1, <1>2, <1>3, <1>5, <1>6 DEF ActiveNoted, Call
<1> QED
  BY <1>1, <1>2, <1>3, <1>5, <1>6, <1>7, GoingOn DEF RunsOrRan, CallState, Typed

LEMMA Requesting ==
    ASSUME IInv, NEW t \in Turns, ModelAsksForTools(t)
    PROVE  IInv'
<1> USE DEF IInv
<1>0. PICK ids \in SUBSET {c \in CallIds \ Made : c[1] = t} :
         \E asked \in [ids -> ToolUses] :
            /\ calls' = [c \in CallIds |->
                           IF c \in ids
                             THEN [state |-> "asked", tool |-> asked[c].tool, input |-> asked[c].input,
                                   skills |-> {skill[on[t]]}]
                             ELSE calls[c]]
            /\ waived' = waived \cup {c \in ids : asked[c].tool \notin required}
  BY DEF ModelAsksForTools
<1>1. PICK asked \in [ids -> ToolUses] :
            /\ calls' = [c \in CallIds |->
                           IF c \in ids
                             THEN [state |-> "asked", tool |-> asked[c].tool, input |-> asked[c].input,
                                   skills |-> {skill[on[t]]}]
                             ELSE calls[c]]
            /\ waived' = waived \cup {c \in ids : asked[c].tool \notin required}
  BY <1>0
<1>2. /\ phase[t] = "asked" /\ phase' = [phase EXCEPT ![t] = "tools"]
      /\ UNCHANGED <<agent, cached, on, skill, required, decisions>>
  BY DEF ModelAsksForTools, ModelAnswered, strands
<1>3. on[t] \in Turns /\ skill[on[t]] \in Skills
  BY <1>2 DEF Typed
<1>4. \A c \in ids : /\ c \in CallIds /\ c \notin Made /\ c[1] = t /\ asked[c] \in ToolUses
                     /\ calls'[c] = [state |-> "asked", tool |-> asked[c].tool, input |-> asked[c].input,
                                     skills |-> {skill[on[t]]}]
  BY <1>1
<1>5. \A c \in ids : calls'[c] \in Call /\ calls'[c].state = "asked" /\ calls'[c].skills = {skill[on[t]]}
  <2> TAKE c \in ids
  <2>1. asked[c].tool \in Tools /\ asked[c].input \in Inputs
    BY <1>4 DEF Tools, Inputs
  <2>2. {skill[on[t]]} \in SUBSET Skills
    BY <1>3
  <2>3. calls'[c] = [state |-> "asked", tool |-> asked[c].tool, input |-> asked[c].input,
                     skills |-> {skill[on[t]]}]
    BY <1>4
  <2> QED
    BY <2>1, <2>2, <2>3 DEF Call, CallState
<1>6. \A c \in CallIds \ ids : calls'[c] = calls[c]
  BY <1>1
<1>7. Typed'
  <2>1. calls' \in [CallIds -> Call \cup {NoCall}]
    <3>1. calls' = [c \in CallIds |-> calls'[c]]
      BY <1>1
    <3>2. \A c \in CallIds : calls'[c] \in Call \cup {NoCall}
      BY <1>5, <1>6 DEF Typed
    <3> QED
      BY <3>1, <3>2
  <2>2. \A u \in Turns : phase'[u] # "idle" => phase[u] # "idle"
    BY <1>2 DEF Typed
  <2>3. \A c \in Made' : phase'[c[1]] # "idle"
    BY <1>2, <1>4, <1>6, TurnAssumption DEF Typed, Made
  <2> QED
    BY <1>2, <2>1, <2>2, <2>3 DEF Typed
<1>8. ActiveNoted'
  BY <1>2, <1>4, <1>5, <1>6 DEF ActiveNoted
<1>9. Undecided'
  BY <1>2, <1>4, <1>6, CallFacts DEF Undecided
<1>10. RefusedNeverRuns'
  <2>1. \A c \in CallIds : RunsOrRan(c)' => RunsOrRan(c) /\ c \in Made /\ calls'[c] = calls[c]
    BY <1>5, <1>6 DEF RunsOrRan, Made
  <2>2. \A c \in CallIds : RunsOrRan(c)' => Passed(c)
    BY <2>1 DEF RefusedNeverRuns
  <2>3. ASSUME NEW c \in CallIds, RunsOrRan(c)'
        PROVE  Passed(c)'
    <3>1. Passed(c) /\ calls'[c] = calls[c] /\ waived \subseteq waived'
      BY <1>1, <2>1, <2>2, <2>3
    <3> QED
      BY <1>2, <3>1 DEF Passed, Has
  <2> QED
    BY <2>3 DEF RefusedNeverRuns, Made
<1>11. WaivedNoted'
  <2>1. ASSUME NEW c \in ids
        PROVE  calls'[c].tool = asked[c].tool
    <3>1. calls'[c] = [state |-> "asked", tool |-> asked[c].tool, input |-> asked[c].input,
                       skills |-> {skill[on[t]]}]
      BY <1>4
    <3> QED
      BY <3>1
  <2> QED
    BY <1>1, <1>2, <1>6, <2>1 DEF WaivedNoted
<1> QED
  BY <1>7, <1>8, <1>9, <1>10, <1>11

LEMMA TurnSteps ==
    ASSUME IInv, NEW t \in Turns,
           Invoke(t) \/ InvokeClone(t) \/ BeforeModelCall(t) \/ ModelEndsTurn(t) \/ ToolsDone(t) \/ AfterInvocation(t)
    PROVE  IInv'
<1> USE DEF IInv
<1>0. UNCHANGED <<agent, skill, calls, decisions, required, waived>>
  BY DEF Invoke, InvokeClone, BeforeInvocation, BeforeModelCall, ModelEndsTurn, ModelAnswered, ToolsDone,
         AfterInvocation, strands, approvals
<1>1. UNCHANGED <<agent, skill, calls, decisions, waived>> /\ WaivedNoted'
  BY <1>0 DEF WaivedNoted
<1>2. \E to \in {"model", "asked", "answered", "ended"} : phase' = [phase EXCEPT ![t] = to]
  BY DEF Invoke, InvokeClone, BeforeInvocation, BeforeModelCall, ModelEndsTurn, ModelAnswered, ToolsDone,
         AfterInvocation
<1>3. CASE phase[t] = "idle" /\ (cached' = cached \/ cached' = t) /\ \E u \in Turns : on' = [on EXCEPT ![t] = u]
  <2>1. \A u \in Turns \ {t} : on'[u] = on[u] /\ phase'[u] = phase[u]
    BY <1>2, <1>3 DEF Typed
  <2>2. on'[t] \in Turns /\ phase'[t] # "idle"
    BY <1>2, <1>3 DEF Typed
  <2>3. Typed'
    BY <1>1, <1>2, <1>3, <2>1, <2>2, TurnAssumption DEF Typed, Made
  <2> QED
    BY <1>1, <1>3, <2>1, <2>3, Elsewhere
<1>4. CASE phase[t] # "idle" /\ UNCHANGED <<cached, on>>
  <2>1. Typed'
    BY <1>1, <1>2, <1>4, TurnAssumption DEF Typed, Made
  <2> QED
    BY <1>1, <1>4, <2>1, Elsewhere
<1>5. ASSUME Invoke(t)
      PROVE  phase[t] = "idle" /\ (cached' = cached \/ cached' = t) /\ \E u \in Turns : on' = [on EXCEPT ![t] = u]
  BY <1>5 DEF Invoke, Typed
<1>6. ASSUME InvokeClone(t)
      PROVE  phase[t] = "idle" /\ (cached' = cached \/ cached' = t) /\ \E u \in Turns : on' = [on EXCEPT ![t] = u]
  BY <1>6 DEF InvokeClone
<1>7. ASSUME BeforeModelCall(t) \/ ModelEndsTurn(t) \/ ToolsDone(t) \/ AfterInvocation(t)
      PROVE  phase[t] # "idle" /\ UNCHANGED <<cached, on>>
  BY <1>7 DEF BeforeModelCall, ModelEndsTurn, ModelAnswered, ToolsDone, AfterInvocation, strands
<1> QED
  BY <1>3, <1>4, <1>5, <1>6, <1>7

LEMMA NextInv == IInv /\ [Next]_vars => IInv'
<1> SUFFICES ASSUME IInv, [Next]_vars
             PROVE  IInv'
  OBVIOUS
<1>1. ASSUME \/ Reset \/ (\E tool \in Guarded : AddRequiredTool(tool) \/ RemoveRequiredTool(tool)) \/ UNCHANGED vars
      PROVE  IInv'
  <2>1. UNCHANGED <<agent, on, skill, phase, calls, decisions>> /\ cached' \in {cached, NoTurn}
    BY <1>1 DEF Reset, AddRequiredTool, RemoveRequiredTool, vars, strands
  <2>2. Typed'
    BY <2>1 DEF IInv, Typed, Made
  <2>3. ASSUME required \subseteq required', UNCHANGED waived
        PROVE  WaivedNoted'
    BY <2>1, <2>3 DEF IInv, WaivedNoted
  <2>4. ASSUME NEW tool, RemoveRequiredTool(tool)
        PROVE  waived \subseteq waived' /\ WaivedNoted'
    <3>1. /\ required' = required \ {tool}
          /\ waived' = waived \cup {c \in Made : calls[c].state = "asked" /\ calls[c].tool = tool}
      BY <2>4 DEF RemoveRequiredTool
    <3>2. \A c \in CallIds : calls[c].state = "asked" => c \in Made
      BY DEF Made
    <3> QED
      BY <2>1, <3>1, <3>2 DEF IInv, WaivedNoted
  <2>5. \/ required \subseteq required' /\ UNCHANGED waived
        \/ \E tool \in Guarded : RemoveRequiredTool(tool)
    BY <1>1 DEF Reset, AddRequiredTool, vars, approvals
  <2>6. waived \subseteq waived' /\ WaivedNoted'
    BY <2>3, <2>4, <2>5
  <2> QED
    BY <2>1, <2>2, <2>6, Elsewhere
<1> QED
  BY <1>1, AskingSafe, Executing, Finishing, Requesting, TurnSteps DEF Next

----------------------------------------------------------------------------

\* Whatever turns overlap and whatever skills and approvals change meanwhile, no
\* tool runs that the harness denies or that the allowlist of the policy hook
\* leaves out, that the guardrail said it blocks, that every skill leaves out
\* that was active since it was asked for, or that needed an approval all that
\* time (on_before_tool_call of ToolPolicyHook, SecurityGuardrailHook and
\* ApprovalHook).
THEOREM RefusalsHold == Spec => []RefusedNeverRuns
<1>1. IInv => RefusedNeverRuns
  BY DEF IInv
<1> QED
  BY <1>1, InitInv, NextInv, PTL DEF Spec

----------------------------------------------------------------------------
(* The books of the hooks *)

\* The calls that the hooks were asked of and those that are over; the turns
\* that wait for the model, have begun and have ended.
Open == {c \in CallIds : calls[c].state \in {"refused", "running", "ran"}}
Closed == {c \in CallIds : calls[c].state \in {"done", "cancelled"}}
Asked == {t \in Turns : phase[t] = "asked"}
Begun == {t \in Turns : phase[t] # "idle"}
Ended == {t \in Turns : phase[t] = "ended"}

Invocation == [turn : Turns \cup {NoTurn}, tools : Nat]
CallEntry == [call : CallIds, timed : BOOLEAN]
ModelEntry == [answered : Turns, began : Turns, call : Nat]

BookTypes ==
    /\ telemetry \in [current : Invocation, invocations : SUBSET Invocation,
                      pending : SUBSET CallIds, calls : SUBSET CallEntry]
    /\ recording \in [pending : SUBSET CallIds, calls : SUBSET CallEntry, ends : Nat]
    /\ spans \in [root : Turns \cup {NoTurn}, active : SUBSET (Turns \cup CallIds),
                  ended : SUBSET (Turns \cup CallIds)]
    /\ models \in [counter : Nat, callId : [Turns -> Nat],
                   pending : SUBSET [call : Nat, turn : Turns], history : SUBSET ModelEntry]
    /\ business \in [started : Nat, completed : Nat, depth : Nat]
    /\ IsFiniteSet(Begun) /\ IsFiniteSet(Closed) /\ IsFiniteSet(models.history)

\* A turn does not go on to the model before its calls are over.
OpenInTools ==
    \A c \in CallIds : calls[c].state \in {"asked", "refused", "running", "ran"} => phase[c[1]] = "tools"

Timed(S) == {[call |-> c, timed |-> TRUE] : c \in S}

AuditBook ==
    audit = [call : Open \cup Closed, status : {"started"}] \cup [call : Closed, status : {"completed"}]

TelemetryBook == telemetry.pending = Open /\ telemetry.calls = Timed(Closed)

RecordingBook ==
    Has("SessionRecordingHook") =>
        recording.pending = Open /\ recording.calls = Timed(Closed) /\ recording.ends = Cardinality(Ended)

\* The root span is the newest turn's and may be another's, but none is left
\* when every turn has ended.
SpanBook ==
    /\ Has("OTELSpanHook") => spans.active = Open \cup Asked /\ Closed \subseteq spans.ended
    /\ Begun \subseteq Ended => spans.root = NoTurn

BusinessBook ==
    Has("BusinessMetricsHook") =>
        /\ business.started = Cardinality(Begun) /\ business.completed = Cardinality(Ended)
        /\ business.depth = Cardinality(Closed)

CaptureBook ==
    Has("HallucinationDetectorHook") => captured = {c \in Closed : calls[c].tool \in Watched}

\* The numbers of the calls of the model that are waited for differ from each
\* other and from those of the calls that were recorded.
ModelBook ==
    /\ \A e \in models.history : e.began = e.answered
    /\ Has("ModelMetricsHook") =>
        /\ models.pending = {[call |-> models.callId[t], turn |-> t] : t \in Asked}
        /\ \A t \in Asked : models.callId[t] \in 1 .. models.counter
        /\ \A t, u \in Asked : models.callId[t] = models.callId[u] => t = u
        /\ \A e \in models.history : e.call \in 1 .. models.counter /\ \A t \in Asked : e.call # models.callId[t]
        /\ Cardinality(models.history) + Cardinality(Asked) = models.counter
    /\ ~Has("ModelMetricsHook") => models.history = {}

ClosedOf(t) == {c \in Closed : c[1] = t}

\* While turns do not overlap, the invocation that the telemetry has is the
\* running turn's and counts the calls of it that are over.
TurnBook ==
    ~overlapped =>
        /\ \A t, u \in Begun \ Ended : t = u
        /\ \A t \in Begun \ Ended : telemetry.current = [turn |-> t, tools |-> Cardinality(ClosedOf(t))]
        /\ telemetry.invocations = {[turn |-> t, tools |-> Cardinality(ClosedOf(t))] : t \in Ended}

CallBooks == AuditBook /\ TelemetryBook /\ RecordingBook /\ SpanBook /\ BusinessBook /\ CaptureBook
BookInv == BookTypes /\ OpenInTools /\ CallBooks /\ ModelBook /\ TurnBook

----------------------------------------------------------------------------
(* How the steps move calls and turns on *)

\* The sets after a step; the calls that were over stay as they are.
Moves(opened, closed, asked, begun, ended) ==
    /\ Open' = opened /\ Closed' = closed /\ Asked' = asked /\ Begun' = begun /\ Ended' = ended
    /\ \A c \in Closed : calls'[c].tool = calls[c].tool
    /\ agent' = agent

\* A turn that goes on, with what that does to the sets of turns.
LEMMA PhaseSets ==
    ASSUME Typed, NEW t \in Turns, phase[t] # "ended",
           NEW to, to # "idle", phase' = [phase EXCEPT ![t] = to]
    PROVE  /\ Asked' = IF to = "asked" THEN Asked \cup {t} ELSE IF t \in Asked THEN Asked \ {t} ELSE Asked
           /\ Begun' = IF t \in Begun THEN Begun ELSE Begun \cup {t}
           /\ Ended' = IF to = "ended" THEN Ended \cup {t} ELSE Ended
  BY DEF Typed, Asked, Begun, Ended

\* A call that goes on, with what that does to the sets of calls.
LEMMA CallSets ==
    ASSUME IInv, NEW c \in Made, c \notin Closed, NEW s \in CallState, calls' = [calls EXCEPT ![c].state = s]
    PROVE  /\ Open' = IF s \in {"refused", "running", "ran"} THEN Open \cup {c} ELSE Open \ {c}
           /\ Closed' = IF s \in {"done", "cancelled"} THEN Closed \cup {c} ELSE Closed
           /\ \A d \in CallIds \ {c} : calls'[d] = calls[d]
           /\ calls'[c].state = s /\ calls'[c].tool = calls[c].tool
<1>1. calls[c] \in Call /\ c \in CallIds
  BY CallFacts DEF IInv, Made
<1>2. calls'[c] = [calls[c] EXCEPT !.state = s] /\ \A d \in CallIds \ {c} : calls'[d] = calls[d]
  BY <1>1 DEF IInv, Typed
<1>3. calls'[c].state = s /\ calls'[c].tool = calls[c].tool
  BY <1>1, <1>2 DEF Call
<1> QED
  BY <1>1, <1>2, <1>3 DEF Open, Closed

LEMMA Beginning ==
    ASSUME IInv, OpenInTools, NEW t \in Turns, Invoke(t) \/ InvokeClone(t)
    PROVE  /\ Moves(Open, Closed, Asked, Begun \cup {t}, Ended) /\ OpenInTools'
           /\ t \notin Begun /\ t \notin Ended /\ ClosedOf(t) = {}
<1>1. phase[t] = "idle" /\ phase' = [phase EXCEPT ![t] = "model"] /\ UNCHANGED <<calls, agent>>
  BY DEF Invoke, InvokeClone, BeforeInvocation
<1>2. t \notin Begun /\ t \notin Ended /\ t \notin Asked
  BY <1>1 DEF Begun, Ended, Asked
<1>3. Asked' = Asked /\ Begun' = Begun \cup {t} /\ Ended' = Ended
  <2>1. phase[t] # "ended" /\ "model" # "idle" /\ "model" # "asked" /\ "model" # "ended" /\ Typed
    BY <1>1 DEF IInv
  <2> QED
    BY <1>1, <1>2, <2>1, PhaseSets
<1>4. OpenInTools'
  BY <1>1, TurnAssumption DEF OpenInTools, IInv, Typed
<1>5. ClosedOf(t) = {}
  BY <1>1 DEF ClosedOf, Closed, Made, IInv, Typed
<1> QED
  BY <1>1, <1>2, <1>3, <1>4, <1>5 DEF Moves, Open, Closed

LEMMA AskingModel ==
    ASSUME IInv, OpenInTools, NEW t \in Turns, BeforeModelCall(t)
    PROVE  Moves(Open, Closed, Asked \cup {t}, Begun, Ended) /\ OpenInTools' /\ t \notin Asked
<1>1. phase[t] = "model" /\ phase' = [phase EXCEPT ![t] = "asked"] /\ UNCHANGED <<calls, agent>>
  BY DEF BeforeModelCall
<1>2. t \in Begun /\ t \notin Ended /\ t \notin Asked
  BY <1>1 DEF Begun, Ended, Asked
<1>3. Asked' = Asked \cup {t} /\ Begun' = Begun /\ Ended' = Ended
  BY <1>1, <1>2, PhaseSets DEF IInv
<1>4. OpenInTools'
  BY <1>1, TurnAssumption DEF OpenInTools, IInv, Typed
<1> QED
  BY <1>1, <1>2, <1>3, <1>4 DEF Moves, Open, Closed

LEMMA Answering ==
    ASSUME IInv, OpenInTools, NEW t \in Turns, ModelAsksForTools(t) \/ ModelEndsTurn(t)
    PROVE  Moves(Open, Closed, Asked \ {t}, Begun, Ended) /\ OpenInTools' /\ t \in Asked
<1>1. PICK to \in {"tools", "answered"} : ModelAnswered(t, to)
  BY DEF ModelAsksForTools, ModelEndsTurn
<1>2. phase[t] = "asked" /\ phase' = [phase EXCEPT ![t] = to] /\ UNCHANGED agent
  BY <1>1 DEF ModelAnswered
<1>3. t \in Begun /\ t \notin Ended /\ t \in Asked
  BY <1>2 DEF Begun, Ended, Asked
<1>4. Asked' = Asked \ {t} /\ Begun' = Begun /\ Ended' = Ended
  BY <1>2, <1>3, PhaseSets DEF IInv
<1>5. /\ \A c \in CallIds : calls'[c] = calls[c] \/ (calls[c].state = "none" /\ calls'[c].state = "asked" /\ c[1] = t)
      /\ calls' = calls \/ to = "tools"
  <2>1. CASE ModelEndsTurn(t)
    BY <2>1 DEF ModelEndsTurn
  <2>2. CASE ModelAsksForTools(t)
    <3>1. PICK ids \in SUBSET {c \in CallIds \ Made : c[1] = t} :
            /\ ModelAnswered(t, "tools")
            /\ \E asked \in [ids -> ToolUses] :
                 calls' = [c \in CallIds |->
                             IF c \in ids
                               THEN [state |-> "asked", tool |-> asked[c].tool, input |-> asked[c].input,
                                     skills |-> {skill[on[t]]}]
                               ELSE calls[c]]
      BY <2>2 DEF ModelAsksForTools
    <3>2. phase' = [phase EXCEPT ![t] = "tools"]
      BY <3>1 DEF ModelAnswered
    <3>3. to = "tools"
      BY <1>2, <3>2 DEF IInv, Typed
    <3>4. \A c \in CallIds : calls'[c] = calls[c] \/ (c \in ids /\ calls'[c].state = "asked")
      BY <3>1
    <3> QED
      BY <3>1, <3>3, <3>4 DEF Made
  <2> QED
    BY <2>1, <2>2
<1>6. OpenInTools'
  <2> SUFFICES ASSUME NEW c \in CallIds, calls'[c].state \in {"asked", "refused", "running", "ran"}
               PROVE  phase'[c[1]] = "tools"
    BY DEF OpenInTools
  <2>1. CASE calls'[c] = calls[c]
    BY <2>1, <1>2, TurnAssumption DEF OpenInTools, IInv, Typed
  <2>2. CASE calls'[c] # calls[c]
    BY <2>2, <1>2, <1>5 DEF IInv, Typed
  <2> QED
    BY <2>1, <2>2
<1>7. Open' = Open /\ Closed' = Closed /\ \A c \in Closed : calls'[c].tool = calls[c].tool
  BY <1>5 DEF Open, Closed
<1> QED
  BY <1>2, <1>3, <1>4, <1>6, <1>7 DEF Moves

LEMMA Opening ==
    ASSUME IInv, OpenInTools, NEW c \in CallIds, BeforeToolCall(c)
    PROVE  /\ Moves(Open \cup {c}, Closed, Asked, Begun, Ended) /\ OpenInTools'
           /\ c \notin Open /\ c \notin Closed
<1> DEFINE s == IF Refused(c) THEN "refused" ELSE "running"
<1>1. /\ calls[c].state = "asked" /\ calls' = [calls EXCEPT ![c].state = s]
      /\ UNCHANGED <<phase, agent>> /\ s \in {"refused", "running"}
  BY DEF BeforeToolCall
<1>2. c \in Made /\ c \notin Open /\ c \notin Closed
  BY <1>1 DEF Made, Open, Closed
<1> HIDE DEF s
<1>3. /\ Open' = Open \cup {c} /\ Closed' = Closed
      /\ \A d \in CallIds \ {c} : calls'[d] = calls[d]
      /\ calls'[c].tool = calls[c].tool
  BY <1>1, <1>2, CallSets DEF CallState
<1>4. OpenInTools'
  BY <1>1, <1>3 DEF OpenInTools
<1> QED
  BY <1>1, <1>2, <1>3, <1>4 DEF Moves, Asked, Begun, Ended, Closed

LEMMA Closing ==
    ASSUME IInv, OpenInTools, NEW c \in CallIds, AfterToolCall(c)
    PROVE  /\ Moves(Open \ {c}, Closed \cup {c}, Asked, Begun, Ended) /\ OpenInTools'
           /\ c \in Open /\ c \notin Closed /\ c[1] \in Begun \ Ended
           /\ calls'[c].tool = calls[c].tool
<1> DEFINE s == IF calls[c].state = "ran" THEN "done" ELSE "cancelled"
<1>1. /\ calls[c].state \in {"ran", "refused"} /\ calls' = [calls EXCEPT ![c].state = s]
      /\ UNCHANGED <<phase, agent>> /\ s \in {"done", "cancelled"}
  BY DEF AfterToolCall
<1>2. c \in Made /\ c \in Open /\ c \notin Closed
  BY <1>1 DEF Made, Open, Closed
<1> HIDE DEF s
<1>3. /\ Open' = Open \ {c} /\ Closed' = Closed \cup {c}
      /\ \A d \in CallIds \ {c} : calls'[d] = calls[d]
      /\ calls'[c].tool = calls[c].tool /\ calls'[c].state = s
  BY <1>1, <1>2, CallSets DEF CallState
<1>4. OpenInTools'
  BY <1>1, <1>3 DEF OpenInTools
<1>5. phase[c[1]] = "tools" /\ c[1] \in Turns
  BY <1>1, TurnAssumption DEF OpenInTools
<1> QED
  BY <1>1, <1>2, <1>3, <1>4, <1>5 DEF Moves, Asked, Begun, Ended, Closed

LEMMA Ending ==
    ASSUME IInv, OpenInTools, NEW t \in Turns, AfterInvocation(t)
    PROVE  /\ Moves(Open, Closed, Asked, Begun, Ended \cup {t}) /\ OpenInTools'
           /\ t \in Begun \ Ended
<1>1. phase[t] = "answered" /\ phase' = [phase EXCEPT ![t] = "ended"] /\ UNCHANGED <<calls, agent>>
  BY DEF AfterInvocation
<1>2. t \in Begun /\ t \notin Ended /\ t \notin Asked
  BY <1>1 DEF Begun, Ended, Asked
<1>3. Asked' = Asked /\ Begun' = Begun /\ Ended' = Ended \cup {t}
  BY <1>1, <1>2, PhaseSets DEF IInv
<1>4. OpenInTools'
  BY <1>1, TurnAssumption DEF OpenInTools, IInv, Typed
<1> QED
  BY <1>1, <1>2, <1>3, <1>4 DEF Moves, Open, Closed

\* The steps that the hooks do not see.
Unseen ==
    \/ Reset \/ (\E c \in CallIds : ToolRuns(c)) \/ (\E t \in Turns : ToolsDone(t))
    \/ (\E tool \in Guarded : AddRequiredTool(tool) \/ RemoveRequiredTool(tool))
    \/ UNCHANGED vars

LEMMA Elapsing ==
    ASSUME IInv, OpenInTools, Unseen
    PROVE  /\ Moves(Open, Closed, Asked, Begun, Ended) /\ OpenInTools'
           /\ UNCHANGED <<books, overlapped>>
<1>1. CASE UNCHANGED <<agent, phase, calls, books, overlapped>>
  BY <1>1 DEF Moves, Open, Closed, Asked, Begun, Ended, OpenInTools
<1>2. ASSUME NEW t \in Turns, ToolsDone(t)
      PROVE  /\ Moves(Open, Closed, Asked, Begun, Ended) /\ OpenInTools'
             /\ UNCHANGED <<books, overlapped>>
  <2>1. /\ phase[t] = "tools" /\ phase' = [phase EXCEPT ![t] = "model"]
        /\ UNCHANGED <<calls, agent, books, overlapped>>
        /\ \A c \in CallIds : c[1] = t => calls[c].state \in {"none", "done", "cancelled"}
    BY <1>2 DEF ToolsDone
  <2>2. t \in Begun /\ t \notin Ended /\ t \notin Asked
    BY <2>1 DEF Begun, Ended, Asked
  <2>3. Asked' = Asked /\ Begun' = Begun /\ Ended' = Ended
    <3>1. phase[t] # "ended" /\ "model" # "idle" /\ "model" # "asked" /\ "model" # "ended" /\ Typed
      BY <2>1 DEF IInv
    <3> QED
      BY <2>1, <2>2, <3>1, PhaseSets
  <2>4. OpenInTools'
    BY <2>1, TurnAssumption DEF OpenInTools, IInv, Typed
  <2> QED
    BY <2>1, <2>3, <2>4 DEF Moves, Open, Closed
<1>3. ASSUME NEW c \in CallIds, ToolRuns(c)
      PROVE  /\ Moves(Open, Closed, Asked, Begun, Ended) /\ OpenInTools'
             /\ UNCHANGED <<books, overlapped>>
  <2>1. /\ calls[c].state = "running" /\ UNCHANGED <<phase, agent, books, overlapped>>
        /\ calls[c] \in Call
    BY <1>3, CallFacts DEF ToolRuns, Made, IInv
  <2>2. \A d \in CallIds : calls'[d] # calls[d] =>
            \/ d = c /\ calls'[d].state = "ran"
            \/ calls[d].state = "asked" /\ calls'[d].state = "asked"
    <3>1. CASE calls' = [calls EXCEPT ![c].state = "ran"]
      BY <3>1, <2>1, CallSets DEF CallState, Made, Closed
    <3>2. ASSUME NEW s, calls' = Activated(c, s)
          PROVE  \A d \in CallIds : calls'[d] # calls[d] =>
                     \/ d = c /\ calls'[d].state = "ran"
                     \/ calls[d].state = "asked" /\ calls'[d].state = "asked"
      <4> SUFFICES ASSUME NEW d \in CallIds, calls'[d] # calls[d]
                   PROVE  \/ d = c /\ calls'[d].state = "ran"
                          \/ calls[d].state = "asked" /\ calls'[d].state = "asked"
        OBVIOUS
      <4>1. CASE d = c
        <5>1. calls'[c] = [calls[c] EXCEPT !.state = "ran"]
          BY <3>2, <2>1 DEF Activated
        <5> QED
          BY <5>1, <4>1, <2>1 DEF Call
      <4>2. CASE d # c
        <5>1. calls[d].state = "asked" /\ calls'[d] = [calls[d] EXCEPT !.skills = @ \cup {s}]
          BY <3>2, <4>2 DEF Activated
        <5>2. calls[d] \in Call
          BY <5>1, CallFacts DEF Made, IInv
        <5> QED
          BY <5>1, <5>2 DEF Call
      <4> QED
        BY <4>1, <4>2
    <3> QED
      BY <1>3, <3>1, <3>2 DEF ToolRuns
  <2>3. Open' = Open /\ Closed' = Closed /\ \A d \in Closed : calls'[d].tool = calls[d].tool
    BY <2>1, <2>2 DEF Open, Closed
  <2>4. OpenInTools'
    BY <2>1, <2>2 DEF OpenInTools
  <2> QED
    BY <2>1, <2>3, <2>4 DEF Moves, Asked, Begun, Ended
<1> QED
  BY <1>1, <1>2, <1>3 DEF Unseen, Reset, AddRequiredTool, RemoveRequiredTool, vars, strands

----------------------------------------------------------------------------
(* How the books follow *)

\* What a step that moves the sets leaves of the books it does not touch.
LEMMA Untouched ==
    ASSUME BookInv, NEW opened, NEW closed, NEW asked, NEW begun, NEW ended,
           Moves(opened, closed, asked, begun, ended)
    PROVE  /\ audit' = audit /\ opened = Open /\ closed = Closed => AuditBook'
           /\ telemetry' = telemetry /\ opened = Open /\ closed = Closed => TelemetryBook'
           /\ recording' = recording /\ opened = Open /\ closed = Closed /\ ended = Ended => RecordingBook'
           /\ spans' = spans /\ opened = Open /\ closed = Closed /\ asked = Asked
                 /\ begun = Begun /\ ended = Ended => SpanBook'
           /\ business' = business /\ begun = Begun /\ ended = Ended /\ closed = Closed => BusinessBook'
           /\ captured' = captured /\ closed = Closed => CaptureBook'
           /\ models' = models /\ asked = Asked => ModelBook'
           /\ telemetry' = telemetry /\ overlapped' = overlapped /\ closed = Closed
                 /\ begun = Begun /\ ended = Ended => TurnBook'
<1>1. /\ Open' = opened /\ Closed' = closed /\ Asked' = asked /\ Begun' = begun /\ Ended' = ended
      /\ \A c \in Closed : calls'[c].tool = calls[c].tool
      /\ \A h : Has(h)' = Has(h)
  BY DEF Moves, Has
<1>2. /\ AuditBook /\ TelemetryBook /\ RecordingBook /\ SpanBook /\ BusinessBook /\ CaptureBook
      /\ ModelBook /\ TurnBook
  BY DEF BookInv, CallBooks
<1>3. audit' = audit /\ opened = Open /\ closed = Closed => AuditBook'
  BY <1>1, <1>2 DEF AuditBook
<1>4. telemetry' = telemetry /\ opened = Open /\ closed = Closed => TelemetryBook'
  BY <1>1, <1>2 DEF TelemetryBook, Timed
<1>5. recording' = recording /\ opened = Open /\ closed = Closed /\ ended = Ended => RecordingBook'
  BY <1>1, <1>2 DEF RecordingBook, Timed
<1>6. spans' = spans /\ opened = Open /\ closed = Closed /\ asked = Asked /\ begun = Begun /\ ended = Ended
         => SpanBook'
  BY <1>1, <1>2 DEF SpanBook
<1>7. business' = business /\ begun = Begun /\ ended = Ended /\ closed = Closed => BusinessBook'
  BY <1>1, <1>2 DEF BusinessBook
<1>8. captured' = captured /\ closed = Closed => CaptureBook'
  BY <1>1, <1>2 DEF CaptureBook
<1>9. models' = models /\ asked = Asked => ModelBook'
  BY <1>1, <1>2 DEF ModelBook
<1>10. telemetry' = telemetry /\ overlapped' = overlapped /\ closed = Closed /\ begun = Begun /\ ended = Ended
         => TurnBook'
  <2> SUFFICES ASSUME telemetry' = telemetry, overlapped' = overlapped, Closed' = Closed,
                      Begun' = Begun, Ended' = Ended
               PROVE  TurnBook'
    BY <1>1
  <2>1. \A u : ClosedOf(u)' = ClosedOf(u)
    BY DEF ClosedOf
  <2> QED
    BY <1>2, <2>1 DEF TurnBook
<1> QED
  BY <1>3, <1>4, <1>5, <1>6, <1>7, <1>8, <1>9, <1>10

LEMMA ElapsingBooks ==
    ASSUME IInv, BookInv, Unseen
    PROVE  BookInv'
<1>1. /\ Moves(Open, Closed, Asked, Begun, Ended) /\ OpenInTools'
      /\ UNCHANGED <<books, overlapped>>
  BY Elapsing DEF BookInv
<1>2. BookTypes'
  BY <1>1 DEF BookInv, BookTypes, Moves, books
<1> QED
  BY <1>1, <1>2, Untouched DEF BookInv, CallBooks, books

LEMMA BeginningBooks ==
    ASSUME IInv, BookInv, NEW t \in Turns, Invoke(t) \/ InvokeClone(t)
    PROVE  BookInv'
<1>1. /\ Moves(Open, Closed, Asked, Begun \cup {t}, Ended) /\ OpenInTools'
      /\ t \notin Begun /\ t \notin Ended /\ ClosedOf(t) = {}
  BY Beginning DEF BookInv
<1>2. /\ telemetry' = [telemetry EXCEPT !.current = [turn |-> t, tools |-> 0]]
      /\ spans' = IF Has("OTELSpanHook") THEN [spans EXCEPT !.root = t] ELSE spans
      /\ business' = IF Has("BusinessMetricsHook") THEN [business EXCEPT !.started = @ + 1] ELSE business
      /\ overlapped' = (overlapped \/ \E u \in Turns : Running(u))
      /\ UNCHANGED <<audit, recording, models, captured>>
  BY DEF Invoke, InvokeClone, BeforeInvocation, TelemetryBegins, RootSpanBegins, BusinessBegins
<1>3. /\ Open' = Open /\ Closed' = Closed /\ Asked' = Asked /\ Begun' = Begun \cup {t} /\ Ended' = Ended
      /\ \A h : Has(h)' = Has(h)
  BY <1>1 DEF Moves, Has
<1>4. /\ BookTypes /\ TelemetryBook /\ SpanBook /\ BusinessBook /\ TurnBook
      /\ IsFiniteSet(Begun)
  BY DEF BookInv, CallBooks, BookTypes
<1>5. IsFiniteSet(Begun \cup {t}) /\ Cardinality(Begun \cup {t}) = Cardinality(Begun) + 1
  BY <1>1, <1>4, FS_AddElement
<1>6. /\ telemetry'.current = [turn |-> t, tools |-> 0] /\ telemetry'.invocations = telemetry.invocations
      /\ telemetry'.pending = telemetry.pending /\ telemetry'.calls = telemetry.calls
  BY <1>2, <1>4 DEF BookTypes
<1>7. BookTypes'
  <2>1. [turn |-> t, tools |-> 0] \in Invocation
    BY DEF Invocation
  <2>2. telemetry' \in [current : Invocation, invocations : SUBSET Invocation,
                        pending : SUBSET CallIds, calls : SUBSET CallEntry]
    BY <1>2, <1>4, <2>1 DEF BookTypes
  <2>3. spans' \in [root : Turns \cup {NoTurn}, active : SUBSET (Turns \cup CallIds),
                    ended : SUBSET (Turns \cup CallIds)]
    BY <1>2, <1>4 DEF BookTypes
  <2>4. business' \in [started : Nat, completed : Nat, depth : Nat]
    BY <1>2, <1>4 DEF BookTypes
  <2> QED
    BY <1>2, <1>3, <1>4, <1>5, <2>2, <2>3, <2>4 DEF BookTypes
<1>8. TelemetryBook'
  BY <1>3, <1>4, <1>6 DEF TelemetryBook, Timed
<1>9. SpanBook'
  <2>1. spans'.active = spans.active /\ spans'.ended = spans.ended
    BY <1>2, <1>4 DEF BookTypes
  <2>2. ~(Begun' \subseteq Ended')
    BY <1>1, <1>3
  <2> QED
    BY <1>3, <1>4, <2>1, <2>2 DEF SpanBook
<1>10. BusinessBook'
  BY <1>2, <1>3, <1>4, <1>5 DEF BusinessBook, BookTypes
<1>11. TurnBook'
  <2> SUFFICES ASSUME ~overlapped'
               PROVE  /\ \A u, v \in Begun' \ Ended' : u = v
                      /\ \A u \in Begun' \ Ended' :
                            telemetry'.current = [turn |-> u, tools |-> Cardinality(ClosedOf(u)')]
                      /\ telemetry'.invocations = {[turn |-> u, tools |-> Cardinality(ClosedOf(u)')] : u \in Ended'}
    BY DEF TurnBook
  <2>1. ~overlapped /\ Begun \subseteq Ended
    BY <1>2 DEF Running, Begun, Ended
  <2>2. Begun' \ Ended' = {t}
    BY <1>1, <1>3, <2>1
  <2>3. \A u : ClosedOf(u)' = ClosedOf(u)
    BY <1>3 DEF ClosedOf
  <2>4. Cardinality(ClosedOf(t)) = 0
    BY <1>1, FS_EmptySet
  <2>5. telemetry.invocations = {[turn |-> u, tools |-> Cardinality(ClosedOf(u))] : u \in Ended}
    BY <1>4, <2>1 DEF TurnBook
  <2> QED
    BY <1>3, <1>6, <2>2, <2>3, <2>4, <2>5
<1> QED
  BY <1>1, <1>2, <1>7, <1>8, <1>9, <1>10, <1>11, Untouched DEF BookInv, CallBooks

LEMMA AskingModelBooks ==
    ASSUME IInv, BookInv, NEW t \in Turns, BeforeModelCall(t)
    PROVE  BookInv'
<1>1. Moves(Open, Closed, Asked \cup {t}, Begun, Ended) /\ OpenInTools' /\ t \notin Asked
  BY AskingModel DEF BookInv
<1> DEFINE n == models.counter + 1
           entry == [call |-> n, turn |-> t]
<1>2. /\ models' = IF ~Has("ModelMetricsHook") THEN models
                   ELSE [models EXCEPT !.counter = n, !.callId[t] = n, !.pending = @ \cup {entry}]
      /\ spans' = IF Has("OTELSpanHook") THEN [spans EXCEPT !.active = @ \cup {t}] ELSE spans
      /\ UNCHANGED <<audit, telemetry, recording, business, captured, overlapped>>
  <2>1. BookTypes
    BY DEF BookInv
  <2>2. [models EXCEPT !.counter = @ + 1] = [models EXCEPT !.counter = n]
    BY <2>1 DEF BookTypes
  <2> QED
    BY <2>1 DEF BeforeModelCall, MetricsBegin, ModelSpanBegins, BookTypes
<1>3. /\ Open' = Open /\ Closed' = Closed /\ Asked' = Asked \cup {t} /\ Begun' = Begun /\ Ended' = Ended
      /\ \A h : Has(h)' = Has(h)
  BY <1>1 DEF Moves, Has
<1>4. /\ BookTypes /\ SpanBook /\ ModelBook /\ IsFiniteSet(Begun) /\ n \in Nat /\ models.counter \in Nat
  BY DEF BookInv, CallBooks, BookTypes
<1> HIDE DEF n
<1>5. spans' \in [root : Turns \cup {NoTurn}, active : SUBSET (Turns \cup CallIds),
                  ended : SUBSET (Turns \cup CallIds)]
  BY <1>2, <1>4 DEF BookTypes
<1>6. SpanBook'
  BY <1>2, <1>3, <1>4 DEF SpanBook, BookTypes
<1>7. CASE ~Has("ModelMetricsHook")
  <2>1. models' = models
    BY <1>2, <1>7
  <2>2. BookTypes'
    BY <1>2, <1>3, <1>4, <1>5, <2>1 DEF BookTypes
  <2>3. ModelBook'
    BY <1>3, <1>4, <1>7, <2>1 DEF ModelBook
  <2> QED
    BY <1>1, <1>2, <1>6, <2>2, <2>3, Untouched DEF BookInv, CallBooks
<1>8. CASE Has("ModelMetricsHook")
  <2>1. /\ models'.counter = n /\ models'.pending = models.pending \cup {entry}
        /\ models'.history = models.history
        /\ models'.callId = [models.callId EXCEPT ![t] = n]
    BY <1>2, <1>4, <1>8 DEF BookTypes
  <2>2. models.callId \in [Turns -> Nat] /\ models.pending \in SUBSET [call : Nat, turn : Turns]
    BY <1>4 DEF BookTypes
  <2>3. models'.callId \in [Turns -> Nat] /\ models'.callId[t] = n
        /\ \A u \in Turns : u # t => models'.callId[u] = models.callId[u]
    BY <1>4, <2>1, <2>2
  <2>4. entry \in [call : Nat, turn : Turns]
    BY <1>4
  <2>5. BookTypes'
    <3>1. models' \in [counter : Nat, callId : [Turns -> Nat],
                       pending : SUBSET [call : Nat, turn : Turns], history : SUBSET ModelEntry]
      <4>1. models' = [models EXCEPT !.counter = n, !.callId = models'.callId, !.pending = models'.pending]
        BY <1>2, <1>4, <1>8, <2>1 DEF BookTypes
      <4>2. models'.pending \in SUBSET [call : Nat, turn : Turns]
        BY <2>1, <2>2, <2>4
      <4> QED
        BY <1>4, <2>3, <4>1, <4>2 DEF BookTypes
    <3> QED
      BY <1>2, <1>3, <1>4, <1>5, <2>1, <3>1 DEF BookTypes
  <2>6. /\ \A u \in Asked : u \in Turns /\ u # t /\ models.callId[u] \in 1 .. models.counter
        /\ \A e \in models.history : e.call \in 1 .. models.counter
        /\ \A u, v \in Asked : models.callId[u] = models.callId[v] => u = v
        /\ models.pending = {[call |-> models.callId[u], turn |-> u] : u \in Asked}
        /\ \A e \in models.history : \A u \in Asked : e.call # models.callId[u]
        /\ Cardinality(models.history) + Cardinality(Asked) = models.counter
        /\ \A e \in models.history : e.began = e.answered
    BY <1>1, <1>4, <1>8 DEF ModelBook, Asked
  <2>7. \A u \in Asked' : u = t \/ (u \in Asked /\ models'.callId[u] = models.callId[u])
    BY <1>3, <2>3, <2>6
  <2>8. \A k \in 1 .. models.counter : k \in 1 .. n /\ k # n
    BY <1>4 DEF n
  <2>9. n \in 1 .. n
    BY <1>4 DEF n
  <2>10. models'.pending = {[call |-> models'.callId[u], turn |-> u] : u \in Asked'}
    <3>1. \A u \in Asked : models'.callId[u] = models.callId[u]
      BY <2>3, <2>6
    <3> QED
      BY <1>3, <2>1, <2>3, <2>6, <3>1
  <2>11. Cardinality(models'.history) + Cardinality(Asked') = models'.counter
    <3>1. IsFiniteSet(Asked) /\ IsFiniteSet(models.history)
      <4>1. Asked \subseteq Begun
        BY DEF Asked, Begun
      <4> QED
        BY <4>1, <1>4, FS_Subset DEF BookTypes
    <3>2. Cardinality(Asked') = Cardinality(Asked) + 1
      BY <1>1, <1>3, <3>1, FS_AddElement
    <3>3. Cardinality(Asked) \in Nat /\ Cardinality(models.history) \in Nat
      BY <3>1, FS_CardinalityType
    <3> QED
      BY <2>1, <2>6, <3>2, <3>3 DEF n
  <2>12. ModelBook'
    <3>1. \A u \in Asked' : models'.callId[u] \in 1 .. models'.counter
      BY <2>1, <2>3, <2>6, <2>7, <2>8, <2>9
    <3>2. \A u, v \in Asked' : models'.callId[u] = models'.callId[v] => u = v
      BY <2>3, <2>6, <2>7, <2>8
    <3>3. \A e \in models'.history :
            e.call \in 1 .. models'.counter /\ \A u \in Asked' : e.call # models'.callId[u]
      BY <2>1, <2>3, <2>6, <2>7, <2>8
    <3> QED
      BY <1>3, <1>8, <2>1, <2>6, <2>10, <2>11, <3>1, <3>2, <3>3 DEF ModelBook
  <2> QED
    BY <1>1, <1>2, <1>6, <2>5, <2>12, Untouched DEF BookInv, CallBooks
<1> QED
  BY <1>7, <1>8

LEMMA AnsweringBooks ==
    ASSUME IInv, BookInv, NEW t \in Turns, ModelAsksForTools(t) \/ ModelEndsTurn(t)
    PROVE  BookInv'
<1>1. Moves(Open, Closed, Asked \ {t}, Begun, Ended) /\ OpenInTools' /\ t \in Asked
  BY Answering DEF BookInv
<1> DEFINE n == models.callId[t]
           taken == {e \in models.pending : e.call = n}
           recorded == {[answered |-> t, began |-> e.turn, call |-> e.call] : e \in taken}
<1>2. /\ models' = MetricsEnd(t)
      /\ spans' = [spans EXCEPT !.active = @ \ {t}]
      /\ UNCHANGED <<audit, telemetry, recording, business, captured, overlapped>>
  BY DEF ModelAsksForTools, ModelEndsTurn, ModelAnswered, ModelSpanEnds
<1>3. /\ Open' = Open /\ Closed' = Closed /\ Asked' = Asked \ {t} /\ Begun' = Begun /\ Ended' = Ended
      /\ \A h : Has(h)' = Has(h)
  BY <1>1 DEF Moves, Has
<1>4. /\ BookTypes /\ SpanBook /\ ModelBook /\ IsFiniteSet(Begun) /\ models.counter \in Nat
  BY DEF BookInv, CallBooks, BookTypes
<1>5. spans' \in [root : Turns \cup {NoTurn}, active : SUBSET (Turns \cup CallIds),
                  ended : SUBSET (Turns \cup CallIds)]
  BY <1>2, <1>4 DEF BookTypes
<1>6. SpanBook'
  <2>1. t \notin Open
    BY TurnAssumption DEF Open
  <2>2. spans'.active = spans.active \ {t} /\ spans'.ended = spans.ended /\ spans'.root = spans.root
    BY <1>2, <1>4 DEF BookTypes
  <2> QED
    BY <1>3, <1>4, <2>1, <2>2 DEF SpanBook
<1>7. CASE ~Has("ModelMetricsHook")
  <2>1. models' = models
    BY <1>2, <1>7 DEF MetricsEnd
  <2>2. BookTypes'
    BY <1>2, <1>3, <1>4, <1>5, <2>1 DEF BookTypes
  <2>3. ModelBook'
    BY <1>3, <1>4, <1>7, <2>1 DEF ModelBook
  <2> QED
    BY <1>1, <1>2, <1>6, <2>2, <2>3, Untouched DEF BookInv, CallBooks
<1>8. CASE Has("ModelMetricsHook")
  <2>1. /\ \A u \in Asked : u \in Turns /\ models.callId[u] \in 1 .. models.counter
        /\ \A e \in models.history : e.call \in 1 .. models.counter
        /\ \A u, v \in Asked : models.callId[u] = models.callId[v] => u = v
        /\ models.pending = {[call |-> models.callId[u], turn |-> u] : u \in Asked}
        /\ \A e \in models.history : \A u \in Asked : e.call # models.callId[u]
        /\ Cardinality(models.history) + Cardinality(Asked) = models.counter
        /\ \A e \in models.history : e.began = e.answered
    BY <1>4, <1>8 DEF ModelBook, Asked
  <2>2. taken = {[call |-> n, turn |-> t]}
    BY <1>1, <2>1
  <2> DEFINE new == [answered |-> t, began |-> t, call |-> n]
             ids == [models.callId EXCEPT ![t] = 0]
  <2> HIDE DEF taken
  <2>3. recorded = {new}
    BY <2>2
  <2>4. models' = [models EXCEPT !.callId[t] = 0, !.pending = @ \ taken, !.history = @ \cup recorded]
    BY <1>2, <1>8 DEF MetricsEnd, PendingCall, taken, recorded
  <2> HIDE DEF recorded
  <2>5. /\ models'.counter = models.counter /\ models'.callId = ids
        /\ models'.pending = models.pending \ {[call |-> n, turn |-> t]}
        /\ models'.history = models.history \cup {new}
        /\ DOMAIN models' = DOMAIN models
    BY <1>4, <2>2, <2>3, <2>4 DEF BookTypes
  <2>6. /\ models.callId \in [Turns -> Nat] /\ n \in Nat /\ new \in ModelEntry
        /\ models.pending \in SUBSET [call : Nat, turn : Turns] /\ models.history \in SUBSET ModelEntry
        /\ IsFiniteSet(models.history)
    BY <1>4 DEF BookTypes, ModelEntry
  <2>7. ids \in [Turns -> Nat] /\ \A u \in Turns : u # t => ids[u] = models.callId[u]
    BY <2>6
  <2>8. \A u \in Asked' : u \in Asked /\ u # t /\ u \in Turns /\ models'.callId[u] = models.callId[u]
                          /\ models.callId[u] # n
    BY <1>1, <1>3, <2>1, <2>5, <2>7
  <2>9. n \in 1 .. models.counter /\ new \notin models.history
    BY <1>1, <2>1
  <2>10. IsFiniteSet(models'.history) /\ Cardinality(models'.history) = Cardinality(models.history) + 1
    <3>1. IsFiniteSet(models.history) /\ new \notin models.history
      BY <2>6, <2>9
    <3> HIDE DEF new
    <3>2. /\ IsFiniteSet(models.history \cup {new})
          /\ Cardinality(models.history \cup {new}) = Cardinality(models.history) + 1
      BY <3>1, FS_AddElement
    <3> QED
      BY <2>5, <3>2
  <2> HIDE DEF ids, n
  <2>11. BookTypes'
    <3>1. models' \in [counter : Nat, callId : [Turns -> Nat],
                       pending : SUBSET [call : Nat, turn : Turns], history : SUBSET ModelEntry]
      <4>1. models' = [models EXCEPT !.callId = models'.callId, !.pending = models'.pending,
                                     !.history = models'.history]
        BY <1>4, <2>4, <2>5 DEF BookTypes
      <4>2. /\ models'.callId \in [Turns -> Nat] /\ models'.pending \in SUBSET [call : Nat, turn : Turns]
            /\ models'.history \in SUBSET ModelEntry
        BY <2>5, <2>6, <2>7
      <4> QED
        BY <1>4, <4>1, <4>2 DEF BookTypes
    <3> QED
      BY <1>2, <1>3, <1>4, <1>5, <2>10, <3>1 DEF BookTypes
  <2>12. models'.pending = {[call |-> models'.callId[u], turn |-> u] : u \in Asked'}
    <3>1. \A u \in Asked : u # t => [call |-> models.callId[u], turn |-> u] # [call |-> n, turn |-> t]
      OBVIOUS
    <3>2. [call |-> models.callId[t], turn |-> t] = [call |-> n, turn |-> t]
      BY DEF n
    <3>3. models'.pending = {[call |-> models.callId[u], turn |-> u] : u \in Asked \ {t}}
      BY <2>1, <2>5, <3>1, <3>2
    <3> QED
      BY <1>3, <2>8, <3>3
  <2>13. Cardinality(models'.history) + Cardinality(Asked') = models'.counter
    <3>1. Asked \subseteq Begun
      BY DEF Asked, Begun
    <3>2. IsFiniteSet(Asked)
      BY <3>1, <1>4, FS_Subset
    <3>3. Cardinality(Asked') = Cardinality(Asked) - 1
      BY <1>1, <1>3, <3>2, FS_RemoveElement
    <3>4. Cardinality(Asked) \in Nat /\ Cardinality(models.history) \in Nat
      BY <3>2, <2>6, FS_CardinalityType
    <3> QED
      BY <2>1, <2>5, <2>10, <3>3, <3>4
  <2>14. ModelBook'
    <3>1. \A u \in Asked' : models'.callId[u] \in 1 .. models'.counter
      BY <2>1, <2>5, <2>8
    <3>2. \A u, v \in Asked' : models'.callId[u] = models'.callId[v] => u = v
      BY <2>1, <2>8
    <3>3. \A e \in models'.history :
            e.call \in 1 .. models'.counter /\ \A u \in Asked' : e.call # models'.callId[u]
      BY <2>1, <2>5, <2>8, <2>9
    <3>4. \A e \in models'.history : e.began = e.answered
      BY <2>1, <2>5
    <3> QED
      BY <1>3, <1>8, <2>12, <2>13, <3>1, <3>2, <3>3, <3>4 DEF ModelBook
  <2> QED
    BY <1>1, <1>2, <1>6, <2>11, <2>14, Untouched DEF BookInv, CallBooks
<1> QED
  BY <1>7, <1>8

LEMMA OpeningBooks ==
    ASSUME IInv, BookInv, NEW c \in CallIds, BeforeToolCall(c)
    PROVE  BookInv'
<1>1. /\ Moves(Open \cup {c}, Closed, Asked, Begun, Ended) /\ OpenInTools'
      /\ c \notin Open /\ c \notin Closed
  BY Opening DEF BookInv
<1>2. /\ audit' = audit \cup {[call |-> c, status |-> "started"]}
      /\ telemetry' = [telemetry EXCEPT !.pending = @ \cup {c}]
      /\ recording' = IF Has("SessionRecordingHook") THEN [recording EXCEPT !.pending = @ \cup {c}] ELSE recording
      /\ spans' = IF Has("OTELSpanHook") THEN [spans EXCEPT !.active = @ \cup {c}] ELSE spans
      /\ UNCHANGED <<models, business, captured, overlapped>>
  BY DEF BeforeToolCall, AuditBefore, TelemetryBefore, RecordingBefore, SpanBefore
<1>3. /\ Open' = Open \cup {c} /\ Closed' = Closed /\ Asked' = Asked /\ Begun' = Begun /\ Ended' = Ended
      /\ \A h : Has(h)' = Has(h)
  BY <1>1 DEF Moves, Has
<1>4. BookTypes /\ AuditBook /\ TelemetryBook /\ RecordingBook /\ SpanBook /\ TurnBook
  BY DEF BookInv, CallBooks
<1>5. BookTypes'
  <2>1. telemetry' \in [current : Invocation, invocations : SUBSET Invocation,
                        pending : SUBSET CallIds, calls : SUBSET CallEntry]
    BY <1>2, <1>4 DEF BookTypes
  <2>2. recording' \in [pending : SUBSET CallIds, calls : SUBSET CallEntry, ends : Nat]
    BY <1>2, <1>4 DEF BookTypes
  <2>3. spans' \in [root : Turns \cup {NoTurn}, active : SUBSET (Turns \cup CallIds),
                    ended : SUBSET (Turns \cup CallIds)]
    BY <1>2, <1>4 DEF BookTypes
  <2> QED
    BY <1>2, <1>3, <1>4, <2>1, <2>2, <2>3 DEF BookTypes
<1>6. AuditBook'
  BY <1>2, <1>3, <1>4 DEF AuditBook
<1>7. TelemetryBook'
  BY <1>2, <1>3, <1>4 DEF TelemetryBook, Timed, BookTypes
<1>8. RecordingBook'
  BY <1>2, <1>3, <1>4 DEF RecordingBook, Timed, BookTypes
<1>9. SpanBook'
  BY <1>2, <1>3, <1>4 DEF SpanBook, BookTypes
<1>10. TurnBook'
  <2>1. telemetry'.current = telemetry.current /\ telemetry'.invocations = telemetry.invocations
    BY <1>2, <1>4 DEF BookTypes
  <2>2. \A u : ClosedOf(u)' = ClosedOf(u)
    BY <1>3 DEF ClosedOf
  <2> QED
    BY <1>2, <1>3, <1>4, <2>1, <2>2 DEF TurnBook
<1> QED
  BY <1>1, <1>2, <1>5, <1>6, <1>7, <1>8, <1>9, <1>10, Untouched DEF BookInv, CallBooks

LEMMA ClosingBooks ==
    ASSUME IInv, BookInv, NEW c \in CallIds, AfterToolCall(c)
    PROVE  BookInv'
<1> DEFINE timed == [call |-> c, timed |-> TRUE]
<1>1. /\ Moves(Open \ {c}, Closed \cup {c}, Asked, Begun, Ended) /\ OpenInTools'
      /\ c \in Open /\ c \notin Closed /\ c[1] \in Begun \ Ended
      /\ calls'[c].tool = calls[c].tool
  BY Closing DEF BookInv
<1>2. /\ audit' = audit \cup {[call |-> c, status |-> "completed"]}
      /\ telemetry' = TelemetryAfter(c) /\ recording' = RecordingAfter(c) /\ spans' = SpanAfter(c)
      /\ business' = IF Has("BusinessMetricsHook") THEN [business EXCEPT !.depth = @ + 1] ELSE business
      /\ captured' = IF Has("HallucinationDetectorHook") /\ calls[c].tool \in Watched
                     THEN captured \cup {c} ELSE captured
      /\ UNCHANGED <<models, overlapped>>
  BY DEF AfterToolCall, AuditAfter, BusinessAfter, Captured
<1>3. /\ Open' = Open \ {c} /\ Closed' = Closed \cup {c} /\ Asked' = Asked /\ Begun' = Begun /\ Ended' = Ended
      /\ \A h : Has(h)' = Has(h)
      /\ \A d \in Closed' : calls'[d].tool = calls[d].tool
  BY <1>1 DEF Moves, Has
<1>4. /\ BookTypes /\ AuditBook /\ TelemetryBook /\ RecordingBook /\ SpanBook /\ BusinessBook
      /\ CaptureBook /\ TurnBook /\ IsFiniteSet(Closed)
  BY DEF BookInv, CallBooks, BookTypes
<1>5. /\ IsFiniteSet(Closed \cup {c}) /\ Cardinality(Closed \cup {c}) = Cardinality(Closed) + 1
  BY <1>1, <1>4, FS_AddElement
<1>6. /\ telemetry'.pending = telemetry.pending \ {c} /\ telemetry'.calls = telemetry.calls \cup {timed}
      /\ telemetry'.current = Counted(telemetry.current)
      /\ telemetry'.invocations = telemetry.invocations
      /\ DOMAIN telemetry' = DOMAIN telemetry
  BY <1>1, <1>2, <1>4 DEF TelemetryAfter, BookTypes, TelemetryBook
<1>a. /\ ~Has("SessionRecordingHook") => recording' = recording
      /\ Has("SessionRecordingHook") =>
            recording' = [recording EXCEPT !.pending = @ \ {c}, !.calls = @ \cup {timed}]
  <2>1. CASE ~Has("SessionRecordingHook")
    BY <1>2, <2>1 DEF RecordingAfter
  <2>2. CASE Has("SessionRecordingHook")
    <3>1. c \in recording.pending
      BY <1>1, <1>4, <2>2 DEF RecordingBook
    <3>2. (c \in recording.pending) = TRUE
      BY <3>1
    <3>3. recording' = [recording EXCEPT !.pending = @ \ {c},
                          !.calls = @ \cup {[call |-> c, timed |-> c \in recording.pending]}]
      BY <1>2, <2>2 DEF RecordingAfter
    <3> QED
      BY <2>2, <3>2, <3>3
  <2> QED
    BY <2>1, <2>2
<1>7. BookTypes'
  <2>1. Counted(telemetry.current) \in Invocation
    <3>1. telemetry.current \in Invocation
      BY <1>4 DEF BookTypes
    <3> QED
      BY <3>1 DEF Counted, Invocation
  <2>2. timed \in CallEntry
    BY DEF CallEntry
  <2>3. telemetry' \in [current : Invocation, invocations : SUBSET Invocation,
                        pending : SUBSET CallIds, calls : SUBSET CallEntry]
    <3>1. telemetry' = [telemetry EXCEPT !.pending = telemetry'.pending, !.calls = telemetry'.calls,
                                         !.current = telemetry'.current]
      BY <1>2, <1>4, <1>6 DEF TelemetryAfter, BookTypes
    <3>2. /\ telemetry'.pending \in SUBSET CallIds /\ telemetry'.calls \in SUBSET CallEntry
          /\ telemetry'.current \in Invocation
      BY <1>4, <1>6, <2>1, <2>2 DEF BookTypes
    <3> QED
      BY <1>4, <3>1, <3>2 DEF BookTypes
  <2>4. recording' \in [pending : SUBSET CallIds, calls : SUBSET CallEntry, ends : Nat]
    <3> HIDE DEF timed
    <3>1. recording \in [pending : SUBSET CallIds, calls : SUBSET CallEntry, ends : Nat]
      BY <1>4 DEF BookTypes
    <3>2. CASE ~Has("SessionRecordingHook")
      BY <1>a, <3>1, <3>2
    <3>3. CASE Has("SessionRecordingHook")
      BY <1>a, <2>2, <3>1, <3>3
    <3> QED
      BY <3>2, <3>3
  <2>5. spans' \in [root : Turns \cup {NoTurn}, active : SUBSET (Turns \cup CallIds),
                    ended : SUBSET (Turns \cup CallIds)]
    BY <1>2, <1>4 DEF SpanAfter, BookTypes
  <2>6. business' \in [started : Nat, completed : Nat, depth : Nat]
    BY <1>2, <1>4 DEF BookTypes
  <2> QED
    BY <1>2, <1>3, <1>4, <1>5, <2>3, <2>4, <2>5, <2>6 DEF BookTypes
<1>8. AuditBook'
  BY <1>1, <1>2, <1>3, <1>4 DEF AuditBook
<1>9. TelemetryBook'
  BY <1>1, <1>3, <1>4, <1>6 DEF TelemetryBook, Timed
<1>10. RecordingBook'
  <2> SUFFICES ASSUME Has("SessionRecordingHook")
               PROVE  /\ recording'.pending = Open' /\ recording'.calls = Timed(Closed')
                      /\ recording'.ends = Cardinality(Ended')
    BY <1>3 DEF RecordingBook, Timed
  <2> HIDE DEF timed
  <2>1. /\ recording'.pending = recording.pending \ {c} /\ recording'.calls = recording.calls \cup {timed}
        /\ recording'.ends = recording.ends
    BY <1>4, <1>a DEF BookTypes
  <2>2. recording.pending = Open /\ recording.calls = Timed(Closed) /\ recording.ends = Cardinality(Ended)
    BY <1>4 DEF RecordingBook
  <2>3. Timed(Closed \cup {c}) = Timed(Closed) \cup {timed}
    BY DEF Timed, timed
  <2> QED
    BY <1>3, <2>1, <2>2, <2>3
<1>11. SpanBook'
  <2>1. CASE c \in spans.active
    <3>1. spans'.active = spans.active \ {c} /\ spans'.ended = spans.ended \cup {c} /\ spans'.root = spans.root
      BY <1>2, <1>4, <2>1 DEF SpanAfter, BookTypes
    <3>2. c \notin Asked
      BY TurnAssumption DEF Asked
    <3> QED
      BY <1>1, <1>3, <1>4, <3>1, <3>2 DEF SpanBook
  <2>2. CASE c \notin spans.active
    <3>1. spans' = spans
      BY <1>2, <2>2 DEF SpanAfter
    <3>2. ~Has("OTELSpanHook")
      BY <1>1, <1>4, <2>2 DEF SpanBook
    <3> QED
      BY <1>3, <1>4, <3>1, <3>2 DEF SpanBook
  <2> QED
    BY <2>1, <2>2
<1>12. BusinessBook'
  BY <1>2, <1>3, <1>4, <1>5 DEF BusinessBook, BookTypes
<1>13. CaptureBook'
  BY <1>2, <1>3, <1>4 DEF CaptureBook
<1>14. TurnBook'
  <2> SUFFICES ASSUME ~overlapped
               PROVE  TurnBook'
    BY <1>2 DEF TurnBook
  <2> DEFINE t == c[1]
  <2>1. /\ telemetry.current = [turn |-> t, tools |-> Cardinality(ClosedOf(t))]
        /\ telemetry.invocations = {[turn |-> u, tools |-> Cardinality(ClosedOf(u))] : u \in Ended}
        /\ \A u, v \in Begun \ Ended : u = v
    BY <1>1, <1>4 DEF TurnBook
  <2>2. IsFiniteSet(ClosedOf(t))
    BY <1>4, FS_Subset DEF ClosedOf
  <2>3. /\ ClosedOf(t)' = ClosedOf(t) \cup {c} /\ c \notin ClosedOf(t)
        /\ \A u : u # t => ClosedOf(u)' = ClosedOf(u)
    BY <1>1, <1>3 DEF ClosedOf
  <2>4. Cardinality(ClosedOf(t)') = Cardinality(ClosedOf(t)) + 1 /\ Cardinality(ClosedOf(t)) \in Nat
    BY <2>2, <2>3, FS_AddElement, FS_CardinalityType
  <2> DEFINE k == Cardinality(ClosedOf(t))
  <2>5. telemetry'.current = [turn |-> t, tools |-> Cardinality(ClosedOf(t)')]
    <3>1. t # NoTurn
      BY <1>1, TurnAssumption DEF Begun
    <3> HIDE DEF t, k
    <3>2. [turn |-> t, tools |-> k] # NoInvocation
      BY <3>1 DEF NoInvocation
    <3>3. Counted([turn |-> t, tools |-> k]) = [turn |-> t, tools |-> k + 1]
      BY <3>2 DEF Counted
    <3> QED
      BY <1>6, <2>1, <2>4, <3>3 DEF k
  <2>6. \A u \in Ended : u # t
    BY <1>1
  <2>7. \A u \in Begun \ Ended : u = t
    BY <1>1, <2>1
  <2>8. telemetry'.invocations = {[turn |-> u, tools |-> Cardinality(ClosedOf(u)')] : u \in Ended}
    BY <1>6, <2>1, <2>3, <2>6
  <2> QED
    BY <1>3, <2>5, <2>7, <2>8 DEF TurnBook
<1> QED
  BY <1>1, <1>2, <1>7, <1>8, <1>9, <1>10, <1>11, <1>12, <1>13, <1>14, Untouched DEF BookInv, CallBooks

LEMMA EndingBooks ==
    ASSUME IInv, BookInv, NEW t \in Turns, AfterInvocation(t)
    PROVE  BookInv'
<1>1. Moves(Open, Closed, Asked, Begun, Ended \cup {t}) /\ OpenInTools' /\ t \in Begun \ Ended
  BY Ending DEF BookInv
<1>2. /\ telemetry' = TelemetryEnds /\ spans' = RootSpanEnds
      /\ recording' = IF Has("SessionRecordingHook") THEN [recording EXCEPT !.ends = @ + 1] ELSE recording
      /\ business' = IF Has("BusinessMetricsHook") THEN [business EXCEPT !.completed = @ + 1] ELSE business
      /\ UNCHANGED <<audit, models, captured, overlapped>>
  BY DEF AfterInvocation, RecordingEnds, BusinessEnds
<1>3. /\ Open' = Open /\ Closed' = Closed /\ Asked' = Asked /\ Begun' = Begun /\ Ended' = Ended \cup {t}
      /\ \A h : Has(h)' = Has(h)
  BY <1>1 DEF Moves, Has
<1>4. /\ BookTypes /\ TelemetryBook /\ RecordingBook /\ SpanBook /\ BusinessBook /\ TurnBook
      /\ IsFiniteSet(Begun)
  BY DEF BookInv, CallBooks, BookTypes
<1>5. Cardinality(Ended \cup {t}) = Cardinality(Ended) + 1
  <2>1. Ended \subseteq Begun
    BY DEF Ended, Begun
  <2> QED
    BY <1>1, <1>4, <2>1, FS_Subset, FS_AddElement
<1>6. /\ telemetry'.pending = telemetry.pending /\ telemetry'.calls = telemetry.calls
      /\ telemetry.current # NoInvocation =>
            telemetry'.invocations = telemetry.invocations \cup {telemetry.current}
  BY <1>2, <1>4 DEF TelemetryEnds, BookTypes
<1>7. spans'.active = spans.active /\ spans.ended \subseteq spans'.ended /\ spans'.root = NoTurn
  BY <1>2, <1>4 DEF RootSpanEnds, BookTypes
<1>8. BookTypes'
  <2>1. NoInvocation \in Invocation
    BY DEF NoInvocation, Invocation
  <2>2. telemetry' \in [current : Invocation, invocations : SUBSET Invocation,
                        pending : SUBSET CallIds, calls : SUBSET CallEntry]
    BY <1>2, <1>4, <2>1 DEF TelemetryEnds, BookTypes
  <2>3. spans' \in [root : Turns \cup {NoTurn}, active : SUBSET (Turns \cup CallIds),
                    ended : SUBSET (Turns \cup CallIds)]
    BY <1>2, <1>4 DEF RootSpanEnds, BookTypes
  <2>4. recording' \in [pending : SUBSET CallIds, calls : SUBSET CallEntry, ends : Nat]
    BY <1>2, <1>4 DEF BookTypes
  <2>5. business' \in [started : Nat, completed : Nat, depth : Nat]
    BY <1>2, <1>4 DEF BookTypes
  <2> QED
    BY <1>2, <1>3, <1>4, <2>2, <2>3, <2>4, <2>5 DEF BookTypes
<1>9. TelemetryBook'
  BY <1>3, <1>4, <1>6 DEF TelemetryBook, Timed
<1>10. RecordingBook'
  BY <1>2, <1>3, <1>4, <1>5 DEF RecordingBook, Timed, BookTypes
<1>11. SpanBook'
  BY <1>3, <1>4, <1>7 DEF SpanBook
<1>12. BusinessBook'
  BY <1>2, <1>3, <1>4, <1>5 DEF BusinessBook, BookTypes
<1>13. TurnBook'
  <2> SUFFICES ASSUME ~overlapped
               PROVE  TurnBook'
    BY <1>2 DEF TurnBook
  <2>1. /\ telemetry.current = [turn |-> t, tools |-> Cardinality(ClosedOf(t))]
        /\ telemetry.invocations = {[turn |-> u, tools |-> Cardinality(ClosedOf(u))] : u \in Ended}
        /\ \A u, v \in Begun \ Ended : u = v
    BY <1>1, <1>4 DEF TurnBook
  <2>2. t # NoTurn
    BY TurnAssumption
  <2>3. telemetry.current # NoInvocation
    BY <2>1, <2>2 DEF NoInvocation
  <2>4. \A u : ClosedOf(u)' = ClosedOf(u)
    BY <1>3 DEF ClosedOf
  <2>5. Begun' \ Ended' = {}
    BY <1>1, <1>3, <2>1
  <2>6. telemetry'.invocations = {[turn |-> u, tools |-> Cardinality(ClosedOf(u))] : u \in Ended \cup {t}}
    BY <1>6, <2>1, <2>3
  <2> QED
    BY <1>3, <2>4, <2>5, <2>6 DEF TurnBook
<1> QED
  BY <1>1, <1>2, <1>8, <1>9, <1>10, <1>11, <1>12, <1>13, Untouched DEF BookInv, CallBooks

LEMMA InitBooks == Init => BookInv
<1> SUFFICES ASSUME Init
             PROVE  BookInv
  OBVIOUS
<1>1. /\ Open = {} /\ Closed = {} /\ Asked = {} /\ Begun = {} /\ Ended = {}
      /\ \A c \in CallIds : calls[c].state = "none"
  BY DEF Init, Open, Closed, Asked, Begun, Ended, NoCall
<1>2. /\ audit = {} /\ captured = {}
      /\ telemetry = [current |-> NoInvocation, invocations |-> {}, pending |-> {}, calls |-> {}]
      /\ recording = [pending |-> {}, calls |-> {}, ends |-> 0]
      /\ spans = [root |-> NoTurn, active |-> {}, ended |-> {}]
      /\ models = [counter |-> 0, callId |-> [t \in Turns |-> 0], pending |-> {}, history |-> {}]
      /\ business = [started |-> 0, completed |-> 0, depth |-> 0]
  BY DEF Init
<1>3. IsFiniteSet({}) /\ Cardinality({}) = 0
  BY FS_EmptySet
<1>4. BookTypes
  BY <1>1, <1>2, <1>3 DEF BookTypes, NoInvocation, Invocation
<1>5. OpenInTools
  BY <1>1 DEF OpenInTools
<1>6. AuditBook /\ TelemetryBook /\ RecordingBook
  BY <1>1, <1>2, <1>3 DEF AuditBook, TelemetryBook, RecordingBook, Timed
<1>7. SpanBook /\ BusinessBook /\ CaptureBook
  BY <1>1, <1>2, <1>3 DEF SpanBook, BusinessBook, CaptureBook
<1>8. ModelBook
  BY <1>1, <1>2, <1>3 DEF ModelBook
<1>9. TurnBook
  BY <1>1, <1>2 DEF TurnBook
<1> QED
  BY <1>4, <1>5, <1>6, <1>7, <1>8, <1>9 DEF BookInv, CallBooks

LEMMA NextBooks == IInv /\ BookInv /\ [Next]_vars => BookInv'
<1> SUFFICES ASSUME IInv, BookInv, [Next]_vars
             PROVE  BookInv'
  OBVIOUS
<1>1. CASE Unseen
  BY <1>1, ElapsingBooks
<1>2. ASSUME NEW t \in Turns,
             \/ Invoke(t) \/ InvokeClone(t) \/ BeforeModelCall(t) \/ ModelAsksForTools(t)
             \/ ModelEndsTurn(t) \/ AfterInvocation(t)
      PROVE  BookInv'
  BY <1>2, BeginningBooks, AskingModelBooks, AnsweringBooks, EndingBooks
<1>3. ASSUME NEW c \in CallIds, BeforeToolCall(c) \/ AfterToolCall(c)
      PROVE  BookInv'
  BY <1>3, OpeningBooks, ClosingBooks
<1> QED
  BY <1>1, <1>2, <1>3 DEF Next, Unseen

LEMMA InvAlways == Spec => [](IInv /\ BookInv)
  BY InitInv, NextInv, InitBooks, NextBooks, PTL DEF Spec

\* A call that was made and whose turn has ended is over.
LEMMA MadeClosed ==
    ASSUME IInv, OpenInTools, NEW c \in Made, phase[c[1]] # "tools"
    PROVE  c \in Closed
  BY CallFacts DEF OpenInTools, Closed, CallState, IInv, Made

\* Every hook's book is in step with the calls and turns as they begin and end,
\* whichever overlap: so when no turn is going on the books agree
\* (the on_before_ and on_after_ callbacks of the hooks).
THEOREM BooksAlwaysAgree == Spec => []BooksAgree
<1>1. IInv /\ BookInv => BooksAgree
  <2> SUFFICES ASSUME IInv, BookInv
               PROVE  BooksAgree
    OBVIOUS
  <2>1. /\ AuditBook /\ TelemetryBook /\ RecordingBook /\ SpanBook /\ BusinessBook /\ CaptureBook
        /\ ModelBook /\ BookTypes /\ OpenInTools
    BY DEF BookInv, CallBooks
  <2>2. \A e \in models.history : e.began = e.answered
    BY <2>1 DEF ModelBook
  <2>3. ASSUME \A t \in Turns : ~Running(t)
        PROVE  /\ Made = Closed /\ Open = {} /\ Asked = {} /\ Begun = Ended
    <3>1. \A c \in CallIds : c[1] \in Turns /\ phase[c[1]] # "tools"
      BY <2>3, TurnAssumption DEF Running
    <3>2. Made \subseteq Closed
      BY <2>1, <3>1, MadeClosed DEF Made
    <3>3. Closed \subseteq Made
      BY DEF Closed, Made
    <3>4. Open = {}
      BY <2>1, <3>1 DEF OpenInTools, Open
    <3>5. Asked = {} /\ Begun = Ended
      BY <2>3 DEF Asked, Begun, Ended, Running
    <3> QED
      BY <3>2, <3>3, <3>4, <3>5
  <2>4. ASSUME \A t \in Turns : ~Running(t)
        PROVE  LET ended == {t \in Turns : phase[t] = "ended"}
                   timed == {[call |-> c, timed |-> TRUE] : c \in Made}
               IN  /\ audit = [call : Made, status : {"started", "completed"}]
                   /\ telemetry.pending = {} /\ telemetry.calls = timed
                   /\ Has("SessionRecordingHook") =>
                         recording.pending = {} /\ recording.calls = timed /\ recording.ends = Cardinality(ended)
                   /\ Has("OTELSpanHook") => spans.active = {} /\ spans.root = NoTurn /\ Made \subseteq spans.ended
                   /\ Has("BusinessMetricsHook") =>
                         business = [started |-> Cardinality(ended), completed |-> Cardinality(ended),
                                     depth |-> Cardinality(Made)]
                   /\ Has("HallucinationDetectorHook") => captured = {c \in Made : calls[c].tool \in Watched}
                   /\ Has("ModelMetricsHook") => models.pending = {} /\ Cardinality(models.history) = models.counter
    <3>1. /\ Made = Closed /\ Open = {} /\ Asked = {} /\ Begun = Ended
          /\ Timed(Made) = {[call |-> c, timed |-> TRUE] : c \in Made}
          /\ Ended = {t \in Turns : phase[t] = "ended"}
      BY <2>3, <2>4 DEF Timed, Ended
    <3>2. audit = [call : Made, status : {"started", "completed"}]
      BY <2>1, <3>1 DEF AuditBook
    <3>3. telemetry.pending = {} /\ telemetry.calls = Timed(Made)
      BY <2>1, <3>1 DEF TelemetryBook
    <3>4. Has("SessionRecordingHook") =>
              recording.pending = {} /\ recording.calls = Timed(Made) /\ recording.ends = Cardinality(Ended)
      BY <2>1, <3>1 DEF RecordingBook
    <3>5. Has("OTELSpanHook") => spans.active = {} /\ spans.root = NoTurn /\ Made \subseteq spans.ended
      BY <2>1, <3>1 DEF SpanBook
    <3>6. Has("BusinessMetricsHook") =>
              business = [started |-> Cardinality(Ended), completed |-> Cardinality(Ended), depth |-> Cardinality(Made)]
      BY <2>1, <3>1 DEF BusinessBook, BookTypes
    <3>7. Has("HallucinationDetectorHook") => captured = {c \in Made : calls[c].tool \in Watched}
      BY <2>1, <3>1 DEF CaptureBook
    <3>8. Has("ModelMetricsHook") => models.pending = {} /\ Cardinality(models.history) = models.counter
      <4>1. IsFiniteSet(models.history) /\ models.counter \in Nat
        BY <2>1 DEF BookTypes
      <4>2. Cardinality(models.history) \in Nat /\ Cardinality({}) = 0
        BY <4>1, FS_CardinalityType, FS_EmptySet
      <4> QED
        BY <2>1, <3>1, <4>1, <4>2 DEF ModelBook
    <3> QED
      BY <3>1, <3>2, <3>3, <3>4, <3>5, <3>6, <3>7, <3>8
  <2> QED
    BY <2>2, <2>4 DEF BooksAgree
<1> QED
  BY <1>1, InvAlways, PTL

\* While turns do not overlap, the telemetry's invocation is always the one of
\* the running turn and no call is counted for another (TelemetryHook).
THEOREM TurnsAlwaysCounted == Spec => []TurnsCounted
<1>1. IInv /\ BookInv => TurnsCounted
  <2> SUFFICES ASSUME IInv, BookInv, ~overlapped
               PROVE  telemetry.invocations =
                          {[turn |-> t, tools |-> Cardinality({c \in Made : c[1] = t})] :
                               t \in {u \in Turns : phase[u] = "ended"}}
    BY DEF TurnsCounted
  <2>1. telemetry.invocations = {[turn |-> t, tools |-> Cardinality(ClosedOf(t))] : t \in Ended}
    BY DEF BookInv, TurnBook
  <2>2. \A t \in Ended : {c \in Made : c[1] = t} = ClosedOf(t)
    <3>1. \A t \in Ended : \A c \in Made : c[1] = t => c \in Closed
      BY MadeClosed DEF Ended, BookInv
    <3>2. Closed \subseteq Made
      BY DEF Closed, Made
    <3> QED
      BY <3>1, <3>2 DEF ClosedOf
  <2> QED
    BY <2>1, <2>2 DEF Ended
<1> QED
  BY <1>1, InvAlways, PTL

=============================================================================
