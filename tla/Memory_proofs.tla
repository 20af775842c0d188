---------------------------- MODULE Memory_proofs ----------------------------
(***************************************************************************)
(* Theorems about what agents remember. Of WorkspaceMemory, for any number *)
(* of agents and users, any templates and any gates: what holds wherever an*)
(* agent stops, and however long it takes between two lines. Of            *)
(* AgentMemory, for any number of requests, any callers and sessions, any  *)
(* templates that keep the actors apart, and any records of the service:   *)
(* what its searches find, what a new session is shown, and what becomes of*)
(* a conversation.                                                         *)
(***************************************************************************)
EXTENDS WorkspaceMemory, AgentMemory, ListFunctions_proofs, SequenceTheorems, FiniteSetTheorems, TLAPS

----------------------------------------------------------------------------
(* The workspaces of the agents *)

KnownActors == {d.actor[p] : d \in Deployments, p \in Agents}
Lock == [owner : Agents \cup {NoLock}, age : Nat]

\* The template and the actors are those of one deployment, for good.
Deployed == \E d \in Deployments : template = d.template /\ actor = d.actor

Typed ==
    /\ Deployed
    /\ DOMAIN pc = Agents
    /\ cached \in [Agents -> Nat]
    /\ DOMAIN mem = Agents
    /\ lock \in [AllFolders -> Lock \cup {NoLock}]
    /\ fileAge \in [AllFolders -> Nat]
    /\ insightAge \in [AllFolders -> Nat]
    /\ extracted \in [AllFolders -> Seq(KnownActors)]

\* The folder of an agent is one of those there are, its actor one of the known.
LEMMA FoldersKnown ==
    ASSUME Deployed, NEW p \in Agents
    PROVE  EffectiveWorkspace(p) \in AllFolders /\ actor[p] \in KnownActors
  BY DEF Deployed, EffectiveWorkspace, AllFolders, KnownActors

\* The newest of a sequence are some of it.
LEMMA LatestOf ==
    ASSUME NEW S, NEW seq \in Seq(S)
    PROVE  /\ Latest(seq) \in Seq(S)
           /\ \A i \in DOMAIN Latest(seq) : \E j \in DOMAIN seq : Latest(seq)[i] = seq[j]
<1>1. CASE Len(seq) <= Newest
  BY <1>1 DEF Latest
<1>2. CASE ~(Len(seq) <= Newest)
  <2>1. Newest \in Nat \ {0} /\ Len(seq) \in Nat
    BY GateAssumption
  <2>2. Latest(seq) = SubSeq(seq, Len(seq) - Newest + 1, Len(seq))
    BY <1>2 DEF Latest
  <2>3. Len(seq) - Newest + 1 \in 1 .. Len(seq) + 1
    BY <1>2, <2>1
  <2>4. /\ SubSeq(seq, Len(seq) - Newest + 1, Len(seq)) \in Seq(S)
        /\ Len(SubSeq(seq, Len(seq) - Newest + 1, Len(seq))) = Newest
        /\ \A i \in 1 .. Newest :
              SubSeq(seq, Len(seq) - Newest + 1, Len(seq))[i] = seq[Len(seq) - Newest + i]
    BY <2>1, <2>3
  <2>5. \A i \in 1 .. Newest : Len(seq) - Newest + i \in DOMAIN seq
    BY <1>2, <2>1
  <2>6. DOMAIN Latest(seq) = 1 .. Newest
    BY <2>2, <2>4
  <2>7. \A i \in DOMAIN Latest(seq) : Latest(seq)[i] = seq[Len(seq) - Newest + i]
    BY <2>2, <2>4, <2>6
  <2> QED
    BY <2>2, <2>4, <2>5, <2>6, <2>7
<1> QED
  BY <1>1, <1>2

\* What an agent extracts from its files is its own actor's.
LEMMA ExtractedOf ==
    ASSUME NEW p \in Agents, NEW n \in Nat, actor[p] \in KnownActors
    PROVE  /\ ExtractMemories(p, n) \in Seq(KnownActors)
           /\ \A i \in DOMAIN ExtractMemories(p, n) : ExtractMemories(p, n)[i] = actor[p]
  BY DEF ExtractMemories

\* The types at the start.
LEMMA TypedInit == Init => Typed
  BY GateAssumption DEF Init, Typed, Deployed

\* What a step may do to the folders and to the copies of the state keeps the
\* types.
LEMMA TypedStep ==
    ASSUME Typed, [Next]_vars
    PROVE  Typed'
<1> USE DEF Typed
<1>1. UNCHANGED <<template, actor>> => Deployed'
  BY DEF Deployed
<1>2. ASSUME NEW p \in Agents, Start(p)
      PROVE  Typed'
  <2>1. fileAge[EffectiveWorkspace(p)] \in Nat
    BY FoldersKnown
  <2> QED
    BY <1>1, <1>2, <2>1 DEF Start, LoadState, folderVars
<1>3. ASSUME NEW p \in Agents, Crash(p)
      PROVE  Typed'
  <2>1. \A d \in AllFolders : lock[d] # NoLock => [lock[d] EXCEPT !.owner = NoLock] \in Lock
    BY DEF Lock
  <2> QED
    BY <1>1, <1>3, <2>1 DEF Crash
<1>4. ASSUME NEW p \in Agents, BeforeInvocation(p) \/ LockExists(p) \/ StatLock(p) \/ Gather(p)
      PROVE  Typed'
  BY <1>1, <1>4 DEF BeforeInvocation, LockExists, StatLock, Gather, Goto, folderVars
<1>5. ASSUME NEW p \in Agents, UnlinkLock(p) \/ ReleaseLock(p)
      PROVE  Typed'
  BY <1>1, <1>5 DEF UnlinkLock, ReleaseLock, Goto
<1>6. ASSUME NEW p \in Agents, WriteLock(p)
      PROVE  Typed'
  <2>1. [owner |-> p, age |-> 0] \in Lock
    BY DEF Lock
  <2> QED
    BY <1>1, <1>6, <2>1 DEF WriteLock, Goto
<1>7. ASSUME NEW p \in Agents, Store(p) \/ Save(p)
      PROVE  Typed'
  <2>1. fileAge' \in [AllFolders -> Nat] /\ insightAge' \in [AllFolders -> Nat] /\ cached' \in [Agents -> Nat]
    <3>1. CASE Store(p)
      <4>1. \/ insightAge' = [insightAge EXCEPT ![EffectiveWorkspace(p)] = 0]
            \/ insightAge' = insightAge
        BY <3>1 DEF Store
      <4> QED
        BY <3>1, <4>1 DEF Store
    <3>2. CASE Save(p)
      <4>1. fileAge' = fileAge \/ fileAge' = [fileAge EXCEPT ![EffectiveWorkspace(p)] = 0]
        BY <3>2 DEF Save
      <4> QED
        BY <3>2, <4>1 DEF Save
    <3> QED
      BY <1>7, <3>1, <3>2
  <2>2. UNCHANGED <<template, actor, mem, lock, extracted>> /\ DOMAIN pc' = Agents
    BY <1>7 DEF Store, Save, Goto
  <2> QED
    BY <1>1, <2>1, <2>2
<1>8. ASSUME NEW p \in Agents, AfterInvocation(p)
      PROVE  Typed'
  <2> DEFINE d == EffectiveWorkspace(p)
  <2>1. PICK n \in 0 .. Newest : extracted' = [extracted EXCEPT ![d] = Latest(@ \o ExtractMemories(p, n))]
    BY <1>8 DEF AfterInvocation
  <2>2. d \in AllFolders /\ actor[p] \in KnownActors /\ n \in Nat
    BY FoldersKnown, GateAssumption
  <2>3. extracted[d] \o ExtractMemories(p, n) \in Seq(KnownActors)
    BY <2>2, ExtractedOf
  <2>4. Latest(extracted[d] \o ExtractMemories(p, n)) \in Seq(KnownActors)
    BY <2>3, LatestOf
  <2> HIDE DEF d
  <2> QED
    BY <1>1, <1>8, <2>1, <2>2, <2>4 DEF AfterInvocation, Goto
<1>9. ASSUME Tick
      PROVE  Typed'
  <2>1. \A n \in Nat : Capped(n + 1, TimeGate) \in Nat /\ Capped(n + 1, StaleAge) \in Nat
    BY GateAssumption DEF Capped
  <2>2. ASSUME NEW d \in AllFolders, lock[d] # NoLock
        PROVE  [lock[d] EXCEPT !.age = Capped(@ + 1, StaleAge)] \in Lock
    <3>1. lock[d] \in Lock
      BY <2>2
    <3>2. Capped(lock[d].age + 1, StaleAge) \in Nat
      BY <2>1, <3>1 DEF Lock
    <3> QED
      BY <3>1, <3>2 DEF Lock
  <2>3. cached' \in [Agents -> Nat] /\ fileAge' \in [AllFolders -> Nat] /\ insightAge' \in [AllFolders -> Nat]
    BY <1>9, <2>1 DEF Tick
  <2> QED
    BY <1>1, <1>9, <2>2, <2>3 DEF Tick
<1>10. CASE UNCHANGED vars
  BY <1>1, <1>10 DEF vars
<1>11. ASSUME NEW p \in Agents, Fail(p)
       PROVE  Typed'
  <2>1. lock' \in [AllFolders -> Lock \cup {NoLock}]
    <3>1. lock' = lock \/ lock' = [lock EXCEPT ![EffectiveWorkspace(p)] = [owner |-> NoLock, age |-> 0]]
      BY <1>11 DEF Fail, AcquireFails, ConsolidationFails, folderVars
    <3>2. [owner |-> NoLock, age |-> 0] \in Lock
      BY DEF Lock
    <3> QED
      BY <3>1, <3>2
  <2>2. /\ UNCHANGED <<template, actor, cached, mem, fileAge, insightAge, extracted>>
        /\ DOMAIN pc' = Agents
    BY <1>11 DEF Fail, AcquireFails, ConsolidationFails, Goto, folderVars
  <2> QED
    BY <1>1, <2>1, <2>2
<1> QED
  BY <1>2, <1>3, <1>4, <1>5, <1>6, <1>7, <1>8, <1>9, <1>10, <1>11 DEF Next, Step

\* Whatever was deployed and however long an agent takes, every part of the state
\* keeps its type: locks have an owner and an age, and what is extracted is some
\* actor's of the deployment.
THEOREM TypeCorrect == Spec => []Typed
  BY TypedInit, TypedStep, PTL DEF Spec

\* The template and the actors are never changed.
LEMMA SameFolders ==
    ASSUME [Next]_vars
    PROVE  /\ UNCHANGED <<template, actor>>
           /\ \A p \in Agents : EffectiveWorkspace(p)' = EffectiveWorkspace(p)
  BY DEF Next, vars, Start, Crash, BeforeInvocation, Step, LockExists, StatLock, UnlinkLock, WriteLock, Gather,
         Store, Save, ReleaseLock, AfterInvocation, Fail, AcquireFails, ConsolidationFails, Tick, EffectiveWorkspace

----------------------------------------------------------------------------
(* The lock file *)

\* As LockAccounted says, of every folder that any agent might work in.
OwnersHold ==
    \A d \in AllFolders : \A p \in Agents :
        lock[d] # NoLock /\ lock[d].owner = p => pc[p] \in Holding /\ EffectiveWorkspace(p) = d

\* A lock names an agent only while that agent works in the folder of the lock.
LEMMA OwnersHoldStep ==
    ASSUME Typed, OwnersHold, [Next]_vars
    PROVE  OwnersHold'
<1> USE DEF OwnersHold, Holding, Goto
<1>0. \A p \in Agents : EffectiveWorkspace(p)' = EffectiveWorkspace(p) /\ EffectiveWorkspace(p) \in AllFolders
  BY SameFolders, FoldersKnown DEF Typed
<1>1. ASSUME NEW p \in Agents, Start(p) \/ BeforeInvocation(p) \/ LockExists(p) \/ StatLock(p) \/ AfterInvocation(p)
      PROVE  OwnersHold'
  <2>1. pc[p] \notin Holding /\ lock' = lock /\ \A q \in Agents : q # p => pc'[q] = pc[q]
    BY <1>1 DEF Start, BeforeInvocation, LockExists, StatLock, AfterInvocation, folderVars, Typed
  <2> QED
    BY <1>0, <2>1
<1>2. ASSUME NEW p \in Agents, Gather(p) \/ Store(p) \/ Save(p)
      PROVE  OwnersHold'
  <2>1. pc'[p] \in Holding /\ lock' = lock /\ \A q \in Agents : q # p => pc'[q] = pc[q]
    BY <1>2 DEF Gather, Store, Save, folderVars, Typed
  <2> QED
    BY <1>0, <2>1
<1>3. ASSUME NEW p \in Agents, Crash(p)
      PROVE  OwnersHold'
  <2>1. \A d \in AllFolders : lock'[d] = IF lock[d] # NoLock /\ lock[d].owner = p
                                         THEN [lock[d] EXCEPT !.owner = NoLock] ELSE lock[d]
    BY <1>3 DEF Crash
  <2>2. \A d \in AllFolders : lock[d] # NoLock /\ lock[d].owner = p => lock'[d].owner = NoLock
    BY <2>1 DEF Typed, Lock
  <2>3. \A q \in Agents : q # p => pc'[q] = pc[q]
    BY <1>3 DEF Crash, Typed
  <2> QED
    BY <1>0, <2>1, <2>2, <2>3, NamesAssumption
<1>4. ASSUME NEW p \in Agents, UnlinkLock(p) \/ ReleaseLock(p)
      PROVE  OwnersHold'
  <2>1. /\ lock' = [lock EXCEPT ![EffectiveWorkspace(p)] = NoLock]
        /\ \A q \in Agents : q # p => pc'[q] = pc[q]
    BY <1>4 DEF UnlinkLock, ReleaseLock, Typed
  <2>2. \A d \in AllFolders : lock'[d] # NoLock => lock'[d] = lock[d] /\ d # EffectiveWorkspace(p)
    BY <1>0, <2>1 DEF Typed
  <2> QED
    BY <1>0, <2>1, <2>2
<1>5. ASSUME NEW p \in Agents, WriteLock(p)
      PROVE  OwnersHold'
  <2>1. pc[p] \notin Holding /\ \A q \in Agents : q # p => pc'[q] = pc[q]
    BY <1>5 DEF WriteLock, Typed
  <2>2. CASE lock' = lock
    BY <1>0, <2>1, <2>2
  <2>3. CASE lock' # lock
    <3>1. lock' = [lock EXCEPT ![EffectiveWorkspace(p)] = [owner |-> p, age |-> 0]] /\ pc'[p] = "gather"
      BY <1>5, <2>3 DEF WriteLock, Typed
    <3>2. \A d \in AllFolders : d # EffectiveWorkspace(p) => lock'[d] = lock[d]
      BY <3>1 DEF Typed
    <3>3. lock'[EffectiveWorkspace(p)].owner = p
      BY <1>0, <3>1 DEF Typed
    <3> QED
      BY <1>0, <2>1, <3>1, <3>2, <3>3
  <2> QED
    BY <2>2, <2>3
<1>6. ASSUME Tick
      PROVE  OwnersHold'
  <2>1. \A d \in AllFolders : lock'[d] = IF lock[d] = NoLock THEN NoLock
                                         ELSE [lock[d] EXCEPT !.age = Capped(@ + 1, StaleAge)]
    BY <1>6 DEF Tick
  <2>2. \A d \in AllFolders : lock[d] # NoLock => lock'[d].owner = lock[d].owner
    BY <2>1 DEF Typed, Lock
  <2> QED
    BY <1>0, <1>6, <2>1, <2>2 DEF Tick
<1>7. CASE UNCHANGED vars
  BY <1>0, <1>7 DEF vars
<1>8. ASSUME NEW p \in Agents, AcquireFails(p)
      PROVE  OwnersHold'
  <2>1. pc[p] \notin Holding /\ \A q \in Agents : q # p => pc'[q] = pc[q]
    BY <1>8 DEF AcquireFails, Typed
  <2>2. lock' = lock \/ lock' = [lock EXCEPT ![EffectiveWorkspace(p)] = [owner |-> NoLock, age |-> 0]]
    BY <1>8 DEF AcquireFails
  <2>3. \A d \in AllFolders : lock'[d] = lock[d] \/ lock'[d].owner = NoLock
    BY <1>0, <2>2 DEF Typed
  <2> QED
    BY <1>0, <2>1, <2>3, NamesAssumption
<1>9. ASSUME NEW p \in Agents, ConsolidationFails(p)
      PROVE  OwnersHold'
  <2>1. pc'[p] \in Holding /\ lock' = lock /\ \A q \in Agents : q # p => pc'[q] = pc[q]
    BY <1>9 DEF ConsolidationFails, folderVars, Typed
  <2> QED
    BY <1>0, <2>1
<1> QED
  BY <1>1, <1>2, <1>3, <1>4, <1>5, <1>6, <1>7, <1>8, <1>9 DEF Next, Step, Fail

\* A lock file that is there belongs to an agent that is within the
\* consolidation, or to one that stopped there or could not finish writing it:
\* no other path through on_before_invocation leaves one behind, whatever raises
\* (consolidation_hook.py).
THEOREM LocksAccounted == Spec => []LockAccounted
<1>1. Init => OwnersHold
  BY DEF Init, OwnersHold
<1>2. Typed /\ OwnersHold => LockAccounted
  BY FoldersKnown DEF OwnersHold, LockAccounted, Folders, Typed
<1> QED
  BY <1>1, <1>2, OwnersHoldStep, TypeCorrect, PTL DEF Spec

----------------------------------------------------------------------------
(* The time gate *)

Entering == {"lock_exists", "stat_lock", "unlink_lock", "write_lock", "gather"}

\* The copy of an agent that is aware of the newest insight is not older than
\* it; and an agent that is past its gates has found its copy old enough.
GateInv ==
    /\ \A p \in Agents \ unaware : cached[p] <= insightAge[EffectiveWorkspace(p)]
    /\ \A p \in Agents : pc[p] \in Entering => cached[p] >= TimeGate

\* No step breaks the gate: an insight is at least as old as an agent that takes
\* part has it cached, and whoever is let in has one of the age that the gate wants.
LEMMA GateStep ==
    ASSUME Typed, GateInv, [Next]_vars
    PROVE  GateInv'
<1> USE DEF GateInv, Entering, Goto
<1>0. /\ \A p \in Agents : EffectiveWorkspace(p)' = EffectiveWorkspace(p) /\ EffectiveWorkspace(p) \in AllFolders
      /\ TimeGate \in Nat
  BY SameFolders, FoldersKnown, GateAssumption DEF Typed
<1>1. ASSUME NEW p \in Agents, Start(p)
      PROVE  GateInv'
  <2>1. \A q \in Agents : q # p => pc'[q] = pc[q] /\ cached'[q] = cached[q] /\ (q \in unaware' <=> q \in unaware)
    BY <1>1 DEF Start, Typed
  <2>2. pc'[p] = "idle" /\ cached'[p] = fileAge[EffectiveWorkspace(p)] /\ insightAge' = insightAge
    BY <1>1 DEF Start, LoadState, folderVars, Typed
  <2>3. p \notin unaware' => ~(fileAge[EffectiveWorkspace(p)] > insightAge[EffectiveWorkspace(p)])
    BY <1>1 DEF Start
  <2>4. fileAge[EffectiveWorkspace(p)] \in Nat /\ insightAge[EffectiveWorkspace(p)] \in Nat
    BY <1>0 DEF Typed
  <2> QED
    BY <1>0, <2>1, <2>2, <2>3, <2>4
<1>2. ASSUME NEW p \in Agents,
             \/ Crash(p) \/ BeforeInvocation(p) \/ LockExists(p) \/ StatLock(p) \/ UnlinkLock(p) \/ WriteLock(p)
             \/ Gather(p) \/ ReleaseLock(p) \/ AfterInvocation(p) \/ AcquireFails(p) \/ ConsolidationFails(p)
      PROVE  GateInv'
  <2>1. cached' = cached /\ insightAge' = insightAge /\ unaware' = unaware
    BY <1>2 DEF Crash, BeforeInvocation, LockExists, StatLock, UnlinkLock, WriteLock, Gather, ReleaseLock,
                AfterInvocation, AcquireFails, ConsolidationFails, folderVars
  <2>2. \A q \in Agents : q # p => pc'[q] = pc[q]
    BY <1>2 DEF Crash, BeforeInvocation, LockExists, StatLock, UnlinkLock, WriteLock, Gather, ReleaseLock,
                AfterInvocation, AcquireFails, ConsolidationFails, Typed
  <2>3. pc'[p] \in Entering => pc[p] \in Entering \/ cached[p] >= TimeGate
    BY <1>2 DEF Crash, BeforeInvocation, LockExists, StatLock, UnlinkLock, WriteLock, Gather, ReleaseLock,
                AfterInvocation, AcquireFails, ConsolidationFails, Typed
  <2> QED
    BY <1>0, <2>1, <2>2, <2>3
<1>3. ASSUME NEW p \in Agents, Store(p)
      PROVE  GateInv'
  <2> DEFINE d == EffectiveWorkspace(p)
  <2>1. cached' = cached /\ pc'[p] = "save" /\ \A q \in Agents : q # p => pc'[q] = pc[q]
    BY <1>3 DEF Store, Typed
  <2>2. \/ /\ insightAge' = [insightAge EXCEPT ![d] = 0]
           /\ unaware' = unaware \cup {q \in Agents : EffectiveWorkspace(q) = d}
        \/ insightAge' = insightAge /\ unaware' = unaware
    BY <1>3 DEF Store
  <2>3. \A q \in Agents \ unaware' : q \notin unaware /\ insightAge'[EffectiveWorkspace(q)] = insightAge[EffectiveWorkspace(q)]
    BY <1>0, <2>2 DEF Typed
  <2> QED
    BY <1>0, <2>1, <2>3
<1>4. ASSUME NEW p \in Agents, Save(p)
      PROVE  GateInv'
  <2>1. /\ cached'[p] = 0 /\ pc'[p] = "release" /\ insightAge' = insightAge /\ unaware' = unaware \ {p}
        /\ \A q \in Agents : q # p => pc'[q] = pc[q] /\ cached'[q] = cached[q]
    BY <1>4 DEF Save, Typed
  <2>2. insightAge[EffectiveWorkspace(p)] \in Nat
    BY <1>0 DEF Typed
  <2> QED
    BY <1>0, <2>1, <2>2
<1>5. ASSUME Tick
      PROVE  GateInv'
  <2>1. \A n, m \in Nat : n <= m => Capped(n + 1, TimeGate) <= Capped(m + 1, TimeGate)
    BY <1>0 DEF Capped
  <2>2. \A n \in Nat : n >= TimeGate => Capped(n + 1, TimeGate) >= TimeGate
    BY <1>0 DEF Capped
  <2>3. /\ \A p \in Agents : cached'[p] = Capped(cached[p] + 1, TimeGate)
        /\ \A d \in AllFolders : insightAge'[d] = Capped(insightAge[d] + 1, TimeGate)
        /\ pc' = pc /\ unaware' = unaware
    BY <1>5 DEF Tick
  <2>4. \A p \in Agents : cached[p] \in Nat /\ insightAge[EffectiveWorkspace(p)] \in Nat
    BY <1>0 DEF Typed
  <2> QED
    BY <1>0, <2>1, <2>2, <2>3, <2>4
<1>6. CASE UNCHANGED vars
  BY <1>0, <1>6 DEF vars
<1> QED
  BY <1>1, <1>2, <1>3, <1>4, <1>5, <1>6 DEF Next, Step, Fail

\* An agent whose copy of the state knows of the newest insight consolidates
\* only when that is a time gate old, however often agents are restarted
\* (consolidation_hook.py's first gate).
THEOREM GateKept == Spec => []TimeGateKept
<1>1. Init => GateInv
  <2> SUFFICES ASSUME Init
               PROVE  GateInv
    OBVIOUS
  <2>1. \A p \in Agents : EffectiveWorkspace(p) \in AllFolders
    BY TypedInit, FoldersKnown DEF Typed
  <2> QED
    BY <2>1, GateAssumption DEF Init, GateInv, Entering
<1>2. Typed /\ GateInv => TimeGateKept
  <2> SUFFICES ASSUME Typed, GateInv, NEW p \in Agents \ unaware, pc[p] = "gather"
               PROVE  insightAge[EffectiveWorkspace(p)] >= TimeGate
    BY DEF TimeGateKept
  <2>1. cached[p] \in Nat /\ insightAge[EffectiveWorkspace(p)] \in Nat /\ TimeGate \in Nat
    BY FoldersKnown, GateAssumption DEF Typed
  <2> QED
    BY <2>1 DEF GateInv, Entering
<1> QED
  BY <1>1, <1>2, GateStep, TypeCorrect, PTL DEF Spec

----------------------------------------------------------------------------
(* Whose memories *)

\* Where the template names the actor, the folder of an actor has what that
\* actor's agents have extracted.
OwnFolders ==
    template = "{actorId}" =>
        /\ \A d \in AllFolders \ {"{actorId}"} : \A i \in DOMAIN extracted[d] : extracted[d][i] = d
        /\ \A p \in Agents : actor[p] # NoActor => mem[p] \subseteq {actor[p]}

\* With the actor's id for a template, an agent's folder has the actor's name; only
\* an agent without an actor uses the one with the template's.
LEMMA OwnFolder ==
    ASSUME Deployed, NEW p \in Agents, template = "{actorId}"
    PROVE  IF actor[p] = NoActor THEN EffectiveWorkspace(p) = "{actorId}"
           ELSE EffectiveWorkspace(p) = actor[p] /\ actor[p] # "{actorId}"
  BY NamesAssumption DEF Deployed, EffectiveWorkspace, ComputeNamespace

\* The files that are read are counted.
LEMMA ExtractedNat ==
    ASSUME NEW n \in 0 .. Newest
    PROVE  n \in Nat
  BY GateAssumption

\* What is one actor's stays one actor's when more of it is added.
LEMMA ConcatOf ==
    ASSUME NEW s \in Seq(KnownActors), NEW t \in Seq(KnownActors), NEW v,
           \A i \in DOMAIN s : s[i] = v, \A i \in DOMAIN t : t[i] = v
    PROVE  s \o t \in Seq(KnownActors) /\ \A i \in DOMAIN (s \o t) : (s \o t)[i] = v
<1>1. /\ s \o t \in Seq(KnownActors) /\ DOMAIN (s \o t) = 1 .. Len(s) + Len(t) /\ Len(s) \in Nat /\ Len(t) \in Nat
      /\ DOMAIN s = 1 .. Len(s) /\ DOMAIN t = 1 .. Len(t)
  OBVIOUS
<1>2. \A i \in 1 .. Len(s) + Len(t) : (s \o t)[i] = IF i <= Len(s) THEN s[i] ELSE t[i - Len(s)]
  OBVIOUS
<1>3. \A i \in 1 .. Len(s) + Len(t) : IF i <= Len(s) THEN i \in DOMAIN s ELSE i - Len(s) \in DOMAIN t
  BY <1>1
<1> QED
  BY <1>1, <1>2, <1>3

\* No folder gets memories of a second actor.
LEMMA OwnFoldersStep ==
    ASSUME Typed, OwnFolders, [Next]_vars
    PROVE  OwnFolders'
<1> SUFFICES ASSUME template = "{actorId}"
             PROVE  OwnFolders'
  BY SameFolders DEF OwnFolders
<1> USE DEF OwnFolders
<1>0. UNCHANGED <<template, actor>>
  BY SameFolders
<1>a. Deployed
  BY DEF Typed
<1>b. \A p \in Agents : EffectiveWorkspace(p) \in AllFolders /\ actor[p] \in KnownActors
  BY <1>a, FoldersKnown
<1>c. \A p \in Agents : /\ actor[p] # NoActor => EffectiveWorkspace(p) = actor[p] /\ actor[p] # "{actorId}"
                        /\ actor[p] = NoActor => EffectiveWorkspace(p) = "{actorId}"
  BY <1>a, OwnFolder
<1>1. ASSUME NEW p \in Agents, Gather(p)
      PROVE  OwnFolders'
  <2>1. /\ extracted' = extracted
        /\ \A q \in Agents : q # p => mem'[q] = mem[q]
        /\ mem'[p] = {extracted[EffectiveWorkspace(p)][i] : i \in DOMAIN extracted[EffectiveWorkspace(p)]}
    BY <1>1 DEF Gather, folderVars, Typed
  <2>2. ASSUME actor[p] # NoActor
        PROVE  mem'[p] \subseteq {actor[p]}
    <3>1. EffectiveWorkspace(p) = actor[p] /\ actor[p] \in AllFolders \ {"{actorId}"}
      BY <2>2, <1>b, <1>c
    <3> QED
      BY <2>1, <3>1
  <2> QED
    BY <1>0, <2>1, <2>2
<1>2. ASSUME NEW p \in Agents, AfterInvocation(p)
      PROVE  OwnFolders'
  <2> DEFINE d == EffectiveWorkspace(p)
  <2>1. PICK n : n \in 0 .. Newest /\ extracted' = [extracted EXCEPT ![d] = Latest(@ \o ExtractMemories(p, n))]
    BY <1>2 DEF AfterInvocation
  <2>2. mem' = mem
    BY <1>2 DEF AfterInvocation
  <2>3. d \in AllFolders /\ actor[p] \in KnownActors
    BY <1>b
  <2>4. n \in Nat /\ extracted[d] \in Seq(KnownActors)
    <3> HIDE DEF d
    <3>2. n \in Nat
      BY <2>1, ExtractedNat
    <3> QED
      BY <2>3, <3>2 DEF Typed
  <2>5. \A e \in AllFolders : e # d => extracted'[e] = extracted[e]
    BY <2>1 DEF Typed
  <2>6. ASSUME d # "{actorId}"
        PROVE  \A i \in DOMAIN extracted'[d] : extracted'[d][i] = d
    <3> DEFINE new == ExtractMemories(p, n)
               all == extracted[d] \o new
    <3>1. actor[p] = d
      BY <2>6, <1>c
    <3>2. new \in Seq(KnownActors) /\ \A j \in DOMAIN new : new[j] = actor[p]
      BY <2>3, <2>4, ExtractedOf
    <3>3. \A j \in DOMAIN extracted[d] : extracted[d][j] = d
      <4> HIDE DEF d
      <4> QED
        BY <2>3, <2>6
    <3>4. extracted'[d] = Latest(all)
      BY <2>1, <2>3 DEF Typed
    <3> HIDE DEF new, d
    <3>5. all \in Seq(KnownActors) /\ \A j \in DOMAIN all : all[j] = d
      <4>1. \A j \in DOMAIN new : new[j] = d
        BY <3>1, <3>2
      <4> DEFINE old == extracted[d]
      <4>2. old \in Seq(KnownActors) /\ \A j \in DOMAIN old : old[j] = d
        BY <2>4, <3>3
      <4> HIDE DEF old
      <4>3. old \o new \in Seq(KnownActors) /\ \A j \in DOMAIN (old \o new) : (old \o new)[j] = d
        BY <3>2, <4>1, <4>2, ConcatOf
      <4> QED
        BY <4>3 DEF old
    <3> HIDE DEF all
    <3>6. \A i \in DOMAIN Latest(all) : \E j \in DOMAIN all : Latest(all)[i] = all[j]
      BY <3>5, LatestOf
    <3> QED
      BY <3>4, <3>5, <3>6
  <2> HIDE DEF d
  <2> QED
    BY <1>0, <2>2, <2>5, <2>6
<1>3. ASSUME \/ Tick \/ UNCHANGED vars
             \/ \E p \in Agents : \/ Start(p) \/ Crash(p) \/ BeforeInvocation(p) \/ LockExists(p) \/ StatLock(p)
                                  \/ UnlinkLock(p) \/ WriteLock(p) \/ Store(p) \/ Save(p) \/ ReleaseLock(p)
                                  \/ AcquireFails(p) \/ ConsolidationFails(p)
      PROVE  OwnFolders'
  <2>1. extracted' = extracted
    BY <1>3 DEF Tick, vars, folderVars, Start, Crash, BeforeInvocation, LockExists, StatLock, UnlinkLock, WriteLock,
                Store, Save, ReleaseLock, AcquireFails, ConsolidationFails
  <2>2. \A q \in Agents : mem'[q] = mem[q] \/ mem'[q] = {}
    BY <1>3 DEF Tick, vars, Start, Crash, BeforeInvocation, LockExists, StatLock, UnlinkLock, WriteLock,
                Store, Save, ReleaseLock, AcquireFails, ConsolidationFails, folderVars, Typed
  <2> QED
    BY <1>0, <2>1, <2>2
<1> QED
  BY <1>1, <1>2, <1>3 DEF Next, Step, Fail

\* Where the template names the actor, no agent that has one condenses what an
\* agent of another actor has extracted, whoever shares the workspace.
THEOREM MemoriesOwn == Spec => []OwnMemories
<1>1. Init => OwnFolders
  <2> SUFFICES ASSUME Init
               PROVE  OwnFolders
    OBVIOUS
  <2>1. \A d \in AllFolders : DOMAIN extracted[d] = {}
    BY DEF Init
  <2>2. \A p \in Agents : mem[p] = {}
    BY DEF Init
  <2> QED
    BY <2>1, <2>2 DEF OwnFolders
<1>2. OwnFolders => OwnMemories
  BY DEF OwnFolders, OwnMemories
<1> QED
  BY <1>1, <1>2, OwnFoldersStep, TypeCorrect, PTL DEF Spec

----------------------------------------------------------------------------
(* Rankings *)

StrictOrder(S, R) ==
    /\ IsFiniteSet(S)
    /\ \A x \in S : <<x, x>> \notin R
    /\ \A x, y \in S : x # y => <<x, y>> \in R \/ <<y, x>> \in R
    /\ \A x, y, z \in S : <<x, y>> \in R /\ <<y, z>> \in R => <<x, z>> \in R

Below(S, R, x) == {y \in S : <<y, x>> \in R}

\* What is further up in an order has more below it.
LEMMA BelowGrows ==
    ASSUME NEW S, NEW R, StrictOrder(S, R), NEW x \in S
    PROVE  /\ IsFiniteSet(Below(S, R, x)) /\ Cardinality(Below(S, R, x)) \in Nat
           /\ Cardinality(Below(S, R, x)) < Cardinality(S)
           /\ \A y \in S : <<x, y>> \in R =>
                Cardinality(Below(S, R, x)) < Cardinality(Below(S, R, y))
<1>0. IsFiniteSet(S) /\ Cardinality(S) \in Nat
  BY FS_CardinalityType DEF StrictOrder
<1>1. \A z \in S : /\ IsFiniteSet(Below(S, R, z)) /\ Cardinality(Below(S, R, z)) \in Nat
  <2> SUFFICES ASSUME NEW z \in S
               PROVE  IsFiniteSet(Below(S, R, z)) /\ Cardinality(Below(S, R, z)) \in Nat
    OBVIOUS
  <2>1. Below(S, R, z) \in SUBSET S
    BY DEF Below
  <2> QED
    BY <1>0, <2>1, FS_Subset, FS_CardinalityType
<1>2. Cardinality(Below(S, R, x)) < Cardinality(S)
  <2>1. Below(S, R, x) \in SUBSET S /\ Below(S, R, x) # S
    BY DEF Below, StrictOrder
  <2>2. Cardinality(Below(S, R, x)) <= Cardinality(S) /\ Cardinality(Below(S, R, x)) # Cardinality(S)
    BY <1>0, <2>1, FS_Subset
  <2> QED
    BY <1>0, <1>1, <2>2
<1>3. ASSUME NEW y \in S, <<x, y>> \in R
      PROVE  Cardinality(Below(S, R, x)) < Cardinality(Below(S, R, y))
  <2>1. Below(S, R, x) \in SUBSET Below(S, R, y) /\ Below(S, R, x) # Below(S, R, y)
    BY <1>3 DEF Below, StrictOrder
  <2>2. /\ Cardinality(Below(S, R, x)) <= Cardinality(Below(S, R, y))
        /\ Cardinality(Below(S, R, x)) # Cardinality(Below(S, R, y))
    BY <1>1, <2>1, FS_Subset
  <2> QED
    BY <1>1, <2>2
<1> QED
  BY <1>1, <1>2, <1>3

\* InOrder lists a finite set, each element once, in the order.
LEMMA Orders ==
    ASSUME NEW S, NEW R, StrictOrder(S, R)
    PROVE  /\ InOrder(S, R) \in Seq(S) /\ Len(InOrder(S, R)) = Cardinality(S) /\ Cardinality(S) \in Nat
           /\ \A m, n \in 1 .. Cardinality(S) : m < n => <<InOrder(S, R)[m], InOrder(S, R)[n]>> \in R
           /\ \A x \in S : \E n \in 1 .. Cardinality(S) : InOrder(S, R)[n] = x
<1> DEFINE N == Cardinality(S)
           order == InOrder(S, R)
           rank == [x \in S |-> Cardinality(Below(S, R, x)) + 1]
<1>0. IsFiniteSet(S) /\ N \in Nat /\ IsFiniteSet(1 .. N) /\ Cardinality(1 .. N) = N
  BY FS_CardinalityType, FS_Interval DEF StrictOrder
<1>1. \A x \in S : rank[x] = Cardinality(Below(S, R, x)) + 1 /\ Cardinality(Below(S, R, x)) \in Nat
                   /\ rank[x] \in 1 .. N
  BY <1>0, BelowGrows
<1>2. \A x, y \in S : <<x, y>> \in R => rank[x] < rank[y]
  BY <1>1, BelowGrows
<1>3. rank \in [S -> 1 .. N]
  BY <1>1
<1> HIDE DEF rank
<1>4. rank \in Injection(S, 1 .. N)
  <2>1. \A x, y \in S : rank[x] = rank[y] => x = y
    <3> SUFFICES ASSUME NEW x \in S, NEW y \in S, rank[x] = rank[y], x # y PROVE FALSE
      OBVIOUS
    <3>1. <<x, y>> \in R \/ <<y, x>> \in R
      BY DEF StrictOrder
    <3>2. rank[x] \in Nat /\ rank[y] \in Nat
      BY <1>0, <1>1
    <3> QED
      BY <1>2, <3>1, <3>2
  <2> QED
    BY <1>3, <2>1 DEF Injection, IsInjective
<1>5. rank \in Surjection(S, 1 .. N)
  BY <1>0, <1>4, FS_Injection
<1>6. \A n \in 1 .. N : \E x \in S : rank[x] = n
  BY <1>5 DEF Surjection
<1>7. order = [n \in 1 .. N |-> CHOOSE x \in S : Cardinality(Below(S, R, x)) = n - 1]
  BY DEF InOrder, Below
<1> HIDE DEF order, N
<1>8. ASSUME NEW n \in 1 .. N PROVE order[n] \in S /\ rank[order[n]] = n
  <2>1. \E x \in S : Cardinality(Below(S, R, x)) = n - 1
    <3>1. PICK x \in S : rank[x] = n
      BY <1>6
    <3> QED
      BY <1>1, <3>1
  <2>2. order[n] \in S /\ Cardinality(Below(S, R, order[n])) = n - 1
    BY <1>7, <2>1
  <2> QED
    BY <1>0, <1>1, <2>2
<1>9. order \in Seq(S) /\ Len(order) = N
  <2>1. order \in [1 .. N -> S]
    BY <1>7, <1>8
  <2> QED
    BY <1>0, <2>1
<1>10. ASSUME NEW m \in 1 .. N, NEW n \in 1 .. N, m < n
       PROVE  <<order[m], order[n]>> \in R
  <2>1. order[m] \in S /\ order[n] \in S /\ order[m] # order[n]
    BY <1>0, <1>8, <1>10
  <2>2. <<order[n], order[m]>> \in R => n < m
    BY <1>2, <1>8, <2>1
  <2> QED
    BY <1>0, <1>10, <2>1, <2>2 DEF StrictOrder
<1>11. ASSUME NEW x \in S PROVE \E n \in 1 .. N : order[n] = x
  <2>1. rank[x] \in 1 .. N
    BY <1>1
  <2>2. order[rank[x]] \in S /\ rank[order[rank[x]]] = rank[x]
    BY <1>8, <2>1
  <2>3. order[rank[x]] = x
    BY <1>3, <1>4, <2>2 DEF Injection, IsInjective
  <2> QED
    BY <2>1, <2>3
<1>12. /\ order \in Seq(S) /\ Len(order) = N /\ N \in Nat
       /\ \A m, n \in 1 .. N : m < n => <<order[m], order[n]>> \in R
       /\ \A x \in S : \E n \in 1 .. N : order[n] = x
  BY <1>0, <1>9, <1>10, <1>11
<1> QED
  BY <1>12 DEF order, N

\* ByScore puts the entries of a list in another order, by their scores.
LEMMA ScoresOrdered ==
    ASSUME NEW S, \A x \in S : x.score \in Int, NEW s \in Seq(S)
    PROVE  StrictOrder(DOMAIN s, Ahead(s))
<1>0. Len(s) \in Nat /\ DOMAIN s = 1 .. Len(s) /\ \A n \in DOMAIN s : s[n] \in S /\ s[n].score \in Int
  BY Entries
<1>1. IsFiniteSet(DOMAIN s)
  BY <1>0, FS_Interval
<1>2. \A i, j \in DOMAIN s : <<i, j>> \in Ahead(s) <=>
         s[i].score > s[j].score \/ (s[i].score = s[j].score /\ i < j)
  BY DEF Ahead
<1> DEFINE points == [n \in DOMAIN s |-> s[n].score]
<1>3. \A n \in DOMAIN s : points[n] \in Int /\ points[n] = s[n].score
  BY <1>0
<1> HIDE DEF points
<1>4. \A i, j \in DOMAIN s : <<i, j>> \in Ahead(s) <=>
         points[i] > points[j] \/ (points[i] = points[j] /\ i < j)
  BY <1>2, <1>3
<1>5. \A i \in DOMAIN s : <<i, i>> \notin Ahead(s)
  BY <1>0, <1>3, <1>4
<1>6. \A i, j \in DOMAIN s : i # j => <<i, j>> \in Ahead(s) \/ <<j, i>> \in Ahead(s)
  BY <1>0, <1>3, <1>4
<1>7. \A i, j, k \in DOMAIN s :
         <<i, j>> \in Ahead(s) /\ <<j, k>> \in Ahead(s) => <<i, k>> \in Ahead(s)
  <2> SUFFICES ASSUME NEW i \in DOMAIN s, NEW j \in DOMAIN s, NEW k \in DOMAIN s,
                      <<i, j>> \in Ahead(s), <<j, k>> \in Ahead(s)
               PROVE  <<i, k>> \in Ahead(s)
    OBVIOUS
  <2>1. /\ points[i] \in Int /\ points[j] \in Int /\ points[k] \in Int
        /\ i \in Int /\ j \in Int /\ k \in Int
    BY <1>0, <1>3
  <2>2. /\ points[i] > points[j] \/ (points[i] = points[j] /\ i < j)
        /\ points[j] > points[k] \/ (points[j] = points[k] /\ j < k)
    BY <1>4
  <2>3. points[i] > points[k] \/ (points[i] = points[k] /\ i < k)
    BY <2>1, <2>2
  <2> QED
    BY <1>4, <2>3
<1> QED
  BY <1>1, <1>5, <1>6, <1>7 DEF StrictOrder

\* ByScore gives every entry, and nothing else, the best first.
LEMMA Sorted ==
    ASSUME NEW S, \A x \in S : x.score \in Int, NEW s \in Seq(S)
    PROVE  /\ ByScore(s) \in Seq(S) /\ Len(ByScore(s)) = Len(s)
           /\ \A i, j \in 1 .. Len(s) : i <= j => ByScore(s)[i].score >= ByScore(s)[j].score
           /\ \A i \in 1 .. Len(s) : \E n \in 1 .. Len(s) : ByScore(s)[i] = s[n]
           /\ \A n \in 1 .. Len(s) : \E i \in 1 .. Len(s) : ByScore(s)[i] = s[n]
<1> DEFINE N == Len(s)
           D == DOMAIN s
           order == InOrder(D, Ahead(s))
           b == ByScore(s)
<1>0. N \in Nat /\ D = 1 .. N /\ \A n \in 1 .. N : s[n] \in S /\ s[n].score \in Int
  BY Entries
<1>1. StrictOrder(D, Ahead(s))
  BY ScoresOrdered
<1>2. Cardinality(D) = N
  <2>1. N \in Nat
    BY <1>0
  <2> HIDE DEF N
  <2>2. Cardinality(1 .. N) = N
    BY <2>1, FS_Interval
  <2> QED
    BY <1>0, <2>2
<1>3. /\ order \in Seq(D) /\ Len(order) = N
      /\ \A m, n \in 1 .. N : m < n => <<order[m], order[n]>> \in Ahead(s)
      /\ \A x \in D : \E n \in 1 .. N : order[n] = x
  <2> DEFINE R == Ahead(s)
  <2>1. StrictOrder(D, R)
    BY <1>1
  <2> HIDE DEF D, R, N
  <2>2. /\ InOrder(D, R) \in Seq(D) /\ Len(InOrder(D, R)) = Cardinality(D) /\ Cardinality(D) \in Nat
        /\ \A m, n \in 1 .. Cardinality(D) : m < n => <<InOrder(D, R)[m], InOrder(D, R)[n]>> \in R
        /\ \A x \in D : \E n \in 1 .. Cardinality(D) : InOrder(D, R)[n] = x
    BY <2>1, Orders
  <2> QED
    BY <1>2, <2>2 DEF R
<1>4. b = [i \in D |-> s[order[i]]]
  BY DEF ByScore
<1> HIDE DEF order, b, N, D
<1>5. \A i \in 1 .. N : order[i] \in 1 .. N
  <2>1. order \in Seq(D) /\ Len(order) = N
    BY <1>3
  <2>2. \A i \in 1 .. N : order[i] \in D
    BY <2>1
  <2> QED
    BY <1>0, <2>2
<1>6. \A i \in 1 .. N : b[i] = s[order[i]]
  BY <1>0, <1>4
<1>7. b \in Seq(S) /\ Len(b) = N
  <2>1. b \in [1 .. N -> S]
    BY <1>0, <1>4, <1>5
  <2> QED
    BY <1>0, <2>1
<1>8. \A i, j \in D : <<i, j>> \in Ahead(s) => s[i].score >= s[j].score
  <2> SUFFICES ASSUME NEW i \in D, NEW j \in D, <<i, j>> \in Ahead(s)
               PROVE  s[i].score >= s[j].score
    OBVIOUS
  <2>1. s[i].score > s[j].score \/ s[i].score = s[j].score
    BY DEF Ahead, D
  <2>2. s[i].score \in Int /\ s[j].score \in Int
    BY <1>0
  <2> QED
    BY <2>1, <2>2
<1>9. ASSUME NEW i \in 1 .. N, NEW j \in 1 .. N, i <= j
      PROVE  b[i].score >= b[j].score
  <2>1. CASE i = j
    <3>1. b[i].score \in Int
      BY <1>0, <1>5, <1>6
    <3> QED
      BY <2>1, <3>1
  <2>2. CASE i # j
    <3>1. <<order[i], order[j]>> \in Ahead(s)
      BY <1>0, <1>3, <1>9, <2>2
    <3>2. s[order[i]].score >= s[order[j]].score
      BY <1>0, <1>5, <1>8, <3>1
    <3> QED
      BY <1>6, <3>2
  <2> QED
    BY <2>1, <2>2
<1>10. \A i \in 1 .. N : \E n \in 1 .. N : b[i] = s[n]
  BY <1>5, <1>6
<1>11. \A n \in 1 .. N : \E i \in 1 .. N : b[i] = s[n]
  <2> SUFFICES ASSUME NEW n \in 1 .. N PROVE \E i \in 1 .. N : b[i] = s[n]
    OBVIOUS
  <2>1. n \in D
    BY <1>0
  <2>2. PICK i \in 1 .. N : order[i] = n
    BY <1>3, <2>1
  <2> QED
    BY <1>6, <2>2
<1> QED
  BY <1>7, <1>9, <1>10, <1>11 DEF b, N

\* FirstOfEach keeps entries of a list, in their order: of each key the first.
Keeps(f, place, s, key) ==
    /\ place \in [1 .. Len(f) -> 1 .. Len(s)]
    /\ \A i \in 1 .. Len(f) : f[i] = s[place[i]]
    /\ \A i, j \in 1 .. Len(f) : i < j => place[i] < place[j] /\ key[place[i]] # key[place[j]]
    /\ \A n \in 1 .. Len(s) : \E i \in 1 .. Len(f) : place[i] <= n /\ key[place[i]] = key[n]

\* FirstOfEach leaves out an entry only for an earlier one with its key.
LEMMA FirstKept ==
    ASSUME NEW S, NEW s \in Seq(S), NEW key
    PROVE  /\ FirstOfEach(s, key) \in Seq(S)
           /\ \E place : Keeps(FirstOfEach(s, key), place, s, key)
<1> DEFINE N == Len(s)
           new == {i \in DOMAIN s : \A j \in 1 .. i - 1 : key[j] # key[i]}
           before == {p \in new \X new : p[1] < p[2]}
           place == InOrder(new, before)
           f == FirstOfEach(s, key)
           M == Cardinality(new)
<1>0. N \in Nat /\ DOMAIN s = 1 .. N /\ \A n \in 1 .. N : s[n] \in S
  BY Entries
<1>1. new \in SUBSET (1 .. N) /\ \A i \in new : \A j \in 1 .. i - 1 : key[j] # key[i]
  BY <1>0
<1>2. \A i, j \in new : <<i, j>> \in before <=> i < j
  OBVIOUS
<1>3. \A n \in 1 .. N : \E i \in new : i <= n /\ key[i] = key[n]
  <2> SUFFICES ASSUME NEW n \in 1 .. N PROVE \E i \in new : i <= n /\ key[i] = key[n]
    OBVIOUS
  <2> DEFINE Same == {i \in 1 .. N : key[i] = key[n]}
  <2>1. Same \subseteq Nat /\ n \in Same
    BY <1>0
  <2>2. PICK i \in Same : \A j \in Same : <<j, i>> \notin OpToRel(<, Nat)
    <3> HIDE DEF Same
    <3> QED
      BY <2>1, NatLessThanWellFounded, WFMin
  <2>3. \A j \in Same : ~(j < i)
    BY <2>1, <2>2 DEF OpToRel
  <2>4. i \in 1 .. N /\ i <= n /\ key[i] = key[n]
    BY <1>0, <2>1, <2>3
  <2>5. \A j \in 1 .. i - 1 : key[j] # key[i]
    <3> SUFFICES ASSUME NEW j \in 1 .. i - 1, key[j] = key[i] PROVE FALSE
      OBVIOUS
    <3>1. j \in 1 .. N /\ j < i
      BY <1>0, <2>4
    <3>2. j \in Same
      BY <2>4, <3>1
    <3> QED
      BY <2>3, <3>1, <3>2
  <2> QED
    BY <1>0, <2>4, <2>5
<1> HIDE DEF new
<1>4. StrictOrder(new, before)
  <2>1. IsFiniteSet(new)
    <3>1. IsFiniteSet(1 .. N)
      BY <1>0, FS_Interval
    <3> QED
      BY <1>1, <3>1, FS_Subset
  <2>2. new \subseteq Int
    BY <1>1
  <2> HIDE DEF before
  <2> QED
    BY <1>2, <2>1, <2>2 DEF StrictOrder
<1>5. /\ place \in Seq(new) /\ Len(place) = M /\ M \in Nat
      /\ \A m, n \in 1 .. M : m < n => <<place[m], place[n]>> \in before
      /\ \A x \in new : \E n \in 1 .. M : place[n] = x
  <2> HIDE DEF before
  <2>1. /\ InOrder(new, before) \in Seq(new) /\ Len(InOrder(new, before)) = Cardinality(new)
        /\ Cardinality(new) \in Nat
        /\ \A m, n \in 1 .. Cardinality(new) :
              m < n => <<InOrder(new, before)[m], InOrder(new, before)[n]>> \in before
        /\ \A x \in new : \E n \in 1 .. Cardinality(new) : InOrder(new, before)[n] = x
    BY <1>4, Orders
  <2> QED
    BY <2>1
<1>6. f = [i \in DOMAIN place |-> s[place[i]]]
  BY DEF FirstOfEach, new
<1> HIDE DEF place, f, M, before, N
<1>7. \A m \in 1 .. M : place[m] \in new
  BY <1>5
<1>8. DOMAIN place = 1 .. M
  BY <1>5
<1>9. f \in Seq(S) /\ Len(f) = M /\ \A i \in 1 .. M : f[i] = s[place[i]]
  <2>1. f \in [1 .. M -> S]
    BY <1>0, <1>1, <1>6, <1>7, <1>8
  <2> QED
    BY <1>5, <1>6, <1>8, <2>1
<1>10. place \in [1 .. M -> 1 .. N]
  <2>1. place \in [1 .. M -> new]
    BY <1>5
  <2> QED
    BY <1>1, <2>1
<1>11. ASSUME NEW m \in 1 .. M, NEW n \in 1 .. M, m < n
       PROVE  place[m] < place[n] /\ key[place[m]] # key[place[n]]
  <2>1. <<place[m], place[n]>> \in before /\ place[m] \in new /\ place[n] \in new
    BY <1>5, <1>7, <1>11
  <2>2. place[m] < place[n] /\ place[m] \in 1 .. N /\ place[n] \in 1 .. N
    BY <1>1, <1>2, <2>1
  <2>3. place[m] \in 1 .. place[n] - 1
    BY <2>2
  <2> QED
    BY <1>1, <2>1, <2>2, <2>3
<1>12. \A n \in 1 .. N : \E i \in 1 .. M : place[i] <= n /\ key[place[i]] = key[n]
  BY <1>3, <1>5
<1>13. Keeps(f, place, s, key)
  BY <1>9, <1>10, <1>11, <1>12 DEF Keeps, N
<1> QED
  BY <1>9, <1>13 DEF f

\* Nothing costs nothing.
LEMMA TotalNone == Total(<<>>) = 0
<1> DEFINE empty == <<>>
<1>1. empty \in Seq(Int) /\ Len(empty) = 0
  OBVIOUS
<1> HIDE DEF empty
<1>2. PICK sum \in [0 .. Len(empty) -> Int] :
         /\ sum[0] = 0 /\ \A n \in 1 .. Len(empty) : sum[n] = sum[n - 1] + empty[n]
         /\ Total(empty) = sum[Len(empty)]
  BY <1>1, Totals
<1>3. Total(empty) = 0
  BY <1>1, <1>2
<1> QED
  BY <1>3 DEF empty

\* Nothing costs nothing.
LEMMA CostNone == Cost(<<>>) = 0
<1> DEFINE empty == <<>>
           costs == [n \in DOMAIN empty |-> SizeOf[empty[n].text] + Overhead]
<1>1. empty \in Seq({}) /\ Len(empty) = 0 /\ DOMAIN empty = 1 .. 0
  OBVIOUS
<1> HIDE DEF empty
<1>2. costs \in [1 .. 0 -> {}]
  BY <1>1
<1>3. costs \in Seq({}) /\ Len(costs) = 0
  <2> HIDE DEF costs
  <2> QED
    BY <1>2
<1>4. costs = <<>>
  <2> HIDE DEF costs
  <2> QED
    BY <1>3
<1> QED
  BY <1>4, TotalNone DEF Cost, empty

\* A set of numbers up to n has a greatest one.
LEMMA Greatest ==
    ASSUME NEW n \in Nat, NEW K, K \subseteq 0 .. n, K # {}
    PROVE  \E k \in K : \A j \in K : j <= k
<1> DEFINE Back == {n - k : k \in K}
<1>1. Back \subseteq Nat /\ Back # {}
  <2>1. \A k \in K : n - k \in Nat
    OBVIOUS
  <2>2. PICK k : k \in K
    OBVIOUS
  <2>3. n - k \in Back
    BY <2>2
  <2>4. Back \subseteq Nat
    BY <2>1
  <2> QED
    BY <2>3, <2>4
<1>2. PICK d \in Back : \A e \in Back : <<e, d>> \notin OpToRel(<, Nat)
  <2> HIDE DEF Back
  <2> QED
    BY <1>1, NatLessThanWellFounded, WFMin
<1>3. PICK k \in K : d = n - k
  OBVIOUS
<1>4. \A j \in K : ~(n - j < d)
  BY <1>1, <1>2 DEF OpToRel
<1> QED
  BY <1>3, <1>4

\* The context takes the first of a list, and more as long as the budget lasts.
LEMMA SelectedStart ==
    ASSUME NEW S, NEW s \in Seq(S)
    PROVE  \E k \in 0 .. Len(s) :
              /\ Selected(s) = SubSeq(s, 1, k)
              /\ k <= 1 \/ Cost(Selected(s)) <= Budget
              /\ Len(s) > 0 => k >= 1
<1> DEFINE N == Len(s)
           fits == {n \in 0 .. N : n <= 1 \/ Cost(SubSeq(s, 1, n)) <= Budget}
           k == CHOOSE n \in fits : \A m \in fits : m <= n
<1>0. N \in Nat
  OBVIOUS
<1>1. Selected(s) = SubSeq(s, 1, k)
  BY DEF Selected
<1>2. fits \subseteq 0 .. N /\ 0 \in fits /\ (N > 0 => 1 \in fits)
  BY <1>0
<1> HIDE DEF N, fits
<1>3. \E n \in fits : \A m \in fits : m <= n
  BY <1>0, <1>2, Greatest
<1>4. k \in fits /\ \A m \in fits : m <= k
  BY <1>3
<1>5. k \in 0 .. N /\ (k <= 1 \/ Cost(SubSeq(s, 1, k)) <= Budget)
  BY <1>4 DEF fits
<1>6. N > 0 => k >= 1
  BY <1>2, <1>4, <1>5
<1> QED
  BY <1>1, <1>5, <1>6 DEF N

\* The first entries of a sequence.
LEMMA StartOf ==
    ASSUME NEW S, NEW s \in Seq(S), NEW k \in 0 .. Len(s), NEW t, t = SubSeq(s, 1, k)
    PROVE  /\ t \in Seq(S) /\ Len(t) = k /\ DOMAIN t = 1 .. k
           /\ \A m \in 1 .. k : t[m] = s[m]
  OBVIOUS

\* Different entries are as many as their places.
LEMMA Different ==
    ASSUME NEW k \in Nat, NEW f, \A i, j \in 1 .. k : i < j => f[i] # f[j]
    PROVE  Cardinality({f[n] : n \in 1 .. k}) = k
<1> DEFINE T == {f[n] : n \in 1 .. k}
           g == [n \in 1 .. k |-> f[n]]
<1>1. g \in [1 .. k -> T] /\ \A n \in 1 .. k : g[n] = f[n]
  OBVIOUS
<1>2. \A t \in T : \E n \in 1 .. k : g[n] = t
  OBVIOUS
<1>3. \A i, j \in 1 .. k : g[i] = g[j] => i = j
  BY <1>1
<1> HIDE DEF T, g
<1>4. g \in Bijection(1 .. k, T)
  <2>1. g \in Injection(1 .. k, T)
    BY <1>1, <1>3 DEF Injection, IsInjective
  <2>2. g \in Surjection(1 .. k, T)
    BY <1>1, <1>2 DEF Surjection
  <2> QED
    BY <2>1, <2>2 DEF Bijection
<1>5. IsFiniteSet(1 .. k) /\ Cardinality(1 .. k) = k
  BY FS_Interval
<1>6. ExistsBijection(1 .. k, T)
  BY <1>4 DEF ExistsBijection
<1>7. Cardinality(T) = k
  BY <1>5, <1>6, FS_Bijection
<1> QED
  BY <1>7 DEF T

\* What _load_ltm_context makes of the records it found: the best of them, of each
\* text one, within the budget but for a single one that exceeds it.
LEMMA ContextIsBest ==
    ASSUME NEW S, \A x \in S : x.score \in Int, NEW found \in Seq(S), NEW kept, kept = ContextOf(found),
           Budget \in Nat
    PROVE  /\ (kept = <<>>) = (found = <<>>)
           /\ Cost(kept) <= Budget \/ Len(kept) = 1
           /\ Cardinality({kept[n].text : n \in DOMAIN kept}) = Len(kept)
           /\ \A n \in DOMAIN found : found[n].text \notin {kept[m].text : m \in DOMAIN kept} =>
                \A m \in DOMAIN kept : kept[m].score >= found[n].score
<1> DEFINE N == Len(found)
           b == ByScore(found)
           key == TextsOf(b)
           f == FirstOfEach(b, key)
           M == Len(f)
<1>1. /\ b \in Seq(S) /\ Len(b) = N
      /\ \A i, j \in 1 .. N : i <= j => b[i].score >= b[j].score
      /\ \A n \in 1 .. N : \E i \in 1 .. N : b[i] = found[n]
  BY Sorted
<1>2. kept = Selected(f)
  BY DEF ContextOf
<1>3. key = [n \in DOMAIN b |-> b[n].text]
  BY DEF TextsOf
<1> HIDE DEF N, b, key
<1>4. f \in Seq(S) /\ \E place : Keeps(f, place, b, key)
  BY <1>1, FirstKept
<1> HIDE DEF f, M
<1>5. PICK place : Keeps(f, place, b, key)
  BY <1>4
<1>6. N \in Nat /\ DOMAIN found = 1 .. N /\ DOMAIN b = 1 .. N
  BY <1>1 DEF N
<1>7. M \in Nat /\ Len(f) = M /\ DOMAIN f = 1 .. M
  BY <1>4 DEF M
<1>8. /\ \A i \in 1 .. M : place[i] \in 1 .. N /\ f[i] = b[place[i]] /\ f[i].text = key[place[i]]
      /\ \A i, j \in 1 .. M : i < j => place[i] < place[j] /\ f[i].text # f[j].text
      /\ \A n \in 1 .. N : \E i \in 1 .. M : place[i] <= n /\ f[i].text = b[n].text
  <2>1. \A i \in 1 .. M : place[i] \in 1 .. N /\ f[i] = b[place[i]]
    BY <1>1, <1>5, <1>7 DEF Keeps
  <2>2. \A n \in 1 .. N : key[n] = b[n].text
    BY <1>3, <1>6
  <2>3. \A i, j \in 1 .. M : i < j => place[i] < place[j] /\ key[place[i]] # key[place[j]]
    BY <1>5, <1>7 DEF Keeps
  <2>4. \A n \in 1 .. N : \E i \in 1 .. M : place[i] <= n /\ key[place[i]] = key[n]
    BY <1>1, <1>5, <1>7 DEF Keeps
  <2>5. \A i \in 1 .. M : f[i].text = key[place[i]]
    BY <2>1, <2>2
  <2> QED
    BY <2>5, <2>1, <2>2, <2>3, <2>4
<1>9. PICK k \in 0 .. M :
         /\ kept = SubSeq(f, 1, k)
         /\ k <= 1 \/ Cost(kept) <= Budget
         /\ M > 0 => k >= 1
  BY <1>2, <1>4, <1>7, SelectedStart
<1>10. /\ kept \in Seq(S) /\ Len(kept) = k /\ DOMAIN kept = 1 .. k
       /\ \A m \in 1 .. k : kept[m] = f[m]
  BY <1>4, <1>7, <1>9, StartOf
<1>11. (kept = <<>>) = (found = <<>>)
  <2>1. found = <<>> <=> N = 0
    BY DEF N
  <2>2. kept = <<>> <=> k = 0
    <3>1. k = 0 => kept = <<>>
      BY <1>10
    <3>2. kept = <<>> => k = 0
      <4>1. Len(<<>>) = 0
        OBVIOUS
      <4> QED
        BY <1>10, <4>1
    <3> QED
      BY <3>1, <3>2
  <2>3. N = 0 => M = 0
    BY <1>7, <1>8
  <2>4. N > 0 => M > 0
    BY <1>6, <1>7, <1>8
  <2> QED
    <3>1. kept = <<>> <=> found = <<>>
      BY <1>6, <1>7, <1>9, <2>1, <2>2, <2>3, <2>4
    <3> QED
      BY <3>1
<1>12. Cost(kept) <= Budget \/ Len(kept) = 1
  <2>1. CASE k = 0
    <3>1. kept = <<>>
      BY <1>10, <2>1
    <3>2. Cost(kept) = 0
      BY <3>1, CostNone
    <3> QED
      BY <3>2
  <2>2. CASE k # 0
    <3>1. k <= 1 => k = 1
      BY <1>7, <1>9, <2>2
    <3>2. k <= 1 \/ Cost(kept) <= Budget
      BY <1>9
    <3>3. Len(kept) = k
      BY <1>10
    <3> QED
      BY <3>1, <3>2, <3>3
  <2> QED
    BY <2>1, <2>2
<1>13. Cardinality({kept[n].text : n \in DOMAIN kept}) = Len(kept)
  <2> DEFINE said == [n \in 1 .. k |-> kept[n].text]
  <2>1. \A n \in 1 .. k : said[n] = kept[n].text
    OBVIOUS
  <2>2. {kept[n].text : n \in DOMAIN kept} = {said[n] : n \in 1 .. k}
    BY <1>10
  <2>3. k \in Nat /\ \A i, j \in 1 .. k : i < j => said[i] # said[j]
    BY <1>7, <1>8, <1>9, <1>10
  <2> HIDE DEF said
  <2>4. Cardinality({said[n] : n \in 1 .. k}) = k
    BY <2>3, Different
  <2> QED
    BY <1>10, <2>2, <2>4
<1>14. ASSUME NEW n \in DOMAIN found, found[n].text \notin {kept[m].text : m \in DOMAIN kept},
              NEW m \in DOMAIN kept
       PROVE  kept[m].score >= found[n].score
  <2>1. PICK at \in 1 .. N : b[at] = found[n]
    BY <1>1, <1>6
  <2>2. PICK i \in 1 .. M : place[i] <= at /\ f[i].text = b[at].text
    BY <1>8
  <2>3. m \in 1 .. k /\ kept[m] = f[m] /\ m \in 1 .. M
    BY <1>7, <1>9, <1>10
  <2>4. i \notin 1 .. k
    BY <1>10, <1>14, <2>1, <2>2
  <2>5. m < i
    BY <1>7, <1>9, <2>2, <2>3, <2>4
  <2>6. place[m] \in 1 .. N /\ place[i] \in 1 .. N /\ place[m] < place[i] /\ f[m] = b[place[m]]
    BY <1>8, <2>3, <2>5
  <2>7. place[m] <= at
    BY <1>6, <2>1, <2>2, <2>6
  <2> QED
    BY <1>1, <2>1, <2>3, <2>6, <2>7
<1> QED
  BY <1>11, <1>12, <1>13, <1>14

----------------------------------------------------------------------------
(* Conversations *)

Message(X) == [role : {"user", "assistant"}, texts : Seq(X)]
TextsIn(ms) == [n \in DOMAIN ms |-> ms[n].texts]
InTurn(ms) == \A n \in 1 .. Len(ms) - 1 : ms[n].role # ms[n + 1].role

\* The texts of messages.
LEMMA TextsInType ==
    ASSUME NEW X, NEW ms \in Seq(Message(X))
    PROVE  /\ TextsIn(ms) \in Seq(Seq(X)) /\ Len(TextsIn(ms)) = Len(ms)
           /\ \A n \in 1 .. Len(ms) : TextsIn(ms)[n] = ms[n].texts
<1>0. Len(ms) \in Nat /\ DOMAIN ms = 1 .. Len(ms) /\ \A n \in 1 .. Len(ms) : ms[n] \in Message(X)
  BY Entries
<1>1. \A n \in 1 .. Len(ms) : ms[n].texts \in Seq(X)
  BY <1>0 DEF Message
<1>2. TextsIn(ms) = [n \in 1 .. Len(ms) |-> ms[n].texts]
  BY <1>0 DEF TextsIn
<1>3. TextsIn(ms) \in [1 .. Len(ms) -> Seq(X)]
  BY <1>1, <1>2
<1>4. \A V : \A t \in [1 .. Len(ms) -> V] : t \in Seq(V) /\ Len(t) = Len(ms)
  BY <1>0
<1> QED
  BY <1>2, <1>3, <1>4

\* A message more: the roles still take turns, and its texts come last.
LEMMA ExtendedMessages ==
    ASSUME NEW X, NEW ms \in Seq(Message(X)), NEW m \in Message(X), InTurn(ms)
    PROVE  /\ Extended(ms, m) \in Seq(Message(X)) /\ InTurn(Extended(ms, m))
           /\ Len(Extended(ms, m)) > 0
           /\ Extended(ms, m)[1].role = IF Len(ms) = 0 THEN m.role ELSE ms[1].role
           /\ Joined(TextsIn(Extended(ms, m))) = Joined(TextsIn(ms)) \o m.texts
<1> DEFINE n == Len(ms)
           q == Extended(ms, m)
           Msg == Message(X)
           V == Seq(X)
<1>0. n \in Nat /\ DOMAIN ms = 1 .. n /\ \A i \in 1 .. n : ms[i] \in Msg
  BY Entries
<1>1. TextsIn(ms) \in Seq(V) /\ Len(TextsIn(ms)) = n /\ \A i \in 1 .. n : TextsIn(ms)[i] = ms[i].texts
  BY TextsInType
<1>2. \A x \in Msg : x.role \in {"user", "assistant"} /\ x.texts \in V
  BY DEF Message
<1>3. CASE n > 0 /\ ms[n].role = m.role
  <2> DEFINE last == [role |-> m.role, texts |-> ms[n].texts \o m.texts]
             front == SubSeq(TextsIn(ms), 1, n - 1)
  <2>1. q = [ms EXCEPT ![n] = last]
    BY <1>3 DEF Extended
  <2>2. ms[n].texts \in V /\ m.texts \in V /\ ms[n].texts \o m.texts \in V
    <3>1. ms[n].texts \in V /\ m.texts \in V
      BY <1>0, <1>2, <1>3
    <3> QED
      BY <3>1
  <2>3. last \in Msg /\ last.role = m.role /\ last.texts = ms[n].texts \o m.texts
    BY <1>2, <2>2 DEF Message
  <2> HIDE DEF last, Msg
  <2>4. q \in Seq(Msg) /\ Len(q) = n
    BY <1>0, <1>3, <2>1, <2>3 DEF Msg
  <2>5. \A i \in 1 .. n : q[i] = IF i = n THEN last ELSE ms[i]
    BY <1>0, <2>1
  <2>6. \A i \in 1 .. n : q[i].role = ms[i].role
    BY <1>3, <2>3, <2>5
  <2>7. InTurn(q) /\ Len(q) > 0 /\ q[1].role = ms[1].role
    <3>1. \A i \in 1 .. n - 1 : i \in 1 .. n /\ i + 1 \in 1 .. n /\ ms[i].role # ms[i + 1].role
      BY <1>0 DEF InTurn
    <3>2. 1 \in 1 .. n
      BY <1>0, <1>3
    <3> QED
      BY <1>3, <2>4, <2>6, <3>1, <3>2 DEF InTurn
  <2>8. TextsIn(q) \in Seq(V) /\ Len(TextsIn(q)) = n /\ \A i \in 1 .. n : TextsIn(q)[i] = q[i].texts
    BY <2>4, TextsInType DEF Msg
  <2> HIDE DEF V, q, n
  <2>9. /\ front \in Seq(V) /\ Len(front) = n - 1 /\ \A i \in 1 .. n - 1 : front[i] = TextsIn(ms)[i]
    BY <1>0, <1>1, <1>3
  <2> HIDE DEF front
  <2>10. TextsIn(ms) = Append(front, ms[n].texts)
    BY <1>0, <1>1, <1>3, <2>2, <2>9
  <2>11. TextsIn(q) = Append(front, ms[n].texts \o m.texts)
    <3>1. \A i \in 1 .. n - 1 : TextsIn(q)[i] = front[i]
      <4> SUFFICES ASSUME NEW i \in 1 .. n - 1 PROVE TextsIn(q)[i] = front[i]
        OBVIOUS
      <4>1. i \in 1 .. n /\ i # n
        BY <1>0
      <4>2. q[i] = ms[i]
        BY <2>5, <4>1
      <4> QED
        BY <1>1, <2>8, <2>9, <4>1, <4>2
    <3>2. n \in 1 .. n
      BY <1>0, <1>3
    <3>3. TextsIn(q)[n] = ms[n].texts \o m.texts
      BY <2>3, <2>5, <2>8, <3>2
    <3> DEFINE t == ms[n].texts \o m.texts
    <3>4. t \in V
      BY <2>2
    <3> HIDE DEF t
    <3>5. TextsIn(q) = Append(front, t)
      <4>1. TextsIn(q)[n] = t
        BY <3>3 DEF t
      <4> QED
        BY <1>0, <1>3, <2>8, <2>9, <3>1, <3>4, <4>1
    <3> QED
      BY <3>5 DEF t
  <2>12. Joined(TextsIn(q)) = Joined(front) \o (ms[n].texts \o m.texts)
    BY <2>2, <2>9, <2>11, JoinedAppend DEF V
  <2>13. Joined(TextsIn(ms)) = Joined(front) \o ms[n].texts
    BY <2>2, <2>9, <2>10, JoinedAppend DEF V
  <2>14. Joined(front) \in Seq(X)
    BY <2>9, JoinedType DEF V
  <2>15. \A x, y, z \in Seq(X) : x \o (y \o z) = (x \o y) \o z
    OBVIOUS
  <2>16. Joined(TextsIn(q)) = Joined(TextsIn(ms)) \o m.texts
    <3> DEFINE x == Joined(front)
               y == ms[n].texts
               z == m.texts
    <3>1. x \in Seq(X) /\ y \in Seq(X) /\ z \in Seq(X)
      BY <2>2, <2>14 DEF V
    <3>2. Joined(TextsIn(q)) = x \o (y \o z) /\ Joined(TextsIn(ms)) = x \o y
      BY <2>12, <2>13
    <3> HIDE DEF x, y, z
    <3>3. Joined(TextsIn(q)) = Joined(TextsIn(ms)) \o z
      BY <2>15, <3>1, <3>2
    <3> QED
      BY <3>3 DEF z
  <2> QED
    BY <1>0, <1>3, <2>4, <2>7, <2>16 DEF q, n, Msg
<1>4. CASE ~(n > 0 /\ ms[n].role = m.role)
  <2>1. q = Append(ms, m)
    BY <1>4 DEF Extended
  <2> HIDE DEF Msg
  <2>2. /\ q \in Seq(Msg) /\ Len(q) = n + 1 /\ q[n + 1] = m /\ \A i \in 1 .. n : q[i] = ms[i]
    BY <1>0, <2>1 DEF Msg
  <2> HIDE DEF q, n
  <2>3. InTurn(q)
    <3> SUFFICES ASSUME NEW i \in 1 .. n PROVE q[i].role # q[i + 1].role
      BY <1>0, <2>2 DEF InTurn
    <3>1. CASE i = n
      BY <1>0, <1>4, <2>2, <3>1
    <3>2. CASE i # n
      <4>1. i \in 1 .. n - 1 /\ i + 1 \in 1 .. n
        BY <1>0, <3>2
      <4>2. ms[i].role # ms[i + 1].role
        BY <4>1 DEF InTurn, n
      <4> QED
        BY <2>2, <4>1, <4>2
    <3> QED
      BY <3>1, <3>2
  <2>4. Len(q) > 0 /\ q[1].role = IF n = 0 THEN m.role ELSE ms[1].role
    <3>1. n # 0 => 1 \in 1 .. n
      BY <1>0
    <3> QED
      BY <1>0, <2>2, <3>1
  <2>5. TextsIn(q) \in Seq(V) /\ Len(TextsIn(q)) = n + 1 /\ \A i \in 1 .. n + 1 : TextsIn(q)[i] = q[i].texts
    BY <2>2, TextsInType DEF Msg
  <2>6. m.texts \in V
    BY <1>2 DEF Msg
  <2>7. TextsIn(q)[n + 1] = m.texts /\ \A i \in 1 .. n : TextsIn(q)[i] = TextsIn(ms)[i]
    <3>1. n + 1 \in 1 .. n + 1 /\ \A i \in 1 .. n : i \in 1 .. n + 1
      BY <1>0
    <3> QED
      BY <1>1, <2>2, <2>5, <3>1
  <2> DEFINE t == m.texts
             old == TextsIn(ms)
             new == TextsIn(q)
  <2>8. new = Append(old, t)
    <3>1. /\ old \in Seq(V) /\ new \in Seq(V) /\ t \in V /\ Len(old) = n /\ Len(new) = n + 1
          /\ new[n + 1] = t /\ \A i \in 1 .. n : new[i] = old[i]
      BY <1>1, <2>5, <2>6, <2>7
    <3> HIDE DEF t, old, new, V
    <3> QED
      BY <1>0, <3>1
  <2>9. Joined(TextsIn(q)) = Joined(TextsIn(ms)) \o m.texts
    BY <1>1, <2>6, <2>8, JoinedAppend
  <2> QED
    BY <2>2, <2>3, <2>4, <2>9 DEF q, n, Msg
<1> QED
  BY <1>3, <1>4

\* MergeRoles goes through the messages one by one.
GoodRun(upTo, first, joined, n) ==
    /\ InTurn(upTo[n])
    /\ n = 0 => upTo[n] = <<>>
    /\ n > 0 => Len(upTo[n]) > 0 /\ upTo[n][1].role = first
    /\ Joined(TextsIn(upTo[n])) = joined[n]

\* What has been merged so far is messages of alternating roles with the same texts.
LEMMA MergedMessages ==
    ASSUME NEW X, NEW ms \in Seq(Message(X))
    PROVE  /\ MergeRoles(ms) \in Seq(Message(X)) /\ InTurn(MergeRoles(ms))
           /\ Len(ms) = 0 => MergeRoles(ms) = <<>>
           /\ Len(ms) > 0 => Len(MergeRoles(ms)) > 0 /\ MergeRoles(ms)[1].role = ms[1].role
           /\ Joined(TextsIn(MergeRoles(ms))) = Joined(TextsIn(ms))
<1> DEFINE Msg == Message(X)
           N == Len(ms)
           V == Seq(Msg)
           Body(f, n) == IF n = 0 THEN <<>> ELSE Extended(f[n - 1], ms[n])
           upTo == CHOOSE upTo : upTo = [n \in 0 .. N |-> Body(upTo, n)]
           step == [n \in 1 .. N |-> [x \in V |-> IF InTurn(x) THEN Extended(x, ms[n]) ELSE x]]
           base == <<>>
<1>0. N \in Nat /\ (\A n \in 1 .. N : ms[n] \in Msg) /\ base \in V
  BY Entries
<1>1. step \in [1 .. N -> [V -> V]]
  <2>1. ASSUME NEW n \in 1 .. N, NEW x \in V
        PROVE  (IF InTurn(x) THEN Extended(x, ms[n]) ELSE x) \in V
    BY <1>0, ExtendedMessages
  <2> HIDE DEF V
  <2> QED
    BY <2>1
<1>2. PICK f : Follows(f, N, V, base, step)
  <2> HIDE DEF step, N, V, base
  <2>1. StepsOver(N, V, base, step)
    BY <1>0, <1>1 DEF StepsOver
  <2> QED
    BY <2>1, Recursion
<1>3. f \in [0 .. N -> V] /\ f[0] = <<>> /\ \A n \in 1 .. N : f[n] = step[n][f[n - 1]]
  <2> HIDE DEF step, N, V
  <2> QED
    BY <1>2 DEF Follows, base
<1>4. PICK joined \in [0 .. N -> Seq(X)] : JoiningUp(joined, TextsIn(ms))
  BY TextsInType, JoinedStarts
<1>5. /\ joined[0] = <<>> /\ \A n \in 1 .. N : joined[n] = joined[n - 1] \o ms[n].texts
      /\ Joined(TextsIn(ms)) = joined[N]
  BY <1>4, TextsInType DEF JoiningUp
<1> HIDE DEF Msg, N, V
<1>6. ASSUME NEW n \in 1 .. N
      PROVE  f[n - 1] \in V /\ f[n] = IF InTurn(f[n - 1]) THEN Extended(f[n - 1], ms[n]) ELSE f[n - 1]
  <2>1. n - 1 \in 0 .. N
    BY <1>0
  <2>2. f[n - 1] \in V
    BY <1>3, <2>1
  <2>3. step[n] = [x \in V |-> IF InTurn(x) THEN Extended(x, ms[n]) ELSE x]
    OBVIOUS
  <2>4. f[n] = step[n][f[n - 1]]
    BY <1>3
  <2> HIDE DEF step
  <2> QED
    BY <2>2, <2>3, <2>4
<1> HIDE DEF step
<1> DEFINE K == {n \in 0 .. N : GoodRun(f, ms[1].role, joined, n)}
<1>7. 0 \in K
  <2>1. InTurn(<<>>) /\ Joined(TextsIn(<<>>)) = <<>>
    <3>1. Len(<<>>) = 0 /\ <<>> \in Seq(Message(X))
      OBVIOUS
    <3>2. InTurn(<<>>)
      BY <3>1 DEF InTurn
    <3> DEFINE t == TextsIn(<<>>)
    <3>3. t \in Seq(Seq(X)) /\ Len(t) = 0
      BY <3>1, TextsInType
    <3> HIDE DEF t
    <3>4. t = <<>>
      BY <3>3
    <3> QED
      BY <3>2, <3>4, JoinedNone DEF t
  <2> QED
    BY <1>0, <1>3, <1>5, <2>1 DEF GoodRun
<1>8. ASSUME NEW n \in 1 .. N, n - 1 \in K PROVE n \in K
  <2> DEFINE p == f[n - 1]
  <2>0. n \in 0 .. N /\ n - 1 \in Nat /\ n > 0 /\ ms[n] \in Message(X) /\ (n - 1 = 0 => n = 1)
    BY <1>0 DEF Msg
  <2>1. GoodRun(f, ms[1].role, joined, n - 1)
    BY <1>8
  <2>2. p \in Seq(Message(X)) /\ InTurn(p) /\ f[n] = Extended(p, ms[n])
    BY <1>6, <2>1 DEF GoodRun, V, Msg
  <2>3. /\ n - 1 = 0 => p = <<>>
        /\ n - 1 > 0 => Len(p) > 0 /\ p[1].role = ms[1].role
        /\ Joined(TextsIn(p)) = joined[n - 1]
    BY <2>1 DEF GoodRun
  <2> HIDE DEF p
  <2>4. /\ InTurn(f[n]) /\ Len(f[n]) > 0
        /\ f[n][1].role = IF Len(p) = 0 THEN ms[n].role ELSE p[1].role
        /\ Joined(TextsIn(f[n])) = Joined(TextsIn(p)) \o ms[n].texts
    BY <2>0, <2>2, ExtendedMessages
  <2>5. f[n][1].role = ms[1].role
    <3>1. CASE n - 1 = 0
      <4>1. Len(p) = 0 /\ n = 1
        BY <2>0, <2>3, <3>1
      <4> QED
        BY <2>4, <4>1
    <3>2. CASE n - 1 > 0
      BY <2>2, <2>3, <2>4, <3>2
    <3> QED
      BY <2>0, <3>1, <3>2
  <2>6. Joined(TextsIn(f[n])) = joined[n]
    BY <1>5, <2>3, <2>4
  <2>7. GoodRun(f, ms[1].role, joined, n)
    BY <2>0, <2>4, <2>5, <2>6 DEF GoodRun
  <2> QED
    BY <2>0, <2>7
<1> HIDE DEF K
<1>9. 0 .. N \subseteq K
  BY <1>0, <1>7, <1>8, Upwards
<1>10. ASSUME NEW n \in 1 .. N PROVE f[n] = Extended(f[n - 1], ms[n])
  <2>1. n - 1 \in K
    BY <1>0, <1>9
  <2>2. InTurn(f[n - 1])
    BY <2>1 DEF K, GoodRun
  <2> QED
    BY <1>6, <2>2
<1>11. f = [n \in 0 .. N |-> Body(f, n)]
  <2>1. \A n \in 0 .. N : f[n] = Body(f, n)
    <3> SUFFICES ASSUME NEW n \in 0 .. N PROVE f[n] = Body(f, n)
      OBVIOUS
    <3>1. CASE n = 0
      BY <1>3, <3>1
    <3>2. CASE n # 0
      <4>1. n \in 1 .. N
        BY <1>0, <3>2
      <4> QED
        BY <1>10, <3>2, <4>1
    <3> QED
      BY <3>1, <3>2
  <2> HIDE DEF Body
  <2> QED
    BY <1>3, <2>1
<1>12. upTo = [n \in 0 .. N |-> Body(upTo, n)]
  <2> HIDE DEF Body
  <2> QED
    BY <1>11
<1>13. MergeRoles(ms) = upTo[N]
  BY DEF MergeRoles, N
<1> HIDE DEF upTo
<1>14. \A n \in 0 .. N : upTo[n] = Body(upTo, n)
  <2> HIDE DEF Body
  <2> QED
    BY <1>12
<1> DEFINE L == {n \in 0 .. N : upTo[n] = f[n]}
<1>15. 0 \in L
  BY <1>0, <1>3, <1>14
<1>16. ASSUME NEW n \in 1 .. N, n - 1 \in L PROVE n \in L
  <2>1. upTo[n] = Body(upTo, n) /\ upTo[n - 1] = f[n - 1] /\ n # 0 /\ n \in 0 .. N
    BY <1>0, <1>14, <1>16
  <2>2. upTo[n] = Extended(upTo[n - 1], ms[n])
    BY <2>1
  <2> QED
    BY <1>10, <2>1, <2>2
<1> HIDE DEF L
<1>17. 0 .. N \subseteq L
  BY <1>0, <1>15, <1>16, Upwards
<1>18. N \in 0 .. N
  BY <1>0
<1>19. MergeRoles(ms) = f[N]
  <2>1. N \in L
    BY <1>17, <1>18
  <2> QED
    BY <1>13, <2>1 DEF L
<1>20. GoodRun(f, ms[1].role, joined, N)
  <2>1. N \in K
    BY <1>9, <1>18
  <2> QED
    BY <2>1 DEF K
<1>21. f[N] \in V
  BY <1>3, <1>18
<1> QED
  BY <1>5, <1>19, <1>20, <1>21 DEF GoodRun, N, V, Msg

\* A turn of a conversation, with what may be said.
Said == {"memory", "message", "answer", "blank"}
Turns == [role : {"user", "assistant"}, text : Said]
Words == Said \cup {"context"}

\* Sequences with the same entries.
LEMMA SameSequence ==
    ASSUME NEW X, NEW a \in Seq(X), NEW b \in Seq(X), Len(a) = Len(b), \A n \in 1 .. Len(a) : a[n] = b[n]
    PROVE  a = b
  OBVIOUS

\* The texts of turns.
LEMMA TextsOfType ==
    ASSUME NEW turns \in Seq(Turns)
    PROVE  /\ TextsOf(turns) \in Seq(Words) /\ Len(TextsOf(turns)) = Len(turns)
           /\ \A n \in 1 .. Len(turns) : TextsOf(turns)[n] = turns[n].text
<1>0. Len(turns) \in Nat /\ DOMAIN turns = 1 .. Len(turns) /\ \A n \in 1 .. Len(turns) : turns[n] \in Turns
  BY Entries
<1>1. \A n \in 1 .. Len(turns) : turns[n].text \in Words
  BY <1>0 DEF Turns, Words
<1>2. TextsOf(turns) = [n \in 1 .. Len(turns) |-> turns[n].text]
  BY <1>0 DEF TextsOf
<1>3. TextsOf(turns) \in [1 .. Len(turns) -> Words]
  BY <1>1, <1>2
<1>4. \A V : \A t \in [1 .. Len(turns) -> V] : t \in Seq(V) /\ Len(t) = Len(turns)
  BY <1>0
<1> QED
  BY <1>2, <1>3, <1>4

Spoken(turns) == Among(turns, {t \in ToSet(turns) : t.text # "blank"})

\* What is left of a conversation without its blank turns.
LEMMA SpokenInPlace ==
    ASSUME NEW turns \in Seq(Turns)
    PROVE  /\ Spoken(turns) \in Seq(Turns)
           /\ TextsOf(Spoken(turns)) = Among(TextsOf(turns), ToSet(TextsOf(turns)) \ {"blank"})
<1> DEFINE said == TextsOf(turns)
           T == {t \in ToSet(turns) : t.text # "blank"}
           W == ToSet(said) \ {"blank"}
           a == Among(turns, T)
           b == Among(said, W)
<1>0. Len(turns) \in Nat /\ DOMAIN turns = 1 .. Len(turns) /\ \A n \in 1 .. Len(turns) : turns[n] \in Turns
  BY Entries
<1>1. said \in Seq(Words) /\ Len(said) = Len(turns) /\ \A n \in 1 .. Len(turns) : said[n] = turns[n].text
  BY TextsOfType
<1>2. DOMAIN said = 1 .. Len(turns)
  BY <1>0, <1>1
<1>3. \A n \in 1 .. Len(turns) : turns[n] \in T <=> said[n] \in W
  BY <1>0, <1>1, <1>2 DEF ToSet
<1> HIDE DEF said, T, W
<1>4. /\ Len(a) = Len(b)
      /\ \A m \in 1 .. Len(a) : \E n \in 1 .. Len(turns) : a[m] = turns[n] /\ b[m] = said[n]
  BY <1>1, <1>3, AmongAlike
<1>5. a \in Seq(Turns)
  <2>1. a \in Seq({e \in Turns : e \in T})
    BY AmongEntries
  <2> HIDE DEF a
  <2> QED
    BY <2>1
<1>6. b \in Seq(Words)
  <2>1. b \in Seq({e \in Words : e \in W})
    BY <1>1, AmongEntries
  <2> HIDE DEF b
  <2> QED
    BY <2>1
<1> HIDE DEF a, b
<1>7. TextsOf(a) \in Seq(Words) /\ Len(TextsOf(a)) = Len(a) /\ \A m \in 1 .. Len(a) : TextsOf(a)[m] = a[m].text
  BY <1>5, TextsOfType
<1>8. TextsOf(a) = b
  <2>1. \A m \in 1 .. Len(a) : TextsOf(a)[m] = b[m]
    BY <1>1, <1>4, <1>7
  <2> QED
    BY <1>4, <1>6, <1>7, <2>1, SameSequence
<1> QED
  BY <1>5, <1>8 DEF a, b, T, W, said, Spoken

\* Each turn is a message of one text.
LEMMA SinglesOf ==
    ASSUME NEW turns \in Seq(Turns)
    PROVE  /\ Singles(turns) \in Seq(Message(Words)) /\ InTurn(Singles(turns)) \in BOOLEAN
           /\ Joined(TextsIn(Singles(turns))) = TextsOf(turns)
<1> DEFINE s == Singles(turns)
           said == TextsOf(turns)
           N == Len(turns)
<1>0. N \in Nat /\ DOMAIN turns = 1 .. N /\ \A n \in 1 .. N : turns[n] \in Turns
  BY Entries
<1>1. said \in Seq(Words) /\ Len(said) = N /\ \A n \in 1 .. N : said[n] = turns[n].text
  BY TextsOfType
<1>2. s = [n \in 1 .. N |-> [role |-> turns[n].role, texts |-> <<turns[n].text>>]]
  BY <1>0 DEF Singles
<1>3. \A n \in 1 .. N : s[n] \in Message(Words) /\ s[n].texts = <<said[n]>>
  <2> SUFFICES ASSUME NEW n \in 1 .. N PROVE s[n] \in Message(Words) /\ s[n].texts = <<said[n]>>
    OBVIOUS
  <2>1. s[n] = [role |-> turns[n].role, texts |-> <<said[n]>>]
    BY <1>1, <1>2
  <2>2. turns[n].role \in {"user", "assistant"} /\ said[n] \in Words
    BY <1>0, <1>1 DEF Turns
  <2>3. <<said[n]>> \in Seq(Words)
    BY <2>2
  <2> QED
    BY <2>1, <2>2, <2>3 DEF Message
<1> HIDE DEF s
<1>4. s \in Seq(Message(Words)) /\ Len(s) = N
  <2>1. s \in [1 .. N -> Message(Words)]
    BY <1>2, <1>3
  <2> HIDE DEF N
  <2> QED
    BY <1>0, <2>1
<1>5. TextsIn(s) = [n \in DOMAIN said |-> <<said[n]>>]
  <2>1. DOMAIN s = 1 .. N /\ DOMAIN said = 1 .. N
    BY <1>0, <1>1, <1>4
  <2> QED
    BY <1>3, <2>1 DEF TextsIn
<1>6. Joined(TextsIn(s)) = said
  <2> HIDE DEF said
  <2> QED
    BY <1>1, <1>5, JoinedSingles
<1> QED
  BY <1>4, <1>6 DEF s, InTurn

\* With a word of the user before it, if the assistant spoke first.
LEMMA UserFirst ==
    ASSUME NEW ms \in Seq(Message(Words))
    PROVE  /\ WithUserFirst(ms) \in Seq(Message(Words))
           /\ Len(WithUserFirst(ms)) > 0 => WithUserFirst(ms)[1].role = "user"
           /\ Joined(TextsIn(WithUserFirst(ms))) \in
                 {Joined(TextsIn(ms)), <<"context">> \o Joined(TextsIn(ms))}
<1>1. CASE ms # <<>> /\ ms[1].role # "user"
  <2> DEFINE c == [role |-> "user", texts |-> <<"context">>]
             Msg == Message(Words)
             q == WithUserFirst(ms)
             N == Len(ms)
  <2>1. q = <<c>> \o ms
    BY <1>1 DEF WithUserFirst
  <2>2. c \in Msg /\ c.role = "user" /\ c.texts = <<"context">> /\ <<"context">> \in Seq(Words)
    BY DEF Message, Words
  <2> HIDE DEF c, Msg, q
  <2>3. /\ q \in Seq(Msg) /\ Len(q) = N + 1 /\ q[1] = c /\ N \in Nat
        /\ \A n \in 1 .. N : q[n + 1] = ms[n]
    BY <2>1, <2>2 DEF Msg
  <2>4. /\ TextsIn(q) \in Seq(Seq(Words)) /\ Len(TextsIn(q)) = N + 1
        /\ \A n \in 1 .. N + 1 : TextsIn(q)[n] = q[n].texts
    BY <2>3, TextsInType DEF Msg
  <2>5. /\ TextsIn(ms) \in Seq(Seq(Words)) /\ Len(TextsIn(ms)) = N
        /\ \A n \in 1 .. N : TextsIn(ms)[n] = ms[n].texts
    BY TextsInType
  <2> HIDE DEF N
  <2> DEFINE old == TextsIn(ms)
             new == TextsIn(q)
             first == <<"context">>
             V == Seq(Words)
  <2>6. /\ old \in Seq(V) /\ new \in Seq(V) /\ first \in V /\ Len(old) = N /\ Len(new) = N + 1
        /\ new[1] = first /\ \A n \in 1 .. N : new[n + 1] = old[n]
    <3>1. 1 \in 1 .. N + 1 /\ \A n \in 1 .. N : n + 1 \in 1 .. N + 1
      BY <2>3
    <3> QED
      BY <2>2, <2>3, <2>4, <2>5, <3>1
  <2> HIDE DEF old, new, first, V
  <2>7. new = <<first>> \o old
    <3>1. /\ <<first>> \o old \in Seq(V) /\ Len(<<first>> \o old) = N + 1
          /\ \A n \in 1 .. N + 1 : (<<first>> \o old)[n] = IF n = 1 THEN first ELSE old[n - 1]
      BY <2>3, <2>6
    <3>2. \A n \in 1 .. N + 1 : new[n] = IF n = 1 THEN first ELSE old[n - 1]
      <4> SUFFICES ASSUME NEW n \in 1 .. N + 1, n # 1 PROVE new[n] = old[n - 1]
        BY <2>6
      <4>1. n - 1 \in 1 .. N /\ (n - 1) + 1 = n
        BY <2>3
      <4> QED
        BY <2>6, <4>1
    <3> QED
      BY <2>6, <3>1, <3>2, SameSequence
  <2>8. Joined(new) = first \o Joined(old)
    BY <2>6, <2>7, JoinedPrepend DEF V
  <2> QED
    BY <2>2, <2>3, <2>8 DEF q, old, new, first, Msg
<1>2. CASE ~(ms # <<>> /\ ms[1].role # "user")
  <2>1. WithUserFirst(ms) = ms
    BY <1>2 DEF WithUserFirst
  <2>2. Len(ms) > 0 => ms # <<>>
    OBVIOUS
  <2> QED
    BY <1>2, <2>1, <2>2
<1> QED
  BY <1>1, <1>2

\* Two roles that take turns, beginning with the user.
LEMMA Alternating ==
    ASSUME NEW ms \in Seq(Message(Words)), InTurn(ms), Len(ms) > 0 => ms[1].role = "user"
    PROVE  \A n \in DOMAIN ms : ms[n].role = IF n % 2 = 1 THEN "user" ELSE "assistant"
<1> DEFINE N == Len(ms)
           Right(n) == ms[n].role = IF n % 2 = 1 THEN "user" ELSE "assistant"
           K == {n \in 0 .. N : n = 0 \/ Right(n)}
<1>0. N \in Nat /\ DOMAIN ms = 1 .. N /\ \A n \in 1 .. N : ms[n].role \in {"user", "assistant"}
  <2>1. N \in Nat /\ DOMAIN ms = 1 .. N /\ \A n \in 1 .. N : ms[n] \in Message(Words)
    BY Entries
  <2>2. \A m \in Message(Words) : m.role \in {"user", "assistant"}
    BY DEF Message
  <2> QED
    BY <2>1, <2>2
<1>1. 0 \in K
  BY <1>0
<1>2. ASSUME NEW n \in 1 .. N, n - 1 \in K PROVE n \in K
  <2>1. CASE n = 1
    BY <1>0, <2>1
  <2>2. CASE n # 1
    <3>1. n - 1 \in 1 .. N - 1 /\ (n - 1) + 1 = n /\ n - 1 \in 1 .. N /\ n - 1 # 0
      BY <1>0, <2>2
    <3>2. ms[n - 1].role # ms[n].role
      BY <3>1 DEF InTurn
    <3>3. Right(n - 1)
      BY <1>2, <3>1
    <3>4. ((n - 1) % 2 = 1) <=> ~(n % 2 = 1)
      BY <3>1
    <3>5. ms[n].role \in {"user", "assistant"} /\ ms[n - 1].role \in {"user", "assistant"}
      BY <1>0, <3>1
    <3>6. Right(n)
      BY <3>2, <3>3, <3>4, <3>5
    <3> QED
      BY <1>0, <3>6
  <2> QED
    BY <2>1, <2>2
<1> HIDE DEF K
<1>3. 0 .. N \subseteq K
  BY <1>0, <1>1, <1>2, Upwards
<1>4. ASSUME NEW n \in 1 .. N PROVE Right(n)
  <2>1. n \in K /\ n # 0
    BY <1>0, <1>3
  <2> QED
    BY <2>1 DEF K
<1> QED
  BY <1>0, <1>4

\* A conversation becomes messages that begin with the user and take turns.
LEMMA BedrockMessages ==
    ASSUME NEW turns \in Seq(Turns)
    PROVE  /\ \A n \in DOMAIN ToBedrock(turns) :
                 ToBedrock(turns)[n].role = IF n % 2 = 1 THEN "user" ELSE "assistant"
           /\ Joined(TextsIn(ToBedrock(turns))) \in
                {Among(TextsOf(turns), ToSet(TextsOf(turns)) \ {"blank"}),
                 <<"context">> \o Among(TextsOf(turns), ToSet(TextsOf(turns)) \ {"blank"})}
<1> DEFINE spoken == Spoken(turns)
           single == Singles(spoken)
           merged == MergeRoles(single)
           with == WithUserFirst(merged)
           q == MergeRoles(with)
<1>1. spoken \in Seq(Turns) /\ TextsOf(spoken) = Among(TextsOf(turns), ToSet(TextsOf(turns)) \ {"blank"})
  BY SpokenInPlace
<1>2. q = ToBedrock(turns)
  BY DEF ToBedrock, Spoken
<1> HIDE DEF spoken
<1>3. single \in Seq(Message(Words)) /\ Joined(TextsIn(single)) = TextsOf(spoken)
  BY <1>1, SinglesOf
<1> HIDE DEF single
<1>4. merged \in Seq(Message(Words)) /\ Joined(TextsIn(merged)) = Joined(TextsIn(single))
  BY <1>3, MergedMessages
<1> HIDE DEF merged
<1>5. /\ with \in Seq(Message(Words))
      /\ Len(with) > 0 => with[1].role = "user"
      /\ Joined(TextsIn(with)) \in {Joined(TextsIn(merged)), <<"context">> \o Joined(TextsIn(merged))}
  BY <1>4, UserFirst
<1>6. with \in Seq(Message(Words))
  BY <1>4, UserFirst
<1> HIDE DEF with
<1>7. /\ q \in Seq(Message(Words)) /\ InTurn(q)
      /\ Len(with) = 0 => q = <<>>
      /\ Len(with) > 0 => Len(q) > 0 /\ q[1].role = with[1].role
      /\ Joined(TextsIn(q)) = Joined(TextsIn(with))
  BY <1>6, MergedMessages
<1> HIDE DEF q
<1>8. Len(q) > 0 => q[1].role = "user"
  <2>1. Len(with) \in Nat
    BY <1>6
  <2>2. CASE Len(with) = 0
    <3>1. q = <<>>
      BY <1>7, <2>2
    <3>2. Len(q) = 0
      BY <3>1
    <3> QED
      BY <3>2
  <2>3. CASE Len(with) > 0
    <3>1. q[1].role = with[1].role
      BY <1>7, <2>3
    <3>2. with[1].role = "user"
      BY <1>5, <2>3
    <3> QED
      BY <3>1, <3>2
  <2> QED
    BY <2>1, <2>2, <2>3
<1>9. \A n \in DOMAIN q : q[n].role = IF n % 2 = 1 THEN "user" ELSE "assistant"
  BY <1>7, <1>8, Alternating
<1>10. Joined(TextsIn(q)) \in {TextsOf(spoken), <<"context">> \o TextsOf(spoken)}
  BY <1>3, <1>4, <1>5, <1>7
<1> QED
  BY <1>1, <1>2, <1>9, <1>10

----------------------------------------------------------------------------
(* Searches: what a request is looking for, and what it has found *)

\* What the service is asked.
Queried ==
    {ContextQueries(a)[n] : a \in Actors, n \in 1 .. 4}
        \cup {RecallQuery(t, a) : t \in ToSet(Templates), a \in Actors}

\* A search with all its parts, and a request with all of its.
WholeSearch(s) ==
    s = [kind |-> s.kind, actor |-> s.actor, strategy |-> s.strategy, known |-> s.known,
         todo |-> s.todo, prefixes |-> s.prefixes, found |-> s.found, sound |-> s.sound,
         result |-> s.result]

Whole(q) ==
    /\ q = [pc |-> q.pc, caller |-> q.caller, calls |-> q.calls, search |-> q.search]
    /\ WholeSearch(q.search)

\* Where a request is, and what it is doing there.
Placed(q) ==
    /\ q.pc = "context" => q.search.kind = "context"
    /\ q.pc \in {"load", "recall"} => q.search.kind = "recall"
    /\ q.pc \notin {"idle", "done"} => q.caller \in Callers

\* The session of a request with an agent has tools bound to some actor.
Bound(q) == q.pc \in {"context", "run", "load", "recall"} => bound[q.caller.session] \in Actors

Searching(s) ==
    /\ s.kind \in {None, "context", "recall"}
    /\ s.kind = "recall" => s.actor \in Actors
    /\ s.todo \in Seq(Queried)
    /\ s.found \in Seq(LongTermRecord)
    /\ s.kind = "recall" =>
        \A p \in s.prefixes : p \notin {Slash, <<>>} /\ \E t \in ToSet(Templates) : p = Asked(t, s.actor)

Answered(q) ==
    q.pc \notin {"context", "load", "recall"} =>
        /\ q.search.kind = "context" => q.search.result = ContextOf(q.search.found)
        /\ q.search.kind = "recall" =>
            \A n \in DOMAIN q.search.result :
                /\ q.search.result[n].actor = q.search.actor
                /\ backend = "agentcore" =>
                    SafeNamespaces(q.search.result[n].namespaces, q.search.actor) # {}

\* A search has found a record, or enough that are as relevant.
Represented(found, prefixes, x) ==
    \/ \E n \in DOMAIN found :
        found[n].id = x.id /\ found[n].score >= 10 * x.score /\ BelongsTo(found[n], prefixes)
    \/ \E f \in [1 .. TopK -> DOMAIN found] :
        /\ \A i \in 1 .. TopK : found[f[i]].score >= 10 * x.score /\ BelongsTo(found[f[i]], prefixes)
        /\ \A i, j \in 1 .. TopK : found[f[i]].id = found[f[j]].id => i = j

\* A query has been answered with all that it asks for.
Covered(s, w) ==
    \A x \in s.known :
        x.strategy = w.strategy /\ (\E ns \in x.namespaces : IsPrefix(w.namespace, ns)) =>
            Represented(s.found, s.prefixes, x)

Wanted(s) == ToSet(Queries(Templates, s.actor, s.strategy))

Progress(s) ==
    /\ s.prefixes = {w.namespace : w \in Wanted(s)}
    /\ \A w \in Wanted(s) : w \in ToSet(s.todo) \/ Covered(s, w)

Complete(s) ==
    /\ \A x \in s.known : s.strategy \in {None, x.strategy} /\ SafeNamespaces(x.namespaces, s.actor) # {} =>
        \/ \E n \in DOMAIN s.result : s.result[n].id = x.id
        \/ Len(s.result) = TopK /\ \A n \in DOMAIN s.result : s.result[n].score >= 10 * x.score
    /\ \A m, n \in DOMAIN s.result : s.result[m].id = s.result[n].id => m = n

Looked(q) ==
    /\ q.pc \in {"load", "recall"} => q.search.known \subseteq records
    /\ q.search.kind = "recall" /\ q.search.sound =>
        /\ q.pc = "recall" => Progress(q.search)
        /\ q.pc \notin {"context", "load", "recall"} => Complete(q.search)

MemoryTyped ==
    /\ records \subseteq LongTermRecord /\ Numbered(records)
    /\ cache \in {None, Templates, <<>>}
    /\ events \in [Actors \X Sessions -> Seq(Turns)]
    /\ bound \in [Sessions -> Actors \cup {None}]
    /\ req = [r \in Requests |-> req[r]]

MemoryInv ==
    /\ MemoryTyped
    /\ \A r \in Requests : Whole(req[r]) /\ Placed(req[r]) /\ Bound(req[r])
                           /\ Searching(req[r].search) /\ Answered(req[r]) /\ Looked(req[r])

\* The step changes one request.
Sets(r, q) ==
    /\ req'[r] = q /\ \A x \in Requests \ {r} : req'[x] = req[x]
    /\ req' = [x \in Requests |-> req'[x]]

\* A step that sets a request sets no other,
LEMMA OneSet ==
    ASSUME req = [x \in Requests |-> req[x]], NEW r \in Requests, NEW q, req' = [req EXCEPT ![r] = q]
    PROVE  Sets(r, q)
  BY DEF Sets

\* nor one that moves it on,
LEMMA OneMoves ==
    ASSUME req = [x \in Requests |-> req[x]], NEW r \in Requests, Whole(req[r]), NEW to, Move(r, to)
    PROVE  Sets(r, [pc |-> to, caller |-> req[r].caller, calls |-> req[r].calls, search |-> req[r].search])
<1> DEFINE q == [pc |-> to, caller |-> req[r].caller, calls |-> req[r].calls, search |-> req[r].search]
<1>1. [req[r] EXCEPT !.pc = to] = q
  BY DEF Whole
<1>2. req' = [req EXCEPT ![r] = [req[r] EXCEPT !.pc = to]]
  BY DEF Move
<1> HIDE DEF q
<1>3. Sets(r, q)
  BY <1>1, <1>2, OneSet
<1> QED
  BY <1>3 DEF q

\* nor one that also goes on with its search.
LEMMA OneProceeds ==
    ASSUME req = [x \in Requests |-> req[x]], NEW r \in Requests, Whole(req[r]), NEW to, NEW s, Proceed(r, to, s)
    PROVE  Sets(r, [pc |-> to, caller |-> req[r].caller, calls |-> req[r].calls, search |-> s])
<1> DEFINE q == [pc |-> to, caller |-> req[r].caller, calls |-> req[r].calls, search |-> s]
<1>1. [[req[r] EXCEPT !.pc = to] EXCEPT !.search = s] = q
  <2> DEFINE moved == [req[r] EXCEPT !.pc = to]
  <2>1. moved = [pc |-> to, caller |-> req[r].caller, calls |-> req[r].calls, search |-> req[r].search]
    BY DEF Whole
  <2> HIDE DEF moved
  <2>2. [moved EXCEPT !.search = s] = q
    BY <2>1
  <2> QED
    BY <2>2 DEF moved
<1>2. req' = [req EXCEPT ![r] = [[req[r] EXCEPT !.pc = to] EXCEPT !.search = s]]
  BY DEF Proceed
<1> HIDE DEF q
<1>3. Sets(r, q)
  BY <1>1, <1>2, OneSet
<1> QED
  BY <1>3 DEF q

\* What is true of every request.
Fine(q) == Whole(q) /\ Placed(q) /\ Bound(q) /\ Searching(q.search) /\ Answered(q) /\ Looked(q)

\* What another request does, or the service, leaves a request as it is.
LEMMA SameIsFine ==
    ASSUME MemoryInv, NEW x \in Requests, req'[x] = req[x], UNCHANGED settings, records \subseteq records',
           \A s \in Sessions : bound[s] \in Actors => bound'[s] \in Actors
    PROVE  Fine(req[x])'
<1>1. /\ Whole(req[x]) /\ Placed(req[x]) /\ Bound(req[x])
      /\ Searching(req[x].search) /\ Answered(req[x]) /\ Looked(req[x])
  BY DEF MemoryInv
<1>2. Whole(req[x])' /\ Placed(req[x])' /\ Searching(req[x].search)'
  BY <1>1 DEF Whole, WholeSearch, Placed, Searching, Queried
<1>3. Bound(req[x])'
  BY <1>1 DEF Bound, Placed, Sessions
<1>4. Answered(req[x])'
  BY <1>1 DEF Answered, settings
<1>5. Looked(req[x])'
  BY <1>1 DEF Looked, Progress, Complete, Covered, Wanted
<1> QED
  BY <1>2, <1>3, <1>4, <1>5 DEF Fine

\* A step that changes one request keeps the invariant if that request is in order.
LEMMA OneIsFine ==
    ASSUME MemoryInv, MemoryTyped', NEW r \in Requests, NEW q, Sets(r, q),
           UNCHANGED settings, records \subseteq records',
           \A s \in Sessions : bound[s] \in Actors => bound'[s] \in Actors,
           Fine(q)'
    PROVE  MemoryInv'
<1>1. ASSUME NEW x \in Requests PROVE Fine(req[x])'
  <2>1. CASE x = r
    BY <2>1 DEF Sets
  <2>2. CASE x # r
    <3>1. req'[x] = req[x]
      BY <2>2 DEF Sets
    <3> QED
      BY <3>1, SameIsFine
  <2> QED
    BY <2>1, <2>2
<1> QED
  BY <1>1 DEF MemoryInv, Fine

\* How many records a query asks for, and what it adds to their relevance.
LEMMA QueryNumbers ==
    ASSUME NEW query \in Queried
    PROVE  query.topK \in Nat /\ query.boost \in Int
<1>1. ASSUME NEW a \in Actors, NEW n \in 1 .. 4
      PROVE  ContextQueries(a)[n].topK \in Nat /\ ContextQueries(a)[n].boost \in Int
  <2>1. n = 1 \/ n = 2 \/ n = 3 \/ n = 4
    OBVIOUS
  <2> QED
    BY <2>1 DEF ContextQueries
<1>2. ASSUME NEW t, NEW a PROVE RecallQuery(t, a).topK \in Nat /\ RecallQuery(t, a).boost \in Int
  BY MemoryAssumption DEF RecallQuery
<1> QED
  BY <1>1, <1>2 DEF Queried

\* The service's records are ranked by their relevance.
LEMMA ByRelevance ==
    ASSUME records \subseteq LongTermRecord, Numbered(records), NEW some, some \subseteq records
    PROVE  StrictOrder(some, Better(some))
<1>1. IsFiniteSet(some)
  BY FS_Subset DEF Numbered
<1>2. \A x \in some : x.score \in Int /\ x.id \in Nat
  BY DEF LongTermRecord
<1>3. \A x, y \in some : x.id = y.id => x = y
  BY DEF Numbered
<1>4. \A x, y \in some : <<x, y>> \in Better(some) <=>
          x.score > y.score \/ (x.score = y.score /\ x.id < y.id)
  BY DEF Better
<1>5. \A x \in some : <<x, x>> \notin Better(some)
  BY <1>2, <1>4
<1>6. ASSUME NEW x \in some, NEW y \in some, x # y
      PROVE  <<x, y>> \in Better(some) \/ <<y, x>> \in Better(some)
  <2>1. x.id # y.id /\ x.score \in Int /\ y.score \in Int /\ x.id \in Nat /\ y.id \in Nat
    BY <1>2, <1>3, <1>6
  <2>2. x.score > y.score \/ (x.score = y.score /\ x.id < y.id)
          \/ y.score > x.score \/ (y.score = x.score /\ y.id < x.id)
    BY <2>1
  <2> QED
    BY <1>4, <2>2
<1>7. ASSUME NEW x \in some, NEW y \in some, NEW z \in some,
             <<x, y>> \in Better(some), <<y, z>> \in Better(some)
      PROVE  <<x, z>> \in Better(some)
  <2>1. /\ x.score > y.score \/ (x.score = y.score /\ x.id < y.id)
        /\ y.score > z.score \/ (y.score = z.score /\ y.id < z.id)
    BY <1>4, <1>7
  <2>2. x.score \in Int /\ y.score \in Int /\ z.score \in Int /\ x.id \in Nat /\ y.id \in Nat /\ z.id \in Nat
    BY <1>2
  <2>3. x.score > z.score \/ (x.score = z.score /\ x.id < z.id)
    BY <2>1, <2>2
  <2> QED
    BY <1>4, <2>3
<1> QED
  BY <1>1, <1>5, <1>6, <1>7 DEF StrictOrder

\* What the service answers are records of its own.
LEMMA AnswerOf ==
    ASSUME records \subseteq LongTermRecord, Numbered(records), NEW query \in Queried
    PROVE  Answer(query) \in Seq(LongTermRecord)
<1> DEFINE inNamespace(x) == \E ns \in x.namespaces : IsPrefix(query.namespace, ns)
           matching == {x \in records : strays \/ (x.strategy = query.strategy /\ inNamespace(x))}
           order == InOrder(matching, Better(matching))
<1>1. Answer(query) = FirstN(order, query.topK)
  BY DEF Answer
<1>2. matching \subseteq records
  OBVIOUS
<1> HIDE DEF matching
<1>3. StrictOrder(matching, Better(matching))
  BY <1>2, ByRelevance
<1>4. order \in Seq(matching)
  BY <1>3, Orders
<1> HIDE DEF order
<1>5. query.topK \in Nat
  BY QueryNumbers
<1>6. FirstN(order, query.topK) \in Seq(matching)
  BY <1>4, <1>5 DEF FirstN
<1>7. matching \subseteq LongTermRecord
  BY <1>2
<1> QED
  BY <1>1, <1>6, <1>7

\* Records whose relevance is raised are still records.
LEMMA BoostedIn ==
    ASSUME NEW s \in Seq(LongTermRecord), NEW boost \in Int
    PROVE  Boosted(s, boost) \in Seq(LongTermRecord)
<1>1. /\ Len(s) \in Nat /\ DOMAIN s = 1 .. Len(s)
      /\ \A n \in 1 .. Len(s) : s[n] \in LongTermRecord
  BY Entries
<1>2. ASSUME NEW x \in LongTermRecord
      PROVE  [x EXCEPT !.score = 10 * x.score + boost] \in LongTermRecord
  <2>1. x.score \in Int
    BY DEF LongTermRecord
  <2>2. 10 * x.score + boost \in Int
    BY <2>1
  <2> DEFINE Names == {NamespacesOf(a, t, g) : a \in Actors, t \in Sessions, g \in Strategies}
             Parts == [id : Nat, actor : Actors, strategy : Strategies, score : Int,
                       text : DOMAIN SizeOf, namespaces : Names]
  <2>3. x \in Parts /\ \E t \in Sessions : x.namespaces = NamespacesOf(x.actor, t, x.strategy)
    BY DEF LongTermRecord
  <2> HIDE DEF Names
  <2>4. PICK k : k = 10 * x.score + boost
    OBVIOUS
  <2>5. PICK y : y = [x EXCEPT !.score = k]
    OBVIOUS
  <2>6. y \in Parts
    BY <2>2, <2>3, <2>4, <2>5
  <2>7. y.actor = x.actor /\ y.strategy = x.strategy /\ y.namespaces = x.namespaces
    BY <2>3, <2>5
  <2>8. y \in LongTermRecord
    BY <2>3, <2>6, <2>7 DEF LongTermRecord, Names
  <2> QED
    BY <2>4, <2>5, <2>8
<1> QED
  BY <1>1, <1>2 DEF Boosted

\* What a new session asks for.
LEMMA ContextQueriesIn ==
    ASSUME NEW a \in Actors
    PROVE  ContextQueries(a) \in Seq(Queried)
<1> DEFINE q == ContextQueries(a)
<1>1. q[1] \in Queried /\ q[2] \in Queried /\ q[3] \in Queried /\ q[4] \in Queried
  BY DEF Queried
<1>2. q = <<q[1], q[2], q[3], q[4]>>
  BY DEF ContextQueries
<1> HIDE DEF q
<1>3. q \in Seq(Queried)
  <2> DEFINE w == q[1]
             x == q[2]
             y == q[3]
             z == q[4]
  <2>1. w \in Queried /\ x \in Queried /\ y \in Queried /\ z \in Queried /\ q = <<w, x, y, z>>
    BY <1>1, <1>2
  <2> HIDE DEF w, x, y, z
  <2>2. <<w, x, y, z>> \in Seq(Queried)
    BY <2>1
  <2> QED
    BY <2>1, <2>2
<1> QED
  BY <1>3 DEF q

\* What a recall asks for: each query is of a template and of the actor's.
LEMMA QueriesIn ==
    ASSUME NEW templates \in {Templates, <<>>}, NEW a \in Actors, NEW strategy
    PROVE  /\ Queries(templates, a, strategy) \in Seq(Queried)
           /\ \A q \in ToSet(Queries(templates, a, strategy)) :
                /\ q.namespace \notin {Slash, <<>>}
                /\ \E t \in ToSet(Templates) : q.namespace = Asked(t, a)
                /\ q.topK = TopK /\ q.boost = 0
<1> DEFINE T == ToSet(Templates)
           chosen == {t \in ToSet(templates) : strategy \in {None, t.strategy}}
           wanted == Among(templates, chosen)
           R == {RecallQuery(t, a) : t \in T}
           queries == [i \in DOMAIN wanted |-> RecallQuery(wanted[i], a)]
           good == {q \in ToSet(queries) : q.namespace \notin {Slash, <<>>}}
<1>1. templates \in Seq(T)
  <2>1. Templates \in Seq(T)
    BY MemoryAssumption DEF ToSet
  <2> HIDE DEF T
  <2>2. <<>> \in Seq(T)
    OBVIOUS
  <2> QED
    BY <2>1, <2>2
<1>2. wanted \in Seq({e \in T : e \in chosen})
  <2> HIDE DEF chosen, T
  <2> QED
    BY <1>1, AmongEntries
<1>3. Queries(templates, a, strategy) = Among(queries, good)
  BY DEF Queries
<1> HIDE DEF wanted, chosen, T
<1>4. wanted \in Seq(T)
  BY <1>2
<1>5. queries \in Seq(R)
  BY <1>4
<1> HIDE DEF queries
<1>6. Among(queries, good) \in Seq({e \in R : e \in good})
  <2> HIDE DEF good, R
  <2> QED
    BY <1>5, AmongEntries
<1>7. R \subseteq Queried
  BY DEF Queried, T
<1> DEFINE all == Among(queries, good)
<1> HIDE DEF good, all
<1>8. all \in Seq({e \in R : e \in good})
  BY <1>6 DEF all
<1>9. \A q \in ToSet(all) : q \in R /\ q \in good
  BY <1>8 DEF ToSet
<1>10. \A q \in R : (\E t \in T : q.namespace = Asked(t, a)) /\ q.topK = TopK /\ q.boost = 0
  BY DEF RecallQuery
<1>11. \A q \in good : q.namespace \notin {Slash, <<>>}
  BY DEF good
<1>12. all \in Seq(Queried)
  BY <1>7, <1>8
<1> QED
  BY <1>3, <1>9, <1>10, <1>11, <1>12 DEF all, T


\* What an answer to a search is made of belongs to the actor.
LEMMA MergedOwn ==
    ASSUME NEW found \in Seq(LongTermRecord), NEW prefixes
    PROVE  Merged(found, prefixes) \in Seq({x \in LongTermRecord : BelongsTo(x, prefixes)})
<1> DEFINE P == {x \in LongTermRecord : BelongsTo(x, prefixes)}
           mine == {x \in ToSet(found) : BelongsTo(x, prefixes)}
           own == Own(found, prefixes)
           sorted == ByScore(own)
           ranked == FirstOfEach(sorted, Ids(sorted))
<1>1. own \in Seq({x \in LongTermRecord : x \in mine})
  <2> HIDE DEF mine
  <2>1. Among(found, mine) \in Seq({x \in LongTermRecord : x \in mine})
    BY AmongEntries
  <2> QED
    BY <2>1 DEF Own, mine
<1>2. own \in Seq(P)
  <2>1. {x \in LongTermRecord : x \in mine} \subseteq P
    OBVIOUS
  <2> HIDE DEF own, P, mine
  <2> QED
    BY <1>1, <2>1
<1>3. \A x \in P : x.score \in Int
  BY DEF LongTermRecord
<1>4. Merged(found, prefixes) = FirstN(ranked, TopK)
  BY DEF Merged, Ranked
<1> HIDE DEF own, P, mine
<1>5. sorted \in Seq(P)
  BY <1>2, <1>3, Sorted
<1> HIDE DEF sorted
<1>6. ranked \in Seq(P)
  BY <1>5, FirstKept
<1> HIDE DEF ranked
<1>7. FirstN(ranked, TopK) \in Seq(P)
  BY <1>6, MemoryAssumption DEF FirstN
<1> QED
  BY <1>4, <1>7 DEF P

\* What belongs to an actor is of that actor, which may read it.
LEMMA OwnScoped ==
    ASSUME NEW a \in Actors, NEW prefixes,
           \A p \in prefixes : p \notin {Slash, <<>>} /\ \E t \in ToSet(Templates) : p = Asked(t, a),
           NEW x \in LongTermRecord, BelongsTo(x, prefixes)
    PROVE  x.actor = a /\ SafeNamespaces(x.namespaces, a) # {}
<1>1. PICK ns \in x.namespaces, p \in prefixes : IsPrefix(p, ns)
  BY DEF BelongsTo
<1>2. PICK t \in ToSet(Templates) : p = Asked(t, a)
  OBVIOUS
<1>3. PICK s \in Sessions : x.namespaces = NamespacesOf(x.actor, s, x.strategy)
  BY DEF LongTermRecord
<1>4. PICK u \in ToSet(Templates) : ns = Held(u, x.actor, s)
  BY <1>1, <1>3 DEF NamespacesOf
<1>5. x.actor \in Actors
  BY DEF LongTermRecord
<1>6. a = x.actor /\ NamespaceAllowed(Held(u, x.actor, s), a)
  BY <1>1, <1>2, <1>4, <1>5, TemplatesApart
<1> QED
  BY <1>1, <1>4, <1>6 DEF SafeNamespaces

\* LocalMemory's answers are turns of the actor's own sessions.
LEMMA LocalOwn ==
    ASSUME NEW a, NEW answer \in LocalAnswers(a)
    PROVE  /\ \A n \in DOMAIN answer : answer[n].actor = a
           /\ \A m, n \in DOMAIN answer : answer[m].id = answer[n].id => m = n
<1> DEFINE hits(s) == {i \in DOMAIN events[<<a, s>>] : events[<<a, s>>][i].text = "memory"}
           turn(s, i) == [id |-> <<s, i>>, actor |-> a, score |-> 1, namespaces |-> {}]
           found == UNION {{turn(s, i) : i \in hits(s)} : s \in Sessions}
           enough == IF Cardinality(found) < TopK THEN Cardinality(found) ELSE TopK
<1>1. \A x \in found : x.actor = a
  <2> HIDE DEF hits, turn
  <2> SUFFICES ASSUME NEW x \in found PROVE x.actor = a
    OBVIOUS
  <2>1. PICK s \in Sessions : x \in {turn(s, i) : i \in hits(s)}
    OBVIOUS
  <2>2. PICK i \in hits(s) : x = turn(s, i)
    BY <2>1
  <2> QED
    BY <2>2 DEF turn
<1>3. \A x, y \in found : x.id = y.id => x = y
  <2> HIDE DEF hits, turn
  <2> SUFFICES ASSUME NEW x \in found, NEW y \in found, x.id = y.id PROVE x = y
    OBVIOUS
  <2>1. ASSUME NEW z \in found PROVE \E s \in Sessions : \E i \in hits(s) : z = turn(s, i)
    <3>1. PICK s \in Sessions : z \in {turn(s, i) : i \in hits(s)}
      OBVIOUS
    <3> QED
      BY <3>1
  <2>2. PICK s \in Sessions : \E i \in hits(s) : x = turn(s, i)
    BY <2>1
  <2>3. PICK i \in hits(s) : x = turn(s, i)
    BY <2>2
  <2>4. PICK t \in Sessions : \E j \in hits(t) : y = turn(t, j)
    BY <2>1
  <2>5. PICK j \in hits(t) : y = turn(t, j)
    BY <2>4
  <2>6. <<s, i>> = <<t, j>>
    BY <2>3, <2>5 DEF turn
  <2>7. s = t /\ i = j
    BY <2>6
  <2> QED
    BY <2>3, <2>5, <2>7
<1>2. answer \in {some \in [1 .. enough -> found] : \A i, j \in 1 .. enough : some[i] = some[j] => i = j}
  BY DEF LocalAnswers
<1> HIDE DEF found, enough
<1> QED
  BY <1>1, <1>2, <1>3

\* The ranking of what is the actor's own: of each record once, by its relevance.
LEMMA RankedOwn ==
    ASSUME NEW found \in Seq(LongTermRecord), NEW prefixes, NEW r, r = Ranked(Own(found, prefixes))
    PROVE  /\ r \in Seq(LongTermRecord)
           /\ \A i, j \in 1 .. Len(r) : i < j => r[i].score >= r[j].score /\ r[i].id # r[j].id
           /\ \A n \in DOMAIN found : BelongsTo(found[n], prefixes) =>
                \E i \in 1 .. Len(r) : r[i].id = found[n].id /\ r[i].score >= found[n].score
<1> DEFINE mine == {x \in ToSet(found) : BelongsTo(x, prefixes)}
           own == Own(found, prefixes)
           b == ByScore(own)
           key == Ids(b)
           N == Len(own)
           M == Len(r)
<1>1. own \in Seq({x \in LongTermRecord : x \in mine}) /\ \A n \in DOMAIN found : found[n] \in mine =>
        \E m \in DOMAIN own : own[m] = found[n]
  <2> HIDE DEF mine
  <2>1. own = Among(found, mine)
    BY DEF Own, mine
  <2> HIDE DEF own
  <2> HIDE DEF b, key, M
  <2>2. /\ Among(found, mine) \in Seq({x \in LongTermRecord : x \in mine})
        /\ \A n \in DOMAIN found : found[n] \in mine =>
              \E m \in DOMAIN Among(found, mine) : Among(found, mine)[m] = found[n]
        /\ \A m \in DOMAIN Among(found, mine) : \E n \in DOMAIN found : Among(found, mine)[m] = found[n]
    BY ONLY AmongEntries, found \in Seq(LongTermRecord)
  <2> QED
    BY <2>1, <2>2
<1>2. own \in Seq(LongTermRecord)
  <2> HIDE DEF own, mine
  <2> QED
    BY <1>1
<1>3. \A n \in DOMAIN found : BelongsTo(found[n], prefixes) => \E m \in DOMAIN own : own[m] = found[n]
  <2>1. \A n \in DOMAIN found : BelongsTo(found[n], prefixes) => found[n] \in mine
    BY DEF ToSet
  <2> HIDE DEF own, mine
  <2> QED
    BY <1>1, <2>1
<1>4. r = FirstOfEach(b, key)
  BY DEF Ranked
<1> HIDE DEF own, N
<1>5. \A x \in LongTermRecord : x.score \in Int
  BY DEF LongTermRecord
<1>6. /\ b \in Seq(LongTermRecord) /\ Len(b) = N
      /\ \A i, j \in 1 .. N : i <= j => b[i].score >= b[j].score
      /\ \A n \in 1 .. N : \E i \in 1 .. N : b[i] = own[n]
  BY <1>2, <1>5, Sorted DEF N
<1>7. N \in Nat /\ DOMAIN own = 1 .. N /\ DOMAIN b = 1 .. N
  BY <1>2, <1>6 DEF N
<1>8. \A n \in 1 .. N : key[n] = b[n].id
  BY <1>7 DEF Ids
<1> HIDE DEF b, key
<1>9. FirstOfEach(b, key) \in Seq(LongTermRecord) /\ \E place : Keeps(FirstOfEach(b, key), place, b, key)
  BY <1>6, FirstKept
<1>10. r \in Seq(LongTermRecord) /\ \E place : Keeps(r, place, b, key)
  BY <1>4, <1>9
<1>11. PICK place : Keeps(r, place, b, key)
  BY <1>10
<1>12. M \in Nat
  BY <1>10
<1>13. /\ \A i \in 1 .. M : place[i] \in 1 .. N /\ r[i] = b[place[i]]
       /\ \A i, j \in 1 .. M : i < j => place[i] < place[j] /\ key[place[i]] # key[place[j]]
       /\ \A n \in 1 .. N : \E i \in 1 .. M : place[i] <= n /\ key[place[i]] = key[n]
  BY <1>6, <1>11 DEF Keeps
<1> HIDE DEF M
<1>14. \A i \in 1 .. M : r[i].id = key[place[i]]
  <2>1. \A i \in 1 .. M : place[i] \in 1 .. N /\ r[i] = b[place[i]]
    BY <1>13
  <2> QED
    BY <1>8, <2>1
<1>15. ASSUME NEW i \in 1 .. M, NEW j \in 1 .. M, i < j
       PROVE  r[i].score >= r[j].score /\ r[i].id # r[j].id
  <2>1. place[i] \in 1 .. N /\ place[j] \in 1 .. N /\ place[i] < place[j] /\ r[i] = b[place[i]] /\ r[j] = b[place[j]]
    BY <1>13, <1>15
  <2>2. place[i] <= place[j]
    BY <1>7, <2>1
  <2>3. r[i].score >= r[j].score
    BY <1>6, <2>1, <2>2
  <2>4. r[i].id # r[j].id
    <3>1. key[place[i]] # key[place[j]]
      BY <1>13, <1>15
    <3> QED
      BY <1>14, <3>1
  <2> QED
    BY <2>3, <2>4
<1>16. ASSUME NEW n \in DOMAIN found, BelongsTo(found[n], prefixes)
       PROVE  \E i \in 1 .. M : r[i].id = found[n].id /\ r[i].score >= found[n].score
  <2>1. PICK m \in 1 .. N : own[m] = found[n]
    BY <1>3, <1>7, <1>16
  <2>2. PICK at \in 1 .. N : b[at] = found[n]
    BY <1>6, <2>1
  <2>3. PICK i \in 1 .. M : place[i] <= at /\ key[place[i]] = key[at]
    BY <1>13
  <2>4. r[i].id = found[n].id
    BY <1>8, <1>14, <2>2, <2>3
  <2>5. place[i] \in 1 .. N /\ r[i] = b[place[i]]
    BY <1>13
  <2>6. r[i].score >= found[n].score
    BY <1>6, <2>2, <2>3, <2>5
  <2> QED
    BY <2>4, <2>6
<1> QED
  BY <1>10, <1>15, <1>16 DEF M

\* The best of a ranking: what is not among them is less relevant than all.
LEMMA MergedRepresents ==
    ASSUME NEW found \in Seq(LongTermRecord), NEW prefixes, NEW result, result = Merged(found, prefixes)
    PROVE  /\ \A m, n \in DOMAIN result : result[m].id = result[n].id => m = n
           /\ \A x \in LongTermRecord : Represented(found, prefixes, x) =>
                \/ \E n \in DOMAIN result : result[n].id = x.id
                \/ Len(result) = TopK /\ \A n \in DOMAIN result : result[n].score >= 10 * x.score
<1> DEFINE r == Ranked(Own(found, prefixes))
           M == Len(r)
           k == IF M < TopK THEN M ELSE TopK
<1>1. result = SubSeq(r, 1, k)
  BY DEF Merged, FirstN
<1> HIDE DEF r
<1>2. /\ r \in Seq(LongTermRecord)
      /\ \A i, j \in 1 .. M : i < j => r[i].score >= r[j].score /\ r[i].id # r[j].id
      /\ \A n \in DOMAIN found : BelongsTo(found[n], prefixes) =>
            \E i \in 1 .. M : r[i].id = found[n].id /\ r[i].score >= found[n].score
  BY RankedOwn DEF r
<1>3. M \in Nat /\ \A i \in 1 .. M : r[i].score \in Int
  BY <1>2, Entries DEF LongTermRecord
<1>4. TopK \in Nat \ {0}
  BY MemoryAssumption
<1>5. k \in 0 .. M /\ k <= TopK
  BY <1>3, <1>4
<1>6. result \in Seq(LongTermRecord) /\ Len(result) = k /\ DOMAIN result = 1 .. k
      /\ \A m \in 1 .. k : result[m] = r[m]
  BY <1>1, <1>2, <1>5, StartOf
<1> DEFINE Full(y) == Len(result) = TopK /\ \A n \in DOMAIN result : result[n].score >= y
<1>7. ASSUME NEW i \in 1 .. M, TopK <= i, NEW y \in Int, r[i].score >= y
      PROVE  Full(y)
  <2>1. k = TopK
    BY <1>3, <1>4, <1>7
  <2>2. ASSUME NEW n \in 1 .. k PROVE result[n].score >= y
    <3>1. n \in 1 .. M /\ n <= i
      BY <1>3, <1>4, <1>5, <1>7, <2>1
    <3>2. n = i \/ n < i
      BY <1>3, <3>1
    <3>3. r[n].score >= r[i].score
      BY <1>2, <1>3, <3>1, <3>2
    <3>4. r[n].score >= y
      BY <1>3, <1>7, <3>1, <3>3
    <3> QED
      BY <1>6, <3>4
  <2> QED
    BY <1>6, <2>1, <2>2
<1> HIDE DEF k
<1>8. ASSUME NEW m \in DOMAIN result, NEW n \in DOMAIN result, result[m].id = result[n].id
      PROVE  m = n
  <2>1. m \in 1 .. M /\ n \in 1 .. M /\ result[m] = r[m] /\ result[n] = r[n]
    BY <1>3, <1>5, <1>6
  <2>2. m < n \/ n < m \/ m = n
    BY <1>3, <2>1
  <2> QED
    BY <1>2, <1>8, <2>1, <2>2
<1>9. ASSUME NEW x \in LongTermRecord, Represented(found, prefixes, x)
      PROVE  (\E n \in DOMAIN result : result[n].id = x.id) \/ Full(10 * x.score)
  <2> DEFINE y == 10 * x.score
  <2>0. y \in Int /\ \A n \in DOMAIN found : found[n].score \in Int
    <3>1. x.score \in Int
      BY DEF LongTermRecord
    <3>2. \A n \in DOMAIN found : found[n] \in LongTermRecord
      BY Entries
    <3>3. \A z \in LongTermRecord : z.score \in Int
      BY DEF LongTermRecord
    <3>4. 10 * x.score \in Int
      BY <3>1
    <3> QED
      BY <3>2, <3>3, <3>4
  <2> HIDE DEF y, Full
  <2>1. ASSUME NEW n \in DOMAIN found, BelongsTo(found[n], prefixes), found[n].score >= y
        PROVE  \E i \in 1 .. M : r[i].id = found[n].id /\ r[i].score >= y
    <3>1. PICK i \in 1 .. M : r[i].id = found[n].id /\ r[i].score >= found[n].score
      BY <1>2, <2>1
    <3>2. r[i].score >= y
      BY <1>3, <2>0, <2>1, <3>1
    <3> QED
      BY <3>1, <3>2
  <2>2. CASE \E n \in DOMAIN found :
                found[n].id = x.id /\ found[n].score >= y /\ BelongsTo(found[n], prefixes)
    <3>1. PICK i \in 1 .. M : r[i].id = x.id /\ r[i].score >= y
      BY <2>1, <2>2
    <3>2. CASE i <= TopK
      <4>1. i \in 1 .. k
        BY <1>3, <1>4, <3>2 DEF k
      <4> QED
        BY <1>6, <3>1, <4>1
    <3>3. CASE ~(i <= TopK)
      <4>1. TopK <= i
        BY <1>3, <1>4, <3>3
      <4> QED
        BY <1>7, <2>0, <3>1, <4>1 DEF y
    <3> QED
      BY <3>2, <3>3
  <2>3. CASE \E f \in [1 .. TopK -> DOMAIN found] :
                /\ \A i \in 1 .. TopK : found[f[i]].score >= y /\ BelongsTo(found[f[i]], prefixes)
                /\ \A i, j \in 1 .. TopK : found[f[i]].id = found[f[j]].id => i = j
    <3>1. PICK f \in [1 .. TopK -> DOMAIN found] :
                /\ \A i \in 1 .. TopK : found[f[i]].score >= y /\ BelongsTo(found[f[i]], prefixes)
                /\ \A i, j \in 1 .. TopK : found[f[i]].id = found[f[j]].id => i = j
      BY <2>3
    <3> DEFINE g == [c \in 1 .. TopK |->
                        CHOOSE i \in 1 .. M : r[i].id = found[f[c]].id /\ r[i].score >= y]
    <3>2. \A c \in 1 .. TopK : g[c] \in 1 .. M /\ r[g[c]].id = found[f[c]].id /\ r[g[c]].score >= y
      <4> SUFFICES ASSUME NEW c \in 1 .. TopK
                   PROVE  g[c] \in 1 .. M /\ r[g[c]].id = found[f[c]].id /\ r[g[c]].score >= y
        OBVIOUS
      <4>1. \E i \in 1 .. M : r[i].id = found[f[c]].id /\ r[i].score >= y
        BY <2>1, <3>1
      <4> QED
        BY <4>1
    <3>3. \E c \in 1 .. TopK : TopK <= g[c]
      <4> SUFFICES ASSUME \A c \in 1 .. TopK : ~(TopK <= g[c]) PROVE FALSE
        OBVIOUS
      <4>1. ASSUME NEW c \in 1 .. TopK PROVE g[c] \in 1 .. TopK - 1
        <5>1. g[c] \in 1 .. M /\ ~(TopK <= g[c])
          BY <3>2
        <5> HIDE DEF g
        <5>2. g[c] \in Nat /\ g[c] >= 1
          BY <1>3, <5>1
        <5> QED
          BY <1>4, <5>1, <5>2
      <4>2. g \in [1 .. TopK -> 1 .. TopK - 1]
        BY <4>1
      <4> HIDE DEF g
      <4>3. /\ IsFiniteSet(1 .. TopK) /\ Cardinality(1 .. TopK) = TopK
            /\ IsFiniteSet(1 .. TopK - 1) /\ Cardinality(1 .. TopK - 1) = TopK - 1
        BY <1>4, FS_Interval
      <4>4. Cardinality(1 .. TopK - 1) < Cardinality(1 .. TopK)
        BY <1>4, <4>3
      <4>5. \E c, d \in 1 .. TopK : c # d /\ g[c] = g[d]
        BY <4>2, <4>3, <4>4, FS_PigeonHole
      <4> QED
        BY <3>1, <3>2, <4>5
    <3> HIDE DEF g
    <3>4. PICK c \in 1 .. TopK : TopK <= g[c]
      BY <3>3
    <3>5. Full(y)
      BY <1>7, <2>0, <3>2, <3>4
    <3> QED
      BY <3>5 DEF y
  <2> QED
    BY <1>9, <2>2, <2>3 DEF Represented, y
<1> QED
  BY <1>8, <1>9


\* A boosted record differs in its score only.
LEMMA BoostedParts ==
    ASSUME NEW s \in Seq(LongTermRecord), NEW boost \in Int
    PROVE  /\ Len(Boosted(s, boost)) = Len(s) /\ Len(s) \in Nat /\ DOMAIN Boosted(s, boost) = 1 .. Len(s)
           /\ \A n \in 1 .. Len(s) :
                /\ Boosted(s, boost)[n].id = s[n].id
                /\ Boosted(s, boost)[n].namespaces = s[n].namespaces
                /\ Boosted(s, boost)[n].score = 10 * s[n].score + boost
<1>1. /\ Len(s) \in Nat /\ DOMAIN s = 1 .. Len(s)
      /\ \A n \in 1 .. Len(s) : s[n] \in LongTermRecord
  BY Entries
<1>2. ASSUME NEW x \in LongTermRecord, NEW y, y = [x EXCEPT !.score = 10 * x.score + boost]
      PROVE  y.id = x.id /\ y.namespaces = x.namespaces /\ y.score = 10 * x.score + boost
  BY <1>2 DEF LongTermRecord
<1>3. /\ DOMAIN Boosted(s, boost) = 1 .. Len(s)
      /\ \A n \in 1 .. Len(s) : Boosted(s, boost)[n] = [s[n] EXCEPT !.score = 10 * s[n].score + boost]
  BY <1>1 DEF Boosted
<1>4. Len(Boosted(s, boost)) = Len(s)
  BY <1>1, <1>3
<1> QED
  BY <1>1, <1>2, <1>3, <1>4

\* An answer that does not stray holds what was asked for, or enough.
LEMMA AnswerCovers ==
    ASSUME records \subseteq LongTermRecord, Numbered(records), ~strays,
           NEW w, w.topK = TopK, NEW more, more = Boosted(Answer(w), 0),
           NEW prefixes, w.namespace \in prefixes,
           NEW x \in records, x.strategy = w.strategy,
           NEW ns \in x.namespaces, IsPrefix(w.namespace, ns)
    PROVE  Represented(more, prefixes, x)
<1> DEFINE inNamespace(y) == \E n \in y.namespaces : IsPrefix(w.namespace, n)
           matching == {y \in records : strays \/ (y.strategy = w.strategy /\ inNamespace(y))}
           order == InOrder(matching, Better(matching))
           N == Cardinality(matching)
           k == IF N < TopK THEN N ELSE TopK
           answer == Answer(w)
<1>1. answer = FirstN(order, TopK)
  BY DEF Answer
<1>2. matching \subseteq records
  OBVIOUS
<1>3. x \in matching
  OBVIOUS
<1>4. \A y \in matching : BelongsTo(y, prefixes)
  BY DEF BelongsTo
<1>5. \A y, z \in matching : <<y, z>> \in Better(matching) => y.score >= z.score
  <2> SUFFICES ASSUME NEW y \in matching, NEW z \in matching, <<y, z>> \in Better(matching)
               PROVE  y.score >= z.score
    OBVIOUS
  <2>1. y.score \in Int /\ z.score \in Int
    BY DEF LongTermRecord
  <2> HIDE DEF matching
  <2>2. y.score > z.score \/ (y.score = z.score /\ y.id < z.id)
    BY DEF Better
  <2> QED
    BY <2>1, <2>2
<1> HIDE DEF matching, answer
<1>6. StrictOrder(matching, Better(matching))
  BY <1>2, ByRelevance
<1>7. /\ order \in Seq(matching) /\ Len(order) = N /\ N \in Nat
      /\ \A m, n \in 1 .. N : m < n => <<order[m], order[n]>> \in Better(matching)
      /\ \E n \in 1 .. N : order[n] = x
  <2> DEFINE relation == Better(matching)
  <2> HIDE DEF relation
  <2>1. StrictOrder(matching, relation)
    BY <1>6 DEF relation
  <2>2. /\ InOrder(matching, relation) \in Seq(matching)
        /\ Len(InOrder(matching, relation)) = Cardinality(matching) /\ Cardinality(matching) \in Nat
    BY <2>1, Orders
  <2>3. \A m, n \in 1 .. Cardinality(matching) : m < n =>
              <<InOrder(matching, relation)[m], InOrder(matching, relation)[n]>> \in relation
    BY <2>1, Orders
  <2>4. \A y \in matching : \E n \in 1 .. Cardinality(matching) : InOrder(matching, relation)[n] = y
    BY <2>1, Orders
  <2> QED
    BY <1>3, <2>2, <2>3, <2>4 DEF relation
<1>8. \A y, z \in matching : <<y, z>> \in Better(matching) => y.id # z.id
  <2> SUFFICES ASSUME NEW y \in matching, NEW z \in matching, <<y, z>> \in Better(matching), y.id = z.id
               PROVE  FALSE
    OBVIOUS
  <2>1. y = z
    BY <1>2 DEF Numbered
  <2> QED
    BY <1>6, <2>1 DEF StrictOrder
<1> HIDE DEF order, N
<1>9. TopK \in Nat \ {0}
  BY MemoryAssumption
<1>10. answer = SubSeq(order, 1, k)
  BY <1>1, <1>7 DEF FirstN
<1>11. k \in 0 .. N /\ k <= TopK
  BY <1>7, <1>9
<1>12. /\ answer \in Seq(matching) /\ Len(answer) = k /\ DOMAIN answer = 1 .. k
       /\ \A n \in 1 .. k : answer[n] = order[n]
  BY <1>7, <1>10, <1>11, StartOf
<1>13. answer \in Seq(LongTermRecord)
  <2>1. matching \subseteq LongTermRecord
    BY <1>2
  <2> QED
    BY <1>12, <2>1
<1>14. /\ DOMAIN more = 1 .. k
       /\ \A n \in 1 .. k : more[n].id = order[n].id /\ more[n].namespaces = order[n].namespaces
                            /\ more[n].score = 10 * order[n].score
  <2>1. /\ DOMAIN more = 1 .. k
        /\ \A n \in 1 .. k : more[n].id = answer[n].id /\ more[n].namespaces = answer[n].namespaces
                             /\ more[n].score = 10 * answer[n].score + 0
    BY <1>12, <1>13, BoostedParts DEF answer
  <2>2. \A n \in 1 .. k : answer[n].score \in Int
    BY <1>12, <1>13, Entries DEF LongTermRecord
  <2> QED
    BY <1>12, <2>1, <2>2
<1>15. \A n \in 1 .. N : order[n] \in matching /\ order[n].score \in Int
  BY <1>2, <1>7, Entries DEF LongTermRecord
<1>16. \A n \in 1 .. k : n \in 1 .. N /\ BelongsTo(more[n], prefixes)
  <2> SUFFICES ASSUME NEW n \in 1 .. k PROVE n \in 1 .. N /\ BelongsTo(more[n], prefixes)
    OBVIOUS
  <2>1. n \in 1 .. N
    BY <1>7, <1>11
  <2>2. BelongsTo(order[n], prefixes)
    BY <1>4, <1>15, <2>1
  <2> QED
    BY <1>14, <2>1, <2>2 DEF BelongsTo
<1>17. PICK at \in 1 .. N : order[at] = x
  BY <1>7
<1> HIDE DEF k
<1>18. x.score \in Int
  BY DEF LongTermRecord
<1>19. CASE at <= TopK
  <2>1. at \in 1 .. k
    BY <1>7, <1>9, <1>19 DEF k
  <2>2. more[at].id = x.id /\ more[at].score >= 10 * x.score /\ BelongsTo(more[at], prefixes)
    BY <1>14, <1>16, <1>17, <1>18, <2>1
  <2> QED
    BY <1>14, <2>1, <2>2 DEF Represented
<1>20. CASE ~(at <= TopK)
  <2>1. k = TopK
    BY <1>7, <1>9, <1>20 DEF k
  <2> DEFINE f == [i \in 1 .. TopK |-> i]
  <2>2. f \in [1 .. TopK -> DOMAIN more] /\ \A i \in 1 .. TopK : f[i] = i
    BY <1>14, <2>1
  <2> HIDE DEF f
  <2>3. ASSUME NEW i \in 1 .. TopK
        PROVE  more[f[i]].score >= 10 * x.score /\ BelongsTo(more[f[i]], prefixes)
    <3>1. i < at /\ i \in 1 .. N
      BY <1>7, <1>9, <1>17, <1>20
    <3>2. order[i].score >= x.score
      BY <1>5, <1>7, <1>15, <1>17, <3>1
    <3>3. more[i].score = 10 * order[i].score
      BY <1>14, <2>1
    <3>4. order[i].score \in Int
      BY <1>15, <3>1
    <3>5. more[i].score >= 10 * x.score
      BY <1>18, <3>2, <3>3, <3>4
    <3> QED
      BY <1>16, <2>1, <2>2, <3>5
  <2>4. ASSUME NEW i \in 1 .. TopK, NEW j \in 1 .. TopK, more[f[i]].id = more[f[j]].id
        PROVE  i = j
    <3>1. order[i].id = order[j].id
      BY <1>14, <2>1, <2>2, <2>4
    <3>2. i \in 1 .. N /\ j \in 1 .. N
      BY <1>16, <2>1
    <3>3. i < j \/ j < i \/ i = j
      BY <1>9
    <3>4. ~(i < j) /\ ~(j < i)
      BY <1>7, <1>8, <1>15, <3>1, <3>2
    <3> QED
      BY <3>3, <3>4
  <2> QED
    BY <2>2, <2>3, <2>4 DEF Represented
<1> QED
  BY <1>19, <1>20

\* What a search has found it keeps.
LEMMA RepresentedGrows ==
    ASSUME NEW X, NEW found \in Seq(X), NEW more \in Seq(X), NEW prefixes, NEW x,
           Represented(found, prefixes, x) \/ Represented(more, prefixes, x)
    PROVE  Represented(found \o more, prefixes, x)
<1> DEFINE all == found \o more
           shifted == [n \in DOMAIN more |-> Len(found) + n]
<1>1. /\ DOMAIN found \subseteq DOMAIN all
      /\ \A n \in DOMAIN found : all[n] = found[n]
      /\ \A n \in DOMAIN more : Len(found) + n \in DOMAIN all /\ all[Len(found) + n] = more[n]
  OBVIOUS
<1> HIDE DEF all
<1>2. CASE Represented(found, prefixes, x)
  <2>1. CASE \E n \in DOMAIN found :
                found[n].id = x.id /\ found[n].score >= 10 * x.score /\ BelongsTo(found[n], prefixes)
    BY <1>1, <2>1 DEF Represented, all
  <2>2. CASE \E f \in [1 .. TopK -> DOMAIN found] :
                /\ \A i \in 1 .. TopK : found[f[i]].score >= 10 * x.score /\ BelongsTo(found[f[i]], prefixes)
                /\ \A i, j \in 1 .. TopK : found[f[i]].id = found[f[j]].id => i = j
    <3>1. PICK f \in [1 .. TopK -> DOMAIN found] :
                /\ \A i \in 1 .. TopK : found[f[i]].score >= 10 * x.score /\ BelongsTo(found[f[i]], prefixes)
                /\ \A i, j \in 1 .. TopK : found[f[i]].id = found[f[j]].id => i = j
      BY <2>2
    <3>2. f \in [1 .. TopK -> DOMAIN all] /\ \A i \in 1 .. TopK : all[f[i]] = found[f[i]]
      BY <1>1
    <3>3. /\ \A i \in 1 .. TopK : all[f[i]].score >= 10 * x.score /\ BelongsTo(all[f[i]], prefixes)
          /\ \A i, j \in 1 .. TopK : all[f[i]].id = all[f[j]].id => i = j
      BY <3>1, <3>2, Zenon
    <3>4. Represented(all, prefixes, x)
      BY <3>2, <3>3 DEF Represented
    <3> QED
      BY <3>4 DEF all
  <2> QED
    BY <1>2, <2>1, <2>2 DEF Represented
<1>3. CASE Represented(more, prefixes, x)
  <2>1. CASE \E n \in DOMAIN more :
                more[n].id = x.id /\ more[n].score >= 10 * x.score /\ BelongsTo(more[n], prefixes)
    <3>1. Represented(all, prefixes, x)
      BY <1>1, <2>1 DEF Represented
    <3> QED
      BY <3>1 DEF all
  <2>2. CASE \E f \in [1 .. TopK -> DOMAIN more] :
                /\ \A i \in 1 .. TopK : more[f[i]].score >= 10 * x.score /\ BelongsTo(more[f[i]], prefixes)
                /\ \A i, j \in 1 .. TopK : more[f[i]].id = more[f[j]].id => i = j
    <3>1. PICK f \in [1 .. TopK -> DOMAIN more] :
                /\ \A i \in 1 .. TopK : more[f[i]].score >= 10 * x.score /\ BelongsTo(more[f[i]], prefixes)
                /\ \A i, j \in 1 .. TopK : more[f[i]].id = more[f[j]].id => i = j
      BY <2>2
    <3> DEFINE g == [i \in 1 .. TopK |-> Len(found) + f[i]]
    <3>2. g \in [1 .. TopK -> DOMAIN all] /\ \A i \in 1 .. TopK : all[g[i]] = more[f[i]]
      BY <1>1
    <3> HIDE DEF g
    <3>3. /\ \A i \in 1 .. TopK : all[g[i]].score >= 10 * x.score /\ BelongsTo(all[g[i]], prefixes)
          /\ \A i, j \in 1 .. TopK : all[g[i]].id = all[g[j]].id => i = j
      BY <3>1, <3>2, Zenon
    <3>4. Represented(all, prefixes, x)
      BY <3>2, <3>3 DEF Represented
    <3> QED
      BY <3>4 DEF all
  <2> QED
    BY <1>3, <2>1, <2>2 DEF Represented
<1> QED
  BY <1>2, <1>3

\* Among drops nothing of what it keeps.
LEMMA AmongKeeps ==
    ASSUME NEW S, NEW s \in Seq(S), NEW T, NEW n \in DOMAIN s, s[n] \in T
    PROVE  s[n] \in ToSet(Among(s, T))
<1>1. /\ Among(s, T) \in Seq({e \in S : e \in T})
      /\ \A i \in DOMAIN s : s[i] \in T => \E m \in DOMAIN Among(s, T) : Among(s, T)[m] = s[i]
  BY AmongEntries
<1> QED
  BY <1>1 DEF ToSet

\* What an actor may read of the strategies asked for is in a namespace that
\* the search asks for.
LEMMA AllAskedFor ==
    ASSUME NEW a \in Actors, NEW strategy, NEW x \in LongTermRecord,
           strategy \in {None, x.strategy}, SafeNamespaces(x.namespaces, a) # {}
    PROVE  \E w \in ToSet(Queries(Templates, a, strategy)) :
              w.strategy = x.strategy /\ \E ns \in x.namespaces : IsPrefix(w.namespace, ns)
<1>1. PICK ns \in x.namespaces : NamespaceAllowed(ns, a)
  BY DEF SafeNamespaces
<1>2. PICK s \in Sessions : x.namespaces = NamespacesOf(x.actor, s, x.strategy)
  BY DEF LongTermRecord
<1>3. PICK u \in ToSet(Templates) : ns = Held(u, x.actor, s) /\ u.strategy = x.strategy
  BY <1>1, <1>2 DEF NamespacesOf
<1>4. x.actor \in Actors
  BY DEF LongTermRecord
<1>5. PICK t \in ToSet(Templates) :
         t.strategy = u.strategy /\ Asked(t, a) \notin {Slash, <<>>} /\ IsPrefix(Asked(t, a), ns)
  BY <1>1, <1>3, <1>4, TemplatesReach
<1> DEFINE T == ToSet(Templates)
           chosen == {e \in T : strategy \in {None, e.strategy}}
           wanted == Among(Templates, chosen)
           R == {RecallQuery(e, a) : e \in T}
           queries == [i \in DOMAIN wanted |-> RecallQuery(wanted[i], a)]
           good == {q \in ToSet(queries) : q.namespace \notin {Slash, <<>>}}
           w == RecallQuery(t, a)
<1>6. Templates \in Seq(T) /\ \E n \in DOMAIN Templates : Templates[n] = t
  BY MemoryAssumption DEF ToSet
<1>7. t \in chosen /\ t \in T
  BY <1>3, <1>5
<1>8. /\ wanted \in Seq({e \in T : e \in chosen})
      /\ \A n \in DOMAIN Templates : Templates[n] \in chosen => \E m \in DOMAIN wanted : wanted[m] = Templates[n]
  <2> HIDE DEF chosen, T
  <2> QED
    BY <1>6, AmongEntries
<1>9. Queries(Templates, a, strategy) = Among(queries, good)
  BY DEF Queries
<1> HIDE DEF wanted, chosen, T
<1>10. PICK at \in DOMAIN wanted : wanted[at] = t
  BY <1>6, <1>7, <1>8
<1>11. wanted \in Seq(T)
  BY <1>8
<1>12. queries \in Seq(R) /\ at \in DOMAIN queries /\ queries[at] = w
  BY <1>10, <1>11
<1>13. w \in good
  <2>1. w \in ToSet(queries)
    <3> HIDE DEF queries, w
    <3> QED
      BY <1>12 DEF ToSet
  <2> QED
    BY <1>5, <2>1 DEF RecallQuery
<1> HIDE DEF good, R, queries, w
<1>14. w \in ToSet(Among(queries, good))
  BY <1>12, <1>13, AmongKeeps
<1>15. w \in ToSet(Queries(Templates, a, strategy))
  BY <1>9, <1>14
<1>16. w.strategy = x.strategy /\ IsPrefix(w.namespace, ns)
  BY <1>3, <1>5 DEF RecallQuery, w
<1> QED
  BY <1>1, <1>15, <1>16

----------------------------------------------------------------------------
(* The steps of the runtime *)

\* A request without a search.
LEMMA QuietIsFine ==
    ASSUME NEW q, Whole(q), q.search = NoSearch, q.pc \notin {"context", "load", "recall"},
           q.pc \notin {"idle", "done"} => q.caller \in Callers,
           q.pc = "run" => bound'[q.caller.session] \in Actors
    PROVE  Fine(q)'
<1>1. /\ NoSearch.kind = None /\ NoSearch.todo = <<>> /\ NoSearch.found = <<>>
      /\ None \notin {"context", "recall"}
  BY MemoryAssumption DEF NoSearch
<1>2. <<>> \in Seq(Queried) /\ <<>> \in Seq(LongTermRecord)
  OBVIOUS
<1>3. Placed(q)' /\ Bound(q)'
  BY DEF Placed, Bound
<1>4. Searching(q.search)'
  <2>1. /\ q.search.kind = None /\ q.search.kind # "recall"
        /\ q.search.todo \in Seq(Queried) /\ q.search.found \in Seq(LongTermRecord)
    BY <1>1, <1>2
  <2> QED
    BY <2>1 DEF Searching, Queried
<1>5. Answered(q)' /\ Looked(q)'
  BY <1>1 DEF Answered, Looked
<1>6. Whole(q)'
  BY DEF Whole, WholeSearch
<1> QED
  BY <1>3, <1>4, <1>5, <1>6 DEF Fine

\* No search, as a search.
LEMMA NoSearchWhole == WholeSearch(NoSearch)
  BY DEF WholeSearch, NoSearch

\* A request at rest, and what remains of one that is over.
LEMMA QuietWhole ==
    ASSUME NEW p, NEW c, NEW n, NEW q, q = [pc |-> p, caller |-> c, calls |-> n, search |-> NoSearch]
    PROVE  Whole(q) /\ q.search = NoSearch /\ q.pc = p /\ q.caller = c
  BY NoSearchWhole DEF Whole

\* The invariant at the start.
LEMMA InitFine == MemoryInit => MemoryInv
<1> SUFFICES ASSUME MemoryInit PROVE MemoryInv
  OBVIOUS
<1>1. records \subseteq LongTermRecord /\ Numbered(records)
  <2>1. CASE backend = "agentcore"
    BY <2>1, MemoryAssumption DEF MemoryInit
  <2>2. CASE backend # "agentcore"
    <3>1. records = {}
      BY <2>2 DEF MemoryInit
    <3>2. IsFiniteSet({})
      BY FS_EmptySet
    <3> QED
      BY <3>1, <3>2 DEF Numbered
  <2> QED
    BY <2>1, <2>2
<1>2. MemoryTyped
  <2>1. <<>> \in Seq(Turns)
    OBVIOUS
  <2>2. events \in [Actors \X Sessions -> Seq(Turns)] /\ bound \in [Sessions -> Actors \cup {None}]
    BY <2>1 DEF MemoryInit
  <2>3. cache = None /\ req = [r \in Requests |-> req[r]]
    BY DEF MemoryInit
  <2> QED
    BY <1>1, <2>2, <2>3 DEF MemoryTyped
<1>3. ASSUME NEW r \in Requests
      PROVE  /\ Whole(req[r]) /\ Placed(req[r]) /\ Bound(req[r])
             /\ Searching(req[r].search) /\ Answered(req[r]) /\ Looked(req[r])
  <2>1. req[r] = [pc |-> "idle", caller |-> CHOOSE c \in Callers : TRUE, calls |-> 0, search |-> NoSearch]
    BY DEF MemoryInit, Idle
  <2>2. Whole(req[r]) /\ req[r].search = NoSearch /\ req[r].pc = "idle"
    BY <2>1, QuietWhole
  <2>3. /\ NoSearch.kind = None /\ NoSearch.todo = <<>> /\ NoSearch.found = <<>>
        /\ None \notin {"context", "recall"}
    BY MemoryAssumption DEF NoSearch
  <2>4. <<>> \in Seq(Queried) /\ <<>> \in Seq(LongTermRecord)
    OBVIOUS
  <2>5. Placed(req[r]) /\ Bound(req[r])
    BY <2>2 DEF Placed, Bound
  <2>6. Searching(req[r].search)
    <3>1. /\ req[r].search.kind = None /\ req[r].search.kind # "recall"
          /\ req[r].search.todo \in Seq(Queried) /\ req[r].search.found \in Seq(LongTermRecord)
      BY <2>2, <2>3, <2>4
    <3> QED
      BY <3>1 DEF Searching
  <2>7. Answered(req[r]) /\ Looked(req[r])
    BY <2>2, <2>3 DEF Answered, Looked
  <2> QED
    BY <2>2, <2>5, <2>6, <2>7
<1> QED
  BY <1>2, <1>3 DEF MemoryInv

\* A request begins, with the context of a new session to be looked for.
LEMMA BeginFine ==
    ASSUME MemoryInv, NEW r \in Requests, NEW c \in Callers, Begin(r, c)
    PROVE  MemoryInv'
<1> DEFINE loads == c.session \notin talked /\ backend = "agentcore"
<1>0. PICK old : old = [kind |-> "context", actor |-> ActorOf(c), strategy |-> None, known |-> records,
                        todo |-> ContextQueries(ActorOf(c)), prefixes |-> {}, found |-> <<>>,
                        sound |-> TRUE, result |-> <<>>]
  OBVIOUS
<1> DEFINE to == IF loads THEN "context" ELSE "run"
           search == IF loads THEN old ELSE NoSearch
<1>1. ActorOf(c) \in Actors /\ c.session \in Sessions
  BY DEF Actors, Sessions
<1>2. MemoryTyped
  BY DEF MemoryInv
<1>3. bound' \in [Sessions -> Actors \cup {None}] /\ bound'[c.session] \in Actors
      /\ \A s \in Sessions : bound[s] \in Actors => bound'[s] \in Actors
  BY <1>1, <1>2 DEF MemoryTyped, Begin
<1>4. PICK q : q = [pc |-> to, caller |-> c, calls |-> 0, search |-> search]
  OBVIOUS
<1>5. req' = [req EXCEPT ![r] = q]
  <2> DEFINE kept == [NoSearch EXCEPT !.kind = "context", !.actor = ActorOf(c),
                                      !.known = records, !.todo = ContextQueries(ActorOf(c))]
  <2>1. kept = old
    <3> DEFINE a == ActorOf(c)
               asked == ContextQueries(a)
    <3> HIDE DEF a, asked
    <3>1. PICK s : s = [NoSearch EXCEPT !.kind = "context", !.actor = a, !.known = records, !.todo = asked]
      OBVIOUS
    <3>2. s = [kind |-> "context", actor |-> a, strategy |-> None, known |-> records, todo |-> asked,
               prefixes |-> {}, found |-> <<>>, sound |-> TRUE, result |-> <<>>]
      BY <3>1 DEF NoSearch
    <3> QED
      BY <1>0, <3>1, <3>2 DEF a, asked
  <2> HIDE DEF kept
  <2>2. Idle = [pc |-> "idle", caller |-> CHOOSE d \in Callers : TRUE, calls |-> 0, search |-> NoSearch]
    BY DEF Idle
  <2>3. [Idle EXCEPT !.pc = to, !.caller = c, !.search = IF loads THEN kept ELSE NoSearch] = q
    <3> DEFINE s == IF loads THEN kept ELSE NoSearch
               first == CHOOSE d \in Callers : TRUE
    <3>1. search = s
      BY <2>1
    <3> HIDE DEF loads, to, s, search, first
    <3>2. Idle = [pc |-> "idle", caller |-> first, calls |-> 0, search |-> NoSearch]
      BY <2>2 DEF first
    <3>3. PICK p : p = [Idle EXCEPT !.pc = to, !.caller = c, !.search = s]
      OBVIOUS
    <3>4. p = [pc |-> to, caller |-> c, calls |-> 0, search |-> s]
      BY <3>2, <3>3
    <3> QED
      BY <1>4, <3>1, <3>3, <3>4 DEF s
  <2> QED
    BY <2>3 DEF Begin, kept
<1>6. Sets(r, q)
  BY <1>2, <1>5, OneSet DEF MemoryTyped
<1>7. MemoryTyped'
  BY <1>2, <1>3, <1>6 DEF MemoryTyped, Begin, Sets, Numbered
<1>8. Fine(q)'
  <2>1. CASE ~loads
    <3>1. q = [pc |-> "run", caller |-> c, calls |-> 0, search |-> NoSearch]
      BY <1>4, <2>1
    <3>2. Whole(q) /\ q.search = NoSearch /\ q.pc = "run" /\ q.caller = c
      BY <3>1, QuietWhole
    <3> QED
      BY <1>3, <3>2, QuietIsFine
  <2>2. CASE loads
    <3>1. q = [pc |-> "context", caller |-> c, calls |-> 0, search |-> old]
      BY <1>4, <2>2
    <3>2. WholeSearch(old)
      BY <1>0 DEF WholeSearch
    <3>3. q.pc = "context" /\ q.caller = c /\ q.search = old
      BY <3>1
    <3>4. old.kind = "context" /\ old.todo = ContextQueries(ActorOf(c)) /\ old.found = <<>>
      BY <1>0
    <3>5. Whole(q)'
      BY <3>1, <3>2, <3>3 DEF Whole, WholeSearch
    <3>6. Placed(q)' /\ Bound(q)'
      BY <1>3, <3>3, <3>4 DEF Placed, Bound
    <3>7. Searching(q.search)'
      <4>1. q.search.todo \in Seq(Queried)
        BY <1>1, <3>3, <3>4, ContextQueriesIn
      <4>2. q.search.found \in Seq(LongTermRecord)
        BY <3>3, <3>4
      <4>3. q.search.kind = "context"
        BY <3>3, <3>4
      <4> QED
        BY <4>1, <4>2, <4>3 DEF Searching
    <3>8. Answered(q)' /\ Looked(q)'
      BY <3>3, <3>4 DEF Answered, Looked
    <3> QED
      BY <3>5, <3>6, <3>7, <3>8 DEF Fine
  <2> QED
    BY <2>1, <2>2
<1>9. UNCHANGED settings /\ records \subseteq records'
  BY DEF Begin
<1> QED
  BY <1>3, <1>6, <1>7, <1>8, <1>9, OneIsFine

\* The first of a sequence and the rest.
LEMMA HeadTail ==
    ASSUME NEW X, NEW s \in Seq(X), s # <<>>
    PROVE  /\ Head(s) \in X /\ Tail(s) \in Seq(X) /\ Head(s) \in ToSet(s)
           /\ \A x \in ToSet(s) : x = Head(s) \/ x \in ToSet(Tail(s))
<1>1. /\ Len(s) \in Nat /\ Len(s) > 0 /\ DOMAIN s = 1 .. Len(s) /\ Head(s) = s[1] /\ s[1] \in X
      /\ Tail(s) \in Seq(X) /\ DOMAIN Tail(s) = 1 .. Len(s) - 1
      /\ \A n \in 1 .. Len(s) - 1 : Tail(s)[n] = s[n + 1]
  OBVIOUS
<1>2. ASSUME NEW x \in ToSet(s), x # Head(s) PROVE x \in ToSet(Tail(s))
  <2>1. PICK n \in 1 .. Len(s) : s[n] = x
    BY <1>1 DEF ToSet
  <2>2. n - 1 \in 1 .. Len(s) - 1 /\ (n - 1) + 1 = n
    BY <1>1, <1>2, <2>1
  <2>3. Tail(s)[n - 1] = x
    BY <1>1, <2>1, <2>2
  <2> QED
    BY <1>1, <2>2, <2>3 DEF ToSet
<1>3. Head(s) \in ToSet(s)
  BY <1>1 DEF ToSet
<1> QED
  BY <1>1, <1>2, <1>3

\* What is known of a request.
LEMMA Known ==
    ASSUME MemoryInv, NEW r \in Requests
    PROVE  /\ MemoryTyped /\ Whole(req[r]) /\ WholeSearch(req[r].search)
           /\ Placed(req[r]) /\ Bound(req[r])
           /\ Searching(req[r].search) /\ Answered(req[r]) /\ Looked(req[r])
           /\ records \subseteq LongTermRecord /\ Numbered(records)
           /\ req = [x \in Requests |-> req[x]]
  BY DEF MemoryInv, Whole, MemoryTyped

\* The types of what a request does not change.
LEMMA OthersTyped ==
    ASSUME MemoryTyped, NEW r, NEW q, Sets(r, q), UNCHANGED <<events, records, bound>>,
           cache' \in {None, Templates, <<>>}
    PROVE  MemoryTyped'
  BY DEF MemoryTyped, Sets, Numbered

\* One answer of the service: the query it answers is covered, what was covered
\* stays so, and a query that fails leaves the search unsound.
LEMMA RetrieveFine ==
    ASSUME MemoryInv, NEW r \in Requests, Retrieve(r)
    PROVE  MemoryInv'
<1>1. PICK s : s = req[r].search
  OBVIOUS
<1>2. /\ MemoryTyped /\ Whole(req[r]) /\ WholeSearch(s) /\ Placed(req[r]) /\ Bound(req[r])
      /\ Searching(s) /\ Answered(req[r]) /\ Looked(req[r])
      /\ records \subseteq LongTermRecord /\ Numbered(records)
      /\ req = [x \in Requests |-> req[x]]
  BY <1>1, Known
<1>3. s.todo \in Seq(Queried) /\ s.todo # <<>> /\ s.found \in Seq(LongTermRecord)
  BY <1>1, <1>2 DEF Searching, Retrieve
<1>4. PICK query : query = Head(s.todo)
  OBVIOUS
<1>5. PICK rest : rest = Tail(s.todo)
  OBVIOUS
<1>6. /\ query \in Queried /\ rest \in Seq(Queried)
      /\ \A w \in ToSet(s.todo) : w = query \/ w \in ToSet(rest)
  BY <1>3, <1>4, <1>5, HeadTail
<1>7. PICK more : more = Boosted(Answer(query), query.boost)
  OBVIOUS
<1>8. more \in Seq(LongTermRecord)
  BY <1>2, <1>6, <1>7, AnswerOf, BoostedIn, QueryNumbers
<1>9. PICK ok \in Outcomes :
        Proceed(r, req[r].pc, [s EXCEPT
            !.todo = rest,
            !.found = IF ok THEN s.found \o more ELSE s.found,
            !.sound = s.sound /\ ok /\ ~strays])
  BY <1>1, <1>4, <1>5, <1>7 DEF Retrieve
<1>10. PICK found : found = IF ok THEN s.found \o more ELSE s.found
  OBVIOUS
<1>11. PICK sound : sound = (s.sound /\ ok /\ ~strays)
  OBVIOUS
<1>12. PICK n : n = [s EXCEPT !.todo = rest, !.found = found, !.sound = sound]
  OBVIOUS
<1>13. n = [kind |-> s.kind, actor |-> s.actor, strategy |-> s.strategy, known |-> s.known,
            todo |-> rest, prefixes |-> s.prefixes, found |-> found, sound |-> sound,
            result |-> s.result]
  BY <1>2, <1>12 DEF WholeSearch
<1>14. Proceed(r, req[r].pc, n)
  BY <1>9, <1>10, <1>11, <1>12
<1>15. PICK q : q = [pc |-> req[r].pc, caller |-> req[r].caller, calls |-> req[r].calls, search |-> n]
  OBVIOUS
<1>16. Sets(r, q)
  BY <1>2, <1>14, <1>15, OneProceeds
<1>17. MemoryTyped'
  BY <1>2, <1>16, OthersTyped DEF Retrieve, MemoryTyped
<1>18. found \in Seq(LongTermRecord)
  BY <1>3, <1>8, <1>10
<1>19. /\ n.kind = s.kind /\ n.actor = s.actor /\ n.strategy = s.strategy /\ n.known = s.known
       /\ n.todo = rest /\ n.prefixes = s.prefixes /\ n.found = found /\ n.sound = sound
       /\ q.pc = req[r].pc /\ q.caller = req[r].caller /\ q.search = n
  BY <1>13, <1>15
<1>20. WholeSearch(n) /\ Whole(q)
  <2>1. WholeSearch(n)
    BY <1>13 DEF WholeSearch
  <2> QED
    BY <1>15, <2>1 DEF Whole
<1>21. Whole(q)'
  BY <1>20 DEF Whole, WholeSearch
<1>22. q.pc \in {"context", "recall"}
  BY <1>19 DEF Retrieve
<1>23. Placed(q)' /\ Bound(q)'
  BY <1>1, <1>2, <1>19, <1>22 DEF Placed, Bound, Retrieve
<1>24. Searching(q.search)'
  BY <1>2, <1>6, <1>18, <1>19 DEF Searching, Queried
<1>25. Answered(q)'
  BY <1>22 DEF Answered
<1>26. ASSUME s.kind = "recall", sound, q.pc = "recall" PROVE Progress(n)
  <2>1. s.sound /\ ok /\ ~strays
    BY <1>11, <1>26
  <2>2. Progress(s) /\ s.known \subseteq records
    BY <1>1, <1>2, <1>19, <1>26, <2>1 DEF Looked
  <2>3. Wanted(n) = Wanted(s)
    BY <1>19 DEF Wanted
  <2>4. found = s.found \o more
    BY <1>10, <2>1
  <2>5. ASSUME NEW w \in Wanted(s), NEW x \in s.known, x.strategy = w.strategy,
               NEW ns \in x.namespaces, IsPrefix(w.namespace, ns), w \notin ToSet(rest)
        PROVE  Represented(found, s.prefixes, x)
    <3>1. CASE w = query
      <4>1. s.actor \in Actors
        BY <1>2, <1>26 DEF Searching
      <4>2. w.topK = TopK /\ w.boost = 0
        BY <4>1, QueriesIn DEF Wanted
      <4>3. w.namespace \in s.prefixes
        BY <2>2 DEF Progress
      <4>4. more = Boosted(Answer(w), 0)
        BY <1>7, <3>1, <4>2
      <4>5. x \in records
        BY <2>2
      <4>6. Represented(more, s.prefixes, x)
        BY <1>2, <2>1, <2>5, <4>2, <4>3, <4>4, <4>5, AnswerCovers
      <4> QED
        BY <1>3, <1>8, <2>4, <4>6, RepresentedGrows
    <3>2. CASE w # query
      <4>1. Covered(s, w)
        BY <1>6, <2>2, <2>5, <3>2 DEF Progress
      <4>2. Represented(s.found, s.prefixes, x)
        BY <2>5, <4>1 DEF Covered
      <4> QED
        BY <1>3, <1>8, <2>4, <4>2, RepresentedGrows
    <3> QED
      BY <3>1, <3>2
  <2>6. \A w \in Wanted(n) : w \in ToSet(n.todo) \/ Covered(n, w)
    BY <1>19, <2>3, <2>5 DEF Covered
  <2>7. n.prefixes = {w.namespace : w \in Wanted(n)}
    BY <1>19, <2>2, <2>3 DEF Progress
  <2> QED
    BY <2>6, <2>7 DEF Progress
<1>27. Looked(q)'
  <2>1. records' = records
    BY DEF Retrieve
  <2>2. q.pc \in {"load", "recall"} => q.search.known \subseteq records
    BY <1>1, <1>2, <1>19 DEF Looked
  <2>3. q.search.kind = "recall" /\ q.search.sound /\ q.pc = "recall" => Progress(q.search)
    BY <1>19, <1>26
  <2>4. Progress(q.search) => Progress(q.search)'
    BY DEF Progress, Covered, Wanted
  <2> QED
    BY <1>22, <2>1, <2>2, <2>3, <2>4 DEF Looked
<1>28. Fine(q)'
  BY <1>21, <1>23, <1>24, <1>25, <1>27 DEF Fine
<1>29. UNCHANGED settings /\ records \subseteq records' /\ bound' = bound
  BY DEF Retrieve
<1> QED
  BY <1>16, <1>17, <1>28, <1>29, OneIsFine

\* A request that goes on with the search it has done.
LEMMA SearchKept ==
    ASSUME MemoryInv, NEW r \in Requests, NEW to, NEW n, NEW q,
           q = [pc |-> to, caller |-> req[r].caller, calls |-> n, search |-> req[r].search],
           req[r].pc \notin {"context", "load", "recall", "idle", "done"},
           to \notin {"context", "load", "recall"}, to = "run" => req[r].pc = "run",
           UNCHANGED <<backend, records, bound>>
    PROVE  Fine(q)'
<1>1. /\ MemoryTyped /\ Whole(req[r]) /\ WholeSearch(req[r].search) /\ Placed(req[r]) /\ Bound(req[r])
      /\ Searching(req[r].search) /\ Answered(req[r]) /\ Looked(req[r])
  BY Known
<1>2. q.pc = to /\ q.caller = req[r].caller /\ q.search = req[r].search /\ Whole(q)
  BY <1>1 DEF Whole
<1>3. Whole(q)'
  BY <1>2 DEF Whole, WholeSearch
<1>4. Placed(q)' /\ Bound(q)'
  BY <1>1, <1>2 DEF Placed, Bound
<1>5. Searching(q.search)'
  BY <1>1, <1>2 DEF Searching, Queried
<1>6. Answered(q)'
  BY <1>1, <1>2 DEF Answered
<1>7. Looked(q)'
  <2>1. q.search.kind = "recall" /\ q.search.sound => Complete(q.search)
    BY <1>1, <1>2 DEF Looked
  <2>2. Complete(q.search) => Complete(q.search)'
    BY DEF Complete
  <2>3. q.pc \notin {"context", "load", "recall"}
    BY <1>2
  <2> QED
    BY <2>1, <2>2, <2>3 DEF Looked
<1> QED
  BY <1>3, <1>4, <1>5, <1>6, <1>7 DEF Fine

\* A turn more in a conversation.
LEMMA EventsTyped ==
    ASSUME MemoryTyped, NEW a, NEW s, NEW t \in Turns, CreateEvent(a, s, t)
    PROVE  events' \in [Actors \X Sessions -> Seq(Turns)]
<1>1. events \in [Actors \X Sessions -> Seq(Turns)]
  BY DEF MemoryTyped
<1>2. CASE UNCHANGED events
  BY <1>1, <1>2
<1>3. CASE AddTurn(a, s, t)
  <2>1. events' = [events EXCEPT ![<<a, s>>] = Append(events[<<a, s>>], t)]
    BY <1>3 DEF AddTurn
  <2> DEFINE k == <<a, s>>
             V == Seq(Turns)
  <2>2. k \in Actors \X Sessions => Append(events[k], t) \in V
    BY <1>1
  <2> HIDE DEF k, V
  <2>3. events' = [events EXCEPT ![k] = Append(events[k], t)] /\ events \in [Actors \X Sessions -> V]
    BY <1>1, <2>1 DEF k, V
  <2>4. events' \in [Actors \X Sessions -> V]
    BY <2>2, <2>3
  <2> QED
    BY <2>4 DEF V
<1> QED
  BY <1>2, <1>3 DEF CreateEvent

\* The types of what a request that writes an event does not change.
LEMMA WithEventsTyped ==
    ASSUME MemoryTyped, NEW r, NEW q, Sets(r, q), UNCHANGED <<cache, records, bound>>,
           events' \in [Actors \X Sessions -> Seq(Turns)]
    PROVE  MemoryTyped'
  BY DEF MemoryTyped, Sets, Numbered

\* save_memory.
LEMMA SaveFine ==
    ASSUME MemoryInv, NEW r \in Requests, NEW category, SaveMemory(r, category)
    PROVE  MemoryInv'
<1>1. MemoryTyped /\ Whole(req[r]) /\ req = [x \in Requests |-> req[x]]
  BY Known
<1>2. PICK q : q = [pc |-> req[r].pc, caller |-> req[r].caller, calls |-> req[r].calls + 1,
                    search |-> req[r].search]
  OBVIOUS
<1>3. Sets(r, q)
  <2>1. PICK p : p = [req[r] EXCEPT !.calls = req[r].calls + 1]
    OBVIOUS
  <2>2. p = q
    BY <1>1, <1>2, <2>1 DEF Whole
  <2>3. req' = [req EXCEPT ![r] = p]
    BY <2>1 DEF SaveMemory
  <2> QED
    BY <1>1, <2>2, <2>3, OneSet
<1>4. events' \in [Actors \X Sessions -> Seq(Turns)]
  <2>1. Turn("assistant", "memory") \in Turns
    BY DEF Turn, Turns, Said
  <2>2. CASE CreateEvent(ToolActor(r), Session(r), Turn("assistant", "memory"))
    BY <1>1, <2>1, <2>2, EventsTyped
  <2>3. CASE UNCHANGED events
    BY <1>1, <2>3 DEF MemoryTyped
  <2> QED
    BY <2>2, <2>3 DEF SaveMemory
<1>5. MemoryTyped'
  BY <1>1, <1>3, <1>4, WithEventsTyped DEF SaveMemory
<1>6. req[r].pc = "run" /\ UNCHANGED <<backend, records, bound>>
  BY DEF SaveMemory, At, settings
<1>7. Fine(q)'
  BY <1>2, <1>6, SearchKept
<1>8. UNCHANGED settings /\ records \subseteq records'
  BY DEF SaveMemory
<1> QED
  BY <1>3, <1>5, <1>6, <1>7, <1>8, OneIsFine

\* What the user said.
LEMMA IngestUserFine ==
    ASSUME MemoryInv, NEW r \in Requests, IngestUser(r)
    PROVE  MemoryInv'
<1>1. MemoryTyped /\ Whole(req[r]) /\ req = [x \in Requests |-> req[x]]
  BY Known
<1>2. PICK q : q = [pc |-> "assistant", caller |-> req[r].caller, calls |-> req[r].calls,
                    search |-> req[r].search]
  OBVIOUS
<1>3. Sets(r, q)
  BY <1>1, <1>2, OneMoves DEF IngestUser
<1>4. events' \in [Actors \X Sessions -> Seq(Turns)]
  <2>1. Turn("user", "message") \in Turns
    BY DEF Turn, Turns, Said
  <2> QED
    BY <1>1, <2>1, EventsTyped DEF IngestUser
<1>5. MemoryTyped'
  BY <1>1, <1>3, <1>4, WithEventsTyped DEF IngestUser
<1>6. req[r].pc = "user" /\ UNCHANGED <<backend, records, bound>>
  BY DEF IngestUser, At, settings
<1>7. Fine(q)'
  BY <1>2, <1>6, SearchKept
<1>8. UNCHANGED settings /\ records \subseteq records'
  BY DEF IngestUser
<1> QED
  BY <1>3, <1>5, <1>6, <1>7, <1>8, OneIsFine

\* Idle and what is made of it.
LEMMA FromIdle ==
    ASSUME NEW to, NEW c
    PROVE  /\ [Idle EXCEPT !.pc = to] =
                [pc |-> to, caller |-> Idle.caller, calls |-> 0, search |-> NoSearch]
           /\ [Idle EXCEPT !.pc = to, !.caller = c] =
                [pc |-> to, caller |-> c, calls |-> 0, search |-> NoSearch]
<1> DEFINE first == CHOOSE d \in Callers : TRUE
           none == NoSearch
<1>1. Idle = [pc |-> "idle", caller |-> first, calls |-> 0, search |-> none]
  BY DEF Idle
<1> HIDE DEF first, none
<1>2. PICK p : p = [Idle EXCEPT !.pc = to]
  OBVIOUS
<1>3. PICK q : q = [Idle EXCEPT !.pc = to, !.caller = c]
  OBVIOUS
<1>4. p = [pc |-> to, caller |-> Idle.caller, calls |-> 0, search |-> none]
  BY <1>1, <1>2
<1>5. q = [pc |-> to, caller |-> c, calls |-> 0, search |-> none]
  BY <1>1, <1>3
<1> QED
  BY <1>2, <1>3, <1>4, <1>5 DEF none

\* A request that is over.
LEMMA OverFine ==
    ASSUME MemoryTyped, NEW r \in Requests, req' = [req EXCEPT ![r] = Over]
    PROVE  \E q : Sets(r, q) /\ Fine(q)'
<1>1. PICK q : q = [pc |-> "done", caller |-> Idle.caller, calls |-> 0, search |-> NoSearch]
  OBVIOUS
<1>2. Over = q
  BY <1>1, FromIdle DEF Over
<1>5. Sets(r, q)
  BY <1>2, OneSet DEF MemoryTyped
<1>6. Whole(q) /\ q.search = NoSearch /\ q.pc = "done"
  BY <1>1, QuietWhole
<1>7. Fine(q)'
  BY <1>6, QuietIsFine
<1> QED
  BY <1>5, <1>7

\* What the agent answered.
LEMMA IngestAnswerFine ==
    ASSUME MemoryInv, NEW r \in Requests, IngestAnswer(r)
    PROVE  MemoryInv'
<1>1. MemoryTyped
  BY Known
<1>2. PICK q : Sets(r, q) /\ Fine(q)'
  BY <1>1, OverFine DEF IngestAnswer
<1>3. events' \in [Actors \X Sessions -> Seq(Turns)]
  <2>1. PICK text \in {"answer", "blank"} : CreateEvent(Actor(r), Session(r), Turn("assistant", text))
    BY DEF IngestAnswer
  <2>2. Turn("assistant", text) \in Turns
    BY DEF Turn, Turns, Said
  <2> QED
    BY <1>1, <2>1, <2>2, EventsTyped
<1>4. MemoryTyped'
  BY <1>1, <1>2, <1>3, WithEventsTyped DEF IngestAnswer
<1>5. UNCHANGED settings /\ records \subseteq records' /\ bound' = bound
  BY DEF IngestAnswer
<1> QED
  BY <1>2, <1>4, <1>5, OneIsFine

\* The agent's answer, or its failure.
LEMMA RespondFine ==
    ASSUME MemoryInv, NEW r \in Requests, Respond(r)
    PROVE  MemoryInv'
<1>1. MemoryTyped /\ Placed(req[r]) /\ req = [x \in Requests |-> req[x]]
  BY Known
<1>2. req[r].pc = "run" /\ req[r].caller \in Callers
  BY <1>1 DEF Respond, At, Placed
<1>3. \E q : Sets(r, q) /\ Fine(q)'
  <2>1. CASE req' = [req EXCEPT ![r] = Over]
    BY <1>1, <2>1, OverFine
  <2>2. CASE req' = [req EXCEPT ![r] = [Idle EXCEPT !.pc = "user", !.caller = req[r].caller]]
    <3>1. PICK q : q = [pc |-> "user", caller |-> req[r].caller, calls |-> 0, search |-> NoSearch]
      OBVIOUS
    <3>2. [Idle EXCEPT !.pc = "user", !.caller = req[r].caller] = q
      BY <3>1, FromIdle
    <3>4. Sets(r, q)
      BY <1>1, <2>2, <3>2, OneSet
    <3>5. Whole(q) /\ q.search = NoSearch /\ q.pc = "user" /\ q.caller = req[r].caller
      BY <3>1, QuietWhole
    <3>6. Fine(q)'
      BY <1>2, <3>5, QuietIsFine
    <3> QED
      BY <3>4, <3>6
  <2> QED
    BY <2>1, <2>2 DEF Respond
<1>4. PICK q : Sets(r, q) /\ Fine(q)'
  BY <1>3
<1>5. MemoryTyped'
  BY <1>1, <1>4, OthersTyped DEF Respond, MemoryTyped
<1>6. UNCHANGED settings /\ records \subseteq records' /\ bound' = bound
  BY DEF Respond
<1> QED
  BY <1>4, <1>5, <1>6, OneIsFine

\* After a restart no request has a search.
LEMMA RestartFine ==
    ASSUME MemoryInv, Restart
    PROVE  MemoryInv'
<1>1. MemoryTyped
  BY DEF MemoryInv
<1>2. /\ cache' = None /\ bound' = [s \in Sessions |-> None] /\ UNCHANGED settings /\ records' = records
      /\ events' = IF backend = "local" THEN [k \in DOMAIN events |-> <<>>] ELSE events
      /\ req' = [r \in Requests |-> IF At(r, "idle") THEN Idle ELSE Over]
  BY DEF Restart
<1>3. events' \in [Actors \X Sessions -> Seq(Turns)]
  <2>1. <<>> \in Seq(Turns) /\ DOMAIN events = Actors \X Sessions
    BY <1>1 DEF MemoryTyped
  <2> QED
    BY <1>1, <1>2, <2>1 DEF MemoryTyped
<1>4. MemoryTyped'
  BY <1>1, <1>2, <1>3 DEF MemoryTyped, Numbered
<1>5. ASSUME NEW r \in Requests PROVE Fine(req[r])'
  <2>1. PICK to \in {"idle", "done"} :
           req'[r] = [pc |-> to, caller |-> Idle.caller, calls |-> 0, search |-> NoSearch]
    <3>1. Idle = [pc |-> "idle", caller |-> Idle.caller, calls |-> 0, search |-> NoSearch]
      BY DEF Idle
    <3>2. Over = [pc |-> "done", caller |-> Idle.caller, calls |-> 0, search |-> NoSearch]
      BY FromIdle DEF Over
    <3> QED
      BY <1>2, <3>1, <3>2
  <2>2. PICK q : q = [pc |-> to, caller |-> Idle.caller, calls |-> 0, search |-> NoSearch]
    OBVIOUS
  <2>3. req'[r] = q
    BY <2>1, <2>2
  <2>4. Whole(q) /\ q.search = NoSearch /\ q.pc = to
    BY <2>2, QuietWhole
  <2>5. Fine(q)'
    BY <2>4, QuietIsFine
  <2> QED
    BY <2>3, <2>5
<1> QED
  BY <1>4, <1>5 DEF MemoryInv, Fine

\* The context is chosen from what was found.
LEMMA EndContextFine ==
    ASSUME MemoryInv, NEW r \in Requests, EndContext(r)
    PROVE  MemoryInv'
<1>1. PICK s : s = req[r].search
  OBVIOUS
<1>2. /\ MemoryTyped /\ Whole(req[r]) /\ WholeSearch(s) /\ Placed(req[r]) /\ Bound(req[r])
      /\ Searching(s) /\ req = [x \in Requests |-> req[x]]
  BY <1>1, Known
<1>3. PICK result : result = ContextOf(s.found)
  OBVIOUS
<1>4. PICK n : n = [s EXCEPT !.result = result]
  OBVIOUS
<1>5. n = [kind |-> s.kind, actor |-> s.actor, strategy |-> s.strategy, known |-> s.known,
           todo |-> s.todo, prefixes |-> s.prefixes, found |-> s.found, sound |-> s.sound,
           result |-> result]
  BY <1>2, <1>4 DEF WholeSearch
<1>6. PICK q : q = [pc |-> "run", caller |-> req[r].caller, calls |-> req[r].calls, search |-> n]
  OBVIOUS
<1>7. Sets(r, q)
  <2>1. Proceed(r, "run", n)
    BY <1>1, <1>3, <1>4 DEF EndContext
  <2> QED
    BY <1>2, <1>6, <2>1, OneProceeds
<1>8. MemoryTyped'
  BY <1>2, <1>7, OthersTyped DEF EndContext, MemoryTyped
<1>9. s.kind = "context" /\ req[r].pc = "context" /\ req[r].caller \in Callers
      /\ bound[req[r].caller.session] \in Actors
  BY <1>1, <1>2 DEF EndContext, At, Placed, Bound
<1>10. /\ n.kind = "context" /\ n.todo = s.todo /\ n.prefixes = s.prefixes /\ n.found = s.found
       /\ n.result = result /\ n.actor = s.actor
       /\ q.pc = "run" /\ q.caller = req[r].caller /\ q.search = n
  BY <1>5, <1>6, <1>9
<1>11. Whole(q)'
  <2>1. WholeSearch(n)
    BY <1>5 DEF WholeSearch
  <2> QED
    BY <1>6, <2>1 DEF Whole, WholeSearch
<1>12. bound' = bound /\ UNCHANGED settings /\ records' = records
  BY DEF EndContext
<1>13. Placed(q)' /\ Bound(q)'
  BY <1>9, <1>10, <1>12 DEF Placed, Bound
<1>14. Searching(q.search)'
  BY <1>2, <1>9, <1>10 DEF Searching, Queried
<1>15. Answered(q)' /\ Looked(q)'
  BY <1>3, <1>10 DEF Answered, Looked
<1>16. Fine(q)'
  BY <1>11, <1>13, <1>14, <1>15 DEF Fine
<1> QED
  BY <1>7, <1>8, <1>12, <1>16, OneIsFine

\* A search that has its templates.
LEMMA TemplatesGiven ==
    ASSUME NEW s, WholeSearch(s), s.kind = "recall", s.actor \in Actors, s.found \in Seq(LongTermRecord),
           NEW templates \in {Templates, <<>>}, NEW n, n = WithTemplates(s, templates)
    PROVE  /\ WholeSearch(n) /\ n.kind = "recall" /\ n.known = s.known /\ Searching(n)
           /\ n.sound => Progress(n)
<1>1. PICK queries : queries = Queries(templates, s.actor, s.strategy)
  OBVIOUS
<1>2. PICK prefixes : prefixes = {q.namespace : q \in ToSet(queries)}
  OBVIOUS
<1>3. PICK sound : sound = (templates # <<>>)
  OBVIOUS
<1>4. n = [s EXCEPT !.todo = queries, !.prefixes = prefixes, !.sound = sound]
  BY <1>1, <1>2, <1>3 DEF WithTemplates
<1>5. n = [kind |-> s.kind, actor |-> s.actor, strategy |-> s.strategy, known |-> s.known,
           todo |-> queries, prefixes |-> prefixes, found |-> s.found, sound |-> sound,
           result |-> s.result]
  BY <1>4 DEF WholeSearch
<1>6. WholeSearch(n)
  BY <1>5 DEF WholeSearch
<1>7. /\ n.kind = "recall" /\ n.actor = s.actor /\ n.strategy = s.strategy /\ n.known = s.known
      /\ n.todo = queries /\ n.prefixes = prefixes /\ n.found = s.found /\ n.sound = sound
  BY <1>5
<1>8. /\ queries \in Seq(Queried)
      /\ \A q \in ToSet(queries) : /\ q.namespace \notin {Slash, <<>>}
                                   /\ \E t \in ToSet(Templates) : q.namespace = Asked(t, s.actor)
  BY <1>1, QueriesIn
<1>9. Searching(n)
  <2>1. \A p \in prefixes : p \notin {Slash, <<>>} /\ \E t \in ToSet(Templates) : p = Asked(t, s.actor)
    BY <1>2, <1>8
  <2> QED
    BY <1>7, <1>8, <2>1 DEF Searching
<1>10. ASSUME sound PROVE Progress(n)
  <2>1. templates = Templates
    BY <1>3, <1>10
  <2>2. Wanted(n) = ToSet(queries)
    BY <1>1, <1>7, <2>1 DEF Wanted
  <2> QED
    BY <1>2, <1>7, <2>2 DEF Progress
<1> QED
  BY <1>6, <1>7, <1>9, <1>10

\* The templates are there, or are not and the search is unsound.
LEMMA LoadFine ==
    ASSUME MemoryInv, NEW r \in Requests, LoadTemplates(r)
    PROVE  MemoryInv'
<1>1. PICK s : s = req[r].search
  OBVIOUS
<1>2. /\ MemoryTyped /\ Whole(req[r]) /\ WholeSearch(s) /\ Placed(req[r]) /\ Bound(req[r])
      /\ Searching(s) /\ Looked(req[r]) /\ req = [x \in Requests |-> req[x]]
  BY <1>1, Known
<1>3. PICK ok \in Outcomes :
        /\ cache' = IF ok THEN Templates ELSE <<>>
        /\ Proceed(r, "recall", WithTemplates(s, IF ok THEN Templates ELSE <<>>))
  BY <1>1 DEF LoadTemplates
<1>4. PICK templates : templates = IF ok THEN Templates ELSE <<>>
  OBVIOUS
<1>5. templates \in {Templates, <<>>} /\ cache' = templates
  BY <1>3, <1>4
<1>6. PICK n : n = WithTemplates(s, templates)
  OBVIOUS
<1>7. PICK q : q = [pc |-> "recall", caller |-> req[r].caller, calls |-> req[r].calls, search |-> n]
  OBVIOUS
<1>8. Sets(r, q)
  <2>1. Proceed(r, "recall", n)
    BY <1>3, <1>4, <1>6
  <2> QED
    BY <1>2, <1>7, <2>1, OneProceeds
<1>9. bound' = bound /\ UNCHANGED settings /\ records' = records /\ events' = events
  BY DEF LoadTemplates
<1>10. MemoryTyped'
  BY <1>2, <1>5, <1>8, <1>9, OthersTyped
<1>11. /\ s.kind = "recall" /\ req[r].pc = "load" /\ req[r].caller \in Callers
       /\ bound[req[r].caller.session] \in Actors /\ s.known \subseteq records
  BY <1>1, <1>2 DEF LoadTemplates, At, Placed, Bound, Looked
<1>12. s.actor \in Actors /\ s.found \in Seq(LongTermRecord)
  BY <1>2, <1>11 DEF Searching
<1>13. /\ WholeSearch(n) /\ n.kind = "recall" /\ n.known = s.known /\ Searching(n)
       /\ n.sound => Progress(n)
  BY <1>2, <1>5, <1>6, <1>11, <1>12, TemplatesGiven
<1>14. q.pc = "recall" /\ q.caller = req[r].caller /\ q.search = n
  BY <1>7
<1>15. Whole(q)'
  BY <1>7, <1>13 DEF Whole, WholeSearch
<1>16. Placed(q)' /\ Bound(q)'
  BY <1>9, <1>11, <1>13, <1>14 DEF Placed, Bound
<1>17. Searching(q.search)'
  BY <1>13, <1>14 DEF Searching, Queried
<1>18. Answered(q)'
  BY <1>14 DEF Answered
<1>19. Looked(q)'
  <2>1. Progress(n) => Progress(n)'
    BY DEF Progress, Covered, Wanted
  <2> QED
    BY <1>9, <1>11, <1>13, <1>14, <2>1 DEF Looked
<1>20. Fine(q)'
  BY <1>15, <1>16, <1>17, <1>18, <1>19 DEF Fine
<1> QED
  BY <1>8, <1>9, <1>10, <1>20, OneIsFine

\* A search ends with nothing left to ask: so what it merges has covered every
\* query, and these reach all records that the actor may read.
LEMMA EndRecallFine ==
    ASSUME MemoryInv, NEW r \in Requests, EndRecall(r)
    PROVE  MemoryInv'
<1>1. PICK s : s = req[r].search
  OBVIOUS
<1>2. /\ MemoryTyped /\ Whole(req[r]) /\ WholeSearch(s) /\ Placed(req[r]) /\ Bound(req[r])
      /\ Searching(s) /\ Looked(req[r]) /\ req = [x \in Requests |-> req[x]]
      /\ records \subseteq LongTermRecord
  BY <1>1, Known
<1>3. PICK result : result = Merged(s.found, s.prefixes)
  OBVIOUS
<1>4. PICK n : n = [s EXCEPT !.result = result]
  OBVIOUS
<1>5. n = [kind |-> s.kind, actor |-> s.actor, strategy |-> s.strategy, known |-> s.known,
           todo |-> s.todo, prefixes |-> s.prefixes, found |-> s.found, sound |-> s.sound,
           result |-> result]
  BY <1>2, <1>4 DEF WholeSearch
<1>6. PICK q : q = [pc |-> "run", caller |-> req[r].caller, calls |-> req[r].calls, search |-> n]
  OBVIOUS
<1>7. Sets(r, q)
  <2>1. Proceed(r, "run", n)
    BY <1>1, <1>3, <1>4 DEF EndRecall
  <2> QED
    BY <1>2, <1>6, <2>1, OneProceeds
<1>8. MemoryTyped'
  BY <1>2, <1>7, OthersTyped DEF EndRecall, MemoryTyped
<1>9. /\ s.kind = "recall" /\ req[r].pc = "recall" /\ req[r].caller \in Callers /\ s.todo = <<>>
      /\ bound[req[r].caller.session] \in Actors /\ s.known \subseteq records
      /\ s.sound => Progress(s)
  BY <1>1, <1>2 DEF EndRecall, At, Placed, Bound, Looked
<1>10. /\ s.actor \in Actors /\ s.found \in Seq(LongTermRecord)
       /\ \A p \in s.prefixes : p \notin {Slash, <<>>} /\ \E t \in ToSet(Templates) : p = Asked(t, s.actor)
  BY <1>2, <1>9 DEF Searching
<1>11. /\ n.kind = "recall" /\ n.todo = s.todo /\ n.prefixes = s.prefixes /\ n.found = s.found
       /\ n.result = result /\ n.actor = s.actor /\ n.strategy = s.strategy /\ n.known = s.known
       /\ n.sound = s.sound
       /\ q.pc = "run" /\ q.caller = req[r].caller /\ q.search = n
  BY <1>5, <1>6, <1>9
<1>12. Whole(q)'
  <2>1. WholeSearch(n)
    BY <1>5 DEF WholeSearch
  <2> QED
    BY <1>6, <2>1 DEF Whole, WholeSearch
<1>13. bound' = bound /\ UNCHANGED settings /\ records' = records
  BY DEF EndRecall
<1>14. Placed(q)' /\ Bound(q)'
  BY <1>9, <1>11, <1>13 DEF Placed, Bound
<1>15. Searching(q.search)'
  <2>1. s.todo \in Seq(Queried)
    BY <1>2 DEF Searching
  <2>2. Searching(n)
    BY <1>9, <1>10, <1>11, <2>1 DEF Searching
  <2> QED
    BY <1>11, <2>2 DEF Searching, Queried
<1>16. Answered(q)'
  <2>1. result \in Seq({x \in LongTermRecord : BelongsTo(x, s.prefixes)})
    BY <1>3, <1>10, MergedOwn
  <2>2. \A i \in DOMAIN result : result[i] \in LongTermRecord /\ BelongsTo(result[i], s.prefixes)
    BY <2>1
  <2>3. \A i \in DOMAIN result :
            result[i].actor = s.actor /\ SafeNamespaces(result[i].namespaces, s.actor) # {}
    BY <1>10, <2>2, OwnScoped
  <2> QED
    BY <1>11, <2>3 DEF Answered
<1>17. ASSUME s.sound PROVE Complete(n)
  <2>1. ASSUME NEW x \in s.known, s.strategy \in {None, x.strategy},
               SafeNamespaces(x.namespaces, s.actor) # {}
        PROVE  \/ \E i \in DOMAIN result : result[i].id = x.id
               \/ Len(result) = TopK /\ \A i \in DOMAIN result : result[i].score >= 10 * x.score
    <3>1. x \in LongTermRecord
      BY <1>2, <1>9
    <3>2. PICK w \in ToSet(Queries(Templates, s.actor, s.strategy)) :
             w.strategy = x.strategy /\ \E ns \in x.namespaces : IsPrefix(w.namespace, ns)
      BY <1>10, <2>1, <3>1, AllAskedFor
    <3>3. w \in Wanted(s) /\ w \notin ToSet(s.todo)
      BY <1>9 DEF Wanted, ToSet
    <3>4. Covered(s, w)
      BY <1>9, <1>17, <3>3 DEF Progress
    <3>5. Represented(s.found, s.prefixes, x)
      BY <3>2, <3>4 DEF Covered
    <3> QED
      BY <1>3, <1>10, <3>1, <3>5, MergedRepresents
  <2>2. \A i, j \in DOMAIN result : result[i].id = result[j].id => i = j
    BY <1>3, <1>10, MergedRepresents
  <2> QED
    BY <1>11, <2>1, <2>2 DEF Complete
<1>18. Looked(q)'
  <2>1. Complete(n) => Complete(n)'
    BY DEF Complete
  <2> QED
    BY <1>11, <1>17, <2>1 DEF Looked
<1>19. Fine(q)'
  BY <1>12, <1>14, <1>15, <1>16, <1>18 DEF Fine
<1> QED
  BY <1>7, <1>8, <1>13, <1>19, OneIsFine

\* What recall_memory makes of the request.
LEMMA RecallFine ==
    ASSUME MemoryInv, NEW r \in Requests, NEW category, RecallMemory(r, category)
    PROVE  MemoryInv'
<1>1. /\ MemoryTyped /\ Whole(req[r]) /\ Placed(req[r]) /\ Bound(req[r])
      /\ req = [x \in Requests |-> req[x]]
  BY Known
<1>2. PICK a : a = ToolActor(r)
  OBVIOUS
<1>3. req[r].pc = "run" /\ req[r].caller \in Callers /\ a \in Actors
  BY <1>1, <1>2 DEF RecallMemory, At, Placed, Bound, ToolActor, Session
<1>4. PICK wanted : wanted = StrategyOf(category)
  OBVIOUS
<1>5. PICK s : s = [NoSearch EXCEPT !.kind = "recall", !.actor = a, !.known = records, !.strategy = wanted]
  OBVIOUS
<1>6. s = [kind |-> "recall", actor |-> a, strategy |-> wanted, known |-> records, todo |-> <<>>,
           prefixes |-> {}, found |-> <<>>, sound |-> TRUE, result |-> <<>>]
  BY <1>5 DEF NoSearch
<1>7. /\ s.kind = "recall" /\ s.actor = a /\ s.strategy = wanted /\ s.known = records /\ s.todo = <<>>
      /\ s.prefixes = {} /\ s.found = <<>> /\ s.sound /\ s.result = <<>> /\ WholeSearch(s)
  BY <1>6 DEF WholeSearch
<1>8. <<>> \in Seq(Queried) /\ <<>> \in Seq(LongTermRecord) /\ DOMAIN <<>> = {}
  OBVIOUS
<1> DEFINE called(to, done) ==
             req' = [req EXCEPT ![r].pc = to, ![r].calls = req[r].calls + 1, ![r].search = done]
<1>9. \/ called("run", [s EXCEPT !.sound = FALSE])
      \/ /\ backend = "local"
         /\ \E answer \in LocalAnswers(a) : called("run", [s EXCEPT !.known = {}, !.result = answer])
      \/ called("load", s)
      \/ cache # None /\ called("recall", WithTemplates(s, cache))
  <2>1. CASE called("run", [s EXCEPT !.sound = FALSE])
    BY <2>1
  <2> QED
    BY <1>2, <1>4, <1>5 DEF RecallMemory
<1>10. /\ UNCHANGED <<cache, events, records, bound>> /\ UNCHANGED settings
  BY DEF RecallMemory
<1>11. ASSUME NEW to, NEW n, called(to, n)
       PROVE  Sets(r, [pc |-> to, caller |-> req[r].caller, calls |-> req[r].calls + 1, search |-> n])
  <2>1. PICK o : o = req[r]
    OBVIOUS
  <2>2. PICK k : k = o.calls + 1
    OBVIOUS
  <2>3. PICK q : q = [pc |-> to, caller |-> o.caller, calls |-> k, search |-> n]
    OBVIOUS
  <2>4. PICK p : p = [o EXCEPT !.pc = to, !.calls = k, !.search = n]
    OBVIOUS
  <2>5. o = [pc |-> o.pc, caller |-> o.caller, calls |-> o.calls, search |-> o.search]
    BY <1>1, <2>1 DEF Whole
  <2>6. p = q
    <3>1. PICK place, who, count1, old : place = o.pc /\ who = o.caller /\ count1 = o.calls /\ old = o.search
      OBVIOUS
    <3>2. o = [pc |-> place, caller |-> who, calls |-> count1, search |-> old]
      BY <2>5, <3>1
    <3>3. p = [pc |-> to, caller |-> who, calls |-> k, search |-> n]
      BY ONLY <2>4, <3>2
    <3> QED
      BY ONLY <2>3, <3>1, <3>3
  <2>7. req' = [req EXCEPT ![r] = p]
    BY <1>11, <2>1, <2>2, <2>4
  <2>8. Sets(r, q)
    BY <1>1, <2>6, <2>7, OneSet
  <2> QED
    BY <2>1, <2>2, <2>3, <2>8
<1> HIDE DEF called
\* Each outcome is enough that the search that it leaves is in order.
<1>12. ASSUME NEW to \in {"run", "load", "recall"}, NEW n, called(to, n),
              WholeSearch(n), n.kind = "recall", Searching(n),
              to = "run" => \A i \in DOMAIN n.result :
                                /\ n.result[i].actor = n.actor
                                /\ backend = "agentcore" => SafeNamespaces(n.result[i].namespaces, n.actor) # {},
              to # "run" => n.known \subseteq records,
              n.sound /\ to = "run" => Complete(n),
              n.sound /\ to = "recall" => Progress(n)
       PROVE  MemoryInv'
  <2>1. PICK q : q = [pc |-> to, caller |-> req[r].caller, calls |-> req[r].calls + 1, search |-> n]
    OBVIOUS
  <2>2. Sets(r, q)
    BY <1>11, <1>12, <2>1
  <2>3. MemoryTyped'
    BY <1>1, <1>10, <2>2, OthersTyped DEF MemoryTyped
  <2>4. q.pc = to /\ q.caller = req[r].caller /\ q.search = n
    BY <2>1
  <2>5. Whole(q)'
    BY <1>12, <2>1 DEF Whole, WholeSearch
  <2>6. Placed(q)'
    BY <1>3, <1>12, <2>4 DEF Placed
  <2>7. Bound(q)'
    BY <1>2, <1>3, <1>10, <2>4 DEF Bound, ToolActor, Session
  <2>8. Searching(q.search)'
    BY <1>12, <2>4 DEF Searching, Queried
  <2>9. Answered(q)'
    BY <1>10, <1>12, <2>4 DEF Answered, settings
  <2>10. Looked(q)'
    <3>1. (Complete(n) => Complete(n)') /\ (Progress(n) => Progress(n)')
      BY DEF Complete, Progress, Covered, Wanted
    <3> QED
      BY <1>10, <1>12, <2>4, <3>1 DEF Looked
  <2>11. Fine(q)'
    BY <2>5, <2>6, <2>7, <2>8, <2>9, <2>10 DEF Fine
  <2>12. records \subseteq records' /\ bound' = bound
    BY <1>10
  <2> QED
    BY <1>10, <2>2, <2>3, <2>11, <2>12, OneIsFine
<1>13. Searching(s)
  BY <1>3, <1>7, <1>8 DEF Searching
<1>14. CASE called("run", [s EXCEPT !.sound = FALSE])
  <2>1. PICK n : n = [s EXCEPT !.sound = FALSE]
    OBVIOUS
  <2>2. n = [kind |-> "recall", actor |-> a, strategy |-> wanted, known |-> records, todo |-> <<>>,
             prefixes |-> {}, found |-> <<>>, sound |-> FALSE, result |-> <<>>]
    BY <1>6, <2>1
  <2>3. /\ WholeSearch(n) /\ n.kind = "recall" /\ n.actor = a /\ n.todo = <<>> /\ n.prefixes = {}
        /\ n.found = <<>> /\ ~n.sound /\ n.result = <<>>
    BY <2>2 DEF WholeSearch
  <2>4. Searching(n)
    BY <1>3, <1>8, <2>3 DEF Searching
  <2> QED
    BY <1>8, <1>12, <1>14, <2>1, <2>3, <2>4
<1>15. CASE /\ backend = "local"
            /\ \E answer \in LocalAnswers(a) : called("run", [s EXCEPT !.known = {}, !.result = answer])
  <2>1. PICK answer \in LocalAnswers(a) : called("run", [s EXCEPT !.known = {}, !.result = answer])
    BY <1>15
  <2>2. PICK n : n = [s EXCEPT !.known = {}, !.result = answer]
    OBVIOUS
  <2>3. n = [kind |-> "recall", actor |-> a, strategy |-> wanted, known |-> {}, todo |-> <<>>,
             prefixes |-> {}, found |-> <<>>, sound |-> TRUE, result |-> answer]
    BY <1>6, <2>2
  <2>4. /\ WholeSearch(n) /\ n.kind = "recall" /\ n.actor = a /\ n.known = {} /\ n.todo = <<>>
        /\ n.prefixes = {} /\ n.found = <<>> /\ n.result = answer
    BY <2>3 DEF WholeSearch
  <2>5. Searching(n)
    BY <1>3, <1>8, <2>4 DEF Searching
  <2>6. /\ \A i \in DOMAIN answer : answer[i].actor = a
        /\ \A i, j \in DOMAIN answer : answer[i].id = answer[j].id => i = j
    BY LocalOwn
  <2>7. Complete(n)
    BY <2>4, <2>6 DEF Complete
  <2>8. called("run", n) /\ backend # "agentcore"
    BY <1>15, <2>1, <2>2
  <2> QED
    BY <1>12, <2>4, <2>5, <2>6, <2>7, <2>8
<1>16. CASE called("load", s)
  <2>1. s.known \subseteq records
    BY <1>7
  <2> QED
    BY <1>7, <1>12, <1>13, <1>16, <2>1
<1>17. CASE cache # None /\ called("recall", WithTemplates(s, cache))
  <2>1. PICK templates : templates = cache
    OBVIOUS
  <2>2. templates \in {Templates, <<>>}
    BY <1>1, <1>17, <2>1 DEF MemoryTyped
  <2>3. PICK n : n = WithTemplates(s, templates)
    OBVIOUS
  <2>4. s.found \in Seq(LongTermRecord) /\ s.actor \in Actors
    BY <1>3, <1>7, <1>8
  <2>5. /\ WholeSearch(n) /\ n.kind = "recall" /\ n.known = s.known /\ Searching(n)
        /\ n.sound => Progress(n)
    BY <1>7, <2>2, <2>3, <2>4, TemplatesGiven
  <2>6. called("recall", n) /\ n.known \subseteq records
    BY <1>7, <1>17, <2>1, <2>3, <2>5
  <2> QED
    BY <1>12, <2>5, <2>6
<1> QED
  BY <1>9, <1>14, <1>15, <1>16, <1>17

\* A record that is extracted is one of the conversation's actor, and gets the
\* next id.
LEMMA ExtractFine ==
    ASSUME MemoryInv, NEW a \in Actors, NEW e \in Sessions, NEW t \in ToSet(Templates),
           Extract(a, e, t.strategy)
    PROVE  MemoryInv'
<1>1. MemoryTyped
  BY DEF MemoryInv
<1>2. records \subseteq LongTermRecord /\ Numbered(records)
  BY <1>1 DEF MemoryTyped
<1>3. PICK score \in Scores, text \in Texts :
          records' = records \cup {[id |-> Cardinality(records) + 1, actor |-> a, strategy |-> t.strategy,
                                    score |-> score, text |-> text, namespaces |-> NamespacesOf(a, e, t.strategy)]}
  BY DEF Extract
<1>4. PICK g : g = t.strategy
  OBVIOUS
<1>5. PICK ns : ns = NamespacesOf(a, e, g)
  OBVIOUS
<1>6. PICK k : k = Cardinality(records)
  OBVIOUS
<1>7. PICK i : i = k + 1
  OBVIOUS
<1>8. PICK x : x = [id |-> i, actor |-> a, strategy |-> g, score |-> score, text |-> text, namespaces |-> ns]
  OBVIOUS
<1>9. records' = records \cup {x}
  BY <1>3, <1>4, <1>5, <1>6, <1>7, <1>8
<1>10. IsFiniteSet(records) /\ k \in Nat /\ i \in Nat
  BY <1>2, <1>6, <1>7, FS_CardinalityType DEF Numbered
<1>11. x \in LongTermRecord
  <2>1. g \in Strategies
    BY <1>4 DEF Strategies
  <2>2. score \in Int /\ text \in DOMAIN SizeOf
    BY MemoryAssumption
  <2> DEFINE N == {NamespacesOf(b, s, h) : b \in Actors, s \in Sessions, h \in Strategies}
  <2>3. ns \in N
    BY <1>5, <2>1
  <2> HIDE DEF N
  <2>4. x \in [id : Nat, actor : Actors, strategy : Strategies, score : Int, text : DOMAIN SizeOf,
               namespaces : N]
    BY <1>8, <1>10, <2>1, <2>2, <2>3
  <2>5. x.actor = a /\ x.strategy = g /\ x.namespaces = ns
    BY <1>8
  <2>6. \E s \in Sessions : x.namespaces = NamespacesOf(x.actor, s, x.strategy)
    BY <1>5, <2>5
  <2> QED
    BY <2>4, <2>6 DEF LongTermRecord, N
<1>12. \A y \in records : y.id \in 1 .. k
  BY <1>2, <1>6 DEF Numbered
<1>13. x.id = i
  BY <1>8
<1>14. x \notin records
  <2>1. i \notin 1 .. k
    BY <1>7, <1>10
  <2> QED
    BY <1>12, <1>13, <2>1
<1>15. Numbered(records')
  <2>1. IsFiniteSet(records') /\ Cardinality(records') = k + 1
    BY <1>6, <1>9, <1>10, <1>14, FS_AddElement
  <2>2. \A y \in records' : y.id \in 1 .. k + 1
    <3>1. 1 .. k \subseteq 1 .. k + 1 /\ i \in 1 .. k + 1
      BY <1>7, <1>10
    <3> QED
      BY <1>9, <1>12, <1>13, <3>1
  <2>3. \A y \in records : y.id # i
    <3>1. i \notin 1 .. k
      BY <1>7, <1>10
    <3> QED
      BY <1>12, <3>1
  <2>4. \A y, z \in records : y.id = z.id => y = z
    BY <1>2 DEF Numbered
  <2>5. \A y, z \in records' : y.id = z.id => y = z
    BY <1>9, <1>13, <2>3, <2>4
  <2> QED
    BY <2>1, <2>2, <2>5 DEF Numbered
<1>16. UNCHANGED <<cache, events, bound, req>> /\ UNCHANGED settings
  BY DEF Extract
<1>17. MemoryTyped'
  <2>1. records' \subseteq LongTermRecord
    BY <1>2, <1>9, <1>11
  <2>2. Numbered(records)'
    BY <1>15 DEF Numbered
  <2> QED
    BY <1>1, <1>16, <2>1, <2>2 DEF MemoryTyped
<1>18. ASSUME NEW r \in Requests PROVE Fine(req[r])'
  BY <1>9, <1>16, SameIsFine
<1> QED
  BY <1>17, <1>18 DEF MemoryInv, Fine

\* No step of the runtime or of the service breaks the invariant.
LEMMA NextFine == MemoryInv /\ [MemoryNext]_memoryVars => MemoryInv'
<1> SUFFICES ASSUME MemoryInv, [MemoryNext]_memoryVars PROVE MemoryInv'
  OBVIOUS
<1>1. ASSUME NEW r \in Requests, NEW c \in Callers, Begin(r, c) PROVE MemoryInv'
  BY <1>1, BeginFine
<1>2. ASSUME NEW r \in Requests, Retrieve(r) PROVE MemoryInv'
  BY <1>2, RetrieveFine
<1>3. ASSUME NEW r \in Requests, EndContext(r) PROVE MemoryInv'
  BY <1>3, EndContextFine
<1>4. ASSUME NEW r \in Requests, NEW category, SaveMemory(r, category) PROVE MemoryInv'
  BY <1>4, SaveFine
<1>5. ASSUME NEW r \in Requests, NEW category, RecallMemory(r, category) PROVE MemoryInv'
  BY <1>5, RecallFine
<1>6. ASSUME NEW r \in Requests, LoadTemplates(r) PROVE MemoryInv'
  BY <1>6, LoadFine
<1>7. ASSUME NEW r \in Requests, EndRecall(r) PROVE MemoryInv'
  BY <1>7, EndRecallFine
<1>8. ASSUME NEW r \in Requests, Respond(r) PROVE MemoryInv'
  BY <1>8, RespondFine
<1>9. ASSUME NEW r \in Requests, IngestUser(r) PROVE MemoryInv'
  BY <1>9, IngestUserFine
<1>10. ASSUME NEW r \in Requests, IngestAnswer(r) PROVE MemoryInv'
  BY <1>10, IngestAnswerFine
<1>11. ASSUME NEW a \in Actors, NEW e \in Sessions, NEW t \in ToSet(Templates), Extract(a, e, t.strategy)
       PROVE  MemoryInv'
  BY <1>11, ExtractFine
<1>12. CASE Restart
  BY <1>12, RestartFine
<1>13. CASE UNCHANGED memoryVars
  <2>1. UNCHANGED settings /\ UNCHANGED <<cache, events, records, bound, req>>
    BY <1>13 DEF memoryVars
  <2>2. MemoryTyped'
    BY <2>1 DEF MemoryInv, MemoryTyped, Numbered
  <2>3. ASSUME NEW r \in Requests PROVE Fine(req[r])'
    BY <2>1, SameIsFine
  <2> QED
    BY <2>2, <2>3 DEF MemoryInv, Fine
<1> QED
  BY <1>1, <1>2, <1>3, <1>4, <1>5, <1>6, <1>7, <1>8, <1>9, <1>10, <1>11, <1>12, <1>13 DEF MemoryNext

----------------------------------------------------------------------------
(* What holds of every run *)

\* In every state of the memory's runs its invariant holds: what each request
\* is searching for, has found so far, and has answered.
THEOREM MemoryTypeCorrect == MemorySpec => []MemoryInv
  BY InitFine, NextFine, PTL DEF MemorySpec

\* In a state with the invariant a recall has given only what is the actor's.
LEMMA ScopedNow == MemoryInv => RecallScoped
<1> SUFFICES ASSUME MemoryInv, NEW r \in Requests, req[r].search.kind = "recall", Done(r),
                    NEW x \in ToSet(req[r].search.result)
             PROVE  /\ x.actor = req[r].search.actor
                    /\ backend = "agentcore" => SafeNamespaces(x.namespaces, req[r].search.actor) # {}
  BY DEF RecallScoped
<1>1. Answered(req[r])
  BY Known
<1>2. PICK n \in DOMAIN req[r].search.result : req[r].search.result[n] = x
  BY DEF ToSet
<1> QED
  BY <1>1, <1>2 DEF Answered, Done

\* Every recall of every run gives an agent only records of the actor its
\* tools are bound to, from a namespace that the access guard leaves to it.
THEOREM RecallsAlwaysScoped == MemorySpec => []RecallScoped
  BY MemoryTypeCorrect, ScopedNow, PTL

\* In a state with the invariant a recall has left nothing out.
LEMMA CompleteNow == MemoryInv => RecallComplete
<1> SUFFICES ASSUME MemoryInv, NEW r \in Requests, req[r].search.kind = "recall", req[r].search.sound, Done(r)
             PROVE  Complete(req[r].search)
  BY DEF RecallComplete, Complete
<1> QED
  BY Known DEF Looked, Done

\* No recall without a failure leaves out a record of the actor's that the
\* access guard would let it read, unless it is full of more relevant ones.
THEOREM RecallsAlwaysComplete == MemorySpec => []RecallComplete
  BY MemoryTypeCorrect, CompleteNow, PTL

\* In a state with the invariant the context is the best of what was found.
LEMMA BestNow == MemoryInv => ContextBest
<1> SUFFICES ASSUME MemoryInv PROVE ContextBest
  OBVIOUS
<1>1. ASSUME NEW r \in Requests, req[r].search.kind = "context", Done(r),
             NEW kept, kept = req[r].search.result, NEW found, found = req[r].search.found
      PROVE  /\ (kept = <<>>) = (found = <<>>)
             /\ Cost(kept) <= Budget \/ Len(kept) = 1
             /\ Cardinality({kept[n].text : n \in DOMAIN kept}) = Len(kept)
             /\ \A n \in DOMAIN found : found[n].text \notin {kept[m].text : m \in DOMAIN kept} =>
                  \A m \in DOMAIN kept : kept[m].score >= found[n].score
  <2>1. Answered(req[r]) /\ Searching(req[r].search)
    BY Known
  <2>2. kept = ContextOf(found) /\ found \in Seq(LongTermRecord)
    BY <1>1, <2>1 DEF Answered, Searching, Done
  <2>3. Budget \in Nat
    BY MemoryAssumption
  <2>4. \A x \in LongTermRecord : x.score \in Int
    BY DEF LongTermRecord
  <2> QED
    BY ONLY <2>2, <2>3, <2>4, ContextIsBest, ZenonT(30)
<1> QED
  BY <1>1 DEF ContextBest

\* The context of every new session is the best of what the searches found,
\* each text once, within the budget unless it is a single record.
THEOREM ContextAlwaysBest == MemorySpec => []ContextBest
  BY MemoryTypeCorrect, BestNow, PTL

\* A history is a part of the conversation.
LEMMA HistoriesTyped ==
    ASSUME NEW said \in Seq(Turns), NEW turns \in Histories(said)
    PROVE  turns \in Seq(Turns)
<1> DEFINE last(s) == {SubSeq(s, n, Len(s)) : n \in DOMAIN s}
<1>1. ASSUME NEW s \in Seq(Turns), NEW u \in last(s) PROVE u \in Seq(Turns)
  <2>1. PICK n \in DOMAIN s : u = SubSeq(s, n, Len(s))
    BY <1>1
  <2> QED
    BY <2>1
<1>2. \A page \in DOMAIN said : SubSeq(said, 1, page) \in Seq(Turns)
  OBVIOUS
<1> HIDE DEF last
<1>3. turns \in last(said) \/ \E page \in DOMAIN said : turns \in last(SubSeq(said, 1, page))
  BY DEF Histories, last
<1> QED
  BY <1>1, <1>2, <1>3

\* In a state with the invariant every history can be sent to the model.
LEMMA ReadyNow == MemoryInv => BedrockReady
<1> SUFFICES ASSUME MemoryInv PROVE BedrockReady
  OBVIOUS
<1>1. events \in [Actors \X Sessions -> Seq(Turns)]
  BY DEF MemoryInv, MemoryTyped
<1>2. ASSUME NEW k \in DOMAIN events, NEW turns \in Histories(events[k])
      PROVE  /\ \A n \in DOMAIN ToBedrock(turns) :
                   ToBedrock(turns)[n].role = IF n % 2 = 1 THEN "user" ELSE "assistant"
             /\ Joined(TextsIn(ToBedrock(turns))) \in
                  {Among(TextsOf(turns), ToSet(TextsOf(turns)) \ {"blank"}),
                   <<"context">> \o Among(TextsOf(turns), ToSet(TextsOf(turns)) \ {"blank"})}
  <2>1. events[k] \in Seq(Turns)
    BY <1>1
  <2>2. turns \in Seq(Turns)
    BY <2>1, HistoriesTyped
  <2> QED
    BY <2>2, BedrockMessages
<1> QED
  BY <1>2 DEF BedrockReady, TextsIn

\* Whatever history of whatever conversation is read becomes messages that
\* begin with the user and take turns, every text in its place.
THEOREM BedrockAlwaysReady == MemorySpec => []BedrockReady
  BY MemoryTypeCorrect, ReadyNow, PTL
=============================================================================
