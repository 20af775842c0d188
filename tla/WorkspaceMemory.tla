--------------------------- MODULE WorkspaceMemory ---------------------------
(***************************************************************************)
(* The memories that the agents of a workspace leave in its folders: the   *)
(* MemoryExtractionHook of every agent writes what a turn brought, and its *)
(* ConsolidationHook condenses the newest of it once a day, under a lock   *)
(* file.  Agents are processes that share nothing but the folders, and may *)
(* stop at any line.  Times are ages in ticks, counted up to the gate that *)
(* compares them, so that time runs on for ever in finitely many states.   *)
(***************************************************************************)
EXTENDS Naturals, Sequences, FiniteSets

CONSTANTS Agents,      \* instances of FoundationAgent on the workspace
          NoActor,     \* an agent made without an actor_id
          Deployments, \* a namespace template and an actor for every agent
          TimeGate,    \* _DEFAULT_TIME_GATE_SECONDS, in ticks
          CountGate,   \* _DEFAULT_COUNT_GATE
          StaleAge,    \* the five minutes of _acquire_lock, in ticks
          Newest,      \* how many files a consolidation reads
          NoLock

ASSUME GateAssumption ==
    TimeGate \in Nat \ {0} /\ CountGate \in Nat \ {0} /\ StaleAge \in 1 .. TimeGate /\ Newest \in Nat \ {0}

\* A lock without an owner is none of an agent's, and nobody is called as the
\* placeholder is.
ASSUME NamesAssumption ==
    NoLock \notin Agents /\ \A d \in Deployments, p \in Agents : d.actor[p] # "{actorId}"

VARIABLES template,    \* the namespace template of the harness
          pc,          \* what an agent is at
          actor,       \* its actorId
          cached,      \* age of last_consolidation_timestamp in its copy of the state
          count,       \* its _event_count_since_last
          mem,         \* whose memories it has gathered
          lock,        \* per folder: .consolidation.lock
          fileAge,     \* per folder: age of the timestamp in consolidation_state.json
          extracted,   \* per folder: the newest extracted memories, by whose they are
          insightAge,  \* per folder: age of the newest consolidated insight
          unaware      \* agents whose copy of the state misses that insight

vars == <<template, pc, actor, cached, count, mem, lock, fileAge, extracted, insightAge, unaware>>
folderVars == <<lock, fileAge, extracted, insightAge>>

Capped(n, bound) == IF n < bound THEN n ELSE bound

-----------------------------------------------------------------------------
\* A template is formatted with the variables the agent knows: of the two
\* spellings of the actor only actorId is among them, and a template that
\* names one that is missing is kept as it is written.
ComputeNamespaceLiteral(t, a) == t
ComputeNamespace(t, a) == IF t = "{actorId}" /\ a # NoActor THEN a ELSE t

\* The folder a hook works in: the workspace itself ("") or a folder below.
EffectiveWorkspace(p) == ComputeNamespace(template, actor[p])

Folders == {EffectiveWorkspace(p) : p \in Agents}
AllFolders == {ComputeNamespace(d.template, d.actor[p]) : d \in Deployments, p \in Agents}

\* A folder below the workspace is there once something was extracted to it.
FolderExists(d) == d = "" \/ extracted[d] # <<>>

Holding == {"gather", "store", "save", "release"}

Init ==
    /\ \E d \in Deployments : template = d.template /\ actor = d.actor
    /\ pc = [p \in Agents |-> "down"]
    /\ cached = [p \in Agents |-> TimeGate] /\ count = [p \in Agents |-> 0]
    /\ mem = [p \in Agents |-> {}]
    /\ lock = [d \in AllFolders |-> NoLock] /\ fileAge = [d \in AllFolders |-> TimeGate]
    /\ extracted = [d \in AllFolders |-> <<>>]
    /\ insightAge = [d \in AllFolders |-> TimeGate] /\ unaware = {}

\* The age of the timestamp in the state file, of 0 when there is none.
LoadDefault(d) == TimeGate
LoadState(d) == fileAge[d]

\* FoundationAgent(...): the hooks are made, and the state is read once.
Start(p) ==
    LET d == EffectiveWorkspace(p)
    IN  /\ pc[p] = "down"
        /\ pc' = [pc EXCEPT ![p] = "idle"]
        /\ cached' = [cached EXCEPT ![p] = LoadState(d)]
        /\ count' = [count EXCEPT ![p] = 0] /\ mem' = [mem EXCEPT ![p] = {}]
        /\ unaware' = IF fileAge[d] > insightAge[d] THEN unaware \cup {p} ELSE unaware \ {p}
        /\ UNCHANGED <<template, actor, folderVars>>

\* A process ends, whatever it is at; its files stay, and the pid in a lock
\* that it leaves is nobody's.
Crash(p) ==
    /\ pc[p] # "down"
    /\ pc' = [pc EXCEPT ![p] = "down"] /\ mem' = [mem EXCEPT ![p] = {}]
    /\ lock' = [d \in AllFolders |-> IF lock[d] # NoLock /\ lock[d].owner = p
                                     THEN [lock[d] EXCEPT !.owner = NoLock] ELSE lock[d]]
    /\ UNCHANGED <<template, actor, cached, count, fileAge, extracted, insightAge, unaware>>

Goto(p, to) == pc' = [pc EXCEPT ![p] = to]

\* on_before_invocation with the time gate and the count gate. The
\* events_since_last of the file is never anything but 0.
BeforeInvocation(p) ==
    /\ pc[p] = "idle"
    /\ count' = [count EXCEPT ![p] = Capped(@ + 1, CountGate)]
    /\ Goto(p, IF cached[p] >= TimeGate /\ count'[p] >= CountGate THEN "lock_exists" ELSE "invoke")
    /\ UNCHANGED <<template, actor, cached, mem, folderVars, unaware>>

\* _acquire_lock, one access to the file system at a time.
LockExists(p) ==
    /\ pc[p] = "lock_exists"
    /\ Goto(p, IF lock[EffectiveWorkspace(p)] = NoLock THEN "write_lock" ELSE "stat_lock")
    /\ UNCHANGED <<template, actor, cached, count, mem, folderVars, unaware>>

\* The mutated form of StatLock: a lock is never taken for stale.
StatLockForEver(p) ==
    /\ pc[p] = "stat_lock"
    /\ Goto(p, "invoke")
    /\ UNCHANGED <<template, actor, cached, count, mem, folderVars, unaware>>

\* stat() raises OSError when the lock has gone meanwhile.
StatLock(p) ==
    LET l == lock[EffectiveWorkspace(p)]
    IN  /\ pc[p] = "stat_lock"
        /\ Goto(p, IF l = NoLock \/ l.age < StaleAge THEN "invoke" ELSE "unlink_lock")
        /\ UNCHANGED <<template, actor, cached, count, mem, folderVars, unaware>>

UnlinkLock(p) ==
    /\ pc[p] = "unlink_lock"
    /\ lock' = [lock EXCEPT ![EffectiveWorkspace(p)] = NoLock]
    /\ Goto(p, "write_lock")
    /\ UNCHANGED <<template, actor, cached, count, mem, fileAge, extracted, insightAge, unaware>>

\* write_text makes or overwrites the file; without the folder it raises.
WriteLock(p) ==
    LET d == EffectiveWorkspace(p)
    IN  /\ pc[p] = "write_lock"
        /\ IF FolderExists(d)
             THEN lock' = [lock EXCEPT ![d] = [owner |-> p, age |-> 0]] /\ Goto(p, "gather")
             ELSE UNCHANGED lock /\ Goto(p, "invoke")
        /\ UNCHANGED <<template, actor, cached, count, mem, fileAge, extracted, insightAge, unaware>>

\* An access of _acquire_lock raises: there is no consolidation, and a write that
\* failed half-way leaves a lock that is nobody's.
AcquireFails(p) ==
    LET d == EffectiveWorkspace(p)
    IN  /\ pc[p] \in {"stat_lock", "unlink_lock", "write_lock"}
        /\ \/ UNCHANGED lock
           \/ /\ pc[p] = "write_lock" /\ FolderExists(d)
              /\ lock' = [lock EXCEPT ![d] = [owner |-> NoLock, age |-> 0]]
        /\ Goto(p, "invoke")
        /\ UNCHANGED <<template, actor, cached, count, mem, fileAge, extracted, insightAge, unaware>>

\* The mutated form of Gather: the early return is outside of the try.
GatherReturns(p) ==
    LET found == extracted[EffectiveWorkspace(p)]
    IN  /\ pc[p] = "gather"
        /\ mem' = [mem EXCEPT ![p] = {found[i] : i \in DOMAIN found}]
        /\ Goto(p, IF found = <<>> THEN "invoke" ELSE "store")
        /\ UNCHANGED <<template, actor, cached, count, folderVars, unaware>>

\* _gather_recent_memories; with none the consolidation is over.
Gather(p) ==
    LET found == extracted[EffectiveWorkspace(p)]
    IN  /\ pc[p] = "gather"
        /\ mem' = [mem EXCEPT ![p] = {found[i] : i \in DOMAIN found}]
        /\ Goto(p, IF found = <<>> THEN "release" ELSE "store")
        /\ UNCHANGED <<template, actor, cached, count, folderVars, unaware>>

\* _consolidate and _store_consolidated: an insight that is empty is not
\* stored, and one that cannot be written is lost; the agent goes on.
Store(p) ==
    LET d == EffectiveWorkspace(p)
    IN  /\ pc[p] = "store"
        /\ \/ /\ insightAge' = [insightAge EXCEPT ![d] = 0]
              /\ unaware' = unaware \cup {q \in Agents : EffectiveWorkspace(q) = d}
           \/ UNCHANGED <<insightAge, unaware>>
        /\ Goto(p, "save")
        /\ UNCHANGED <<template, actor, cached, count, mem, lock, fileAge, extracted>>

\* Something in the try of _run_consolidation raises, as the mkdir before the
\* insight is written may: neither the insight nor the state is.
ConsolidationFails(p) ==
    /\ pc[p] \in {"gather", "store"}
    /\ Goto(p, "release")
    /\ UNCHANGED <<template, actor, cached, count, mem, folderVars, unaware>>

\* The state is updated, and _save_state may fail to write it.
Save(p) ==
    LET d == EffectiveWorkspace(p)
    IN  /\ pc[p] = "save"
        /\ cached' = [cached EXCEPT ![p] = 0] /\ count' = [count EXCEPT ![p] = 0]
        /\ unaware' = unaware \ {p}
        /\ fileAge' \in {fileAge, [fileAge EXCEPT ![d] = 0]}
        /\ Goto(p, "release")
        /\ UNCHANGED <<template, actor, mem, lock, extracted, insightAge>>

\* _release_lock unlinks the file, whoever wrote it.
ReleaseLock(p) ==
    /\ pc[p] = "release"
    /\ lock' = [lock EXCEPT ![EffectiveWorkspace(p)] = NoLock]
    /\ mem' = [mem EXCEPT ![p] = {}]
    /\ Goto(p, "invoke")
    /\ UNCHANGED <<template, actor, cached, count, fileAge, extracted, insightAge, unaware>>

\* The model answers and on_after_invocation extracts: the markers that the
\* text has, or what the callback makes of it, one file each.
ExtractMemories(p, n) == [i \in 1 .. n |-> actor[p]]

Latest(seq) == IF Len(seq) <= Newest THEN seq ELSE SubSeq(seq, Len(seq) - Newest + 1, Len(seq))

AfterInvocation(p) ==
    LET d == EffectiveWorkspace(p)
    IN  /\ pc[p] = "invoke"
        /\ \E n \in 0 .. Newest :
              extracted' = [extracted EXCEPT ![d] = Latest(@ \o ExtractMemories(p, n))]
        /\ Goto(p, "idle")
        /\ UNCHANGED <<template, actor, cached, count, mem, lock, fileAge, insightAge, unaware>>

Tick ==
    /\ cached' = [p \in Agents |-> Capped(cached[p] + 1, TimeGate)]
    /\ fileAge' = [d \in AllFolders |-> Capped(fileAge[d] + 1, TimeGate)]
    /\ insightAge' = [d \in AllFolders |-> Capped(insightAge[d] + 1, TimeGate)]
    /\ lock' = [d \in AllFolders |-> IF lock[d] = NoLock THEN NoLock
                                     ELSE [lock[d] EXCEPT !.age = Capped(@ + 1, StaleAge)]]
    /\ UNCHANGED <<template, pc, actor, count, mem, extracted, unaware>>

\* What an agent does by itself once it is invoked.
Step(p) == \/ LockExists(p) \/ StatLock(p) \/ UnlinkLock(p) \/ WriteLock(p)
           \/ Gather(p) \/ Store(p) \/ Save(p) \/ ReleaseLock(p) \/ AfterInvocation(p)

\* What may go wrong with it.
Fail(p) == AcquireFails(p) \/ ConsolidationFails(p)

Next == \/ \E p \in Agents : Start(p) \/ Crash(p) \/ BeforeInvocation(p) \/ Step(p) \/ Fail(p)
        \/ Tick

Spec == Init /\ [][Next]_vars /\ WF_vars(Tick) /\ \A p \in Agents : WF_vars(Step(p))

-----------------------------------------------------------------------------
\* A lock file is never forgotten: it belongs to an agent that is within the
\* consolidation, or to one that stopped there or could not finish writing it.
\* An early return, an empty folder or an exception leaves none behind.
LockAccounted ==
    \A d \in Folders : \A p \in Agents :
        lock[d] # NoLock /\ lock[d].owner = p => pc[p] \in Holding /\ EffectiveWorkspace(p) = d

\* A folder is consolidated twice within the time gate only by an agent whose
\* copy of the state misses the first: it was read before, or the write of the
\* state was lost. A restart by itself never reopens the gate.
TimeGateKept ==
    \A p \in Agents \ unaware : pc[p] = "gather" => insightAge[EffectiveWorkspace(p)] >= TimeGate

\* With {actorId} in the template, and the actor known, an agent condenses
\* only what it or other agents of the same actor have extracted.
OwnMemories ==
    \A p \in Agents : template = "{actorId}" /\ actor[p] # NoActor => mem[p] \subseteq {actor[p]}

\* A crash or an exception within a consolidation, or a lock that was not
\* finished, delays the next but never prevents it: when no more agents stop and
\* nothing raises (a failure may look like a step of the code: a lock that is
\* fresh ends the attempt as one that cannot be read does), the folder of an agent
\* that goes on being invoked and has memories is consolidated again and again.
Settled ==
    /\ \A q \in Agents : <>[](pc[q] = "down") \/ <>[](pc[q] # "down")
    /\ <>[][\A q \in Agents : Fail(q) => Step(q)]_vars
Consolidating(d) == \E q \in Agents : pc[q] = "save" /\ EffectiveWorkspace(q) = d
ConsolidatesAgain ==
    Settled => \A p \in Agents : \A d \in AllFolders :
        (<>[](pc[p] # "down" /\ EffectiveWorkspace(p) = d /\ extracted[d] # <<>>) /\ []<>(pc[p] = "invoke"))
            => []<>Consolidating(d)
=============================================================================
