-------------------------- MODULE Approval_proofs --------------------------
(***************************************************************************)
(* Theorems about what is approved: the phases of a workflow               *)
(* (InceptionWorkflow), the outputs that the evaluators score and the      *)
(* requests for a human that they lead to (QualityGate), and the messages  *)
(* and requests that limits and policies let through (Messaging).  They    *)
(* hold for every list of stages, every choice of the conditional ones,    *)
(* any number of sessions, projects and requests, whatever a specialist or *)
(* an evaluating model writes, and every window, limit and policy.         *)
(***************************************************************************)
EXTENDS InceptionWorkflow, QualityGate, Messaging, ListFunctions_proofs, FiniteSetTheorems,
        WellFoundedInduction, TLAPS

\* A set of stages that is not empty has a first one.
LEMMA FirstStage ==
  ASSUME NEW S, S \subseteq Nat, S # {}
  PROVE  Min(S) \in S /\ \A k \in S : Min(S) <= k
<1>1. PICK x \in S : \A y \in S : ~ (<<y, x>> \in OpToRel(<, Nat))
  BY NatLessThanWellFounded, WFMin
<1>2. ASSUME NEW y \in S, ~ (x <= y)
      PROVE  FALSE
  <2>1. x \in Nat /\ y \in Nat /\ y < x
    BY <1>2
  <2>2. <<y, x>> \in OpToRel(<, Nat)
    BY <2>1 DEF OpToRel
  <2> QED
    BY <2>2, <1>1
<1> QED
  BY <1>2 DEF Min

LEMMA StagesType == Stages \subseteq Nat /\ Requirements \in Stages
                    /\ Conditional \subseteq Stages /\ 1 \in Stages /\ 1 \notin Conditional
  BY InceptionAssumption DEF Stages

----------------------------------------------------------------------------
(* Workflows *)

\* What StageOrder says of one workflow.
Ordered(w) ==
    \A n \in Stages :
        IF w.current = None \/ n < w.current THEN Done(w, n)
        ELSE IF n = w.current THEN w.status[n] \in {"in_progress", "awaiting_approval"}
        ELSE w.status[n] = "pending"

\* What advancing past stage n does.
LEMMA AdvancedStages ==
  ASSUME NEW w \in WorkflowState, NEW n \in Stages
  PROVE  LET v == Advanced(w, n)
         IN  /\ v \in WorkflowState
             /\ v.key = w.key /\ v.complexity = w.complexity /\ v.artifacts = w.artifacts
             /\ v.current # None => v.current > n
             /\ \A k \in Stages :
                   v.status[k] = IF k <= n THEN w.status[k]
                                 ELSE IF v.current = None \/ k < v.current THEN "skipped"
                                 ELSE IF k = v.current THEN "in_progress"
                                 ELSE w.status[k]
             /\ \A k \in Stages :
                   k > n /\ (v.current = None \/ k < v.current) => ShouldSkip(w, k)
<1> DEFINE needed == {k \in n + 1 .. LastStage : ~ShouldSkip(w, k)}
           next   == IF needed = {} THEN None ELSE Min(needed)
           passed == {k \in n + 1 .. LastStage : \A i \in needed : k < i}
           marked == [k \in Stages |-> IF k \in passed THEN "skipped"
                                       ELSE IF k = next THEN "in_progress" ELSE w.status[k]]
           v == [w EXCEPT !.current = next, !.status = marked]
<1>1. LastStage \in Nat /\ n \in Nat /\ n >= 1 /\ Stages = 1 .. LastStage /\ None \notin Stages
  BY InceptionAssumption DEF Stages
<1>2. /\ needed # {} => next \in needed /\ \A k \in needed : next <= k
      /\ needed = {} => next = None
  <2>1. needed \subseteq Nat
    BY <1>1
  <2> QED
    BY <2>1, FirstStage
<1>3. next \in Stages \cup {None}
  BY <1>1, <1>2
<1>4. marked \in [Stages -> StageStatus]
  BY DEF WorkflowState, StageStatus
<1>5. v \in WorkflowState
  BY <1>3, <1>4 DEF WorkflowState
<1>6. /\ v.current = next /\ v.status = marked
      /\ v.key = w.key /\ v.complexity = w.complexity /\ v.artifacts = w.artifacts
  BY DEF WorkflowState
<1>7. Advanced(w, n) = v
  BY DEF Advanced
<1>8. \A k \in n + 1 .. LastStage : k \in passed <=> (next = None \/ k < next)
  <2>1. CASE needed = {}
    BY <2>1, <1>2
  <2>2. CASE needed # {}
    BY <2>2, <1>1, <1>2
  <2> QED
    BY <2>1, <2>2
<1>9. next # None => next > n /\ next \in Nat
  BY <1>1, <1>2
<1>10. ASSUME NEW k \in Stages
       PROVE  marked[k] = IF k <= n THEN w.status[k]
                          ELSE IF next = None \/ k < next THEN "skipped"
                          ELSE IF k = next THEN "in_progress"
                          ELSE w.status[k]
  <2>1. CASE k <= n
    BY <2>1, <1>1, <1>9
  <2>2. CASE k > n
    <3>1. k \in n + 1 .. LastStage
      BY <2>2, <1>1
    <3> QED
      BY <3>1, <2>2, <1>1, <1>8, <1>9
  <2> QED
    BY <2>1, <2>2, <1>1
<1>11. ASSUME NEW k \in Stages, k > n, next = None \/ k < next
       PROVE  ShouldSkip(w, k)
  <2>1. k \in n + 1 .. LastStage
    BY <1>1, <1>11
  <2>2. k \notin needed
    BY <1>1, <1>2, <1>11
  <2> QED
    BY <2>1, <2>2
<1> HIDE DEF next, marked, v
<1> QED
  BY <1>5, <1>6, <1>7, <1>9, <1>10, <1>11

\* A workflow that has finished its stages up to n and begun none after them
\* goes on in order.
LEMMA AdvancedOrdered ==
  ASSUME NEW w \in WorkflowState, NEW n \in Stages,
         \A k \in Stages : IF k <= n THEN Done(w, k) ELSE w.status[k] = "pending"
  PROVE  Ordered(Advanced(w, n))
<1> DEFINE v == Advanced(w, n)
<1>1. v \in WorkflowState
  BY AdvancedStages
<1>2. v.current = None \/ v.current \in Stages
  BY <1>1 DEF WorkflowState
<1>3. None \notin Stages /\ Stages \subseteq Nat
  BY StagesType, InceptionAssumption
<1>4. v.current # None => v.current > n
  BY AdvancedStages
<1> SUFFICES ASSUME NEW k \in Stages
             PROVE  IF v.current = None \/ k < v.current THEN Done(v, k)
                    ELSE IF k = v.current THEN v.status[k] \in {"in_progress", "awaiting_approval"}
                    ELSE v.status[k] = "pending"
  BY DEF Ordered
<1>5. v.status[k] = IF k <= n THEN w.status[k]
                    ELSE IF v.current = None \/ k < v.current THEN "skipped"
                    ELSE IF k = v.current THEN "in_progress"
                    ELSE w.status[k]
  BY AdvancedStages
<1>6. IF k <= n THEN w.status[k] \in {"approved", "skipped"} ELSE w.status[k] = "pending"
  BY DEF Done
<1> HIDE DEF v
<1>7. CASE v.current = None
  BY <1>5, <1>6, <1>7 DEF Done
<1>8. CASE v.current # None
  <2>1. v.current \in Nat /\ k \in Nat /\ n \in Nat /\ v.current > n
    BY <1>2, <1>3, <1>4, <1>8
  <2> QED
    BY <2>1, <1>5, <1>6, <1>8 DEF Done
<1> QED
  BY <1>7, <1>8

\* The other operations on a workflow keep its type.
LEMMA OperationTypes ==
  /\ \A x \in Sessions : Started(x) \in WorkflowState
  /\ \A w \in WorkflowState, n \in Stages :
        /\ Approved(w, n) \in WorkflowState
        /\ Rejected(w, n) \in WorkflowState
        /\ Skipped(w, n) \in WorkflowState
        /\ Submitted(w, n) \in WorkflowState
        /\ \A a \in Complexity : [w EXCEPT !.complexity = a] \in WorkflowState
<1>1. ASSUME NEW x \in Sessions
      PROVE  Started(x) \in WorkflowState
  BY StagesType DEF Started, WorkflowState, StageStatus, Complexity
<1>2. ASSUME NEW w \in WorkflowState, NEW n \in Stages, NEW st \in StageStatus
      PROVE  [w EXCEPT !.status[n] = st] \in WorkflowState
  BY DEF WorkflowState
<1>3. {"approved", "in_progress", "skipped"} \subseteq StageStatus
  BY DEF StageStatus
<1>4. ASSUME NEW w \in WorkflowState, NEW n \in Stages
      PROVE  /\ Approved(w, n) \in WorkflowState
             /\ Rejected(w, n) \in WorkflowState
             /\ Skipped(w, n) \in WorkflowState
  BY <1>2, <1>3, AdvancedStages DEF Approved, Rejected, Skipped
<1>5. ASSUME NEW w \in WorkflowState, NEW n \in Stages
      PROVE  /\ Submitted(w, n) \in WorkflowState
             /\ \A a \in Complexity : [w EXCEPT !.complexity = a] \in WorkflowState
  BY DEF Submitted, WorkflowState, StageStatus
<1> QED
  BY <1>1, <1>4, <1>5

LEMMA NoWorkflowIsNone == NoWorkflow \notin WorkflowState
<1>1. NoWorkflow.key = None
  BY DEF NoWorkflow
<1>2. \A w \in WorkflowState : w.key \in Sessions
  BY DEF WorkflowState
<1> QED
  BY <1>1, <1>2, InceptionAssumption

----------------------------------------------------------------------------
(* Steps *)

\* A tool has approved, rejected or taken answers for the workflow v.
ByTool(v, w) ==
    \E n \in Stages :
        \/ Submittable(v, n) /\ w = Submitted(v, n)
        \/ /\ n = Requirements /\ Submittable(v, n)
           /\ \E a \in Complexity : w = [v EXCEPT !.complexity = a]
        \/ Awaiting(v, n) /\ w = Approved(v, n)
        \/ Awaiting(v, n) /\ w = Rejected(v, n)

\* What a step does to one session's workflow, as long as no two calls on it
\* have overlapped.
SessionStep(s) ==
    \/ active'[s] = NoWorkflow
    \/ s \notin raced /\ active'[s] = active[s] /\ skipped'[s] = skipped[s]
    \/ active[s] = NoWorkflow /\ active'[s] = Started(s) /\ skipped'[s] = "no"
    \/ /\ active[s] \in WorkflowState /\ s \notin raced
       /\ ByTool(active[s], active'[s])
       /\ skipped'[s] = skipped[s]
    \/ /\ active[s] \in WorkflowState /\ s \notin raced
       /\ skipped[s] = "no"
       /\ \E n \in Conditional :
             /\ active'[s] = Skipped(active[s], n)
             /\ skipped'[s] = IF active[s].current = n THEN "current" ELSE "other"

\* What a call has checked.
Holds(k, w) == IF k.tool = "submit" THEN Submittable(w, k.stage) ELSE Awaiting(w, k.stage)

\* What is known of a call that is to change its workflow.
LEMMA CallFacts ==
  ASSUME TypeOK, CallsSound, NEW c \in Calls, calls[c].pc \in {"assess", "change"}
  PROVE  /\ calls[c].session \in Sessions
         /\ active[calls[c].session] \in WorkflowState
         /\ calls[c].stage \in Stages /\ calls[c].tool \in {"submit", "approve", "reject"}
         /\ calls[c].pc = "assess" => calls[c].tool = "submit" /\ calls[c].stage = Requirements
         /\ calls[c].session \notin raced => Holds(calls[c], active[calls[c].session])
<1>1. calls[c] \in Call
  BY DEF TypeOK
<1>2. /\ calls[c].session \in Sessions /\ active[calls[c].session] # NoWorkflow
      /\ calls[c].tool # "none" /\ calls[c].stage # None
      /\ calls[c].pc = "assess" => calls[c].tool = "submit" /\ calls[c].stage = Requirements
      /\ calls[c].session \notin raced => Holds(calls[c], active[calls[c].session])
  BY DEF CallsSound, Running, Holds
<1>3. active[calls[c].session] \in WorkflowState
  BY <1>2 DEF TypeOK
<1> QED
  BY <1>1, <1>2, <1>3 DEF Call

\* What a call makes of its workflow.
LEMMA ChangedByTool ==
  ASSUME TypeOK, CallsSound, NEW c \in Calls,
         NEW w, \/ /\ calls[c].pc = "assess"
                   /\ \E a \in Complexity :
                         w = [active[calls[c].session] EXCEPT !.complexity = a]
                \/ /\ calls[c].pc = "change"
                   /\ w = Changed(active[calls[c].session], calls[c].tool, calls[c].stage)
  PROVE  /\ w \in WorkflowState
         /\ calls[c].session \notin raced => ByTool(active[calls[c].session], w)
<1> DEFINE v == active[calls[c].session]
           n == calls[c].stage
<1>1. /\ v \in WorkflowState /\ n \in Stages
      /\ calls[c].tool \in {"submit", "approve", "reject"}
      /\ calls[c].pc = "assess" => calls[c].tool = "submit" /\ n = Requirements
      /\ calls[c].session \notin raced => Holds(calls[c], v)
  BY CallFacts
<1>2. CASE calls[c].pc = "assess"
  <2>1. PICK a \in Complexity : w = [v EXCEPT !.complexity = a]
    BY <1>2
  <2>2. w \in WorkflowState
    BY <1>1, <2>1, OperationTypes
  <2>3. calls[c].session \notin raced => Submittable(v, n) /\ n = Requirements
    BY <1>1, <1>2 DEF Holds
  <2> HIDE DEF v, n
  <2>4. calls[c].session \notin raced => ByTool(v, w)
    BY <1>1, <2>1, <2>3 DEF ByTool
  <2> QED
    BY <2>2, <2>4 DEF v
<1>3. CASE calls[c].pc = "change"
  <2>1. \/ calls[c].tool = "submit" /\ w = Submitted(v, n)
        \/ calls[c].tool = "approve" /\ w = Approved(v, n)
        \/ calls[c].tool = "reject" /\ w = Rejected(v, n)
    BY <1>1, <1>3 DEF Changed
  <2>2. w \in WorkflowState
    BY <1>1, <2>1, OperationTypes
  <2>3. calls[c].session \notin raced =>
          IF calls[c].tool = "submit" THEN Submittable(v, n) ELSE Awaiting(v, n)
    BY <1>1 DEF Holds
  <2> HIDE DEF v, n
  <2>4. calls[c].session \notin raced => ByTool(v, w)
    BY <1>1, <2>1, <2>3 DEF ByTool
  <2> QED
    BY <2>2, <2>4 DEF v
<1> QED
  BY <1>2, <1>3

LEMMA WorkflowStep ==
  ASSUME TypeOK, CallsSound, [Next]_vars, NEW s \in Sessions, s \notin raced'
  PROVE  SessionStep(s)
<1> /\ active \in [Sessions -> WorkflowState \cup {NoWorkflow}]
    /\ skipped \in [Sessions -> {"no", "current", "other"}]
  BY DEF TypeOK
<1>1. ASSUME NEW c \in Calls, NEW x \in Sessions, StartInception(c, x)
      PROVE  SessionStep(s)
  BY <1>1 DEF StartInception, SessionStep
<1>2. ASSUME UNCHANGED <<active, skipped, raced>>
      PROVE  SessionStep(s)
  BY <1>2 DEF SessionStep
<1>3. ASSUME NEW c \in Calls, NEW n \in Stages,
             SubmitAnswers(c, n) \/ ApproveStage(c, n) \/ RejectStage(c, n)
      PROVE  SessionStep(s)
  BY <1>2, <1>3 DEF SubmitAnswers, ApproveStage, RejectStage, Enter
<1>4. ASSUME NEW c \in Calls, NEW w, NEW k, Becomes(c, calls[c].session, w, k),
             calls[c].session \in Sessions,
             calls[c].session \notin raced => ByTool(active[calls[c].session], w),
             active[calls[c].session] \in WorkflowState
      PROVE  SessionStep(s)
  <2>1. s \notin raced /\ skipped' = skipped
    BY <1>4 DEF Becomes
  <2>2. active' = [active EXCEPT ![calls[c].session] = w]
    BY <1>4 DEF Becomes
  <2>3. CASE s = calls[c].session
    BY <1>4, <2>1, <2>2, <2>3 DEF SessionStep
  <2>4. CASE s # calls[c].session
    BY <2>1, <2>2, <2>4 DEF SessionStep
  <2> QED
    BY <2>3, <2>4
<1>5. ASSUME NEW c \in Calls, NEW a \in Complexity, Assess(c, a)
      PROVE  SessionStep(s)
  BY <1>4, <1>5, CallFacts, ChangedByTool DEF Assess
<1>6. ASSUME NEW c \in Calls, Change(c)
      PROVE  SessionStep(s)
  BY <1>4, <1>6, CallFacts, ChangedByTool DEF Change
<1>7. ASSUME NEW c \in Calls, ArtifactFails(c) \/ Serialise(c) \/ WriteFile(c) \/ WriteFails(c)
      PROVE  SessionStep(s)
  BY <1>2, <1>7 DEF ArtifactFails, Serialise, WriteFile, WriteFails
<1>8. ASSUME NEW x \in Sessions, NEW n \in Stages, SkipStage(x, n)
      PROVE  SessionStep(s)
  BY <1>8 DEF SkipStage, SessionStep
<1>9. CASE Restart
  BY <1>9 DEF Restart, SessionStep
<1>10. CASE UNCHANGED vars
  BY <1>2, <1>10 DEF vars
<1> QED
  BY <1>1, <1>3, <1>5, <1>6, <1>7, <1>8, <1>9, <1>10 DEF Next

\* The variables keep their types.
LEMMA TypeStep == TypeOK /\ CallsSound /\ [Next]_vars => TypeOK'
<1> SUFFICES ASSUME TypeOK, CallsSound, [Next]_vars
             PROVE  TypeOK'
  OBVIOUS
<1> USE DEF TypeOK
<1>1. Idle \in Call /\ \A x \in Sessions : Saving(x) \in Call
  BY DEF Idle, Saving, Call
<1>2. ASSUME NEW c \in Calls, NEW x \in Sessions, StartInception(c, x)
      PROVE  TypeOK'
  BY <1>1, <1>2, OperationTypes, NoWorkflowIsNone, InceptionAssumption DEF StartInception
<1>3. ASSUME NEW c \in Calls, NEW n \in Stages,
             SubmitAnswers(c, n) \/ ApproveStage(c, n) \/ RejectStage(c, n)
      PROVE  TypeOK'
  <2>1. PICK tool \in {"submit", "approve", "reject"} : context # None /\ Enter(c, tool, n)
    BY <1>3 DEF SubmitAnswers, ApproveStage, RejectStage
  <2>2. context \in Sessions
    BY <2>1
  <2>3. calls'[c] \in Call
    BY <2>1, <2>2 DEF Enter, Idle, Call
  <2> QED
    BY <2>1, <2>3 DEF Enter
<1>4. ASSUME NEW c \in Calls, NEW w \in WorkflowState, NEW k \in Call,
             calls[c].session \in Sessions, Becomes(c, calls[c].session, w, k)
      PROVE  TypeOK'
  BY <1>4, NoWorkflowIsNone DEF Becomes
<1>5. ASSUME NEW c \in Calls, NEW a \in Complexity, Assess(c, a)
      PROVE  TypeOK'
  <2>1. [calls[c] EXCEPT !.pc = "change"] \in Call
    BY DEF Call
  <2> QED
    BY <1>4, <1>5, <2>1, CallFacts, ChangedByTool DEF Assess
<1>6. ASSUME NEW c \in Calls, Change(c)
      PROVE  TypeOK'
  BY <1>1, <1>4, <1>6, CallFacts, ChangedByTool DEF Change
<1>7. ASSUME NEW c \in Calls, calls[c].pc # "idle"
      PROVE  calls[c].session \in Sessions
  BY <1>7 DEF CallsSound
<1>8. ASSUME NEW c \in Calls, ArtifactFails(c)
      PROVE  TypeOK'
  BY <1>1, <1>7, <1>8 DEF ArtifactFails
<1>9. ASSUME NEW c \in Calls, Serialise(c)
      PROVE  TypeOK'
  <2>1. calls[c].session \in Sessions
    BY <1>7, <1>9 DEF Serialise
  <2>2. [Idle EXCEPT !.pc = "write", !.session = calls[c].session,
                     !.image = active[calls[c].session]] \in Call
    BY <2>1 DEF Idle, Call
  <2> QED
    BY <1>9, <2>1, <2>2 DEF Serialise
<1>10. ASSUME NEW c \in Calls, WriteFile(c) \/ WriteFails(c)
       PROVE  TypeOK'
  <2>1. calls[c].session \in Sessions
    BY <1>7, <1>10 DEF WriteFile, WriteFails
  <2>2. ProjectOf[calls[c].session] \in Projects
    BY <2>1, InceptionAssumption
  <2>3. calls[c].image \in WorkflowState \cup {NoWorkflow}
    BY DEF Call
  <2> QED
    BY <1>1, <1>10, <2>1, <2>2, <2>3 DEF WriteFile, WriteFails
<1>11. ASSUME NEW x \in Sessions, NEW n \in Stages, SkipStage(x, n)
       PROVE  TypeOK'
  <2>1. Skipped(active[x], n) \in WorkflowState
    BY <1>11, OperationTypes DEF SkipStage
  <2> QED
    BY <2>1, <1>11, NoWorkflowIsNone DEF SkipStage
<1>12. CASE Restart
  BY <1>1, <1>12 DEF Restart
<1>13. CASE UNCHANGED vars
  BY <1>13 DEF vars
<1> QED
  BY <1>2, <1>3, <1>5, <1>6, <1>8, <1>9, <1>10, <1>11, <1>12, <1>13 DEF Next

----------------------------------------------------------------------------
(* The order of the stages *)

LEMMA AwaitingIsCurrent ==
  ASSUME NEW w \in WorkflowState, Ordered(w), NEW n \in Stages,
         w.status[n] \in {"in_progress", "awaiting_approval"}
  PROVE  /\ w.current = n
         /\ \A k \in Stages : /\ k < n => Done(w, k)
                              /\ k > n => w.status[k] = "pending"
<1>1. w.current = n
  BY DEF Ordered, Done
<1>2. Stages \subseteq Nat /\ None \notin Stages
  BY StagesType, InceptionAssumption
<1> QED
  BY <1>1, <1>2 DEF Ordered

\* A stage that is done with the stages before it, and before all others have
\* begun, is followed in order.
LEMMA PassedOrdered ==
  ASSUME NEW w \in WorkflowState, NEW n \in Stages, NEW st \in {"approved", "skipped"},
         \A k \in Stages : /\ k < n => Done(w, k)
                           /\ k > n => w.status[k] = "pending"
  PROVE  Ordered(Advanced([w EXCEPT !.status[n] = st], n))
<1> DEFINE u == [w EXCEPT !.status[n] = st]
<1>1. u \in WorkflowState /\ u.status = [w.status EXCEPT ![n] = st]
  BY DEF WorkflowState, StageStatus
<1>2. \A k \in Stages : u.status[k] = IF k = n THEN st ELSE w.status[k]
  BY <1>1 DEF WorkflowState
<1>3. Stages \subseteq Nat
  BY StagesType
<1> HIDE DEF u
<1>4. ASSUME NEW k \in Stages
      PROVE  IF k <= n THEN Done(u, k) ELSE u.status[k] = "pending"
  <2>1. CASE k < n
    <3>1. k # n /\ k <= n
      BY <2>1, <1>3
    <3>2. Done(w, k)
      BY <2>1
    <3>3. u.status[k] = w.status[k]
      BY <1>2, <3>1
    <3> QED
      BY <3>1, <3>2, <3>3 DEF Done
  <2>2. CASE k = n
    BY <2>2, <1>2, <1>3 DEF Done
  <2>3. CASE k > n
    BY <2>3, <1>2, <1>3 DEF Done
  <2> QED
    BY <2>1, <2>2, <2>3, <1>3
<1>5. Ordered(Advanced(u, n))
  BY <1>1, <1>4, AdvancedOrdered
<1> QED
  BY <1>5 DEF u

LEMMA OperationsOrdered ==
  ASSUME NEW w \in WorkflowState, Ordered(w), NEW n \in Stages
  PROVE  /\ Submittable(w, n) =>
               /\ Ordered(Submitted(w, n))
               /\ \A a \in Complexity : Ordered([w EXCEPT !.complexity = a])
         /\ Awaiting(w, n) => Ordered(Approved(w, n)) /\ Ordered(Rejected(w, n))
         /\ w.current = n => Ordered(Skipped(w, n))
<1>1. Stages \subseteq Nat /\ None \notin Stages
  BY StagesType, InceptionAssumption
<1>2. ASSUME NEW v \in WorkflowState, w.current = n, v.current = n,
             NEW st \in {"in_progress", "awaiting_approval"},
             v.status = [w.status EXCEPT ![n] = st]
      PROVE  Ordered(v)
  <2>1. \A k \in Stages : v.status[k] = IF k = n THEN st ELSE w.status[k]
    BY <1>2 DEF WorkflowState
  <2> QED
    BY <2>1, <1>1, <1>2 DEF Ordered, Done
<1>3. ASSUME Submittable(w, n)
      PROVE  /\ Ordered(Submitted(w, n))
             /\ \A a \in Complexity : Ordered([w EXCEPT !.complexity = a])
  <2>1. Submitted(w, n) \in WorkflowState
    BY OperationTypes
  <2>2. /\ Submitted(w, n).current = w.current
        /\ Submitted(w, n).status = [w.status EXCEPT ![n] = "awaiting_approval"]
    BY DEF Submitted, WorkflowState
  <2>3. Ordered(Submitted(w, n))
    BY <2>1, <2>2, <1>2, <1>3 DEF Submittable
  <2>4. ASSUME NEW a \in Complexity
        PROVE  Ordered([w EXCEPT !.complexity = a])
    <3>1. /\ [w EXCEPT !.complexity = a].current = w.current
          /\ [w EXCEPT !.complexity = a].status = w.status
      BY DEF WorkflowState
    <3> QED
      BY <3>1 DEF Ordered, Done
  <2> QED
    BY <2>3, <2>4
<1>4. ASSUME Awaiting(w, n)
      PROVE  Ordered(Approved(w, n)) /\ Ordered(Rejected(w, n))
  <2>1. /\ w.current = n
        /\ \A k \in Stages : /\ k < n => Done(w, k)
                             /\ k > n => w.status[k] = "pending"
    BY <1>4, AwaitingIsCurrent DEF Awaiting
  <2>2. Ordered(Approved(w, n))
    BY <2>1, PassedOrdered DEF Approved
  <2>3. Rejected(w, n) \in WorkflowState
    BY OperationTypes
  <2>4. /\ Rejected(w, n).current = w.current
        /\ Rejected(w, n).status = [w.status EXCEPT ![n] = "in_progress"]
    BY DEF Rejected, WorkflowState
  <2> QED
    BY <2>1, <2>2, <2>3, <2>4, <1>2
<1>5. ASSUME w.current = n
      PROVE  Ordered(Skipped(w, n))
  <2>1. w.status[n] \in {"in_progress", "awaiting_approval"}
    BY <1>1, <1>5 DEF Ordered
  <2> QED
    BY <2>1, AwaitingIsCurrent, PassedOrdered DEF Skipped
<1> QED
  BY <1>3, <1>4, <1>5

LEMMA StartedOrdered == \A s \in Sessions : Ordered(Started(s))
  BY StagesType, InceptionAssumption DEF Ordered, Started, Stages

LEMMA OrderStep == TypeOK /\ CallsSound /\ StageOrder /\ [Next]_vars => StageOrder'
<1> SUFFICES ASSUME TypeOK, CallsSound, StageOrder, [Next]_vars, NEW s \in Sessions,
                    active'[s] # NoWorkflow, skipped'[s] # "other", s \notin raced'
             PROVE  Ordered(active'[s])
  BY DEF StageOrder, Ordered, Done, Running
<1>1. active[s] # NoWorkflow /\ skipped[s] # "other" /\ s \notin raced => Ordered(active[s])
  BY DEF StageOrder, Ordered, Running
<1>2. CASE s \notin raced /\ active'[s] = active[s] /\ skipped'[s] = skipped[s]
  BY <1>1, <1>2
<1>3. CASE active'[s] = Started(s)
  BY <1>3, StartedOrdered
<1>4. CASE /\ active[s] \in WorkflowState /\ s \notin raced
           /\ ByTool(active[s], active'[s])
           /\ skipped'[s] = skipped[s]
  BY <1>1, <1>4, NoWorkflowIsNone, OperationsOrdered DEF ByTool
<1>5. CASE /\ active[s] \in WorkflowState /\ s \notin raced
           /\ skipped[s] = "no"
           /\ \E n \in Conditional :
                 /\ active'[s] = Skipped(active[s], n)
                 /\ skipped'[s] = IF active[s].current = n THEN "current" ELSE "other"
  BY <1>1, <1>5, NoWorkflowIsNone, OperationsOrdered, StagesType
<1> QED
  BY <1>2, <1>3, <1>4, <1>5, WorkflowStep DEF SessionStep

----------------------------------------------------------------------------
(* Why stages were approved and skipped *)

\* What SkippedOnlyIfSimple, AnswersKept and Assessed say of one workflow.
Sound(w, byHand) ==
    /\ \A n \in Stages :
          /\ w.status[n] \in {"awaiting_approval", "approved"} => n \in w.artifacts
          /\ w.status[n] = "skipped" =>
                n \in Conditional /\ (w.complexity = "simple" \/ byHand)
    /\ ~byHand =>
          /\ w.status[Requirements] = "pending" => w.complexity = "standard"
          /\ \A n \in Stages : n <= Requirements => w.status[n] # "skipped"

LEMMA AllSound ==
  (SkippedOnlyIfSimple /\ AnswersKept /\ Assessed) <=>
  \A s \in Sessions : active[s] # NoWorkflow /\ s \notin raced =>
                        Sound(active[s], skipped[s] # "no")
<1>1. \A n : n \in 1 .. Requirements <=> n \in Stages /\ n <= Requirements
  BY InceptionAssumption DEF Stages
<1> QED
  BY <1>1 DEF SkippedOnlyIfSimple, AnswersKept, Assessed, Sound, Running

\* Passing a stage, when the workflow is at it.
LEMMA AdvancedSound ==
  ASSUME NEW w \in WorkflowState, NEW byHand \in BOOLEAN, Sound(w, byHand),
         NEW n \in Stages,
         ~byHand => \A k \in Stages : k > n => w.status[k] = "pending"
  PROVE  Sound(Advanced(w, n), byHand)
<1> DEFINE v == Advanced(w, n)
<1>1. /\ v \in WorkflowState /\ v.complexity = w.complexity /\ v.artifacts = w.artifacts
      /\ v.current = None \/ v.current > n
  BY AdvancedStages
<1>2. ASSUME NEW k \in Stages
      PROVE  \/ v.status[k] = w.status[k]
             \/ v.status[k] = "in_progress" /\ k > n
             \/ v.status[k] = "skipped" /\ k > n /\ k \in Conditional /\ w.complexity = "simple"
  <2>1. /\ v.status[k] = IF k <= n THEN w.status[k]
                         ELSE IF v.current = None \/ k < v.current THEN "skipped"
                         ELSE IF k = v.current THEN "in_progress"
                         ELSE w.status[k]
        /\ k > n /\ (v.current = None \/ k < v.current) => ShouldSkip(w, k)
    BY AdvancedStages
  <2>2. k \in Nat /\ n \in Nat
    BY StagesType
  <2> HIDE DEF v
  <2> QED
    BY <2>1, <2>2 DEF ShouldSkip
<1> HIDE DEF v
<1>3. ASSUME NEW k \in Stages
      PROVE  /\ v.status[k] \in {"awaiting_approval", "approved"} => k \in v.artifacts
             /\ v.status[k] = "skipped" =>
                   k \in Conditional /\ (v.complexity = "simple" \/ byHand)
  BY <1>1, <1>2 DEF Sound
<1>4. ASSUME ~byHand, v.status[Requirements] = "pending"
      PROVE  v.complexity = "standard"
  <2>1. w.status[Requirements] = "pending"
    BY <1>2, <1>4, StagesType
  <2> QED
    BY <2>1, <1>1, <1>4 DEF Sound
<1>5. ASSUME ~byHand, NEW k \in Stages, k <= Requirements
      PROVE  v.status[k] # "skipped"
  <2>1. w.status[k] # "skipped"
    BY <1>5 DEF Sound
  <2>2. CASE k > n /\ w.complexity = "simple"
    <3>1. Requirements > n
      BY <2>2, <1>5, StagesType
    <3>2. w.status[Requirements] = "pending"
      BY <3>1, <1>5, StagesType
    <3> QED
      BY <3>2, <2>2, <1>5 DEF Sound
  <2> QED
    BY <2>1, <2>2, <1>2
<1>6. Sound(v, byHand)
  BY <1>3, <1>4, <1>5 DEF Sound
<1> QED
  BY <1>6 DEF v

LEMMA ToolSound ==
  ASSUME NEW v \in WorkflowState, NEW byHand \in BOOLEAN, Sound(v, byHand),
         ~byHand => Ordered(v), NEW w, ByTool(v, w)
  PROVE  Sound(w, byHand)
<1> DEFINE Set(n, st) == [v EXCEPT !.status[n] = st]
<1>1. ASSUME NEW n \in Stages, Submittable(v, n)
      PROVE  Sound(Submitted(v, n), byHand)
  <2> DEFINE u == Submitted(v, n)
  <2>1. /\ u.status = [v.status EXCEPT ![n] = "awaiting_approval"]
        /\ u.artifacts = v.artifacts \cup {n}
        /\ u.complexity = v.complexity
    BY DEF Submitted, WorkflowState
  <2>2. \A k \in Stages : u.status[k] = IF k = n THEN "awaiting_approval" ELSE v.status[k]
    BY <2>1 DEF WorkflowState
  <2> HIDE DEF u
  <2> QED
    BY <2>1, <2>2, StagesType DEF Sound, u
<1>3. ASSUME Submittable(v, Requirements), NEW a \in Complexity
      PROVE  Sound([v EXCEPT !.complexity = a], byHand)
  <2> DEFINE u == [v EXCEPT !.complexity = a]
  <2>1. u.status = v.status /\ u.artifacts = v.artifacts
    BY DEF WorkflowState
  <2>2. ~byHand => \A k \in Stages : v.status[k] # "skipped"
    <3> SUFFICES ASSUME ~byHand, NEW k \in Stages
                 PROVE  v.status[k] # "skipped"
      OBVIOUS
    <3>1. k > Requirements => v.status[k] = "pending"
      BY <1>3, AwaitingIsCurrent, StagesType DEF Submittable
    <3>2. k <= Requirements => v.status[k] # "skipped"
      BY DEF Sound
    <3> QED
      BY <3>1, <3>2, StagesType
  <2>3. v.status[Requirements] = "in_progress"
    BY <1>3 DEF Submittable
  <2> HIDE DEF u
  <2> QED
    BY <2>1, <2>2, <2>3 DEF Sound, u
<1>2. ASSUME NEW n \in Stages, Awaiting(v, n)
      PROVE  Sound(Approved(v, n), byHand) /\ Sound(Rejected(v, n), byHand)
  <2>1. ASSUME NEW st \in {"approved", "in_progress"}
        PROVE  /\ Set(n, st) \in WorkflowState
               /\ Sound(Set(n, st), byHand)
               /\ \A k \in Stages : k # n => Set(n, st).status[k] = v.status[k]
    <3>1. /\ Set(n, st) \in WorkflowState
          /\ Set(n, st).status = [v.status EXCEPT ![n] = st]
          /\ Set(n, st).artifacts = v.artifacts
          /\ Set(n, st).complexity = v.complexity
      BY DEF WorkflowState, StageStatus
    <3>2. \A k \in Stages : Set(n, st).status[k] = IF k = n THEN st ELSE v.status[k]
      BY <3>1 DEF WorkflowState
    <3> HIDE DEF Set
    <3> QED
      BY <3>1, <3>2, <1>2, StagesType DEF Sound, Awaiting
  <2>2. Sound(Rejected(v, n), byHand)
    BY <2>1 DEF Rejected
  <2>3. ~byHand => \A k \in Stages : k > n => Set(n, "approved").status[k] = "pending"
    <3> SUFFICES ASSUME ~byHand, NEW k \in Stages, k > n
                 PROVE  Set(n, "approved").status[k] = "pending"
      OBVIOUS
    <3>1. v.status[k] = "pending"
      BY <1>2, AwaitingIsCurrent DEF Awaiting
    <3>2. k # n
      BY StagesType
    <3> HIDE DEF Set
    <3> QED
      BY <2>1, <3>1, <3>2
  <2>4. Sound(Advanced(Set(n, "approved"), n), byHand)
    <3> HIDE DEF Set
    <3> QED
      BY <2>1, <2>3, AdvancedSound
  <2> QED
    BY <2>2, <2>4 DEF Approved
<1> QED
  BY <1>1, <1>2, <1>3 DEF ByTool

LEMMA SkippedSound ==
  ASSUME NEW v \in WorkflowState, Sound(v, FALSE), NEW n \in Conditional
  PROVE  Sound(Skipped(v, n), TRUE)
<1> DEFINE u == [v EXCEPT !.status[n] = "skipped"]
<1>1. u \in WorkflowState /\ u.status = [v.status EXCEPT ![n] = "skipped"]
      /\ u.artifacts = v.artifacts
  BY StagesType DEF WorkflowState, StageStatus
<1>2. \A k \in Stages : u.status[k] = IF k = n THEN "skipped" ELSE v.status[k]
  BY <1>1 DEF WorkflowState
<1> HIDE DEF u
<1>3. Sound(u, TRUE)
  BY <1>1, <1>2 DEF Sound
<1>4. Sound(Advanced(u, n), TRUE)
  BY <1>1, <1>3, AdvancedSound, StagesType
<1> QED
  BY <1>4 DEF Skipped, u

LEMMA StartedSound == \A s \in Sessions : Sound(Started(s), FALSE)
  BY StagesType DEF Sound, Started

LEMMA SoundStep ==
  ASSUME IInv, [Next]_vars
  PROVE  SkippedOnlyIfSimple' /\ AnswersKept' /\ Assessed'
<1>1. TypeOK /\ CallsSound /\ StageOrder
  BY DEF IInv
<1>2. \A s \in Sessions : active[s] # NoWorkflow /\ s \notin raced =>
                           Sound(active[s], skipped[s] # "no")
  BY AllSound DEF IInv
<1>3. ASSUME NEW s \in Sessions, active'[s] # NoWorkflow, s \notin raced'
      PROVE  Sound(active'[s], skipped'[s] # "no")
  <2>1. CASE s \notin raced /\ active'[s] = active[s] /\ skipped'[s] = skipped[s]
    BY <2>1, <1>2, <1>3
  <2>2. CASE active'[s] = Started(s) /\ skipped'[s] = "no"
    <3>1. (skipped'[s] # "no") = FALSE
      BY <2>2
    <3> QED
      BY <2>2, <3>1, StartedSound
  <2>3. CASE /\ active[s] \in WorkflowState /\ s \notin raced
             /\ ByTool(active[s], active'[s])
             /\ skipped'[s] = skipped[s]
    <3>1. ~ (skipped[s] # "no") => Ordered(active[s])
      BY <1>1, <2>3, NoWorkflowIsNone DEF StageOrder, Ordered, Running
    <3> QED
      BY <3>1, <2>3, <1>2, NoWorkflowIsNone, ToolSound
  <2>4. CASE /\ active[s] \in WorkflowState /\ s \notin raced
             /\ skipped[s] = "no"
             /\ \E n \in Conditional :
                   /\ active'[s] = Skipped(active[s], n)
                   /\ skipped'[s] = IF active[s].current = n THEN "current" ELSE "other"
    <3>1. (skipped[s] # "no") = FALSE /\ (skipped'[s] # "no") = TRUE
      BY <2>4
    <3>2. Sound(active[s], FALSE)
      BY <3>1, <2>4, <1>2, NoWorkflowIsNone
    <3> QED
      BY <3>1, <3>2, <2>4, SkippedSound
  <2>5. SessionStep(s)
    BY <1>1, <1>3, WorkflowStep
  <2> QED
    BY <1>3, <2>5, <2>1, <2>2, <2>3, <2>4 DEF SessionStep
<1>4. (SkippedOnlyIfSimple /\ AnswersKept /\ Assessed)' <=>
      (\A s \in Sessions : active[s] # NoWorkflow /\ s \notin raced =>
                            Sound(active[s], skipped[s] # "no"))'
  BY AllSound, PTL
<1> QED
  BY <1>3, <1>4

----------------------------------------------------------------------------
(* The file and the approvals *)

\* A call that a step leaves alone keeps what it has checked.
LEMMA CallKept ==
  ASSUME TypeOK, CallsSound, [Next]_vars, NEW c \in Calls,
         calls'[c] = calls[c], calls[c].pc # "idle"
  PROVE  /\ active'[calls[c].session] # NoWorkflow
         /\ calls[c].pc \in {"assess", "change"} /\ calls[c].session \notin raced' =>
               calls[c].session \notin raced /\ active'[calls[c].session] = active[calls[c].session]
<1> DEFINE s == calls[c].session
<1>1. /\ s \in Sessions /\ active[s] \in WorkflowState
      /\ active \in [Sessions -> WorkflowState \cup {NoWorkflow}]
      /\ calls[c].pc \in {"assess", "change"} => c \in Midway(s)
  BY DEF CallsSound, Running, TypeOK, Midway
<1> DEFINE Goal == /\ active'[s] # NoWorkflow
                   /\ calls[c].pc \in {"assess", "change"} /\ s \notin raced' =>
                         s \notin raced /\ active'[s] = active[s]
<1> HIDE DEF s
<1>2. ASSUME NEW d \in Calls, NEW x \in Sessions, StartInception(d, x)
      PROVE  Goal
  BY <1>1, <1>2, NoWorkflowIsNone DEF StartInception
<1>3. ASSUME UNCHANGED <<active, raced>>
      PROVE  Goal
  BY <1>1, <1>3, NoWorkflowIsNone
<1>4. ASSUME NEW d \in Calls, NEW n \in Stages,
             SubmitAnswers(d, n) \/ ApproveStage(d, n) \/ RejectStage(d, n)
      PROVE  Goal
  BY <1>3, <1>4 DEF SubmitAnswers, ApproveStage, RejectStage, Enter
<1>5. ASSUME NEW d \in Calls, d # c, NEW x, NEW w \in WorkflowState, NEW k,
             Becomes(d, x, w, k)
      PROVE  Goal
  BY <1>1, <1>5, NoWorkflowIsNone DEF Becomes
<1>6. ASSUME NEW d \in Calls, NEW a \in Complexity, Assess(d, a)
      PROVE  Goal
  <2>1. calls'[d].pc = "change" /\ calls[d].pc = "assess"
    BY <1>6 DEF Assess, Becomes, TypeOK, Call
  <2> QED
    BY <1>5, <1>6, <2>1, ChangedByTool DEF Assess
<1>7. ASSUME NEW d \in Calls, Change(d)
      PROVE  Goal
  <2>1. calls'[d].pc = "save" /\ calls[d].pc = "change"
    BY <1>7 DEF Change, Becomes, TypeOK, Saving, Idle
  <2> QED
    BY <1>5, <1>7, <2>1, ChangedByTool DEF Change
<1>8. ASSUME NEW d \in Calls,
             ArtifactFails(d) \/ Serialise(d) \/ WriteFile(d) \/ WriteFails(d)
      PROVE  Goal
  BY <1>3, <1>8 DEF ArtifactFails, Serialise, WriteFile, WriteFails
<1>9. ASSUME NEW x \in Sessions, NEW n \in Stages, SkipStage(x, n)
      PROVE  Goal
  <2>1. Skipped(active[x], n) \in WorkflowState
    BY <1>9, OperationTypes DEF SkipStage, TypeOK
  <2> QED
    BY <1>1, <1>9, <2>1, NoWorkflowIsNone DEF SkipStage
<1>10. ASSUME Restart
       PROVE  Goal
  BY <1>10 DEF Restart, Idle
<1>11. ASSUME UNCHANGED vars
       PROVE  Goal
  <2>1. UNCHANGED <<active, raced>>
    BY <1>11 DEF vars
  <2> HIDE DEF Goal
  <2> QED
    BY <1>3, <2>1
<1> HIDE DEF Goal
<1>12. Goal
  BY <1>2, <1>4, <1>6, <1>7, <1>8, <1>9, <1>10, <1>11 DEF Next
<1> QED
  BY <1>12 DEF Goal, s

\* What CallsSound says of one call.
CallSound(c) ==
    calls[c].pc # "idle" =>
        /\ calls[c].session \in Sessions /\ active[calls[c].session] # NoWorkflow
        /\ calls[c].pc \in {"assess", "change"} =>
              /\ calls[c].tool # "none" /\ calls[c].stage # None
              /\ calls[c].pc = "assess" => calls[c].tool = "submit" /\ calls[c].stage = Requirements
              /\ calls[c].session \notin raced => Holds(calls[c], active[calls[c].session])

LEMMA CallsStep == TypeOK /\ CallsSound /\ [Next]_vars => CallsSound'
<1> SUFFICES ASSUME TypeOK, CallsSound, [Next]_vars, NEW c \in Calls
             PROVE  CallSound(c)'
  BY DEF CallsSound, CallSound, Holds, Running
<1>1. CallSound(c) /\ calls[c] \in Call /\ calls \in [Calls -> Call]
  BY DEF CallsSound, CallSound, Holds, Running, TypeOK
<1>2. CASE calls'[c] = calls[c]
  BY <1>1, <1>2, CallKept DEF CallSound, Holds
<1>3. CASE calls'[c].pc = "idle"
  BY <1>3 DEF CallSound
<1>4. CASE /\ calls'[c].pc \in {"save", "write"}
           /\ calls'[c].session \in Sessions /\ active'[calls'[c].session] # NoWorkflow
  BY <1>4 DEF CallSound
<1>5. Idle.pc = "idle" /\ \A x \in Sessions : Saving(x).pc = "save" /\ Saving(x).session = x
  BY DEF Idle, Saving
<1>6. ASSUME NEW d \in Calls, NEW x \in Sessions, StartInception(d, x)
      PROVE  CallSound(c)'
  <2>1. Started(x) # NoWorkflow
    BY OperationTypes, NoWorkflowIsNone
  <2>2. active'[x] # NoWorkflow /\ calls' = [calls EXCEPT ![d] = Saving(x)]
    BY <1>6, <2>1 DEF StartInception, TypeOK
  <2> QED
    BY <2>2, <1>1, <1>2, <1>4, <1>5
<1>7. ASSUME NEW d \in Calls, NEW n \in Stages,
             SubmitAnswers(d, n) \/ ApproveStage(d, n) \/ RejectStage(d, n)
      PROVE  CallSound(c)'
  <2>1. PICK tool \in {"submit", "approve", "reject"} :
           /\ context # None /\ Enter(d, tool, n)
           /\ IF tool = "submit" THEN Submittable(active[context], n)
              ELSE Awaiting(active[context], n)
    BY <1>7 DEF SubmitAnswers, ApproveStage, RejectStage, Current
  <2>2. CASE c = d
    <3> DEFINE k == calls'[c]
    <3>1. /\ k.pc = IF tool = "submit" /\ n = Requirements THEN "assess" ELSE "change"
          /\ k.tool = tool /\ k.session = context /\ k.stage = n
      BY <2>1, <2>2, <1>1 DEF Enter, Idle
    <3>2. /\ context \in Sessions /\ active[context] # NoWorkflow
          /\ active' = active /\ tool # "none" /\ n # None
      BY <2>1, InceptionAssumption DEF TypeOK, Enter
    <3>3. Holds(k, active[context])
      BY <2>1, <3>1 DEF Holds
    <3> HIDE DEF k
    <3>4. /\ k.session \in Sessions /\ active'[k.session] # NoWorkflow
          /\ k.tool # "none" /\ k.stage # None
          /\ k.pc = "assess" => k.tool = "submit" /\ k.stage = Requirements
          /\ Holds(k, active'[k.session])
      BY <3>1, <3>2, <3>3
    <3> QED
      BY <3>4 DEF CallSound, Holds, k
  <2>3. CASE c # d
    BY <2>1, <2>3, <1>1, <1>2 DEF Enter
  <2> QED
    BY <2>2, <2>3
<1>8. ASSUME NEW d \in Calls, NEW a \in Complexity, Assess(d, a)
      PROVE  CallSound(c)'
  <2> DEFINE s == calls[d].session
             w == [active[s] EXCEPT !.complexity = a]
  <2>1. /\ s \in Sessions /\ active[s] \in WorkflowState /\ calls[d] \in Call
        /\ calls[d].stage \in Stages /\ calls[d].tool = "submit"
        /\ s \notin raced => Holds(calls[d], active[s])
    BY <1>1, <1>8, CallFacts DEF Assess
  <2>2. /\ calls' = [calls EXCEPT ![d] = [calls[d] EXCEPT !.pc = "change"]]
        /\ active' = [active EXCEPT ![s] = w]
        /\ raced \subseteq raced'
    BY <1>8 DEF Assess, Becomes
  <2>3. CASE c = d
    <3> DEFINE k == calls'[c]
    <3>1. k.pc = "change" /\ k.tool = "submit" /\ k.session = s /\ k.stage = calls[d].stage
      BY <2>1, <2>2, <2>3, <1>1 DEF Call
    <3>2. w \in WorkflowState /\ w.current = active[s].current /\ w.status = active[s].status
      BY <2>1, OperationTypes DEF WorkflowState
    <3>3. active'[s] = w /\ w # NoWorkflow
      BY <2>1, <2>2, <3>2, NoWorkflowIsNone DEF TypeOK
    <3>4. s \notin raced' => Submittable(w, k.stage)
      BY <2>1, <2>2, <3>1, <3>2 DEF Holds, Submittable
    <3>5. k.stage # None /\ k.tool # "none"
      BY <2>1, <3>1, InceptionAssumption
    <3> HIDE DEF k, w, s
    <3>6. /\ k.session \in Sessions /\ active'[k.session] # NoWorkflow
          /\ k.session \notin raced' => Holds(k, active'[k.session])
      BY <2>1, <3>1, <3>3, <3>4 DEF Holds
    <3> QED
      BY <3>1, <3>5, <3>6 DEF CallSound, Holds, k
  <2>4. CASE c # d
    BY <2>2, <2>4, <1>1, <1>2
  <2> QED
    BY <2>3, <2>4
<1>9. ASSUME NEW d \in Calls, Change(d)
      PROVE  CallSound(c)'
  <2>1. /\ calls[d].session \in Sessions
        /\ calls' = [calls EXCEPT ![d] = Saving(calls[d].session)]
        /\ active' = [active EXCEPT ![calls[d].session] =
                         Changed(active[calls[d].session], calls[d].tool, calls[d].stage)]
    BY <1>9, CallFacts DEF Change, Becomes
  <2>2. active'[calls[d].session] # NoWorkflow
    BY <1>9, <2>1, ChangedByTool, NoWorkflowIsNone DEF Change, TypeOK
  <2> QED
    BY <2>1, <2>2, <1>1, <1>2, <1>4, <1>5
<1>10. ASSUME NEW d \in Calls, Serialise(d)
       PROVE  CallSound(c)'
  <2>1. /\ calls[d].session \in Sessions /\ active[calls[d].session] # NoWorkflow
        /\ active' = active
    BY <1>10 DEF Serialise, CallsSound, Running
  <2>2. /\ calls'[d].pc = "write" /\ calls'[d].session = calls[d].session
        /\ c # d => calls'[c] = calls[c]
    BY <1>1, <1>10 DEF Serialise, Idle
  <2> QED
    BY <2>1, <2>2, <1>2, <1>4
<1>11. ASSUME NEW d \in Calls, ArtifactFails(d) \/ WriteFile(d) \/ WriteFails(d)
       PROVE  CallSound(c)'
  <2>1. calls' = [calls EXCEPT ![d] = Idle]
    BY <1>11 DEF ArtifactFails, WriteFile, WriteFails
  <2> QED
    BY <2>1, <1>1, <1>2, <1>3, <1>5
<1>12. ASSUME NEW x \in Sessions, NEW n \in Stages, SkipStage(x, n)
       PROVE  CallSound(c)'
  BY <1>2, <1>12 DEF SkipStage
<1>13. CASE Restart
  BY <1>3, <1>5, <1>13 DEF Restart
<1>14. CASE UNCHANGED vars
  BY <1>2, <1>14 DEF vars
<1> QED
  BY <1>6, <1>7, <1>8, <1>9, <1>10, <1>11, <1>12, <1>13, <1>14 DEF Next

\* What SavedState and SavesSound say of one session.
Saved(s) ==
    s \notin behind =>
        /\ active[s] # NoWorkflow /\ OwnDirectory(s) =>
              \/ disk[ProjectOf[s]] = active[s]
              \/ Unsaved(s) # {}
              \/ \E c \in Writing(s) : calls[c].image = active[s]
        /\ \A c \in Writing(s) : /\ Writing(s) = {c}
                                 /\ calls[c].image = active[s] \/ Unsaved(s) # {}

LEMMA AllSaved == SavedState /\ SavesSound <=> \A s \in Sessions : Saved(s)
  BY DEF SavedState, SavesSound, Saved, Running

LEMMA SavesStep ==
  ASSUME TypeOK, CallsSound, SavedState, SavesSound, [Next]_vars
  PROVE  SavedState' /\ SavesSound'
<1>0. (SavedState /\ SavesSound)' <=> (\A s \in Sessions : Saved(s))'
  BY AllSaved, PTL
<1> SUFFICES ASSUME NEW s \in Sessions
             PROVE  Saved(s)'
  BY <1>0
<1>1. Saved(s)
  BY AllSaved
<1>2. /\ active \in [Sessions -> WorkflowState \cup {NoWorkflow}]
      /\ calls \in [Calls -> Call]
      /\ disk \in [Projects -> WorkflowState \cup {NoWorkflow}]
      /\ ProjectOf \in [Sessions -> Projects]
      /\ None \notin Sessions
  BY InceptionAssumption DEF TypeOK
<1>3. /\ Idle.session = None
      /\ \A x \in Sessions : Saving(x).pc = "save" /\ Saving(x).session = x
  BY DEF Idle, Saving
\* A step that leaves the session alone.
<1>4. ASSUME active'[s] = active[s], OwnDirectory(s) => disk'[ProjectOf[s]] = disk[ProjectOf[s]],
             s \in behind => s \in behind',
             \A c \in Calls : \/ calls'[c] = calls[c]
                              \/ calls'[c].session # s /\ calls[c].session # s
      PROVE  Saved(s)'
  <2>1. Writing(s)' = Writing(s) /\ Unsaved(s)' = Unsaved(s)
    BY <1>4 DEF Writing, Unsaved
  <2>2. \A c \in Writing(s) : calls'[c].image = calls[c].image
    BY <1>4 DEF Writing
  <2>3. OwnDirectory(s)' <=> OwnDirectory(s)
    BY DEF OwnDirectory
  <2> QED
    BY <1>1, <1>4, <2>1, <2>2, <2>3 DEF Saved
\* A call that has changed the session's workflow, and is to save it.
<1>5. ASSUME NEW c \in Calls, c \in Unsaved(s)', c \notin Writing(s),
             \A d \in Calls \ {c} : calls'[d] = calls[d],
             s \in behind => s \in behind'
      PROVE  Saved(s)'
  <2>1. calls'[c].pc # "write"
    BY <1>5 DEF Unsaved
  <2>2. Writing(s)' = Writing(s)
    BY <1>5, <2>1 DEF Writing
  <2> QED
    BY <1>1, <1>5, <2>2 DEF Saved
<1>6. ASSUME NEW d \in Calls, NEW x \in Sessions, StartInception(d, x)
      PROVE  Saved(s)'
  <2>1. /\ active' = [active EXCEPT ![x] = Started(x)] /\ disk' = disk /\ behind' = behind
        /\ calls' = [calls EXCEPT ![d] = Saving(x)] /\ calls[d] = Idle
    BY <1>6 DEF StartInception
  <2>2. CASE x = s
    <3>1. d \in Unsaved(s)' /\ d \notin Writing(s)
      BY <1>2, <1>3, <2>1, <2>2 DEF Unsaved, Writing
    <3> QED
      BY <1>2, <1>5, <2>1, <3>1
  <2>3. CASE x # s
    BY <1>2, <1>3, <1>4, <2>1, <2>3
  <2> QED
    BY <2>2, <2>3
<1>7. ASSUME NEW d \in Calls, NEW n \in Stages,
             SubmitAnswers(d, n) \/ ApproveStage(d, n) \/ RejectStage(d, n)
      PROVE  Saved(s)'
  <2>1. PICK tool : Enter(d, tool, n)
    BY <1>7 DEF SubmitAnswers, ApproveStage, RejectStage
  <2>2. /\ active' = active /\ disk' = disk /\ behind' = behind
        /\ calls[d].pc = "idle" /\ calls'[d].pc \in {"assess", "change"}
        /\ calls' = [calls EXCEPT ![d] = calls'[d]]
    BY <1>2, <2>1 DEF Enter, Idle
  <2>3. Writing(s)' = Writing(s) /\ Unsaved(s) \subseteq Unsaved(s)'
    BY <1>2, <2>2 DEF Writing, Unsaved
  <2>4. \A c \in Writing(s) : calls'[c].image = calls[c].image
    BY <1>2, <2>2 DEF Writing
  <2>5. OwnDirectory(s)' <=> OwnDirectory(s)
    BY DEF OwnDirectory
  <2> QED
    BY <1>1, <2>2, <2>3, <2>4, <2>5 DEF Saved
<1>8. ASSUME NEW d \in Calls, \/ \E a \in Complexity : Assess(d, a)
                              \/ Change(d)
      PROVE  Saved(s)'
  <2>1. PICK w, k : Becomes(d, calls[d].session, w, k) /\ calls[d].pc \in {"assess", "change"}
                    /\ k.session = calls[d].session
                    /\ \/ k.pc = "save"
                       \/ k.pc = "change" /\ k.tool = "submit" /\ k.stage = Requirements
    <3>1. CASE \E a \in Complexity : Assess(d, a)
      <4>1. /\ calls[d].pc = "assess" /\ calls[d].tool = "submit"
            /\ calls[d].stage = Requirements /\ calls[d] \in Call
        BY <3>1, <1>2, CallFacts DEF Assess
      <4> QED
        BY <3>1, <4>1 DEF Assess, Call
    <3>2. CASE Change(d)
      BY <3>2, <1>3, CallFacts DEF Change
    <3> QED
      BY <1>8, <3>1, <3>2
  <2>2. /\ active' = [active EXCEPT ![calls[d].session] = w]
        /\ calls' = [calls EXCEPT ![d] = k] /\ disk' = disk /\ behind' = behind
    BY <2>1 DEF Becomes
  <2>3. CASE calls[d].session = s
    <3>1. d \in Unsaved(s)' /\ d \notin Writing(s)
      BY <1>2, <2>1, <2>2, <2>3 DEF Unsaved, Writing
    <3> QED
      BY <1>2, <1>5, <2>2, <3>1
  <2>4. CASE calls[d].session # s
    <3>1. active'[s] = active[s]
      BY <1>2, <2>2, <2>4
    <3> QED
      BY <1>2, <1>4, <2>1, <2>2, <2>4, <3>1
  <2> QED
    BY <2>3, <2>4
<1>9. ASSUME NEW d \in Calls, ArtifactFails(d)
      PROVE  Saved(s)'
  <2>1. /\ calls' = [calls EXCEPT ![d] = Idle] /\ active' = active /\ disk' = disk
        /\ calls[d].pc = "change" /\ behind \subseteq behind'
        /\ calls[d].stage = Requirements => calls[d].session \in behind'
    BY <1>9 DEF ArtifactFails
  <2>2. CASE calls[d].session # s
    BY <1>2, <1>3, <1>4, <2>1, <2>2
  <2>3. CASE calls[d].session = s /\ calls[d].stage = Requirements
    BY <2>1, <2>3 DEF Saved
  <2>4. CASE calls[d].session = s /\ calls[d].stage # Requirements
    <3>1. Writing(s)' = Writing(s) /\ Unsaved(s)' = Unsaved(s)
      BY <1>2, <1>3, <2>1, <2>4 DEF Writing, Unsaved, Idle
    <3>2. \A c \in Writing(s) : calls'[c].image = calls[c].image
      BY <1>2, <2>1 DEF Writing
    <3>3. OwnDirectory(s)' <=> OwnDirectory(s)
      BY DEF OwnDirectory
    <3> QED
      BY <1>1, <2>1, <3>1, <3>2, <3>3 DEF Saved
  <2> QED
    BY <2>2, <2>3, <2>4
<1>10. ASSUME NEW d \in Calls, Serialise(d)
       PROVE  Saved(s)'
  <2> DEFINE x == calls[d].session
  <2>1. /\ active' = active /\ disk' = disk /\ calls[d].pc = "save"
        /\ behind' = IF Writing(x) = {} THEN behind \ {x} ELSE behind \cup {x}
        /\ \A c \in Calls \ {d} : calls'[c] = calls[c]
        /\ calls'[d].pc = "write" /\ calls'[d].session = x /\ calls'[d].image = active[x]
    BY <1>2, <1>10 DEF Serialise, Idle
  <2>2. CASE x # s
    BY <1>2, <1>4, <2>1, <2>2
  <2>3. CASE x = s /\ Writing(s) = {}
    <3>1. Writing(s)' = {d}
      BY <2>1, <2>3 DEF Writing
    <3> QED
      BY <2>1, <2>3, <3>1 DEF Saved
  <2>4. CASE x = s /\ Writing(s) # {}
    BY <2>1, <2>4 DEF Saved
  <2> QED
    BY <2>2, <2>3, <2>4
<1>11. ASSUME NEW d \in Calls, WriteFile(d) \/ WriteFails(d)
       PROVE  Saved(s)'
  <2> DEFINE x == calls[d].session
  <2>1. /\ calls' = [calls EXCEPT ![d] = Idle] /\ active' = active
        /\ calls[d].pc = "write" /\ behind \subseteq behind'
        /\ WriteFails(d) => x \in behind'
        /\ \A q \in Projects \ {ProjectOf[x]} : disk'[q] = disk[q]
        /\ WriteFile(d) => disk' = [disk EXCEPT ![ProjectOf[x]] = calls[d].image]
    BY <1>2, <1>11 DEF WriteFile, WriteFails
  <2>2. x \in Sessions
    BY <2>1 DEF CallsSound
  <2>3. CASE x # s
    <3>1. OwnDirectory(s) => disk'[ProjectOf[s]] = disk[ProjectOf[s]]
      BY <1>2, <2>1, <2>2, <2>3 DEF OwnDirectory
    <3> QED
      BY <1>2, <1>3, <1>4, <2>1, <2>3, <3>1
  <2>4. CASE x = s /\ WriteFails(d)
    BY <2>1, <2>4 DEF Saved
  <2>5. CASE x = s /\ WriteFile(d) /\ s \notin behind'
    <3>1. /\ d \in Writing(s) /\ Writing(s) = {d}
          /\ calls[d].image = active[s] \/ Unsaved(s) # {}
      BY <1>1, <2>1, <2>5 DEF Saved, Writing
    <3>2. Writing(s)' = {}
      BY <1>2, <1>3, <2>1, <3>1 DEF Writing
    <3>3. Unsaved(s)' = Unsaved(s)
      BY <1>2, <1>3, <2>1 DEF Unsaved, Idle
    <3>4. disk'[ProjectOf[s]] = calls[d].image
      BY <1>2, <2>1, <2>5
    <3> QED
      BY <2>1, <3>1, <3>2, <3>3, <3>4 DEF Saved
  <2>6. CASE s \in behind'
    BY <2>6 DEF Saved
  <2> QED
    BY <1>11, <2>3, <2>4, <2>5, <2>6
<1>12. ASSUME NEW x \in Sessions, NEW n \in Stages, SkipStage(x, n)
       PROVE  Saved(s)'
  <2>1. /\ active' = [active EXCEPT ![x] = Skipped(active[x], n)]
        /\ behind' = behind \cup {x} /\ calls' = calls /\ disk' = disk
    BY <1>12 DEF SkipStage
  <2>2. CASE x = s
    BY <2>1, <2>2 DEF Saved
  <2>3. CASE x # s
    BY <1>2, <1>4, <2>1, <2>3
  <2> QED
    BY <2>2, <2>3
<1>13. CASE Restart
  BY <1>13 DEF Restart, Saved, Writing, Idle
<1>14. CASE UNCHANGED vars
  BY <1>4, <1>14 DEF vars
<1> QED
  BY <1>6, <1>7, <1>8, <1>9, <1>10, <1>11, <1>12, <1>13, <1>14 DEF Next

\* Advancing from the current stage leaves the stages that are done alone.
LEMMA DoneKept ==
  ASSUME NEW w \in WorkflowState, NEW n \in Stages, NEW k \in Stages,
         w.status[k] = "approved", NEW st \in StageStatus, k # n,
         k > n => w.status[k] = "pending"
  PROVE  /\ [w EXCEPT !.status[n] = st].status[k] = "approved"
         /\ Advanced([w EXCEPT !.status[n] = st], n).status[k] = "approved"
<1> DEFINE u == [w EXCEPT !.status[n] = st]
<1>1. u \in WorkflowState /\ u.status[k] = "approved"
  BY DEF WorkflowState
<1>2. k <= n
  BY StagesType
<1> HIDE DEF u
<1>3. Advanced(u, n).status[k] = "approved"
  BY <1>1, <1>2, AdvancedStages
<1> QED
  BY <1>1, <1>3 DEF u

LEMMA ApprovalStep ==
  ASSUME TypeOK, CallsSound, StageOrder, [Next]_vars, NEW s \in Sessions, NEW k \in Stages,
         active[s] # NoWorkflow, active'[s] # NoWorkflow, skipped'[s] # "other", s \notin raced',
         active[s].status[k] = "approved"
  PROVE  active'[s].status[k] = "approved"
<1>1. SessionStep(s)
  BY WorkflowStep
<1>2. active[s] \in WorkflowState
  BY DEF TypeOK
<1>3. skipped[s] # "other" /\ s \notin raced => Ordered(active[s])
  BY DEF StageOrder, Ordered, Running
<1>4. ASSUME skipped[s] # "other", s \notin raced, NEW n \in Stages, active[s].current = n
      PROVE  k # n /\ (k > n => active[s].status[k] = "pending")
  <2>1. active[s].status[n] \in {"in_progress", "awaiting_approval"}
    BY <1>3, <1>4, StagesType, InceptionAssumption DEF Ordered
  <2> QED
    BY <2>1, <1>2, <1>3, <1>4, AwaitingIsCurrent
<1>5. CASE /\ s \notin raced /\ ByTool(active[s], active'[s])
           /\ skipped'[s] = skipped[s]
  <2>1. ASSUME NEW n \in Stages, Submittable(active[s], n),
               \/ active'[s] = Submitted(active[s], n)
               \/ \E a \in Complexity : active'[s] = [active[s] EXCEPT !.complexity = a]
        PROVE  active'[s].status[k] = "approved"
    <3>1. active[s].status[n] = "in_progress" /\ k # n
      BY <2>1 DEF Submittable
    <3>2. CASE active'[s] = Submitted(active[s], n)
      BY <3>1, <3>2, <1>2 DEF Submitted, WorkflowState
    <3>3. CASE \E a \in Complexity : active'[s] = [active[s] EXCEPT !.complexity = a]
      BY <3>3, <1>2 DEF WorkflowState
    <3> QED
      BY <2>1, <3>2, <3>3
  <2>2. ASSUME NEW n \in Stages, Awaiting(active[s], n),
               \/ active'[s] = Approved(active[s], n)
               \/ active'[s] = Rejected(active[s], n)
        PROVE  active'[s].status[k] = "approved"
    <3>1. active[s].current = n
      BY <2>2, <1>2, <1>3, <1>5, AwaitingIsCurrent DEF Awaiting
    <3>2. k # n /\ (k > n => active[s].status[k] = "pending")
      BY <3>1, <1>4, <1>5
    <3>3. {"approved", "in_progress"} \subseteq StageStatus
      BY DEF StageStatus
    <3>4. /\ [active[s] EXCEPT !.status[n] = "in_progress"].status[k] = "approved"
          /\ Advanced([active[s] EXCEPT !.status[n] = "approved"], n).status[k] = "approved"
      BY <3>2, <3>3, <1>2, DoneKept
    <3> QED
      BY <3>4, <2>2 DEF Approved, Rejected
  <2> QED
    BY <2>1, <2>2, <1>5 DEF ByTool
<1>6. CASE /\ skipped[s] = "no" /\ s \notin raced
           /\ \E n \in Conditional :
                 /\ active'[s] = Skipped(active[s], n)
                 /\ skipped'[s] = IF active[s].current = n THEN "current" ELSE "other"
  <2>1. PICK n \in Stages : active'[s] = Skipped(active[s], n) /\ active[s].current = n
    BY <1>6, StagesType
  <2>2. k # n /\ (k > n => active[s].status[k] = "pending")
    BY <2>1, <1>4, <1>6
  <2>3. "skipped" \in StageStatus
    BY DEF StageStatus
  <2> QED
    BY <2>1, <2>2, <2>3, <1>2, DoneKept DEF Skipped
<1> QED
  BY <1>1, <1>5, <1>6 DEF SessionStep

----------------------------------------------------------------------------

\* The inductive invariant: stages in order, the reason of every approval and
\* skip, and the file.
THEOREM Inductive == Spec => []IInv
<1>1. Init => IInv
  BY InceptionAssumption
     DEF Init, IInv, TypeOK, StageOrder, SkippedOnlyIfSimple, SavedState, AnswersKept,
         Assessed, CallsSound, SavesSound, Running, Idle, Call, Writing
<1>2. IInv /\ [Next]_vars => IInv'
  <2> SUFFICES ASSUME IInv, [Next]_vars
               PROVE  IInv'
    OBVIOUS
  <2>1. TypeOK'
    BY TypeStep DEF IInv
  <2>2. StageOrder'
    BY OrderStep DEF IInv
  <2>3. SkippedOnlyIfSimple' /\ AnswersKept' /\ Assessed'
    BY SoundStep
  <2>4. SavedState' /\ SavesSound'
    BY SavesStep DEF IInv
  <2>5. CallsSound'
    BY CallsStep DEF IInv
  <2> QED
    BY <2>5, <2>4, <2>3, <2>2, <2>1 DEF IInv
<1> QED
  BY <1>1, <1>2, PTL DEF Spec

\* No stage is passed that was neither approved nor skipped, and none is begun
\* early: what the stages' approval gates are for.
THEOREM StagesInOrder == Spec => []StageOrder
<1>1. IInv => StageOrder
  BY DEF IInv
<1> QED
  BY <1>1, Inductive, PTL

\* A stage is skipped only for a reason, and approved only with its artifact.
THEOREM SkipsJustified == Spec => []SkippedOnlyIfSimple
<1>1. IInv => SkippedOnlyIfSimple
  BY DEF IInv
<1> QED
  BY <1>1, Inductive, PTL

\* The state file of a project that one session uses is what that session's
\* tools have done.
THEOREM StateSaved == Spec => []SavedState
<1>1. IInv => SavedState
  BY DEF IInv
<1> QED
  BY <1>1, Inductive, PTL

\* No call of a tool takes an approval back.
THEOREM ApprovalsFinal == Spec => ApprovalFinal
<1> DEFINE Kept(s, n) == /\ active[s] # NoWorkflow /\ active'[s] # NoWorkflow
                         /\ skipped'[s] # "other" /\ s \notin raced'
                         /\ active[s].status[n] = "approved"
                         => active'[s].status[n] = "approved"
<1>1. IInv /\ [Next]_vars => [\A s \in Sessions, n \in Stages : Kept(s, n)]_vars
  BY ApprovalStep DEF IInv
<1> QED
  BY <1>1, Inductive, PTL DEF Spec, ApprovalFinal

----------------------------------------------------------------------------
(* The quality gate.  First its operators, then its sessions.              *)

(* The rubrics *)

\* The thresholds of a rubric's items weigh as much as the overall one.
ThresholdsSuffice(r) ==
    (r[1].threshold - OverallThreshold) * r[1].weight + (r[2].threshold - OverallThreshold) * r[2].weight
        + (r[3].threshold - OverallThreshold) * r[3].weight + (r[4].threshold - OverallThreshold) * r[4].weight
        + (r[5].threshold - OverallThreshold) * r[5].weight >= 0

\* Each rubric has five items, with different ids and positive weights.
LEMMA RubricShape ==
    ASSUME NEW k \in Kinds
    PROVE  /\ Len(Rubric(k)) = 5 /\ DOMAIN Rubric(k) = 1 .. 5
           /\ Rubric(k) \in Seq({Rubric(k)[i] : i \in 1 .. 5})
           /\ \A i, j \in 1 .. 5 : Rubric(k)[i].id = Rubric(k)[j].id => i = j
           /\ \A i \in 1 .. 5 : Rubric(k)[i].weight \in Nat \ {0} /\ Rubric(k)[i].threshold \in Nat
           /\ ThresholdsSuffice(Rubric(k))
<1> DEFINE Shape(r) == /\ Len(r) = 5 /\ DOMAIN r = 1 .. 5
                       /\ r \in Seq({r[i] : i \in 1 .. 5})
                       /\ \A i, j \in 1 .. 5 : r[i].id = r[j].id => i = j
                       /\ \A i \in 1 .. 5 : r[i].weight \in Nat \ {0} /\ r[i].threshold \in Nat
                       /\ ThresholdsSuffice(r)
<1>0. ASSUME NEW a, NEW b, NEW c, NEW d, NEW e
      PROVE  LET r == <<a, b, c, d, e>>
             IN  /\ Len(r) = 5 /\ DOMAIN r = 1 .. 5 /\ r \in Seq({r[i] : i \in 1 .. 5})
                 /\ r[1] = a /\ r[2] = b /\ r[3] = c /\ r[4] = d /\ r[5] = e
  OBVIOUS
<1>1. ASSUME NEW a, NEW b, NEW c, NEW d, NEW e,
             \A x \in {a, b, c, d, e} : x.weight \in Nat \ {0} /\ x.threshold \in Nat,
             a.id # b.id, a.id # c.id, a.id # d.id, a.id # e.id, b.id # c.id, b.id # d.id, b.id # e.id,
             c.id # d.id, c.id # e.id, d.id # e.id,
             ThresholdsSuffice(<<a, b, c, d, e>>)
      PROVE  Shape(<<a, b, c, d, e>>)
  <2> DEFINE r == <<a, b, c, d, e>>
  <2>1. /\ Len(r) = 5 /\ DOMAIN r = 1 .. 5 /\ r \in Seq({r[i] : i \in 1 .. 5})
        /\ r[1] = a /\ r[2] = b /\ r[3] = c /\ r[4] = d /\ r[5] = e
    BY <1>0
  <2>2. ThresholdsSuffice(r)
    BY <1>1
  <2> HIDE DEF r
  <2>3. \A i, j \in 1 .. 5 : r[i].id = r[j].id => i = j
    BY <1>1, <2>1, SMTT(30)
  <2>4. \A i \in 1 .. 5 : r[i].weight \in Nat \ {0} /\ r[i].threshold \in Nat
    BY <1>1, <2>1, SMTT(30)
  <2>5. Shape(r)
    BY <2>1, <2>2, <2>3, <2>4
  <2> QED
    BY <2>5 DEF r
<1> HIDE DEF Shape
<1>2. Shape(DesignRubric)
  BY <1>1 DEF DesignRubric, Item, Pct, ThresholdsSuffice, OverallThreshold
<1>3. Shape(CodeReviewRubric)
  BY <1>1 DEF CodeReviewRubric, Item, Pct, ThresholdsSuffice, OverallThreshold
<1>4. Shape(ScaffoldRubric)
  BY <1>1 DEF ScaffoldRubric, Item, Pct, ThresholdsSuffice, OverallThreshold
<1>5. Shape(DeployRubric)
  BY <1>1 DEF DeployRubric, Item, Pct, ThresholdsSuffice, OverallThreshold
<1>6. Rubric(k) \in {DesignRubric, CodeReviewRubric, ScaffoldRubric, DeployRubric}
  BY DEF Rubric, Kinds
<1>7. Shape(Rubric(k))
  BY <1>2, <1>3, <1>4, <1>5, <1>6
<1> QED
  BY <1>7 DEF Shape

\* An item is found by its id.
LEMMA ItemFound ==
    ASSUME NEW k \in Kinds
    PROVE  /\ ItemIds(k) = {Rubric(k)[i].id : i \in 1 .. 5}
           /\ \A i \in 1 .. 5 : ItemOf(k, Rubric(k)[i].id) = Rubric(k)[i]
           /\ \A id \in ItemIds(k) : ItemOf(k, id).weight \in Nat \ {0} /\ ItemOf(k, id).threshold \in Nat
<1>1. ItemIds(k) = {Rubric(k)[i].id : i \in 1 .. 5}
  BY RubricShape DEF ItemIds
<1>2. ASSUME NEW i \in 1 .. 5 PROVE ItemOf(k, Rubric(k)[i].id) = Rubric(k)[i]
  <2> DEFINE all == {Rubric(k)[j] : j \in DOMAIN Rubric(k)}
             id == Rubric(k)[i].id
  <2>1. Rubric(k)[i] \in all /\ \A x \in all : x.id = id => x = Rubric(k)[i]
    BY RubricShape, ZenonT(30)
  <2>2. ItemOf(k, id) = CHOOSE x \in all : x.id = id
    BY DEF ItemOf
  <2>3. Rubric(k)[i].id = id
    OBVIOUS
  <2> HIDE DEF all, id
  <2>4. ItemOf(k, id) = Rubric(k)[i]
    BY <2>1, <2>2, <2>3
  <2> QED
    BY <2>4 DEF id
<1>3. \A id \in ItemIds(k) : ItemOf(k, id).weight \in Nat \ {0} /\ ItemOf(k, id).threshold \in Nat
  <2> SUFFICES ASSUME NEW i \in 1 .. 5
               PROVE  /\ ItemOf(k, Rubric(k)[i].id).weight \in Nat \ {0}
                      /\ ItemOf(k, Rubric(k)[i].id).threshold \in Nat
    BY <1>1
  <2>1. Rubric(k)[i].weight \in Nat \ {0} /\ Rubric(k)[i].threshold \in Nat
    BY RubricShape
  <2> QED
    BY <1>2, <2>1
<1> QED
  BY <1>1, <1>2, <1>3

----------------------------------------------------------------------------
(* Scores *)

Judged(k) == [id : ItemIds(k), score : Int, passed : BOOLEAN, feedback : BOOLEAN]

WeightOf(k, s) == ItemOf(k, s.id).weight

\* The sums of a sequence of scores are integers, and its weight is positive
\* unless it is empty.
LEMMA OverallType ==
    ASSUME NEW k \in Kinds, NEW scores \in Seq(Judged(k))
    PROVE  LET o == OverallScore(k, scores)
           IN  o.sum \in Int /\ o.weight \in Int /\ (scores # <<>> => o.weight > 0)
<1> DEFINE weight == [i \in DOMAIN scores |-> ItemOf(k, scores[i].id).weight]
           product == [i \in DOMAIN scores |-> scores[i].score * weight[i]]
<1>1. /\ Len(scores) \in Nat /\ DOMAIN scores = 1 .. Len(scores)
      /\ \A i \in 1 .. Len(scores) : scores[i] \in Judged(k)
  BY Entries
<1>2. ASSUME NEW i \in 1 .. Len(scores)
      PROVE  ItemOf(k, scores[i].id).weight \in Nat \ {0} /\ scores[i].score \in Int
  <2>1. scores[i].id \in ItemIds(k) /\ scores[i].score \in Int
    BY <1>1 DEF Judged
  <2> QED
    BY <2>1, ItemFound
<1>3. weight \in Seq(Int) /\ DOMAIN weight = DOMAIN scores /\ (scores # <<>> => weight # <<>>)
  BY <1>1, <1>2
<1>4. \A i \in 1 .. Len(scores) : weight[i] \in Nat \ {0}
  BY <1>1, <1>2
<1>5. product \in Seq(Int)
  <2> HIDE DEF weight
  <2>1. \A i \in 1 .. Len(scores) : scores[i].score * weight[i] \in Int
    BY <1>2, <1>4
  <2> QED
    BY <1>1, <2>1
<1>6. OverallScore(k, scores) = [sum |-> Total(product), weight |-> Total(weight)]
  BY DEF OverallScore
<1> HIDE DEF weight, product
<1>7. Total(product) \in Int /\ Total(weight) \in Int
  BY <1>3, <1>5, TotalType
<1>8. scores # <<>> => Total(weight) > 0
  <2>1. \A n \in DOMAIN weight : weight[n] > 0
    BY <1>1, <1>3, <1>4
  <2> QED
    BY <1>3, <2>1, TotalPositive
<1> QED
  BY <1>6, <1>7, <1>8

\* build_result's verdict, for scores that there are: the mean is compared.
LEMMA Verdict ==
    ASSUME NEW k \in Kinds, NEW scores \in Seq(Judged(k)), scores # <<>>
    PROVE  Passes(k, scores) <=> OverallScore(k, scores).sum >= OverallThreshold * OverallScore(k, scores).weight
BY OverallType DEF Passes

\* The verdict over five scores: the margins of the scores, weighed, add up.
Margin(k, s) == (s.score - OverallThreshold) * WeightOf(k, s)

Weighed(product, weight, margin) ==
    product \in Int /\ weight \in Int /\ margin = product - OverallThreshold * weight

LEMMA MarginsAddUp ==
    ASSUME NEW a, NEW b, NEW c, NEW d, NEW e, NEW A, NEW B, NEW C, NEW D, NEW E,
           NEW m1, NEW m2, NEW m3, NEW m4, NEW m5,
           Weighed(a, A, m1), Weighed(b, B, m2), Weighed(c, C, m3), Weighed(d, D, m4), Weighed(e, E, m5)
    PROVE  a + b + c + d + e >= OverallThreshold * (A + B + C + D + E) <=> m1 + m2 + m3 + m4 + m5 >= 0
BY DEF Weighed, OverallThreshold, Pct

LEMMA VerdictOfFive ==
    ASSUME NEW k \in Kinds, NEW scores \in Seq(Judged(k)), Len(scores) = 5
    PROVE  /\ \A i \in 1 .. 5 : Margin(k, scores[i]) \in Int
           /\ Passes(k, scores) <=> Margin(k, scores[1]) + Margin(k, scores[2]) + Margin(k, scores[3])
                                      + Margin(k, scores[4]) + Margin(k, scores[5]) >= 0
<1> DEFINE weight == [i \in DOMAIN scores |-> ItemOf(k, scores[i].id).weight]
           product == [i \in DOMAIN scores |-> scores[i].score * weight[i]]
<1>0. DOMAIN scores = 1 .. Len(scores) /\ \A i \in 1 .. Len(scores) : scores[i] \in Judged(k)
  BY Entries
<1>1. DOMAIN scores = 1 .. 5 /\ (\A i \in 1 .. 5 : scores[i] \in Judged(k)) /\ scores # <<>>
  <2>1. scores # <<>>
    OBVIOUS
  <2>2. DOMAIN scores = 1 .. 5 /\ \A i \in 1 .. 5 : scores[i] \in Judged(k)
    BY <1>0
  <2> QED
    BY <2>1, <2>2
<1>2. ASSUME NEW i \in 1 .. 5
      PROVE  WeightOf(k, scores[i]) \in Int /\ scores[i].score \in Int
  <2>1. scores[i].id \in ItemIds(k) /\ scores[i].score \in Int
    BY <1>1 DEF Judged
  <2> QED
    BY <2>1, ItemFound DEF WeightOf
<1>3. weight \in Seq(Int) /\ Len(weight) = 5 /\ \A i \in 1 .. 5 : weight[i] = WeightOf(k, scores[i])
  BY <1>1, <1>2 DEF WeightOf
<1>4. /\ product \in Seq(Int) /\ Len(product) = 5
      /\ \A i \in 1 .. 5 : Weighed(product[i], weight[i], Margin(k, scores[i])) /\ Margin(k, scores[i]) \in Int
  <2> HIDE DEF weight
  <2>1. ASSUME NEW i \in 1 .. 5
        PROVE  /\ scores[i].score * weight[i] \in Int
               /\ Weighed(scores[i].score * weight[i], weight[i], Margin(k, scores[i]))
               /\ Margin(k, scores[i]) \in Int
    <3> DEFINE x == scores[i].score
               y == weight[i]
    <3>1. x \in Int /\ y \in Int /\ Margin(k, scores[i]) = (x - OverallThreshold) * y
      BY <1>2, <1>3 DEF Margin
    <3> HIDE DEF x, y
    <3>2. x * y \in Int /\ (x - OverallThreshold) * y = x * y - OverallThreshold * y
          /\ (x - OverallThreshold) * y \in Int
      BY <3>1 DEF OverallThreshold, Pct
    <3>3. x * y \in Int /\ Weighed(x * y, y, Margin(k, scores[i])) /\ Margin(k, scores[i]) \in Int
      BY <3>1, <3>2 DEF Weighed
    <3> QED
      BY <3>3 DEF x, y
  <2> DEFINE P(i) == scores[i].score * weight[i]
  <2>2. \A i \in 1 .. 5 : P(i) \in Int /\ Weighed(P(i), weight[i], Margin(k, scores[i])) /\ Margin(k, scores[i]) \in Int
    BY <2>1
  <2>3. product = [i \in DOMAIN scores |-> P(i)]
    OBVIOUS
  <2> HIDE DEF P, product
  <2>4. product \in Seq(Int) /\ Len(product) = 5 /\ \A i \in 1 .. 5 : product[i] = P(i)
    BY <1>1, <2>2, <2>3
  <2> QED
    BY <2>2, <2>4
<1>5. OverallScore(k, scores) = [sum |-> Total(product), weight |-> Total(weight)]
  BY DEF OverallScore
<1> HIDE DEF weight, product
<1>6. Total(product) = product[1] + product[2] + product[3] + product[4] + product[5]
  BY <1>4, TotalOfFive
<1>7. Total(weight) = weight[1] + weight[2] + weight[3] + weight[4] + weight[5]
  BY <1>3, TotalOfFive
<1>8. Passes(k, scores) <=> Total(product) >= OverallThreshold * Total(weight)
  BY <1>1, <1>5, Verdict
<1>9. Passes(k, scores) <=> product[1] + product[2] + product[3] + product[4] + product[5]
                               >= OverallThreshold * (weight[1] + weight[2] + weight[3] + weight[4] + weight[5])
  BY <1>6, <1>7, <1>8
<1>10. /\ Weighed(product[1], weight[1], Margin(k, scores[1]))
       /\ Weighed(product[2], weight[2], Margin(k, scores[2]))
       /\ Weighed(product[3], weight[3], Margin(k, scores[3]))
       /\ Weighed(product[4], weight[4], Margin(k, scores[4]))
       /\ Weighed(product[5], weight[5], Margin(k, scores[5]))
  BY <1>4
<1>11. product[1] + product[2] + product[3] + product[4] + product[5]
         >= OverallThreshold * (weight[1] + weight[2] + weight[3] + weight[4] + weight[5])
       <=> Margin(k, scores[1]) + Margin(k, scores[2]) + Margin(k, scores[3])
             + Margin(k, scores[4]) + Margin(k, scores[5]) >= 0
  BY <1>10, MarginsAddUp
<1> QED
  BY <1>4, <1>9, <1>11

\* A score that is not named to the specialist has reached its threshold.
Honest(k, s) == (~s.passed /\ s.feedback) \/ s.score >= ItemOf(k, s.id).threshold

\* Five numbers that are at least five others have no smaller sum.
LEMMA SumsInOrder ==
    ASSUME NEW a1 \in Int, NEW a2 \in Int, NEW a3 \in Int, NEW a4 \in Int, NEW a5 \in Int,
           NEW b1 \in Int, NEW b2 \in Int, NEW b3 \in Int, NEW b4 \in Int, NEW b5 \in Int,
           b1 >= a1, b2 >= a2, b3 >= a3, b4 >= a4, b5 >= a5,
           a1 + a2 + a3 + a4 + a5 >= 0
    PROVE  b1 + b2 + b3 + b4 + b5 >= 0
  OBVIOUS

\* A mean below the threshold has an item that is named.
LEMMA FailureNamed ==
    ASSUME NEW k \in Kinds, NEW scores \in Seq(Judged(k)), Len(scores) = 5,
           \A i \in 1 .. 5 : scores[i].id = Rubric(k)[i].id /\ Honest(k, scores[i]),
           ~Passes(k, scores)
    PROVE  FeedbackItems(scores) # {}
<1> SUFFICES ASSUME FeedbackItems(scores) = {} PROVE Passes(k, scores)
  OBVIOUS
<1> DEFINE t(i) == (Rubric(k)[i].threshold - OverallThreshold) * Rubric(k)[i].weight
<1>0. DOMAIN scores = 1 .. Len(scores) /\ \A i \in 1 .. Len(scores) : scores[i] \in Judged(k)
  BY Entries
<1>1. DOMAIN scores = 1 .. 5 /\ \A i \in 1 .. 5 : scores[i] \in Judged(k)
  BY <1>0
<1>2. ASSUME NEW i \in 1 .. 5
      PROVE  Margin(k, scores[i]) \in Int /\ t(i) \in Int /\ Margin(k, scores[i]) >= t(i)
  <2> DEFINE x == scores[i].score
             y == Rubric(k)[i].threshold
             w == Rubric(k)[i].weight
  <2>1. ItemOf(k, scores[i].id) = Rubric(k)[i]
    BY ItemFound
  <2>2. ~(~scores[i].passed /\ scores[i].feedback)
    BY <1>1 DEF FeedbackItems
  <2>3. x >= y
    BY <2>1, <2>2 DEF Honest
  <2>4. x \in Int /\ y \in Int /\ w \in Nat
    <3>1. x \in Int
      BY <1>1 DEF Judged
    <3>2. y \in Nat /\ w \in Nat \ {0}
      BY RubricShape
    <3> QED
      BY <3>1, <3>2
  <2>5. Margin(k, scores[i]) = (x - OverallThreshold) * w
    BY <2>1 DEF Margin, WeightOf
  <2>6. t(i) = (y - OverallThreshold) * w
    OBVIOUS
  <2> HIDE DEF x, y, w, t
  <2>7. (x - y) * w >= 0
    BY <2>3, <2>4
  <2>8. (x - y) * w = (x - OverallThreshold) * w - (y - OverallThreshold) * w
    BY <2>4 DEF OverallThreshold, Pct
  <2> QED
    BY <2>4, <2>5, <2>6, <2>7, <2>8 DEF OverallThreshold, Pct
<1>3. t(1) + t(2) + t(3) + t(4) + t(5) >= 0
  BY RubricShape DEF ThresholdsSuffice
<1> DEFINE m(i) == Margin(k, scores[i])
<1>4. /\ t(1) \in Int /\ t(2) \in Int /\ t(3) \in Int /\ t(4) \in Int /\ t(5) \in Int
      /\ m(1) \in Int /\ m(2) \in Int /\ m(3) \in Int /\ m(4) \in Int /\ m(5) \in Int
      /\ m(1) >= t(1) /\ m(2) >= t(2) /\ m(3) >= t(3) /\ m(4) >= t(4) /\ m(5) >= t(5)
  <2> HIDE DEF t
  <2> QED
    BY <1>2
<1>5. Passes(k, scores) <=> m(1) + m(2) + m(3) + m(4) + m(5) >= 0
  BY VerdictOfFive
<1> HIDE DEF t, m
<1>6. m(1) + m(2) + m(3) + m(4) + m(5) >= 0
  BY <1>3, <1>4, SumsInOrder
<1> QED
  BY <1>5, <1>6

----------------------------------------------------------------------------
(* Scores by the rules, deterministic checks *)

LEMMA RatioType ==
    ASSUME NEW n \in Nat, NEW d \in Nat \ {0}
    PROVE  Ratio(n, d) \in Int
<1>1. n * FULL \in Int
  BY DEF FULL
<1>2. (n * FULL) \div d \in Int
  BY <1>1
<1> QED
  BY <1>2 DEF Ratio, FULL

\* The heuristics score every item of the rubric.
LEMMA HeuristicType ==
    ASSUME NEW k \in Kinds, NEW o \in Outputs[k]
    PROVE  \A id \in ItemIds(k) : Heuristic(k, o)[id] \in Int
<1>0. o \in [Features[k] -> Nat]
  BY EvaluationAssumption
<1>1. ItemIds(k) = {Rubric(k)[1].id, Rubric(k)[2].id, Rubric(k)[3].id, Rubric(k)[4].id, Rubric(k)[5].id}
  BY ItemFound
<1>2. CASE k = "design"
  <2>1. o \in [Features.design -> Nat]
    BY <1>0, <1>2 DEF Features
  <2>2. o["checks"] \in Nat /\ o["actions"] \in Nat
    BY <2>1 DEF Features
  <2>3. Ratio(o["checks"], 12) \in Int /\ Ratio(o["actions"], 5) \in Int
    BY <2>2, RatioType
  <2>4. ItemIds(k) = {"completeness", "accuracy", "actionability", "severity_calibration", "evidence_quality"}
    BY <1>1, <1>2 DEF Rubric, DesignRubric, Item
  <2>5. Heuristic(k, o) = DesignHeuristic(o)
    BY <1>2 DEF Heuristic
  <2> QED
    BY <2>3, <2>4, <2>5 DEF DesignHeuristic, Has, If, Pct
<1>3. CASE k = "code_review"
  <2>1. o \in [Features.code_review -> Nat]
    BY <1>0, <1>3 DEF Features
  <2>2. o["files"] \in Nat /\ o["line_refs"] \in Nat /\ o["security"] \in Nat /\ o["fixes"] \in Nat
    BY <2>1 DEF Features
  <2>3. /\ Ratio(o["files"], 3) \in Int /\ Ratio(o["line_refs"], 3) \in Int
        /\ Ratio(o["security"], 3) \in Int /\ Ratio(o["fixes"], 3) \in Int
    BY <2>2, RatioType
  <2>4. ItemIds(k) = {"coverage", "accuracy", "security_depth", "fix_quality", "prioritization"}
    BY <1>1, <1>3 DEF Rubric, CodeReviewRubric, Item
  <2>5. Heuristic(k, o) = CodeReviewHeuristic(o)
    BY <1>3 DEF Heuristic
  <2> QED
    BY <2>3, <2>4, <2>5 DEF CodeReviewHeuristic, Has, If, Pct
<1>4. CASE k = "scaffold"
  <2>1. o \in [Features.scaffold -> Nat]
    BY <1>0, <1>4 DEF Features
  <2>2. o["expected_files"] \in Nat
    BY <2>1 DEF Features
  <2>3. Ratio(o["expected_files"], 7) \in Int
    BY <2>2, RatioType
  <2>4. ItemIds(k) = {"runnable", "tests_pass", "readiness", "completeness", "best_practices"}
    BY <1>1, <1>4 DEF Rubric, ScaffoldRubric, Item
  <2>5. Heuristic(k, o) = ScaffoldHeuristic(o)
    BY <1>4 DEF Heuristic
  <2> QED
    BY <2>3, <2>4, <2>5 DEF ScaffoldHeuristic, Has, If, Pct
<1>5. CASE k = "deployment"
  <2>1. o \in [Features.deployment -> Nat]
    BY <1>0, <1>5 DEF Features
  <2>2. o["artifacts"] \in Nat
    BY <2>1 DEF Features
  <2>3. Ratio(o["artifacts"], 6) \in Int
    BY <2>2, RatioType
  <2>4. ItemIds(k) = {"iam_least_privilege", "dockerfile_quality", "config_completeness", "env_safety",
                      "cdk_correctness"}
    BY <1>1, <1>5 DEF Rubric, DeployRubric, Item
  <2>5. Heuristic(k, o) = DeployHeuristic(o)
    BY <1>5 DEF Heuristic
  <2> QED
    BY <2>3, <2>4, <2>5 DEF DeployHeuristic, Has, If, Pct
<1> QED
  BY <1>2, <1>3, <1>4, <1>5 DEF Kinds

\* Without an evaluating model every item of the rubric has one score, in
\* order, and a score below its threshold says what is wrong.
LEMMA JudgedByRules ==
    ASSUME NEW k \in Kinds, NEW o \in Outputs[k]
    PROVE  /\ HeuristicScores(k, o) \in Seq(Judged(k)) /\ Len(HeuristicScores(k, o)) = 5
           /\ \A i \in 1 .. 5 : /\ HeuristicScores(k, o)[i].id = Rubric(k)[i].id
                                /\ Honest(k, HeuristicScores(k, o)[i])
<1> DEFINE s(i) == Heuristic(k, o)[Rubric(k)[i].id]
           t(i) == Rubric(k)[i].threshold
           judge(i) == ItemScore(Rubric(k)[i].id, s(i), s(i) >= t(i), s(i) < t(i))
           scores == HeuristicScores(k, o)
<1>1. scores = [i \in 1 .. 5 |-> judge(i)]
  BY RubricShape DEF HeuristicScores
<1>2. ASSUME NEW i \in 1 .. 5
      PROVE  judge(i) \in Judged(k) /\ judge(i).id = Rubric(k)[i].id /\ Honest(k, judge(i))
  <2>1. Rubric(k)[i].id \in ItemIds(k) /\ ItemOf(k, Rubric(k)[i].id) = Rubric(k)[i]
    BY ItemFound
  <2>2. s(i) \in Int
    BY <2>1, HeuristicType
  <2>3. t(i) \in Nat
    BY RubricShape
  <2>4. judge(i).id = Rubric(k)[i].id /\ judge(i).score = s(i)
        /\ judge(i).passed = (s(i) >= t(i)) /\ judge(i).feedback = (s(i) < t(i))
    BY DEF ItemScore
  <2>5. (s(i) >= t(i)) \in BOOLEAN /\ (s(i) < t(i)) \in BOOLEAN /\ (s(i) < t(i) <=> ~(s(i) >= t(i)))
    BY <2>2, <2>3
  <2>6. Honest(k, judge(i))
    BY <2>1, <2>4, <2>5 DEF Honest
  <2>7. judge(i) \in Judged(k)
    BY <2>1, <2>2, <2>5 DEF Judged, ItemScore
  <2> QED
    BY <2>4, <2>6, <2>7
<1> HIDE DEF judge, scores
<1>3. scores \in Seq(Judged(k)) /\ Len(scores) = 5 /\ \A i \in 1 .. 5 : scores[i] = judge(i)
  BY <1>1, <1>2
<1>4. \A i \in 1 .. 5 : scores[i].id = Rubric(k)[i].id /\ Honest(k, scores[i])
  BY <1>2, <1>3
<1> QED
  BY <1>3, <1>4 DEF scores

\* What deterministic checks give: scores of some items.
Checks(k) == UNION {[D -> Judged(k)] : D \in SUBSET ItemIds(k)}

\* What a deterministic check gives: at most one score, under its item's id.
Checked(k, det) ==
    /\ DOMAIN det = {} \/ \E id \in ItemIds(k) : DOMAIN det = {id}
    /\ det \in [DOMAIN det -> Judged(k)]
    /\ \A id \in DOMAIN det : det[id].id = id /\ Honest(k, det[id])

LEMMA CheckedType ==
    ASSUME NEW k, NEW det, Checked(k, det)
    PROVE  det \in Checks(k)
<1>1. DOMAIN det \in SUBSET ItemIds(k)
  BY DEF Checked
<1> QED
  BY <1>1 DEF Checked, Checks

LEMMA CheckedScores ==
    ASSUME NEW k \in Kinds, NEW o, NEW tool \in BOOLEAN
    PROVE  Checked(k, DeterministicChecks(k, o, tool))
<1>0. Checked(k, NoChecks)
  BY DEF Checked, NoChecks
<1>1. CASE k = "code_review"
  <2>1. Rubric(k)[2] = Item("accuracy", 4, 80)
    BY <1>1 DEF Rubric, CodeReviewRubric
  <2>2. "accuracy" \in ItemIds(k) /\ ItemOf(k, "accuracy").threshold = Pct(80)
    BY <2>1, ItemFound DEF Item
  <2>3. ASSUME NEW s \in {Pct(90), Pct(60)}
        PROVE  Checked(k, [accuracy |-> ItemScore("accuracy", s, s >= Pct(80), s < Pct(80))])
    <3> DEFINE it == ItemScore("accuracy", s, s >= Pct(80), s < Pct(80))
    <3>1. /\ s \in Int /\ (s >= Pct(80)) \in BOOLEAN /\ (s < Pct(80)) \in BOOLEAN
          /\ s >= Pct(80) <=> ~(s < Pct(80))
      BY DEF Pct
    <3>2. it.id = "accuracy" /\ it.score = s /\ it.passed = (s >= Pct(80)) /\ it.feedback = (s < Pct(80))
      BY DEF ItemScore
    <3>3. it \in Judged(k)
      BY <2>2, <3>1 DEF ItemScore, Judged
    <3>4. Honest(k, it)
      BY <2>2, <3>1, <3>2 DEF Honest
    <3> HIDE DEF it
    <3>5. Checked(k, [accuracy |-> it])
      BY <2>2, <3>2, <3>3, <3>4 DEF Checked
    <3> QED
      BY <3>5 DEF it
  <2>4. DeterministicChecks(k, o, tool) = ReviewChecks(o, tool)
    BY <1>1 DEF DeterministicChecks
  <2> QED
    BY <1>0, <2>3, <2>4 DEF ReviewChecks
<1>2. CASE k = "scaffold"
  <2>1. Rubric(k)[1] = Item("runnable", 4, 80)
    BY <1>2 DEF Rubric, ScaffoldRubric
  <2>2. "runnable" \in ItemIds(k)
    BY <2>1, ItemFound DEF Item
  <2> DEFINE it == ItemScore("runnable", Pct(70), FALSE, TRUE)
  <2>3. it \in Judged(k) /\ it.id = "runnable" /\ Honest(k, it)
    BY <2>2 DEF ItemScore, Judged, Honest, Pct
  <2> HIDE DEF it
  <2>4. Checked(k, [runnable |-> it])
    BY <2>2, <2>3 DEF Checked
  <2>5. DeterministicChecks(k, o, tool) = ScaffoldChecks(o, tool)
    BY <1>2 DEF DeterministicChecks
  <2>6. ScaffoldChecks(o, tool) \in {[runnable |-> it], NoChecks}
    BY DEF ScaffoldChecks, it
  <2> QED
    BY <1>0, <2>4, <2>5, <2>6
<1>3. CASE k = "deployment"
  <2>1. Rubric(k)[1] = Item("iam_least_privilege", 4, 80)
    BY <1>3 DEF Rubric, DeployRubric
  <2>2. "iam_least_privilege" \in ItemIds(k)
    BY <2>1, ItemFound DEF Item
  <2>3. ASSUME NEW s \in {Pct(20), Pct(70)}
        PROVE  Checked(k, [iam_least_privilege |-> ItemScore("iam_least_privilege", s, FALSE, TRUE)])
    <3> DEFINE it == ItemScore("iam_least_privilege", s, FALSE, TRUE)
    <3>1. it \in Judged(k) /\ it.id = "iam_least_privilege" /\ Honest(k, it)
      BY <2>2 DEF ItemScore, Judged, Honest, Pct
    <3> HIDE DEF it
    <3>2. Checked(k, [iam_least_privilege |-> it])
      BY <2>2, <3>1 DEF Checked
    <3> QED
      BY <3>2 DEF it
  <2>4. DeterministicChecks(k, o, tool) = DeployChecks(o)
    BY <1>3 DEF DeterministicChecks
  <2> QED
    BY <1>0, <2>3, <2>4 DEF DeployChecks
<1>4. CASE k = "design"
  <2>1. DeterministicChecks(k, o, tool) = NoChecks
    BY <1>4 DEF DeterministicChecks
  <2> QED
    BY <1>0, <2>1
<1> QED
  BY <1>1, <1>2, <1>3, <1>4 DEF Kinds

\* A sequence of at most one element.
LEMMA SmallSeq ==
    ASSUME NEW x
    PROVE  SetToSeq({}) = <<>> /\ SetToSeq({x}) = <<x>>
<1>1. Cardinality({}) = 0 /\ Cardinality({x}) = 1
  BY FS_EmptySet, FS_Singleton
<1>2. SetToSeq({}) = <<>>
  <2>1. <<>> \in [1 .. 0 -> {}] /\ IsInjective(<<>>) /\ \A f \in [1 .. 0 -> {}] : f = <<>>
    BY DEF IsInjective
  <2> QED
    BY <1>1, <2>1 DEF SetToSeq
<1>3. SetToSeq({x}) = <<x>>
  <2>1. <<x>> \in [1 .. 1 -> {x}] /\ IsInjective(<<x>>) /\ \A f \in [1 .. 1 -> {x}] : f = <<x>>
    BY DEF IsInjective
  <2> QED
    BY <1>1, <2>1 DEF SetToSeq
<1> QED
  BY <1>2, <1>3

\* Merging keeps the scores where they are, replaces those that a check gives,
\* and adds a check's score that has no place yet.
LEMMA Merging ==
    ASSUME NEW k \in Kinds, NEW scores \in Seq(Judged(k)), NEW det, Checked(k, det)
    PROVE  LET m == Merge(scores, det)
               n == Len(scores)
           IN  /\ m \in Seq(Judged(k)) /\ Len(m) >= n
               /\ \A i \in 1 .. n : m[i] = IF scores[i].id \in DOMAIN det THEN det[scores[i].id] ELSE scores[i]
               /\ \A i \in 1 .. Len(m) : i > n => \E id \in DOMAIN det : m[i] = det[id]
               /\ \A id \in DOMAIN det : \E i \in 1 .. Len(m) : m[i].id = id
               /\ (\A id \in DOMAIN det : \E i \in 1 .. n : scores[i].id = id) => Len(m) = n
<1> DEFINE n == Len(scores)
           m == Merge(scores, det)
           ids == {scores[i].id : i \in DOMAIN scores}
           best(s) == IF s.id \in DOMAIN det THEN det[s.id] ELSE s
           kept == [i \in DOMAIN scores |-> best(scores[i])]
           added == SetToSeq({det[id] : id \in DOMAIN det \ ids})
<1>1. n \in Nat /\ DOMAIN scores = 1 .. n /\ \A i \in 1 .. n : scores[i] \in Judged(k)
  BY Entries
<1>2. m = kept \o added
  BY DEF Merge
<1>3. \A id \in DOMAIN det : det[id] \in Judged(k) /\ det[id].id = id
  BY DEF Checked
<1>4. kept \in Seq(Judged(k)) /\ Len(kept) = n /\ \A i \in 1 .. n : kept[i] = best(scores[i])
  <2>1. \A i \in 1 .. n : best(scores[i]) \in Judged(k)
    BY <1>1, <1>3
  <2> HIDE DEF best, n
  <2> QED
    BY <1>1, <2>1
<1>5. CASE DOMAIN det \subseteq ids
  <2>1. {det[id] : id \in DOMAIN det \ ids} = {}
    BY <1>5
  <2>2. added = <<>>
    BY <2>1, SmallSeq
  <2> HIDE DEF m, kept, added, n
  <2>3. m = kept
    BY <1>2, <1>4, <2>2
  <2>4. ASSUME NEW id \in DOMAIN det PROVE \E i \in 1 .. Len(m) : m[i].id = id
    <3>1. PICK i \in 1 .. n : scores[i].id = id
      BY <1>1, <1>5
    <3>2. kept[i].id = id
      BY <1>3, <1>4, <3>1
    <3> QED
      BY <1>4, <2>3, <3>2
  <2>5. Len(m) = n
    BY <1>4, <2>3
  <2> HIDE DEF best
  <2>6. \A i \in 1 .. Len(m) : ~(i > n)
    BY <1>1, <2>5
  <2> QED
    BY <1>1, <1>4, <2>3, <2>4, <2>5, <2>6 DEF m, n, best
<1>6. CASE ~(DOMAIN det \subseteq ids)
  <2>1. PICK id : DOMAIN det = {id} /\ id \notin ids
    BY <1>6 DEF Checked
  <2>2. {det[i] : i \in DOMAIN det \ ids} = {det[id]}
    BY <2>1
  <2>3. added = <<det[id]>>
    BY <2>2, SmallSeq
  <2>4. det[id] \in Judged(k) /\ det[id].id = id
    BY <1>3, <2>1
  <2>5. ~\A i \in DOMAIN det : \E j \in 1 .. n : scores[j].id = i
    BY <1>1, <1>6
  <2> HIDE DEF m, kept, added, n, best
  <2>6. /\ m \in Seq(Judged(k)) /\ Len(m) = n + 1 /\ m[n + 1] = det[id]
        /\ \A i \in 1 .. n : m[i] = best(scores[i])
    BY <1>1, <1>2, <1>4, <2>3, <2>4
  <2>7. \A i \in 1 .. Len(m) : i > n => i = n + 1
    BY <1>1, <2>6
  <2>8. n + 1 \in 1 .. Len(m) /\ Len(m) >= n
    BY <1>1, <2>6
  <2>9. \A i \in 1 .. Len(m) : i > n => \E id2 \in DOMAIN det : m[i] = det[id2]
    BY <2>1, <2>6, <2>7
  <2>10. \A id2 \in DOMAIN det : \E i \in 1 .. Len(m) : m[i].id = id2
    BY <2>1, <2>4, <2>6, <2>8
  <2> QED
    BY <2>5, <2>6, <2>8, <2>9, <2>10 DEF m, n, best
<1> QED
  BY <1>5, <1>6

----------------------------------------------------------------------------
(* Scores by an evaluating model *)

\* The sections that are about an item.
Titled(k) == [title : ItemIds(k), score : Int \cup {NoScore, BadNumber}, feedback : BOOLEAN]

\* A reply without a bad number gives every item of the rubric a score.
LEMMA Parsing ==
    ASSUME NEW k \in Kinds, NEW reply \in Replies[k], NEW guess,
           ~\E i \in DOMAIN Matched(k, reply, guess) : Matched(k, reply, guess)[i].score = BadNumber
    PROVE  LET scores == ParseReply(k, Matched(k, reply, guess))
           IN  /\ scores \in Seq(Judged(k))
               /\ \A id \in ItemIds(k) : \E i \in DOMAIN scores : scores[i].id = id
<1> DEFINE matched == Matched(k, reply, guess)
           titled == [i \in DOMAIN reply |-> [reply[i] EXCEPT !.title = MatchedId(k, reply[i].title, guess)]]
           Judge(s) == ItemScore(s.title, Clamp(s.score), Clamp(s.score) >= ItemOf(k, s.title).threshold, s.feedback)
           scored == {matched[i].title : i \in DOMAIN matched}
           missing == {item \in ToSet(Rubric(k)) : item.id \notin scored}
           silent == Among(Rubric(k), missing)
           given == [i \in DOMAIN matched |-> Judge(matched[i])]
           zero(item) == ItemScore(item.id, 0, FALSE, TRUE)
           zeros == [i \in DOMAIN silent |-> zero(silent[i])]
           items == {Rubric(k)[i] : i \in 1 .. 5}
<1>1. matched \in Seq(Titled(k))
  <2> DEFINE T == {titled[i] : i \in DOMAIN reply}
             R == Titled(k)
  <2>0. DOMAIN reply = 1 .. Len(reply) /\ Len(reply) \in Nat
    BY EvaluationAssumption, Entries
  <2>1. titled \in Seq(T)
    <3> DEFINE f(i) == [reply[i] EXCEPT !.title = MatchedId(k, reply[i].title, guess)]
    <3> HIDE DEF f
    <3>1. titled = [i \in 1 .. Len(reply) |-> f(i)] /\ T = {f(i) : i \in 1 .. Len(reply)}
      BY <2>0 DEF f
    <3> HIDE DEF titled, T
    <3> QED
      BY <2>0, <3>1
  <2>2. matched = Among(titled, R)
    BY DEF Matched, Titled
  <2> HIDE DEF titled, T, R, matched
  <2>3. matched \in Seq({e \in T : e \in R})
    BY <2>1, <2>2, AmongEntries
  <2>4. \A q : q \in Seq({e \in T : e \in R}) => q \in Seq(R)
    OBVIOUS
  <2> QED
    BY <2>3, <2>4 DEF R
<1>2. /\ Len(matched) \in Nat /\ DOMAIN matched = 1 .. Len(matched)
      /\ \A i \in 1 .. Len(matched) : matched[i] \in Titled(k)
  <2> HIDE DEF matched
  <2> QED
    BY <1>1, Entries
<1>3. ASSUME NEW i \in 1 .. Len(matched)
      PROVE  Judge(matched[i]) \in Judged(k) /\ Judge(matched[i]).id = matched[i].title
  <2> DEFINE s == matched[i]
  <2>1. s \in Titled(k) /\ s.score # BadNumber
    BY <1>2
  <2> HIDE DEF s
  <2>2. s.title \in ItemIds(k) /\ s.feedback \in BOOLEAN /\ (s.score \in Int \/ s.score = NoScore)
    BY <2>1 DEF Titled
  <2>3. Clamp(s.score) \in Int
    BY <2>2 DEF Clamp, FULL
  <2>4. ItemOf(k, s.title).threshold \in Nat
    BY <2>2, ItemFound
  <2>5. (Clamp(s.score) >= ItemOf(k, s.title).threshold) \in BOOLEAN
    OBVIOUS
  <2>6. Judge(s) \in Judged(k) /\ Judge(s).id = s.title
    BY <2>2, <2>3, <2>5 DEF ItemScore, Judged
  <2> QED
    BY <2>6 DEF s
<1>4. /\ given \in Seq(Judged(k)) /\ Len(given) = Len(matched)
      /\ \A i \in 1 .. Len(matched) : given[i].id = matched[i].title
  <2> HIDE DEF Judge, matched
  <2> QED
    BY <1>2, <1>3
<1>5. Rubric(k) \in Seq(items) /\ DOMAIN Rubric(k) = 1 .. 5 /\ \A item \in items : item.id \in ItemIds(k)
  BY RubricShape, ItemFound, SMTT(30)
<1>6. /\ silent \in Seq({e \in items : e \in missing})
      /\ \A n \in DOMAIN Rubric(k) : Rubric(k)[n] \in missing => \E i \in DOMAIN silent : silent[i] = Rubric(k)[n]
  <2> DEFINE r == Rubric(k)
  <2>1. r \in Seq(items) /\ silent = Among(r, missing)
    BY <1>5
  <2> HIDE DEF items, missing, silent, r
  <2>2. /\ silent \in Seq({e \in items : e \in missing})
        /\ \A n \in DOMAIN r : r[n] \in missing => \E i \in DOMAIN silent : silent[i] = r[n]
    BY <2>1, AmongEntries
  <2> QED
    BY <2>2 DEF r
<1>7. /\ Len(silent) \in Nat /\ DOMAIN silent = 1 .. Len(silent)
      /\ \A i \in 1 .. Len(silent) : silent[i] \in items
  <2> HIDE DEF items, missing, silent
  <2> QED
    BY <1>6, Entries
<1>8. /\ zeros \in Seq(Judged(k)) /\ Len(zeros) = Len(silent)
      /\ \A i \in 1 .. Len(silent) : zeros[i].id = silent[i].id
  <2>1. ASSUME NEW item \in items PROVE zero(item) \in Judged(k) /\ zero(item).id = item.id
    <3>1. item.id \in ItemIds(k)
      BY <1>5, SMTT(30)
    <3> QED
      BY <3>1, SMTT(30) DEF ItemScore, Judged
  <2> HIDE DEF zero, silent, items
  <2> QED
    BY <1>7, <2>1
<1>9. ParseReply(k, matched) = given \o zeros
  BY SMTT(30) DEF ParseReply
<1>10. ASSUME NEW id \in ItemIds(k) PROVE \E i \in DOMAIN (given \o zeros) : (given \o zeros)[i].id = id
  <2>1. CASE id \in scored
    <3>1. PICK i \in 1 .. Len(matched) : matched[i].title = id
      BY <1>2, <2>1
    <3> HIDE DEF given, zeros, matched
    <3>2. i \in DOMAIN (given \o zeros) /\ (given \o zeros)[i] = given[i]
      BY <1>2, <1>4, <1>8
    <3> QED
      BY <1>4, <3>1, <3>2
  <2>2. CASE id \notin scored
    <3>1. PICK n \in 1 .. 5 : Rubric(k)[n].id = id
      BY ItemFound
    <3>2. Rubric(k)[n] \in missing
      BY <1>5, <2>2, <3>1 DEF ToSet
    <3> HIDE DEF given, zeros, matched, silent, missing
    <3>3. PICK i \in 1 .. Len(silent) : silent[i] = Rubric(k)[n]
      BY <1>5, <1>6, <1>7, <3>2
    <3>4. zeros[i].id = id
      BY <1>8, <3>1, <3>3
    <3>5. Len(given) + i \in DOMAIN (given \o zeros) /\ (given \o zeros)[Len(given) + i] = zeros[i]
      BY <1>4, <1>7, <1>8, <1>2
    <3> QED
      BY <3>4, <3>5
  <2> QED
    BY <2>1, <2>2
<1> HIDE DEF given, zeros
<1>11. given \o zeros \in Seq(Judged(k))
  BY <1>4, <1>8
<1> QED
  BY <1>9, <1>10, <1>11

----------------------------------------------------------------------------
(* One evaluation *)

\* What is stored of an evaluation: a score for every item of the rubric, and
\* what was checked stands.
Evaluated(k, scores, det) ==
    /\ scores \in Seq(Judged(k)) /\ scores # <<>>
    /\ \A id \in ItemIds(k) : \E i \in DOMAIN scores : scores[i].id = id
    /\ \A id \in DOMAIN det :
          /\ \E i \in DOMAIN scores : scores[i].id = id
          /\ \A i \in DOMAIN scores : scores[i].id = id => scores[i] = det[id]

LEMMA Complete ==
    ASSUME NEW k \in Kinds, NEW scores \in Seq(Judged(k)), NEW det, Checked(k, det),
           \A id \in ItemIds(k) : \E i \in DOMAIN scores : scores[i].id = id
    PROVE  Evaluated(k, Merge(scores, det), det)
<1> DEFINE m == Merge(scores, det)
           n == Len(scores)
<1>1. /\ m \in Seq(Judged(k)) /\ Len(m) >= n
      /\ \A i \in 1 .. n : m[i] = IF scores[i].id \in DOMAIN det THEN det[scores[i].id] ELSE scores[i]
      /\ \A i \in 1 .. Len(m) : i > n => \E id \in DOMAIN det : m[i] = det[id]
      /\ \A id \in DOMAIN det : \E i \in 1 .. Len(m) : m[i].id = id
  BY Merging
<1>2. n \in Nat /\ DOMAIN scores = 1 .. n
  BY Entries
<1> HIDE DEF m, n
<1>3. Len(m) \in Nat /\ DOMAIN m = 1 .. Len(m)
  BY <1>1, Entries
<1>4. \A id \in DOMAIN det : det[id].id = id
  BY DEF Checked
<1>5. \A id \in ItemIds(k) : \E i \in DOMAIN m : m[i].id = id
  <2> SUFFICES ASSUME NEW id \in ItemIds(k) PROVE \E i \in DOMAIN m : m[i].id = id
    OBVIOUS
  <2>1. PICK i \in 1 .. n : scores[i].id = id
    BY <1>2
  <2>2. m[i].id = id
    BY <1>1, <1>4, <2>1
  <2>3. i \in DOMAIN m
    BY <1>1, <1>2, <1>3
  <2> QED
    BY <2>2, <2>3
<1>6. m # <<>>
  <2>1. Rubric(k)[1].id \in ItemIds(k)
    BY ItemFound
  <2>2. PICK i \in DOMAIN m : m[i].id = Rubric(k)[1].id
    BY <1>5, <2>1
  <2> QED
    BY <2>2
<1>7. ASSUME NEW id \in DOMAIN det, NEW i \in DOMAIN m, m[i].id = id
      PROVE  m[i] = det[id]
  <2>1. CASE i > n
    BY <1>1, <1>3, <1>4, <1>7, <2>1
  <2>2. CASE ~(i > n)
    <3>1. i \in 1 .. n
      BY <1>2, <1>3, <2>2
    <3> QED
      BY <1>1, <1>4, <1>7, <3>1
  <2> QED
    BY <2>1, <2>2
<1>8. Evaluated(k, m, det)
  BY <1>1, <1>3, <1>5, <1>6, <1>7 DEF Evaluated
<1> QED
  BY <1>8 DEF m

\* By the rules, an output that fails has an item that is named.
LEMMA EvaluatedByRules ==
    ASSUME NEW k \in Kinds, NEW o \in Outputs[k], NEW det, Checked(k, det)
    PROVE  LET scores == Merge(HeuristicScores(k, o), det)
           IN  Evaluated(k, scores, det) /\ (~Passes(k, scores) => FeedbackItems(scores) # {})
<1> DEFINE scores == HeuristicScores(k, o)
           m == Merge(scores, det)
<1>1. /\ scores \in Seq(Judged(k)) /\ Len(scores) = 5
      /\ \A i \in 1 .. 5 : scores[i].id = Rubric(k)[i].id /\ Honest(k, scores[i])
  BY JudgedByRules
<1> HIDE DEF scores
<1>2. DOMAIN scores = 1 .. 5
  BY <1>1, Entries
<1>3. \A id \in ItemIds(k) : \E i \in 1 .. 5 : scores[i].id = id
  BY <1>1, ItemFound
<1>4. Evaluated(k, m, det)
  BY <1>1, <1>2, <1>3, Complete
<1>5. \A id \in DOMAIN det : \E i \in 1 .. Len(scores) : scores[i].id = id
  <2>1. DOMAIN det \subseteq ItemIds(k)
    BY DEF Checked
  <2> QED
    BY <1>1, <1>3, <2>1
<1>6. /\ m \in Seq(Judged(k)) /\ Len(m) = Len(scores)
      /\ \A i \in 1 .. Len(scores) : m[i] = IF scores[i].id \in DOMAIN det THEN det[scores[i].id] ELSE scores[i]
  <2>0. scores \in Seq(Judged(k))
    BY <1>1
  <2>1. m \in Seq(Judged(k))
    BY <2>0, Merging
  <2>2. Len(m) = Len(scores)
    BY <2>0, <1>5, Merging
  <2>3. \A i \in 1 .. Len(scores) : m[i] = IF scores[i].id \in DOMAIN det THEN det[scores[i].id] ELSE scores[i]
    BY <2>0, Merging
  <2> QED
    BY <2>1, <2>2, <2>3
<1> HIDE DEF m
<1>7. \A i \in 1 .. 5 : m[i].id = Rubric(k)[i].id /\ Honest(k, m[i])
  <2>1. \A id \in DOMAIN det : det[id].id = id /\ Honest(k, det[id])
    BY DEF Checked
  <2>2. \A i \in 1 .. 5 : m[i] = IF scores[i].id \in DOMAIN det THEN det[scores[i].id] ELSE scores[i]
    BY <1>1, <1>6
  <2> QED
    BY <1>1, <2>1, <2>2
<1>8. ~Passes(k, m) => FeedbackItems(m) # {}
  BY <1>1, <1>6, <1>7, FailureNamed
<1> QED
  BY <1>4, <1>8 DEF m, scores

\* The order of five numbers does not change their sum.
LEMMA Permuted ==
    ASSUME NEW q \in [1 .. 5 -> 1 .. 5], \A i, j \in 1 .. 5 : q[i] = q[j] => i = j,
           NEW x \in [1 .. 5 -> Int]
    PROVE  x[q[1]] + x[q[2]] + x[q[3]] + x[q[4]] + x[q[5]] = x[1] + x[2] + x[3] + x[4] + x[5]
<1> DEFINE a == q[1]
           b == q[2]
           c == q[3]
           d == q[4]
           e == q[5]
<1>1. /\ a \in 1 .. 5 /\ b \in 1 .. 5 /\ c \in 1 .. 5 /\ d \in 1 .. 5 /\ e \in 1 .. 5
      /\ a # b /\ a # c /\ a # d /\ a # e /\ b # c /\ b # d /\ b # e /\ c # d /\ c # e /\ d # e
  OBVIOUS
<1>2. x[1] \in Int /\ x[2] \in Int /\ x[3] \in Int /\ x[4] \in Int /\ x[5] \in Int
  OBVIOUS
<1> HIDE DEF a, b, c, d, e
<1>3. x[a] + x[b] + x[c] + x[d] + x[e] = x[1] + x[2] + x[3] + x[4] + x[5]
  BY <1>1, <1>2, SMTT(60)
<1> QED
  BY <1>3 DEF a, b, c, d, e

\* The overall score is a mean over the whole rubric, if no item counts twice.
LEMMA MeanOverRubric ==
    ASSUME kind \in Kinds, NEW it, Evaluated(kind, it.scores, it.det),
           Cardinality({it.scores[j].id : j \in DOMAIN it.scores}) = Len(it.scores)
    PROVE  Passes(kind, it.scores) <=> RubricSum(it) >= 0
<1> DEFINE scores == it.scores
           n == Len(scores)
           ids == {scores[j].id : j \in DOMAIN scores}
           R == Rubric(kind)
           Of(id) == LET js == {j \in DOMAIN scores : scores[j].id = id}
                     IN  IF js = {} THEN 0 ELSE scores[CHOOSE j \in js : TRUE].score
           x == [i \in DOMAIN R |-> (Of(R[i].id) - OverallThreshold) * R[i].weight]
<1>0. RubricSum(it) = Total(x)
  BY DEF RubricSum
<1>1. /\ scores \in Seq(Judged(kind)) /\ n \in Nat /\ DOMAIN scores = 1 .. n
      /\ \A j \in 1 .. n : scores[j] \in Judged(kind)
  BY Entries DEF Evaluated
<1>2. ids = ItemIds(kind)
  <2>1. \A j \in 1 .. n : scores[j].id \in ItemIds(kind)
    BY <1>1 DEF Judged
  <2>2. \A id \in ItemIds(kind) : \E j \in 1 .. n : scores[j].id = id
    BY <1>1 DEF Evaluated
  <2> HIDE DEF scores, n
  <2> QED
    BY <1>1, <2>1, <2>2
<1>3. \A i, j \in 1 .. n : scores[i].id = scores[j].id => i = j
  <2> DEFINE f == [j \in 1 .. n |-> scores[j].id]
             N == 1 .. n
  <2>1. IsFiniteSet(N) /\ Cardinality(N) = n
    BY <1>1, FS_Interval
  <2>2. f \in Surjection(N, ids)
    BY <1>1 DEF Surjection
  <2>3. Cardinality(ids) = n
    OBVIOUS
  <2> HIDE DEF f, N, n, ids
  <2>4. f \in Injection(N, ids)
    BY <2>1, <2>2, <2>3, FS_Surjection
  <2> QED
    BY <2>4 DEF f, N, n, Injection, IsInjective
<1>r. DOMAIN R = 1 .. 5 /\ \A i, j \in 1 .. 5 : R[i].id = R[j].id => i = j
  BY RubricShape
<1>i. ItemIds(kind) = {R[i].id : i \in 1 .. 5} /\ \A i \in 1 .. 5 : ItemOf(kind, R[i].id) = R[i]
  BY ItemFound
<1> HIDE DEF R
<1>4. n = 5
  <2> DEFINE five == 5
             f == [i \in 1 .. five |-> R[i].id]
             N == 1 .. five
             T == ItemIds(kind)
  <2>0. five \in Int /\ 1 \in Int /\ ~(1 > five) /\ five - 1 + 1 = five
    OBVIOUS
  <2>1. IsFiniteSet(N) /\ Cardinality(N) = five
    <3> HIDE DEF five
    <3> QED
      BY <2>0, FS_Interval
  <2>2. f \in [N -> T] /\ DOMAIN f = N
    BY <1>i
  <2>3. \A a, b \in N : f[a] = f[b] => a = b
    BY <1>r
  <2>4. \A id \in T : \E i \in N : f[i] = id
    BY <1>i
  <2> HIDE DEF f, N, T, five
  <2>5. f \in Injection(N, T) /\ f \in Surjection(N, T)
    BY <2>2, <2>3, <2>4 DEF Injection, IsInjective, Surjection
  <2>6. Cardinality(T) = five
    BY <2>1, <2>5, FS_Surjection
  <2> QED
    BY <1>2, <2>6 DEF T, five
<1> DEFINE q == [j \in 1 .. 5 |-> CHOOSE i \in 1 .. 5 : R[i].id = scores[j].id]
<1> HIDE DEF scores, x
<1>5. \A j \in 1 .. 5 : q[j] \in 1 .. 5 /\ R[q[j]].id = scores[j].id
  <2> SUFFICES ASSUME NEW j \in 1 .. 5 PROVE q[j] \in 1 .. 5 /\ R[q[j]].id = scores[j].id
    OBVIOUS
  <2>1. scores[j].id \in ItemIds(kind)
    BY <1>1, <1>4 DEF Judged
  <2>2. \E i \in 1 .. 5 : R[i].id = scores[j].id
    BY <1>i, <2>1
  <2> QED
    BY <2>2
<1>6. q \in [1 .. 5 -> 1 .. 5] /\ \A i, j \in 1 .. 5 : q[i] = q[j] => i = j
  <2>1. q \in [1 .. 5 -> 1 .. 5]
    BY <1>5
  <2> HIDE DEF q
  <2> QED
    BY <1>3, <1>4, <1>5, <2>1
<1> HIDE DEF q
<1>7. \A i \in 1 .. 5 : \E j \in 1 .. 5 : q[j] = i
  <2> SUFFICES ASSUME NEW i \in 1 .. 5 PROVE \E j \in 1 .. 5 : q[j] = i
    OBVIOUS
  <2>0. R[i].id \in ids
    BY <1>2, <1>i
  <2>1. PICK j \in 1 .. 5 : scores[j].id = R[i].id
    BY <1>1, <1>4, <2>0
  <2>2. R[q[j]].id = R[i].id /\ q[j] \in 1 .. 5
    BY <1>5, <2>1
  <2>3. q[j] = i
    BY <1>r, <2>2
  <2> QED
    BY <2>3
<1>8. ASSUME NEW j \in 1 .. 5 PROVE x[q[j]] = Margin(kind, scores[j])
  <2> DEFINE id == scores[j].id
  <2>1. {i \in DOMAIN scores : scores[i].id = id} = {j}
    BY <1>1, <1>3, <1>4
  <2>2. Of(id) = scores[j].score
    BY <2>1
  <2>3. ItemOf(kind, id) = R[q[j]] /\ R[q[j]].id = id /\ q[j] \in DOMAIN R
    BY <1>5, <1>i, <1>r
  <2>4. x[q[j]] = (Of(id) - OverallThreshold) * R[q[j]].weight
    <3> HIDE DEF Of
    <3> QED
      BY <2>3 DEF x
  <2> QED
    BY <2>2, <2>3, <2>4 DEF Margin, WeightOf
<1>9. \A j \in 1 .. 5 : Margin(kind, scores[j]) \in Int
  BY <1>1, <1>4, VerdictOfFive
<1>10. x \in [1 .. 5 -> Int]
  <2>1. \A i \in 1 .. 5 : x[i] \in Int
    BY <1>7, <1>8, <1>9
  <2>2. x = [i \in 1 .. 5 |-> x[i]]
    BY <1>r DEF x
  <2> QED
    BY <2>1, <2>2
<1>11. Total(x) = x[1] + x[2] + x[3] + x[4] + x[5]
  <2>0. \A N \in Nat : \A f \in [1 .. N -> Int] : f \in Seq(Int) /\ Len(f) = N
    OBVIOUS
  <2>1. \A f \in [1 .. 5 -> Int] : f \in Seq(Int) /\ Len(f) = 5
    BY <2>0
  <2> QED
    BY <1>10, <2>1, TotalOfFive
<1>12. Total(x) = x[q[1]] + x[q[2]] + x[q[3]] + x[q[4]] + x[q[5]]
  BY <1>6, <1>10, <1>11, Permuted
<1>13. Total(x) = Margin(kind, scores[1]) + Margin(kind, scores[2]) + Margin(kind, scores[3])
                    + Margin(kind, scores[4]) + Margin(kind, scores[5])
  BY <1>8, <1>12
<1>14. Passes(kind, scores) <=> Total(x) >= 0
  BY <1>1, <1>4, <1>13, VerdictOfFive
<1> QED
  BY <1>0, <1>14 DEF scores

----------------------------------------------------------------------------
(* The invariant of a session and of its requests *)

\* An iteration of a session.
Iteration(k) ==
    [output : Outputs[k], scores : Seq(Judged(k)), det : Checks(k), passed : BOOLEAN,
     feedback : SUBSET ItemIds(k), revised : BOOLEAN]

SessionTyped ==
    /\ kind \in Kinds
    /\ maxIter \in Int
    /\ useLLM \in BOOLEAN
    /\ phase \in {"draft", "evaluate", "revise", "done"}
    /\ iterations \in Seq(Iteration(kind))

\* Where the loop is: it evaluates or revises as long as an iteration is left,
\* and it escalates when the last one that is allowed has failed.
Loop ==
    /\ phase = "evaluate" => output \in Outputs[kind]
    /\ phase # "done" => finalStatus = "in_progress"
    /\ phase = "draft" => iterations = <<>>
    /\ phase \in {"evaluate", "revise"} => Len(iterations) < maxIter
    /\ finalStatus = "escalated" =>
          IF maxIter < 1 THEN iterations = <<>>
                         ELSE Len(iterations) = maxIter /\ ~iterations[Len(iterations)].passed

\* What is stored of an iteration is what its evaluation gave.
Recorded(it) ==
    /\ Evaluated(kind, it.scores, it.det)
    /\ it.passed <=> Passes(kind, it.scores)
    /\ ~useLLM /\ it.revised => it.feedback # {}

Stored == \A i \in DOMAIN iterations : Recorded(iterations[i])

RequestsTyped ==
    /\ status \in [Requests -> {NoRequest, "pending"} \cup Decided]
    /\ basis \in [Requests -> {NoRequest} \cup
                     [score : [sum : Int, weight : Int], count : Nat, failed : SUBSET ItemIds(kind)]]
    /\ pending \subseteq Requests
    /\ responses \in [Requests -> {NoResponse} \cup [status : Decided, decision : Decisions]]

\* Only a request that was created is sent and answered.
Created == \A r \in Requests : r \in pending \/ responses[r] # NoResponse => status[r] # NoRequest

GateInv == SessionTyped /\ Loop /\ Stored /\ RequestsTyped /\ Created /\ HumanDecides

LEMMA InitGateInv == GateInit => GateInv
<1> SUFFICES ASSUME GateInit PROVE GateInv
  OBVIOUS
<1> USE DEF GateInit, EvalInit, HandoffInit
<1>1. SessionTyped
  <2>1. maxIter \in Int
    BY EvaluationAssumption DEF DefaultIterations
  <2> QED
    BY <2>1 DEF SessionTyped
<1>2. Loop
  BY DEF Loop
<1>3. Stored
  BY DEF Stored
<1>4. RequestsTyped
  BY DEF RequestsTyped
<1>5. Created
  BY DEF Created
<1>6. HumanDecides
  BY DEF HumanDecides
<1> QED
  BY <1>1, <1>2, <1>3, <1>4, <1>5, <1>6 DEF GateInv

\* While the session runs there is no request, and its steps make none.
LEMMA NoRequestYet ==
    ASSUME GateInv, phase # "done", kind' = kind, UNCHANGED handoffVars
    PROVE  RequestsTyped' /\ Created' /\ HumanDecides'
<1>0. \A r \in Requests : status[r] = NoRequest
  BY DEF GateInv, Loop, HumanDecides
<1>1. RequestsTyped'
  BY DEF GateInv, RequestsTyped, handoffVars
<1>2. Created'
  BY DEF GateInv, Created, handoffVars
<1>3. HumanDecides'
  BY <1>0 DEF HumanDecides, handoffVars
<1> QED
  BY <1>1, <1>2, <1>3

\* Steps that leave the iterations and what they are judged by alone.
LEMMA StoredKept ==
    ASSUME Stored, UNCHANGED <<kind, useLLM, iterations>>
    PROVE  Stored'
BY DEF Stored, Recorded

LEMMA WriteKeeps ==
    ASSUME GateInv, Write, UNCHANGED handoffVars
    PROVE  GateInv'
<1> USE DEF Write
<1>0. SessionTyped /\ Loop /\ Stored
  BY DEF GateInv
<1>1. SessionTyped'
  BY <1>0 DEF SessionTyped
<1>2. Loop'
  <2>1. iterations = <<>> \/ Len(iterations) < maxIter
    BY <1>0 DEF Loop
  <2>2. finalStatus = "in_progress"
    BY <1>0 DEF Loop
  <2>3. Len(iterations) \in Nat /\ Len(<<>>) = 0 /\ maxIter \in Int
    BY <1>0, Entries DEF SessionTyped
  <2>4. CASE maxIter < 1
    BY <1>0, <2>1, <2>3, <2>4 DEF Loop
  <2>5. CASE ~(maxIter < 1)
    <3>1. Len(iterations) < maxIter
      BY <2>1, <2>3, <2>5
    <3> QED
      BY <2>2, <2>5, <3>1 DEF Loop
  <2> QED
    BY <2>4, <2>5
<1>3. Stored'
  BY <1>0, StoredKept
<1>4. RequestsTyped' /\ Created' /\ HumanDecides'
  BY NoRequestYet
<1> QED
  BY <1>1, <1>2, <1>3, <1>4 DEF GateInv

\* The session is broken off with an exception.
LEMMA RaiseKeeps ==
    ASSUME GateInv, phase # "done", phase' = "done", finalStatus' = "raised",
           UNCHANGED <<kind, useLLM, maxIter, output, iterations>>, UNCHANGED handoffVars
    PROVE  GateInv'
<1>0. SessionTyped /\ Loop /\ Stored
  BY DEF GateInv
<1>1. SessionTyped'
  BY <1>0 DEF SessionTyped
<1>2. Loop'
  BY <1>0 DEF Loop
<1>3. Stored'
  BY <1>0, StoredKept
<1>4. RequestsTyped' /\ Created' /\ HumanDecides'
  BY NoRequestYet
<1> QED
  BY <1>1, <1>2, <1>3, <1>4 DEF GateInv

\* The items named are items of the rubric.
LEMMA FeedbackType ==
    ASSUME NEW k \in Kinds, NEW scores \in Seq(Judged(k))
    PROVE  FeedbackItems(scores) \subseteq ItemIds(k)
<1>1. DOMAIN scores = 1 .. Len(scores) /\ \A i \in 1 .. Len(scores) : scores[i] \in Judged(k)
  BY Entries
<1>2. \A i \in DOMAIN scores : scores[i].id \in ItemIds(k)
  BY <1>1 DEF Judged
<1> QED
  BY <1>2 DEF FeedbackItems

\* What the loop does with an evaluation of the present output.
LEMMA ConcludeKeeps ==
    ASSUME GateInv, phase = "evaluate", UNCHANGED handoffVars,
           NEW scores, NEW det \in Checks(kind), Evaluated(kind, scores, det),
           ~useLLM /\ ~Passes(kind, scores) => FeedbackItems(scores) # {},
           Conclude(scores, det)
    PROVE  GateInv'
<1>0. SessionTyped /\ Loop /\ Stored
  BY DEF GateInv
<1> DEFINE n == Len(iterations)
           good == Passes(kind, scores)
           more == n + 1 < maxIter
           it == [output |-> output, scores |-> scores, det |-> det, passed |-> good,
                  feedback |-> IF good THEN {} ELSE FeedbackItems(scores), revised |-> ~good /\ more]
<1>1. /\ iterations' = Append(iterations, it)
      /\ finalStatus' = IF good THEN "approved" ELSE IF more THEN finalStatus ELSE "escalated"
      /\ phase' = IF ~good /\ more THEN "revise" ELSE "done"
      /\ kind' = kind /\ useLLM' = useLLM /\ maxIter' = maxIter /\ output' = output
  BY DEF Conclude
<1>2. /\ kind \in Kinds /\ maxIter \in Int /\ iterations \in Seq(Iteration(kind)) /\ output \in Outputs[kind]
      /\ n \in Nat /\ n < maxIter /\ finalStatus = "in_progress"
  BY <1>0, Entries DEF SessionTyped, Loop
<1>3. good \in BOOLEAN /\ more \in BOOLEAN
  <2> DEFINE o == OverallScore(kind, scores)
             a == 0 >= OverallThreshold
             b == o.sum >= OverallThreshold * o.weight
  <2>1. a \in BOOLEAN /\ b \in BOOLEAN /\ more \in BOOLEAN
    OBVIOUS
  <2>2. good = IF o.weight = 0 THEN a ELSE b
    BY DEF Passes
  <2> HIDE DEF a, b, good, more
  <2> QED
    BY <2>1, <2>2
<1>4. it \in Iteration(kind)
  <2>1. scores \in Seq(Judged(kind))
    BY DEF Evaluated
  <2>2. FeedbackItems(scores) \subseteq ItemIds(kind)
    BY <1>2, <2>1, FeedbackType
  <2>3. (~good /\ more) \in BOOLEAN
    BY <1>3
  <2> HIDE DEF good, more
  <2>4. (IF good THEN {} ELSE FeedbackItems(scores)) \in SUBSET ItemIds(kind)
    BY <2>2
  <2> QED
    BY <1>2, <1>3, <2>1, <2>3, <2>4 DEF Iteration
<1>5. /\ it.scores = scores /\ it.det = det /\ it.passed = good
      /\ it.feedback = (IF good THEN {} ELSE FeedbackItems(scores)) /\ it.revised = (~good /\ more)
  OBVIOUS
<1> HIDE DEF it
<1>6. /\ iterations' \in Seq(Iteration(kind)) /\ Len(iterations') = n + 1 /\ iterations'[n + 1] = it
      /\ DOMAIN iterations = 1 .. n /\ DOMAIN iterations' = 1 .. n + 1
      /\ \A i \in 1 .. n : iterations'[i] = iterations[i]
  BY <1>1, <1>2, <1>4
<1>7. SessionTyped'
  BY <1>0, <1>1, <1>6 DEF SessionTyped
<1>8. Loop'
  <2>1. CASE good
    BY <1>1, <2>1 DEF Loop
  <2>2. CASE ~good /\ more
    BY <1>1, <1>2, <1>6, <2>2 DEF Loop
  <2>3. CASE ~good /\ ~more
    <3>1. n + 1 = maxIter /\ ~(maxIter < 1)
      BY <1>2, <2>3
    <3>2. ~it.passed
      BY <1>5, <2>3
    <3> HIDE DEF n, good, more
    <3> QED
      BY <1>1, <1>6, <2>3, <3>1, <3>2 DEF Loop
  <2> QED
    BY <2>1, <2>2, <2>3
<1>9. Stored'
  <2>1. ASSUME NEW i \in 1 .. n PROVE Recorded(iterations[i])
    BY <1>0, <1>6 DEF Stored
  <2>2. Recorded(it)
    <3> HIDE DEF good, more
    <3>1. Evaluated(kind, it.scores, it.det)
      BY <1>5
    <3>2. it.passed <=> Passes(kind, it.scores)
      BY <1>5 DEF good
    <3>3. ~useLLM /\ it.revised => it.feedback # {}
      <4>1. ~good /\ ~useLLM => FeedbackItems(scores) # {}
        BY DEF good
      <4> QED
        BY <1>3, <1>5, <4>1
    <3> QED
      BY <3>1, <3>2, <3>3 DEF Recorded
  <2>3. \A i \in 1 .. n + 1 : i \in 1 .. n \/ i = n + 1
    BY <1>2
  <2>4. \A i \in DOMAIN iterations' : Recorded(iterations'[i])
    BY <1>6, <2>1, <2>2, <2>3
  <2> QED
    BY <1>1, <2>4 DEF Stored, Recorded
<1>10. RequestsTyped' /\ Created' /\ HumanDecides'
  BY <1>1, NoRequestYet
<1> QED
  BY <1>7, <1>8, <1>9, <1>10 DEF GateInv

LEMMA EvalKeeps ==
    ASSUME GateInv, EvalNext, UNCHANGED handoffVars
    PROVE  GateInv'
<1>0. kind \in Kinds /\ useLLM \in BOOLEAN /\ (phase = "evaluate" => output \in Outputs[kind])
  BY DEF GateInv, SessionTyped, Loop
<1>1. CASE Write
  BY <1>1, WriteKeeps
<1>2. CASE AgentRaises
  BY <1>2, RaiseKeeps DEF AgentRaises
<1>3. CASE EvaluateByRules
  <2>1. PICK tool \in BOOLEAN :
           LET det == DeterministicChecks(kind, output, tool)
           IN  Conclude(Merge(HeuristicScores(kind, output), det), det)
    BY <1>3 DEF EvaluateByRules
  <2> DEFINE det == DeterministicChecks(kind, output, tool)
             scores == Merge(HeuristicScores(kind, output), det)
  <2>2. phase = "evaluate"
    BY <1>3 DEF EvaluateByRules
  <2>3. Checked(kind, det)
    BY <1>0, CheckedScores
  <2>4. Conclude(scores, det)
    BY <2>1
  <2> HIDE DEF det
  <2>5. Evaluated(kind, scores, det) /\ (~Passes(kind, scores) => FeedbackItems(scores) # {})
    BY <1>0, <2>2, <2>3, EvaluatedByRules
  <2>6. det \in Checks(kind)
    BY <2>3, CheckedType
  <2> HIDE DEF scores
  <2> QED
    BY <2>2, <2>4, <2>5, <2>6, ConcludeKeeps
<1>4. CASE EvaluateByModel
  <2>1. PICK tool \in BOOLEAN, reply \in Replies[kind], guess \in Guesses(kind) :
          LET matched == Matched(kind, reply, guess)
              det == DeterministicChecks(kind, output, tool)
          IN  IF \E i \in DOMAIN matched : matched[i].score = BadNumber
              THEN /\ phase' = "done"
                   /\ finalStatus' = "raised"
                   /\ UNCHANGED <<kind, useLLM, maxIter, output, iterations>>
              ELSE Conclude(Merge(ParseReply(kind, matched), det), det)
    BY <1>4 DEF EvaluateByModel
  <2> DEFINE det == DeterministicChecks(kind, output, tool)
             matched == Matched(kind, reply, guess)
             parsed == ParseReply(kind, matched)
             scores == Merge(parsed, det)
             bad == \E i \in DOMAIN matched : matched[i].score = BadNumber
  <2>2. phase = "evaluate" /\ useLLM
    BY <1>4 DEF EvaluateByModel
  <2>3. CASE bad
    <3>1. phase' = "done" /\ finalStatus' = "raised" /\ UNCHANGED <<kind, useLLM, maxIter, output, iterations>>
      BY <2>1, <2>3
    <3> QED
      BY <2>2, <3>1, RaiseKeeps
  <2>4. CASE ~bad
    <3>1. Conclude(scores, det)
      BY <2>1, <2>4
    <3>2. Checked(kind, det)
      BY <1>0, CheckedScores
    <3>3. parsed \in Seq(Judged(kind)) /\ \A id \in ItemIds(kind) : \E i \in DOMAIN parsed : parsed[i].id = id
      BY <1>0, <2>4, Parsing
    <3> HIDE DEF det, parsed
    <3>4. Evaluated(kind, scores, det)
      BY <1>0, <3>2, <3>3, Complete
    <3>5. det \in Checks(kind)
      BY <3>2, CheckedType
    <3> HIDE DEF scores
    <3> QED
      BY <2>2, <3>1, <3>4, <3>5, ConcludeKeeps
  <2> QED
    BY <2>3, <2>4
<1> QED
  BY <1>1, <1>2, <1>3, <1>4 DEF EvalNext

\* The session is as it was.
LEMMA SessionKept ==
    ASSUME GateInv, UNCHANGED evalVars
    PROVE  SessionTyped' /\ Loop' /\ Stored'
<1>1. SessionTyped'
  BY DEF GateInv, SessionTyped, evalVars
<1>2. Loop'
  BY DEF GateInv, Loop, evalVars
<1>3. Stored'
  BY StoredKept DEF GateInv, evalVars
<1> QED
  BY <1>1, <1>2, <1>3

\* A request that is made reports a score below the threshold.
LEMMA HandOverKeeps ==
    ASSUME GateInv, NEW r \in Requests, HandOver(r)
    PROVE  GateInv'
<1> DEFINE n == Len(iterations)
           last == iterations[n]
           failed == IF iterations = <<>> THEN {}
                     ELSE {s.id : s \in {LastOf(iterations).scores[i] : i \in
                              {j \in DOMAIN LastOf(iterations).scores : ~LastOf(iterations).scores[j].passed}}}
           b == [score |-> LastScore, count |-> n, failed |-> failed]
           allowed == IF maxIter < 1 THEN 0 ELSE maxIter
           Low(x) == /\ x \in [sum : Int, weight : Int]
                     /\ x.sum < OverallThreshold * x.weight
<1>0. SessionTyped /\ Loop /\ Stored /\ RequestsTyped /\ Created /\ HumanDecides
  BY DEF GateInv
<1>1. finalStatus = "escalated" /\ UNCHANGED evalVars /\ Create(r, b)
  BY DEF HandOver
<1>2. /\ kind \in Kinds /\ maxIter \in Int /\ iterations \in Seq(Iteration(kind)) /\ n \in Nat
      /\ DOMAIN iterations = 1 .. n /\ \A i \in 1 .. n : iterations[i] \in Iteration(kind)
  BY <1>0, Entries DEF SessionTyped
<1>3. Low(LastScore) /\ n = allowed /\ failed \in SUBSET ItemIds(kind)
  <2>1. CASE maxIter < 1
    <3>1. iterations = <<>>
      BY <1>0, <1>1, <2>1 DEF Loop
    <3>2. LastScore = [sum |-> 0, weight |-> 1] /\ n = 0 /\ failed = {}
      BY <3>1 DEF LastScore
    <3>3. Low([sum |-> 0, weight |-> 1])
      BY DEF OverallThreshold, Pct
    <3> HIDE DEF Low, n, failed
    <3> QED
      BY <2>1, <3>2, <3>3
  <2>2. CASE ~(maxIter < 1)
    <3>1. n = maxIter /\ ~last.passed
      BY <1>0, <1>1, <2>2 DEF Loop
    <3>2. n \in 1 .. n /\ iterations # <<>>
      BY <1>2, <2>2, <3>1
    <3>3. Recorded(last) /\ last \in Iteration(kind)
      BY <1>0, <1>2, <3>2 DEF Stored
    <3> DEFINE scores == last.scores
               o == OverallScore(kind, scores)
    <3>4. /\ scores \in Seq(Judged(kind)) /\ scores # <<>> /\ ~Passes(kind, scores)
      BY <3>1, <3>3 DEF Recorded, Evaluated
    <3>5. LastScore = o
      BY <3>2 DEF LastScore
    <3>6. failed \in SUBSET ItemIds(kind)
      <4>1. failed = {s.id : s \in {scores[i] : i \in {j \in DOMAIN scores : ~scores[j].passed}}}
        BY <3>2 DEF LastOf
      <4> HIDE DEF scores, failed
      <4>2. DOMAIN scores = 1 .. Len(scores) /\ \A i \in 1 .. Len(scores) : scores[i] \in Judged(kind)
        BY <3>4, Entries
      <4>3. \A i \in DOMAIN scores : scores[i].id \in ItemIds(kind)
        BY <4>2 DEF Judged
      <4> QED
        BY <4>1, <4>3
    <3>7. Low(o)
      <4> HIDE DEF scores
      <4>1. o.sum \in Int /\ o.weight \in Int
        BY <1>2, <3>4, OverallType
      <4>2. ~(o.sum >= OverallThreshold * o.weight)
        BY <1>2, <3>4, Verdict
      <4>3. o = [sum |-> o.sum, weight |-> o.weight]
        BY DEF OverallScore
      <4>4. \A x, y \in Int : ~(x >= OverallThreshold * y) => x < OverallThreshold * y
        BY DEF OverallThreshold, Pct
      <4>5. o.sum < OverallThreshold * o.weight
        BY <4>1, <4>2, <4>4
      <4>6. o \in [sum : Int, weight : Int]
        BY <4>1, <4>3
      <4> HIDE DEF o
      <4> QED
        BY <4>5, <4>6
    <3> HIDE DEF Low, n, failed, o
    <3> QED
      BY <2>2, <3>1, <3>5, <3>6, <3>7
  <2> QED
    BY <2>1, <2>2
<1>4. b \in [score : [sum : Int, weight : Int], count : Nat, failed : SUBSET ItemIds(kind)]
      /\ b.score = LastScore /\ b.count = n
  <2>1. LastScore \in [sum : Int, weight : Int]
    BY <1>3
  <2> HIDE DEF n, failed
  <2> QED
    BY <1>2, <1>3, <2>1
<1>5. b.score.sum < OverallThreshold * b.score.weight /\ b.count = allowed
  <2>1. LastScore.sum < OverallThreshold * LastScore.weight
    BY <1>3
  <2> HIDE DEF b, n, allowed
  <2> QED
    BY <1>3, <1>4, <2>1
<1> HIDE DEF b, n, failed
<1>6. SessionTyped' /\ Loop' /\ Stored'
  BY <1>1, SessionKept
<1>7. RequestsTyped'
  <2>1. kind' = kind
    BY <1>1 DEF evalVars
  <2> QED
    BY <1>0, <1>1, <1>4, <2>1 DEF RequestsTyped, Create
<1>8. Created'
  BY <1>0, <1>1 DEF Created, RequestsTyped, Create
<1>9. HumanDecides'
  <2> SUFFICES ASSUME NEW q \in Requests, status'[q] # NoRequest
               PROVE  /\ finalStatus' = "escalated"
                      /\ basis'[q].count = IF maxIter' < 1 THEN 0 ELSE maxIter'
                      /\ basis'[q].score.sum < OverallThreshold * basis'[q].score.weight
                      /\ status'[q] \in Decided => responses'[q] # NoResponse /\ responses'[q].status = status'[q]
    BY DEF HumanDecides
  <2>1. finalStatus' = "escalated" /\ maxIter' = maxIter
    BY <1>1 DEF evalVars
  <2>2. CASE q = r
    <3>1. basis'[q] = b /\ status'[q] = "pending"
      BY <1>0, <1>1, <2>2 DEF Create, RequestsTyped
    <3> QED
      BY <1>5, <2>1, <3>1 DEF Decided
  <2>3. CASE q # r
    <3>1. basis'[q] = basis[q] /\ status'[q] = status[q] /\ responses' = responses
      BY <1>0, <1>1, <2>3 DEF Create, RequestsTyped
    <3> QED
      BY <1>0, <2>1, <3>1 DEF HumanDecides
  <2> QED
    BY <2>2, <2>3
<1> QED
  BY <1>6, <1>7, <1>8, <1>9 DEF GateInv

\* A request is sent, answered and looked after.
LEMMA HumanKeeps ==
    ASSUME GateInv, Human
    PROVE  GateInv'
<1>0. SessionTyped /\ Loop /\ Stored /\ RequestsTyped /\ Created /\ HumanDecides
  BY DEF GateInv
<1>1. PICK r \in Requests : Escalate(r) \/ CheckStatus(r) \/ \E d \in Decisions : Resolve(r, d)
  BY DEF Human
<1>2. UNCHANGED evalVars
  BY DEF Human
<1>3. SessionTyped' /\ Loop' /\ Stored' /\ kind' = kind /\ finalStatus' = finalStatus /\ maxIter' = maxIter
  BY <1>2, SessionKept DEF evalVars
<1> USE DEF RequestsTyped
\* What a step on a request keeps of HumanDecides.
<1>4. ASSUME basis' = basis, \A q \in Requests : status'[q] # NoRequest => status[q] # NoRequest,
             \A q \in Requests : status'[q] \in Decided => responses'[q] # NoResponse /\ responses'[q].status = status'[q]
      PROVE  HumanDecides'
  BY <1>0, <1>3, <1>4 DEF HumanDecides
<1>5. CASE Escalate(r)
  <2>1. /\ status' = [status EXCEPT ![r] = "pending"] /\ pending' = pending \cup {r}
        /\ basis' = basis /\ responses' = responses /\ status[r] # NoRequest
    BY <1>5 DEF Escalate
  <2>2. RequestsTyped'
    BY <1>0, <1>3, <2>1
  <2>3. \A q \in Requests : IF q = r THEN status'[q] = "pending" ELSE status'[q] = status[q]
    BY <1>0, <2>1
  <2>4. Created'
    BY <1>0, <2>1, <2>3, HandoffAssumption DEF Created
  <2>5. HumanDecides'
    <3>1. \A q \in Requests : status'[q] # NoRequest => status[q] # NoRequest
      BY <2>1, <2>3
    <3>2. \A q \in Requests : status'[q] \in Decided => responses'[q] # NoResponse /\ responses'[q].status = status'[q]
      BY <1>0, <2>1, <2>3, HandoffAssumption DEF HumanDecides, Decided
    <3> QED
      BY <1>4, <2>1, <3>1, <3>2
  <2> QED
    BY <1>3, <2>2, <2>4, <2>5 DEF GateInv
<1>6. CASE CheckStatus(r)
  <2> DEFINE told == responses[r] # NoResponse /\ status[r] # NoRequest
  <2>1. /\ status' = IF told THEN [status EXCEPT ![r] = responses[r].status] ELSE status
        /\ basis' = basis /\ responses' = responses /\ pending' = pending
    BY <1>6 DEF CheckStatus
  <2>2. told => responses[r].status \in Decided
    BY <1>0
  <2>3. RequestsTyped'
    BY <1>0, <1>3, <2>1, <2>2
  <2>4. \A q \in Requests : IF q = r /\ told THEN status'[q] = responses[q].status ELSE status'[q] = status[q]
    BY <1>0, <2>1
  <2>5. \A q \in Requests : status'[q] # NoRequest <=> status[q] # NoRequest
    BY <2>2, <2>4, HandoffAssumption DEF Decided
  <2>6. Created'
    BY <1>0, <2>1, <2>5 DEF Created
  <2>7. HumanDecides'
    <3>1. \A q \in Requests : status'[q] \in Decided => responses'[q] # NoResponse /\ responses'[q].status = status'[q]
      BY <1>0, <2>1, <2>4, HandoffAssumption DEF HumanDecides, Decided
    <3> QED
      BY <1>4, <2>1, <2>5, <3>1
  <2> QED
    BY <1>3, <2>3, <2>6, <2>7 DEF GateInv
<1>7. ASSUME NEW d \in Decisions, Resolve(r, d) PROVE GateInv'
  <2> DEFINE s == IF d \in {"approve", "override"} THEN "resolved" ELSE "rejected"
             answer == [status |-> s, decision |-> d]
  <2>1. /\ responses' = [responses EXCEPT ![r] = answer] /\ status' = [status EXCEPT ![r] = s]
        /\ basis' = basis /\ pending' = pending /\ r \in pending
    BY <1>7 DEF Resolve
  <2>2. s \in Decided /\ answer \in [status : Decided, decision : Decisions] /\ answer.status = s
    BY DEF Decided
  <2> HIDE DEF s, answer
  <2>3. RequestsTyped'
    BY <1>0, <1>3, <2>1, <2>2
  <2>4. \A q \in Requests : IF q = r THEN status'[q] = s /\ responses'[q] = answer
                            ELSE status'[q] = status[q] /\ responses'[q] = responses[q]
    BY <1>0, <2>1
  <2>5. status[r] # NoRequest /\ s # NoRequest /\ answer # NoResponse
    BY <1>0, <2>1, <2>2, HandoffAssumption DEF Created
  <2>6. Created'
    BY <1>0, <2>1, <2>4, <2>5 DEF Created
  <2>7. HumanDecides'
    <3>1. \A q \in Requests : status'[q] # NoRequest => status[q] # NoRequest
      BY <2>4, <2>5
    <3>2. \A q \in Requests : status'[q] \in Decided => responses'[q] # NoResponse /\ responses'[q].status = status'[q]
      BY <1>0, <2>2, <2>4, <2>5, HandoffAssumption DEF HumanDecides, Decided
    <3> QED
      BY <1>4, <2>1, <3>1, <3>2
  <2> QED
    BY <1>3, <2>3, <2>6, <2>7 DEF GateInv
<1> QED
  BY <1>1, <1>5, <1>6, <1>7

LEMMA NextGateInv == GateInv /\ [GateNext]_gateVars => GateInv'
<1> SUFFICES ASSUME GateInv, [GateNext]_gateVars PROVE GateInv'
  OBVIOUS
<1>1. CASE EvalNext /\ UNCHANGED handoffVars
  BY <1>1, EvalKeeps
<1>2. CASE \E r \in Requests : HandOver(r)
  BY <1>2, HandOverKeeps
<1>3. CASE Human
  BY <1>3, HumanKeeps
<1>4. CASE UNCHANGED gateVars
  <2>1. UNCHANGED evalVars /\ UNCHANGED handoffVars
    BY <1>4 DEF gateVars
  <2>2. SessionTyped' /\ Loop' /\ Stored' /\ kind' = kind
    BY <2>1, SessionKept DEF evalVars
  <2>3. RequestsTyped' /\ Created' /\ HumanDecides'
    BY <2>1, <2>2 DEF GateInv, RequestsTyped, Created, HumanDecides, evalVars, handoffVars
  <2> QED
    BY <2>2, <2>3 DEF GateInv
<1> QED
  BY <1>1, <1>2, <1>3, <1>4 DEF GateNext

LEMMA GateSafe == GateSpec => []GateInv
BY InitGateInv, NextGateInv, PTL DEF GateSpec

----------------------------------------------------------------------------
(* The results *)

\* Whatever the evaluating model writes, and however often, the score that a
\* deterministic check gave is the only one its item has (merge_deterministic
\* of base.py).
THEOREM ChecksAlwaysStand == GateSpec => []DeterministicStands
<1>1. GateInv => DeterministicStands
  BY DEF GateInv, Stored, Recorded, Evaluated, DeterministicStands
<1> QED
  BY <1>1, GateSafe, PTL

\* An output is approved exactly when the weighted mean over the whole rubric
\* reaches the threshold, unless the evaluating model scored an item twice:
\* compute_overall_score divides by what was scored, and every item is.
THEOREM AlwaysApprovedByRubric == GateSpec => []ApprovedByRubric
<1>1. GateInv => ApprovedByRubric
  <2> SUFFICES ASSUME GateInv, NEW i \in DOMAIN iterations,
                      Cardinality({iterations[i].scores[j].id : j \in DOMAIN iterations[i].scores})
                        = Len(iterations[i].scores)
               PROVE  iterations[i].passed <=> RubricSum(iterations[i]) >= 0
    BY DEF ApprovedByRubric
  <2> DEFINE it == iterations[i]
  <2>1. kind \in Kinds /\ Recorded(it)
    BY DEF GateInv, SessionTyped, Stored
  <2>2. Evaluated(kind, it.scores, it.det) /\ (it.passed <=> Passes(kind, it.scores))
    BY <2>1 DEF Recorded
  <2>3. Cardinality({it.scores[j].id : j \in DOMAIN it.scores}) = Len(it.scores)
    OBVIOUS
  <2> HIDE DEF it
  <2>4. Passes(kind, it.scores) <=> RubricSum(it) >= 0
    BY <2>1, <2>2, <2>3, MeanOverRubric
  <2> QED
    BY <2>2, <2>4 DEF it
<1> QED
  BY <1>1, GateSafe, PTL

\* A revision that the rules ask for names what is wrong: the thresholds of
\* the items, weighed, are at least the overall one, so that a mean below it
\* has an item below its own (aggregate_feedback).
THEOREM RevisionsAlwaysGuided == GateSpec => []RevisionGuided
<1>1. GateInv => RevisionGuided
  BY DEF GateInv, Stored, Recorded, RevisionGuided
<1> QED
  BY <1>1, GateSafe, PTL

\* A human is asked after the last iteration that is allowed has failed, and a
\* request shows as decided as its last answer says.
THEOREM HumanAlwaysDecides == GateSpec => []HumanDecides
<1>1. GateInv => HumanDecides
  BY DEF GateInv
<1> QED
  BY <1>1, GateSafe, PTL

----------------------------------------------------------------------------
(* Messages: the windows of the rate limits and of the breaker, and the     *)
(* policies.                                                                *)

(* Windows.  A log has times; ds are deliveries and ts their times.         *)

\* How many entries of a log are later than t.
CountAfter(log, t) == Cardinality({n \in DOMAIN log : log[n] > t})

\* The deliveries after the first n that are of D and later than t.
Since(ds, ts, n, D, t) == {d \in n + 1 .. Len(ds) : ts[d] > t /\ ds[d] \in D}

Times(log, n) == log \in Seq(Nat) /\ \A i \in DOMAIN log : log[i] <= n

\* What is logged at a time counts until then.
LEMMA CountAppend ==
    ASSUME NEW log \in Seq(Nat), NEW now0 \in Nat, NEW t \in Int
    PROVE  /\ CountAfter(log, t) \in Nat
           /\ now0 > t => CountAfter(Append(log, now0), t) = CountAfter(log, t) + 1
           /\ ~ (now0 > t) => CountAfter(Append(log, now0), t) = CountAfter(log, t)
<1> DEFINE A == {n \in DOMAIN log : log[n] > t}
           B == {n \in DOMAIN Append(log, now0) : Append(log, now0)[n] > t}
           k == Len(log) + 1
<1>1. /\ Len(log) \in Nat /\ DOMAIN log = 1 .. Len(log)
      /\ DOMAIN Append(log, now0) = 1 .. k /\ Append(log, now0)[k] = now0
      /\ \A n \in 1 .. Len(log) : Append(log, now0)[n] = log[n]
  OBVIOUS
<1>2. now0 > t => B = A \cup {k}
  BY <1>1
<1>3. ~ (now0 > t) => B = A
  BY <1>1
<1>4. IsFiniteSet(A)
  <2>1. A \in SUBSET (1 .. Len(log))
    BY <1>1
  <2>2. IsFiniteSet(1 .. Len(log))
    BY <1>1, FS_Interval
  <2> QED
    BY <2>1, <2>2, FS_Subset
<1>5. k \notin A
  BY <1>1
<1>6. CountAfter(log, t) = Cardinality(A) /\ CountAfter(Append(log, now0), t) = Cardinality(B)
  BY DEF CountAfter
<1> HIDE DEF A, B, k
<1>7. Cardinality(A) \in Nat
  BY <1>4, FS_CardinalityType
<1>8. Cardinality(A \cup {k}) = Cardinality(A) + 1
  BY <1>4, <1>5, FS_AddElement
<1> QED
  BY <1>2, <1>3, <1>6, <1>7, <1>8

\* Fewer entries are later than a later time; none of an empty log is.
LEMMA CountLess ==
    ASSUME NEW log \in Seq(Nat), NEW t \in Int, NEW u \in Int, t <= u
    PROVE  CountAfter(log, u) <= CountAfter(log, t)
<1> DEFINE A == {n \in DOMAIN log : log[n] > t}
           B == {n \in DOMAIN log : log[n] > u}
<1>1. /\ Len(log) \in Nat /\ DOMAIN log = 1 .. Len(log) /\ \A n \in 1 .. Len(log) : log[n] \in Nat
  OBVIOUS
<1>2. IsFiniteSet(1 .. Len(log))
  BY <1>1, FS_Interval
<1>3. A \in SUBSET (1 .. Len(log)) /\ B \in SUBSET A
  BY <1>1
<1>4. CountAfter(log, t) = Cardinality(A) /\ CountAfter(log, u) = Cardinality(B)
  BY DEF CountAfter
<1> HIDE DEF A, B
<1> QED
  BY <1>2, <1>3, <1>4, FS_Subset

LEMMA CountNone ==
    ASSUME NEW t
    PROVE  CountAfter(<<>>, t) = 0
<1>1. {n \in DOMAIN <<>> : <<>>[n] > t} = {}
  OBVIOUS
<1> QED
  BY <1>1, FS_EmptySet DEF CountAfter

\* What drops the old entries of a log leaves times, as many as there are in
\* the window, and changes nothing of what is counted in it.
LEMMA CountAmong ==
    ASSUME NEW n \in Nat, NEW log, Times(log, n), NEW c \in Int
    PROVE  LET kept == Among(log, c + 1 .. n)
           IN  /\ Times(kept, n)
               /\ \A t \in Int : t >= c => CountAfter(kept, t) = CountAfter(log, t)
               /\ Len(kept) = CountAfter(log, c)
<1> DEFINE T == c + 1 .. n
           kept == Among(log, T)
<1>0. log \in Seq(Nat) /\ Len(log) \in Nat /\ DOMAIN log = 1 .. Len(log)
      /\ \A i \in 1 .. Len(log) : log[i] \in Nat /\ log[i] <= n
  BY DEF Times
<1>1. kept \in Seq({e \in Nat : e \in T})
  <2> HIDE DEF T
  <2> QED
    BY <1>0, AmongEntries
<1>2. kept \in Seq(Nat) /\ Len(kept) \in Nat /\ DOMAIN kept = 1 .. Len(kept)
      /\ \A i \in 1 .. Len(kept) : kept[i] \in Nat /\ kept[i] \in T
  <2> HIDE DEF T, kept
  <2>1. \A e \in {x \in Nat : x \in T} : e \in Nat /\ e \in T
    OBVIOUS
  <2> DEFINE E == {x \in Nat : x \in T}
  <2>2. kept \in Seq(E)
    BY <1>1
  <2> HIDE DEF E
  <2>3. \A e \in E : e \in Nat /\ e \in T
    BY <2>1 DEF E
  <2> QED
    BY <2>2, <2>3
<1>3. Times(kept, n)
  <2>1. \A i \in 1 .. Len(kept) : kept[i] <= n
    BY <1>2
  <2> HIDE DEF kept
  <2> QED
    BY <1>2, <2>1 DEF Times
<1>4. ASSUME NEW t \in Int, t >= c
      PROVE  CountAfter(kept, t) = CountAfter(log, t)
  <2> DEFINE U == t + 1 .. n
  <2>1. U \subseteq T
    BY <1>4
  <2>2. {m \in DOMAIN kept : kept[m] > t} = Those(kept, U)
    <3>1. \A m \in DOMAIN kept : kept[m] > t <=> kept[m] \in U
      BY <1>2
    <3> HIDE DEF kept, U
    <3> QED
      BY <3>1 DEF Those
  <2>3. {m \in DOMAIN log : log[m] > t} = Those(log, U)
    <3>1. \A m \in DOMAIN log : log[m] > t <=> log[m] \in U
      BY <1>0
    <3> HIDE DEF U
    <3> QED
      BY <3>1 DEF Those
  <2> HIDE DEF T, U
  <2>4. Cardinality(Those(kept, U)) = Cardinality(Those(log, U))
    BY <1>0, <2>1, AmongCount
  <2> HIDE DEF kept
  <2> QED
    BY <2>2, <2>3, <2>4 DEF CountAfter
<1>5. Len(kept) = CountAfter(log, c)
  <2>1. {m \in DOMAIN kept : kept[m] > c} = 1 .. Len(kept)
    <3>1. \A m \in DOMAIN kept : kept[m] > c
      BY <1>2
    <3> HIDE DEF kept
    <3> QED
      BY <1>2, <3>1
  <2>2. CountAfter(kept, c) = CountAfter(log, c)
    BY <1>4
  <2> HIDE DEF kept
  <2> DEFINE one == 1
             k == Len(kept)
  <2>3. Cardinality(1 .. Len(kept)) = Len(kept)
    <3>1. one \in Int /\ k \in Int /\ k \in Nat /\ one = 1
      BY <1>2
    <3> HIDE DEF one, k
    <3>2. Cardinality(one .. k) = IF one > k THEN 0 ELSE k - one + 1
      BY <3>1, FS_Interval
    <3>3. Cardinality(one .. k) = k
      BY <3>1, <3>2
    <3> QED
      BY <3>1, <3>3 DEF k
  <2> QED
    BY <2>1, <2>2, <2>3 DEF CountAfter
<1> HIDE DEF kept
<1>6. kept = Among(log, c + 1 .. n)
  BY DEF kept
<1> QED
  BY <1>3, <1>4, <1>5, <1>6

\* The deliveries later than a time are a number.
LEMMA SinceType ==
    ASSUME NEW S, NEW ds \in Seq(S), NEW ts, NEW n \in Nat, NEW D, NEW t
    PROVE  Cardinality(Since(ds, ts, n, D, t)) \in Nat
<1> DEFINE k == n + 1
           l == Len(ds)
<1>1. k \in Int /\ l \in Int
  OBVIOUS
<1>2. Since(ds, ts, n, D, t) \in SUBSET (k .. l)
  BY DEF Since
<1> HIDE DEF k, l
<1>3. IsFiniteSet(k .. l)
  BY <1>1, FS_Interval
<1> QED
  BY <1>2, <1>3, FS_Subset, FS_CardinalityType

\* Deliveries, and how many there were at some time.
Delivering(S, ds, ts, n) ==
    ds \in Seq(S) /\ ts \in Seq(Nat) /\ Len(ts) = Len(ds) /\ n \in Nat /\ n <= Len(ds)

\* So does a delivery.
LEMMA SinceAppend ==
    ASSUME NEW S, NEW ds, NEW ts, NEW n, Delivering(S, ds, ts, n),
           NEW D, NEW t \in Int, NEW m \in S, NEW now0 \in Nat
    PROVE  Cardinality(Since(Append(ds, m), Append(ts, now0), n, D, t))
             = IF m \in D /\ now0 > t THEN Cardinality(Since(ds, ts, n, D, t)) + 1
               ELSE Cardinality(Since(ds, ts, n, D, t))
<1>0. ds \in Seq(S) /\ ts \in Seq(Nat) /\ Len(ts) = Len(ds) /\ n \in Nat /\ n <= Len(ds)
  BY DEF Delivering
<1> DEFINE before == Since(ds, ts, n, D, t)
           after == Since(Append(ds, m), Append(ts, now0), n, D, t)
           k == Len(ds) + 1
<1>1. /\ Len(ds) \in Nat /\ Len(Append(ds, m)) = k
      /\ Append(ds, m)[k] = m /\ \A i \in 1 .. Len(ds) : Append(ds, m)[i] = ds[i]
  BY <1>0
<1>2. Append(ts, now0)[k] = now0 /\ \A i \in 1 .. Len(ds) : Append(ts, now0)[i] = ts[i]
  BY <1>0
<1>3. /\ before = {d \in n + 1 .. Len(ds) : ts[d] > t /\ ds[d] \in D}
      /\ after = {d \in n + 1 .. k : Append(ts, now0)[d] > t /\ Append(ds, m)[d] \in D}
  BY <1>1 DEF Since
<1>4. m \in D /\ now0 > t => after = before \cup {k}
  <2> HIDE DEF before, after
  <2> QED
    BY <1>0, <1>1, <1>2, <1>3
<1>5. ~ (m \in D /\ now0 > t) => after = before
  <2> HIDE DEF before, after
  <2> QED
    BY <1>0, <1>1, <1>2, <1>3
<1>6. IsFiniteSet(before) /\ k \notin before
  <2>1. before \in SUBSET (n + 1 .. Len(ds)) /\ k \notin before
    <3> HIDE DEF before, after
    <3> QED
      BY <1>0, <1>1, <1>3
  <2>2. IsFiniteSet(n + 1 .. Len(ds))
    BY <1>0, <1>1, FS_Interval
  <2> QED
    BY <2>1, <2>2, FS_Subset
<1> HIDE DEF before, after, k
<1>7. Cardinality(before) \in Nat
  BY <1>6, FS_CardinalityType
<1>8. Cardinality(before \cup {k}) = Cardinality(before) + 1
  BY <1>6, FS_AddElement
<1> QED
  BY <1>4, <1>5, <1>7, <1>8 DEF before, after

\* There is none after all of them.
LEMMA SinceNone ==
    ASSUME NEW S, NEW ds \in Seq(S), NEW ts, NEW D, NEW t
    PROVE  Cardinality(Since(ds, ts, Len(ds), D, t)) = 0
<1>1. Since(ds, ts, Len(ds), D, t) = {}
  BY DEF Since
<1> QED
  BY <1>1, FS_EmptySet

----------------------------------------------------------------------------
(* The limits of messages *)

From(a) == {m \in Messages : Source[m] = a}
Between(p) == {m \in Messages : PairOf(m) = p}

MessagingTypes ==
    /\ registered \subseteq Keys
    /\ now \in Nat
    /\ limits \in [AgentIds -> Nat \cup {Absent}]
    /\ requestLog \in [AgentIds -> Seq(Nat)]
    /\ \A a \in AgentIds : Times(requestLog[a], now)
    /\ counts \in [Pairs -> Seq(Nat)]
    /\ \A p \in Pairs : Times(counts[p], now)
    /\ audit \in Seq(Messages)
    /\ delivered \in Seq(Messages) /\ when \in Seq(Nat) /\ Len(when) = Len(delivered)
    /\ limitedAt \in [AgentIds -> Nat] /\ \A a \in AgentIds : limitedAt[a] <= Len(delivered)
    /\ resetAt \in [Pairs -> Nat] /\ \A p \in Pairs : resetAt[p] <= Len(delivered)

\* From any time in the window on, an agent that is limited has not got more
\* messages through than its log has requests; and the log is not over the limit.
RatesFollowed ==
    \A a \in AgentIds : limits[a] # Absent =>
        /\ \A t \in Int : t >= now - RateWindow =>
              Cardinality(Since(delivered, when, limitedAt[a], From(a), t)) <= CountAfter(requestLog[a], t)
        /\ CountAfter(requestLog[a], now - RateWindow) <= limits[a]

\* The breaker has counted what a pair exchanged, no more and no less.
PairsFollowed ==
    \A p \in Pairs :
        /\ \A t \in Int : t >= now - PairWindow =>
              Cardinality(Since(delivered, when, resetAt[p], Between(p), t)) = CountAfter(counts[p], t)
        /\ CountAfter(counts[p], now - PairWindow) <= Threshold

WindowsInv == MessagingTypes /\ RatesFollowed /\ PairsFollowed

LEMMA MessagingConstants ==
    /\ RateWindow \in Nat /\ PairWindow \in Nat /\ Threshold \in Nat
    /\ \A m \in Messages : /\ Source[m] \in AgentIds \cup {Absent} /\ PairOf(m) \in Pairs
                           /\ <<Tenant[m], Source[m]>> \in Keys => Source[m] \in AgentIds
    /\ RateKeys \subseteq AgentIds /\ Rates \subseteq Nat /\ Absent \notin Nat
    /\ \A q \in Questions : q.context.key \in AgentIds
<1>1. \A m \in Messages : Source[m] \in AgentIds \cup {Absent} /\ Target[m] \in AgentIds \cup {Star}
  BY MessagingAssumption
<1>2. \A m \in Messages : PairOf(m) \in Pairs
  BY <1>1 DEF PairOf, Pairs
<1>3. \A m \in Messages : <<Tenant[m], Source[m]>> \in Keys => Source[m] \in AgentIds
  BY MessagingAssumption
<1> QED
  BY <1>1, <1>2, <1>3, MessagingAssumption

\* Dropping the old entries of a log drops nothing that counts.
LEMMA KeptCounts ==
    ASSUME now \in Nat, NEW width \in Nat, NEW log, Times(log, now)
    PROVE  /\ Times(Recent(log, width), now) /\ Times(Append(Recent(log, width), now), now)
           /\ \A t \in Int : t >= now - width => CountAfter(Recent(log, width), t) = CountAfter(log, t)
           /\ \A t \in Int : t >= now - width =>
                CountAfter(Append(Recent(log, width), now), t)
                  = IF now > t THEN CountAfter(log, t) + 1 ELSE CountAfter(log, t)
           /\ Len(Recent(log, width)) = CountAfter(log, now - width)
<1> DEFINE c == now - width
           kept == Among(log, c + 1 .. now)
<1>1. c \in Int /\ Recent(log, width) = kept
  BY DEF Recent
<1>2. /\ Times(kept, now)
      /\ \A t \in Int : t >= c => CountAfter(kept, t) = CountAfter(log, t)
      /\ Len(kept) = CountAfter(log, c)
  <2> HIDE DEF c
  <2> QED
    BY <1>1, CountAmong
<1> HIDE DEF kept
<1>3. kept \in Seq(Nat)
  BY <1>2 DEF Times
<1>4. Times(Append(kept, now), now)
  <2>1. \A i \in DOMAIN kept : kept[i] <= now
    BY <1>2 DEF Times
  <2>2. \A i \in DOMAIN Append(kept, now) : Append(kept, now)[i] <= now
    BY <1>3, <2>1
  <2>3. Append(kept, now) \in Seq(Nat)
    BY <1>3
  <2> QED
    BY <2>2, <2>3 DEF Times
<1>5. \A t \in Int : CountAfter(Append(kept, now), t)
                       = IF now > t THEN CountAfter(kept, t) + 1 ELSE CountAfter(kept, t)
  BY <1>3, CountAppend
<1> QED
  BY <1>1, <1>2, <1>4, <1>5

\* An engine's check of an agent, and what was delivered of it then.
LEMMA RateStep ==
    ASSUME MessagingTypes, RatesFollowed, NEW a \in AgentIds, NEW records \in BOOLEAN,
           records => ~RateFull(a), CheckRate(a, records),
           UNCHANGED <<limits, limitedAt, now>>,
           \/ UNCHANGED <<delivered, when>>
           \/ /\ records
              /\ \E m \in Messages : /\ Source[m] = a
                                     /\ delivered' = Append(delivered, m) /\ when' = Append(when, now)
    PROVE  /\ RatesFollowed'
           /\ requestLog' \in [AgentIds -> Seq(Nat)]
           /\ \A b \in AgentIds : Times(requestLog'[b], now)
<1>0. /\ now \in Nat /\ RateWindow \in Nat /\ requestLog \in [AgentIds -> Seq(Nat)]
      /\ limits \in [AgentIds -> Nat \cup {Absent}] /\ Absent \notin Nat
      /\ \A b \in AgentIds : Times(requestLog[b], now)
  BY MessagingConstants DEF MessagingTypes
<1> DEFINE log == requestLog[a]
           kept == Recent(log, RateWindow)
           L == IF records THEN Append(kept, now) ELSE kept
           c == now - RateWindow
<1>1. /\ Times(L, now)
      /\ L = kept \o (IF records THEN <<now>> ELSE <<>>)
      /\ \A t \in Int : t >= c =>
           CountAfter(L, t) = IF records /\ now > t THEN CountAfter(log, t) + 1 ELSE CountAfter(log, t)
      /\ Len(kept) = CountAfter(log, c)
  <2>1. Times(log, now)
    BY <1>0
  <2> HIDE DEF log
  <2>2. /\ Times(kept, now) /\ Times(Append(kept, now), now)
        /\ \A t \in Int : t >= c => CountAfter(kept, t) = CountAfter(log, t)
        /\ \A t \in Int : t >= c => CountAfter(Append(kept, now), t)
                                      = IF now > t THEN CountAfter(log, t) + 1 ELSE CountAfter(log, t)
        /\ Len(kept) = CountAfter(log, c)
    BY <1>0, <2>1, KeptCounts
  <2> HIDE DEF kept
  <2>3. kept \o <<>> = kept /\ kept \o <<now>> = Append(kept, now)
    <3>1. kept \in Seq(Nat)
      BY <2>2 DEF Times
    <3> QED
      BY <1>0, <3>1
  <2>4. CASE records
    BY <2>2, <2>3, <2>4
  <2>5. CASE ~records
    BY <2>2, <2>3, <2>5
  <2> QED
    BY <2>4, <2>5
<1> HIDE DEF L
<1>2. /\ limits[a] = Absent => requestLog' = requestLog
      /\ limits[a] # Absent => requestLog' = [requestLog EXCEPT ![a] = L]
  BY <1>0, <1>1 DEF CheckRate
<1>3. requestLog' \in [AgentIds -> Seq(Nat)] /\ \A b \in AgentIds : Times(requestLog'[b], now)
  <2>1. L \in Seq(Nat)
    BY <1>1 DEF Times
  <2> QED
    BY <1>0, <1>1, <1>2, <2>1
<1>4. ASSUME NEW b \in AgentIds, limits[b] # Absent
      PROVE  /\ \A t \in Int : t >= c =>
                  Cardinality(Since(delivered', when', limitedAt[b], From(b), t))
                    <= CountAfter(requestLog'[b], t)
             /\ CountAfter(requestLog'[b], c) <= limits[b]
  <2>1. /\ \A t \in Int : t >= c =>
             Cardinality(Since(delivered, when, limitedAt[b], From(b), t)) <= CountAfter(requestLog[b], t)
        /\ CountAfter(requestLog[b], c) <= limits[b]
    BY <1>4 DEF RatesFollowed
  <2>2. limits[b] \in Nat /\ c \in Int
    BY <1>0, <1>4
  <2>3. \A t \in Int : CountAfter(requestLog[b], t) \in Nat
    BY <1>0, CountAppend
  <2>4. \A t \in Int : t >= c =>
          CountAfter(requestLog'[b], t) = IF b = a /\ records /\ now > t THEN CountAfter(requestLog[b], t) + 1
                                          ELSE CountAfter(requestLog[b], t)
    <3>1. CASE b = a
      <4>1. requestLog'[b] = L
        BY <1>0, <1>2, <1>4, <3>1
      <4> QED
        BY <1>1, <3>1, <4>1
    <3>2. CASE b # a
      <4>1. requestLog'[b] = requestLog[b]
        BY <1>0, <1>2, <3>2
      <4> QED
        BY <3>2, <4>1
    <3> QED
      BY <3>1, <3>2
  <2>5. CountAfter(requestLog'[b], c) <= limits[b]
    <3>1. b = a /\ records => CountAfter(requestLog[b], c) < limits[b]
      <4>1. b = a /\ records => ~ (CountAfter(requestLog[b], c) >= limits[b])
        BY <1>1, <1>4 DEF RateFull
      <4> QED
        BY <2>2, <2>3, <4>1
    <3>2. CountAfter(requestLog[b], c) \in Nat /\ c >= c
      BY <2>2, <2>3
    <3> HIDE DEF c
    <3> QED
      BY <2>1, <2>2, <2>4, <3>1, <3>2
  <2>6. ASSUME NEW t \in Int, t >= c
        PROVE  Cardinality(Since(delivered', when', limitedAt[b], From(b), t)) <= CountAfter(requestLog'[b], t)
    <3>1. /\ Cardinality(Since(delivered, when, limitedAt[b], From(b), t)) <= CountAfter(requestLog[b], t)
          /\ CountAfter(requestLog[b], t) \in Nat
      BY <2>1, <2>3, <2>6
    <3>2. /\ delivered \in Seq(Messages) /\ when \in Seq(Nat) /\ Len(when) = Len(delivered)
          /\ limitedAt[b] \in Nat /\ limitedAt[b] <= Len(delivered)
      BY DEF MessagingTypes
    <3>3. Cardinality(Since(delivered, when, limitedAt[b], From(b), t)) \in Nat
      BY <3>2, SinceType
    <3>4. CountAfter(requestLog'[b], t) = IF b = a /\ records /\ now > t THEN CountAfter(requestLog[b], t) + 1
                                          ELSE CountAfter(requestLog[b], t)
      BY <2>4, <2>6
    <3>5. CASE UNCHANGED <<delivered, when>>
      BY <3>1, <3>3, <3>4, <3>5
    <3>6. ASSUME records, NEW m \in Messages, Source[m] = a,
                 delivered' = Append(delivered, m), when' = Append(when, now)
          PROVE  Cardinality(Since(delivered', when', limitedAt[b], From(b), t)) <= CountAfter(requestLog'[b], t)
      <4> DEFINE n == limitedAt[b]
                 D == From(b)
                 before == Cardinality(Since(delivered, when, n, D, t))
                 after == Cardinality(Since(Append(delivered, m), Append(when, now), n, D, t))
      <4>1. /\ m \in From(b) /\ now > t => after = before + 1
            /\ ~ (m \in From(b) /\ now > t) => after = before
        <5>1. Delivering(Messages, delivered, when, n) /\ now \in Nat
          BY <1>0, <3>2 DEF Delivering
        <5>2. m \in Messages /\ t \in Int
          OBVIOUS
        <5> HIDE DEF n, D
        <5>3. after = IF m \in D /\ now > t THEN before + 1 ELSE before
          BY <5>1, <5>2, SinceAppend
        <5> HIDE DEF before, after
        <5> QED
          BY <5>3 DEF D
      <4>2. m \in From(b) <=> b = a
        BY <3>6 DEF From
      <4> HIDE DEF before, after
      <4>3. after <= CountAfter(requestLog'[b], t)
        <5>1. before <= CountAfter(requestLog[b], t) /\ before \in Nat
          BY <3>1, <3>3 DEF before
        <5> QED
          BY <3>1, <3>4, <3>6, <4>1, <4>2, <5>1
      <4> QED
        BY <3>6, <4>3 DEF after
    <3> QED
      BY <3>5, <3>6
  <2> QED
    BY <2>5, <2>6
<1>5. limits' = limits /\ limitedAt' = limitedAt /\ now' = now
  OBVIOUS
<1> QED
  BY <1>3, <1>4, <1>5 DEF RatesFollowed

\* What the breaker does to the log of a pair: it cleans it, and counts what it
\* lets through.
LEMMA PairStep ==
    ASSUME MessagingTypes, PairsFollowed, NEW p \in Pairs, UNCHANGED <<resetAt, now>>,
           \/ /\ counts' = [counts EXCEPT ![p] = Recent(counts[p], PairWindow)]
              /\ UNCHANGED <<delivered, when>>
           \/ /\ ~PairFull(p)
              /\ counts' = [counts EXCEPT ![p] = Append(Recent(counts[p], PairWindow), now)]
              /\ \E m \in Messages : /\ PairOf(m) = p
                                     /\ delivered' = Append(delivered, m) /\ when' = Append(when, now)
    PROVE  /\ PairsFollowed'
           /\ counts' \in [Pairs -> Seq(Nat)]
           /\ \A b \in Pairs : Times(counts'[b], now)
<1>0. /\ now \in Nat /\ PairWindow \in Nat /\ Threshold \in Nat /\ counts \in [Pairs -> Seq(Nat)]
      /\ \A b \in Pairs : Times(counts[b], now)
      /\ delivered \in Seq(Messages) /\ when \in Seq(Nat) /\ Len(when) = Len(delivered)
      /\ \A b \in Pairs : resetAt[b] \in Nat /\ resetAt[b] <= Len(delivered)
  BY MessagingConstants DEF MessagingTypes
<1> DEFINE log == counts[p]
           kept == Recent(log, PairWindow)
           c == now - PairWindow
<1>1. /\ Times(kept, now) /\ Times(Append(kept, now), now)
      /\ \A t \in Int : t >= c => CountAfter(kept, t) = CountAfter(log, t)
      /\ \A t \in Int : t >= c => CountAfter(Append(kept, now), t)
                                    = IF now > t THEN CountAfter(log, t) + 1 ELSE CountAfter(log, t)
      /\ Len(kept) = CountAfter(log, c)
  <2>1. Times(log, now)
    BY <1>0
  <2> HIDE DEF log
  <2> QED
    BY <1>0, <2>1, KeptCounts
<1>2. kept \in Seq(Nat) /\ Append(kept, now) \in Seq(Nat)
  <2> HIDE DEF kept
  <2> QED
    BY <1>1 DEF Times
<1>3. \A b \in Pairs : \A t \in Int :
        /\ t >= c => Cardinality(Since(delivered, when, resetAt[b], Between(b), t)) = CountAfter(counts[b], t)
        /\ CountAfter(counts[b], c) <= Threshold
        /\ CountAfter(counts[b], t) \in Nat
  BY <1>0, CountAppend DEF PairsFollowed
<1>4. c \in Int
  BY <1>0
<1>5. CASE /\ counts' = [counts EXCEPT ![p] = Recent(counts[p], PairWindow)]
           /\ UNCHANGED <<delivered, when>>
  <2>1. counts' = [counts EXCEPT ![p] = kept]
    BY <1>5
  <2> HIDE DEF kept
  <2>2. counts' \in [Pairs -> Seq(Nat)] /\ \A b \in Pairs : Times(counts'[b], now)
    BY <1>0, <1>1, <1>2, <2>1
  <2>3. ASSUME NEW b \in Pairs, NEW t \in Int, t >= c
        PROVE  CountAfter(counts'[b], t) = CountAfter(counts[b], t)
    <3>1. CASE b = p
      <4>1. counts'[b] = kept
        BY <1>0, <2>1, <3>1
      <4> QED
        BY <1>1, <2>3, <3>1, <4>1
    <3>2. CASE b # p
      BY <1>0, <2>1, <3>2
    <3> QED
      BY <3>1, <3>2
  <2>4. ASSUME NEW b \in Pairs
        PROVE  /\ \A t \in Int : t >= c =>
                    Cardinality(Since(delivered', when', resetAt'[b], Between(b), t)) = CountAfter(counts'[b], t)
               /\ CountAfter(counts'[b], c) <= Threshold
    <3>1. CountAfter(counts'[b], c) = CountAfter(counts[b], c)
      <4> HIDE DEF c
      <4> QED
        BY <1>4, <2>3
    <3> HIDE DEF c
    <3> QED
      BY <1>3, <1>4, <1>5, <2>3, <3>1
  <2> QED
    BY <2>2, <2>4 DEF PairsFollowed
<1>6. ASSUME ~PairFull(p), counts' = [counts EXCEPT ![p] = Append(Recent(counts[p], PairWindow), now)],
             NEW m \in Messages, PairOf(m) = p,
             delivered' = Append(delivered, m), when' = Append(when, now)
      PROVE  /\ PairsFollowed'
             /\ counts' \in [Pairs -> Seq(Nat)]
             /\ \A b \in Pairs : Times(counts'[b], now)
  <2>1. counts' = [counts EXCEPT ![p] = Append(kept, now)]
    BY <1>6
  <2>2. CountAfter(log, c) + 1 <= Threshold
    <3>1. ~ (Len(kept) >= Threshold)
      BY <1>6 DEF PairFull
    <3>2. CountAfter(log, c) \in Nat
      BY <1>3, <1>4
    <3> HIDE DEF kept, log, c
    <3> QED
      BY <1>0, <1>1, <3>1, <3>2
  <2> HIDE DEF kept
  <2>3. counts' \in [Pairs -> Seq(Nat)] /\ \A b \in Pairs : Times(counts'[b], now)
    BY <1>0, <1>1, <1>2, <2>1
  <2>4. ASSUME NEW b \in Pairs, NEW t \in Int, t >= c
        PROVE  CountAfter(counts'[b], t) = IF b = p /\ now > t THEN CountAfter(counts[b], t) + 1
                                           ELSE CountAfter(counts[b], t)
    <3>1. CASE b = p
      <4>1. counts'[b] = Append(kept, now)
        BY <1>0, <2>1, <3>1
      <4> QED
        BY <1>1, <2>4, <3>1, <4>1
    <3>2. CASE b # p
      BY <1>0, <2>1, <3>2
    <3> QED
      BY <3>1, <3>2
  <2>5. ASSUME NEW b \in Pairs
        PROVE  CountAfter(counts'[b], c) <= Threshold
    <3>1. CountAfter(counts'[b], c) = IF b = p /\ now > c THEN CountAfter(counts[b], c) + 1
                                      ELSE CountAfter(counts[b], c)
      <4> HIDE DEF c
      <4> QED
        BY <1>4, <2>4
    <3>2. CountAfter(counts[b], c) <= Threshold /\ (b = p => CountAfter(counts[b], c) + 1 <= Threshold)
      BY <1>3, <1>4, <2>2
    <3> HIDE DEF c
    <3> QED
      BY <3>1, <3>2
  <2>6. ASSUME NEW b \in Pairs, NEW t \in Int, t >= c
        PROVE  Cardinality(Since(delivered', when', resetAt'[b], Between(b), t)) = CountAfter(counts'[b], t)
    <3> DEFINE n == resetAt[b]
               D == Between(b)
               before == Cardinality(Since(delivered, when, n, D, t))
               after == Cardinality(Since(Append(delivered, m), Append(when, now), n, D, t))
    <3>1. /\ m \in Between(b) /\ now > t => after = before + 1
          /\ ~ (m \in Between(b) /\ now > t) => after = before
      <4>1. Delivering(Messages, delivered, when, n) /\ now \in Nat
        BY <1>0 DEF Delivering
      <4>2. m \in Messages /\ t \in Int
        OBVIOUS
      <4> HIDE DEF n, D
      <4>3. after = IF m \in D /\ now > t THEN before + 1 ELSE before
        BY <4>1, <4>2, SinceAppend
      <4> HIDE DEF before, after
      <4> QED
        BY <4>3 DEF D
    <3>2. m \in Between(b) <=> b = p
      BY <1>6 DEF Between
    <3>3. before = CountAfter(counts[b], t)
      BY <1>3, <2>6
    <3>4. CountAfter(counts'[b], t) = IF b = p /\ now > t THEN CountAfter(counts[b], t) + 1
                                      ELSE CountAfter(counts[b], t)
      BY <2>4, <2>6
    <3> HIDE DEF before, after
    <3>5. after = CountAfter(counts'[b], t)
      BY <3>1, <3>2, <3>3, <3>4
    <3> QED
      BY <1>6, <3>5 DEF after
  <2>7. now' = now
    OBVIOUS
  <2> QED
    BY <2>3, <2>5, <2>6, <2>7 DEF PairsFollowed
<1> QED
  BY <1>5, <1>6

LEMMA WindowsInit == MessagingInit => WindowsInv
<1> SUFFICES ASSUME MessagingInit PROVE WindowsInv
  OBVIOUS
<1>1. /\ registered = {} /\ now = 0 /\ limits = [a \in AgentIds |-> Absent]
      /\ requestLog = [a \in AgentIds |-> <<>>] /\ counts = [p \in Pairs |-> <<>>]
      /\ audit = <<>> /\ delivered = <<>> /\ when = <<>>
      /\ limitedAt = [a \in AgentIds |-> 0] /\ resetAt = [p \in Pairs |-> 0]
  BY DEF MessagingInit
<1>2. Times(<<>>, 0)
  BY DEF Times
<1>3. MessagingTypes
  <2>1. \A a \in AgentIds : Times(requestLog[a], now)
    BY <1>1, <1>2
  <2>2. \A p \in Pairs : Times(counts[p], now)
    BY <1>1, <1>2
  <2>3. <<>> \in Seq(Nat) /\ <<>> \in Seq(Messages) /\ Len(<<>>) = 0
    OBVIOUS
  <2> QED
    BY <1>1, <2>1, <2>2, <2>3 DEF MessagingTypes
<1>4. RatesFollowed
  BY <1>1 DEF RatesFollowed
<1>5. PairsFollowed
  <2>1. ASSUME NEW p \in Pairs, NEW t \in Int
        PROVE  /\ Cardinality(Since(delivered, when, resetAt[p], Between(p), t)) = 0
               /\ CountAfter(counts[p], t) = 0
    <3>1. resetAt[p] = Len(delivered) /\ counts[p] = <<>> /\ delivered \in Seq(Messages)
      BY <1>1
    <3> QED
      BY <3>1, SinceNone, CountNone
  <2>2. now - PairWindow \in Int /\ Threshold \in Nat
    BY <1>1, MessagingConstants
  <2> QED
    BY <2>1, <2>2 DEF PairsFollowed
<1> QED
  BY <1>3, <1>4, <1>5 DEF WindowsInv

rateVars == <<limits, requestLog, limitedAt>>
pairVars == <<counts, resetAt>>

\* A check of a message that counts at most the request.
LEMMA WindowsChecked ==
    ASSUME WindowsInv, NEW a \in AgentIds, NEW records \in BOOLEAN, records => ~RateFull(a),
           CheckRate(a, records),
           UNCHANGED <<registered, limits, limitedAt, pairVars, audit, delivered, when, now>>
    PROVE  WindowsInv'
<1>1. /\ RatesFollowed' /\ requestLog' \in [AgentIds -> Seq(Nat)]
      /\ \A b \in AgentIds : Times(requestLog'[b], now)
  BY RateStep DEF WindowsInv
<1>2. PairsFollowed'
  BY DEF WindowsInv, PairsFollowed, pairVars
<1>3. MessagingTypes'
  BY <1>1 DEF WindowsInv, MessagingTypes, pairVars
<1> QED
  BY <1>1, <1>2, <1>3 DEF WindowsInv

LEMMA WindowsAccepted ==
    ASSUME WindowsInv, NEW m \in Messages, Break(m) \/ Deliver(m)
    PROVE  WindowsInv'
<1> USE DEF WindowsInv
<1>0. Accept(m)
  BY DEF Break, Deliver
<1>1. /\ Source[m] \in AgentIds /\ PairOf(m) \in Pairs /\ ~RateFull(Source[m])
      /\ CheckRate(Source[m], TRUE) /\ UNCHANGED <<registered, limits, limitedAt, resetAt, now>>
      /\ audit' = Append(audit, m)
  <2>1. <<Tenant[m], Source[m]>> \in Keys
    BY <1>0 DEF Accept, Authentic, MessagingTypes
  <2> QED
    BY <1>0, <2>1, MessagingConstants DEF Accept, Log
<1>2. \/ /\ counts' = [counts EXCEPT ![PairOf(m)] = Recent(counts[PairOf(m)], PairWindow)]
         /\ UNCHANGED <<delivered, when>>
      \/ /\ ~PairFull(PairOf(m))
         /\ counts' = [counts EXCEPT ![PairOf(m)] = Append(Recent(counts[PairOf(m)], PairWindow), now)]
         /\ delivered' = Append(delivered, m) /\ when' = Append(when, now)
  <2> DEFINE kept == Recent(counts[PairOf(m)], PairWindow)
  <2>1. /\ counts \in [Pairs -> Seq(Nat)] /\ now \in Nat /\ PairWindow \in Nat
        /\ Times(counts[PairOf(m)], now)
    BY <1>1, MessagingConstants DEF MessagingTypes
  <2>2. kept \in Seq(Nat)
    <3>1. Times(kept, now)
      BY <2>1, KeptCounts
    <3> QED
      BY <3>1 DEF Times
  <2> HIDE DEF kept
  <2>3. kept \o <<>> = kept /\ kept \o <<now>> = Append(kept, now)
    BY <2>1, <2>2
  <2>4. CASE Break(m)
    <3>1. counts' = [counts EXCEPT ![PairOf(m)] = kept \o <<>>]
      BY <2>4 DEF Break, CheckPair, kept
    <3> QED
      BY <2>3, <2>4, <3>1 DEF Break, kept
  <2>5. CASE Deliver(m)
    <3>1. counts' = [counts EXCEPT ![PairOf(m)] = kept \o <<now>>]
      BY <2>5 DEF Deliver, CheckPair, kept
    <3> QED
      BY <2>3, <2>5, <3>1 DEF Deliver, kept
  <2> QED
    BY <2>4, <2>5
<1>3. /\ RatesFollowed' /\ requestLog' \in [AgentIds -> Seq(Nat)]
      /\ \A b \in AgentIds : Times(requestLog'[b], now)
  BY <1>1, <1>2, RateStep
<1>4. /\ PairsFollowed' /\ counts' \in [Pairs -> Seq(Nat)]
      /\ \A p \in Pairs : Times(counts'[p], now)
  BY <1>1, <1>2, PairStep
<1>5. /\ delivered' \in Seq(Messages) /\ when' \in Seq(Nat) /\ Len(when') = Len(delivered')
      /\ Len(delivered) <= Len(delivered') /\ Len(delivered) \in Nat /\ Len(delivered') \in Nat
  <2>1. /\ delivered \in Seq(Messages) /\ when \in Seq(Nat) /\ Len(when) = Len(delivered)
        /\ now \in Nat /\ Len(delivered) \in Nat
    BY DEF MessagingTypes
  <2>2. CASE UNCHANGED <<delivered, when>>
    BY <2>1, <2>2
  <2>3. CASE delivered' = Append(delivered, m) /\ when' = Append(when, now)
    <3>1. /\ Append(delivered, m) \in Seq(Messages) /\ Len(Append(delivered, m)) = Len(delivered) + 1
          /\ Append(when, now) \in Seq(Nat) /\ Len(Append(when, now)) = Len(when) + 1
      BY <2>1
    <3> QED
      BY <2>1, <2>3, <3>1
  <2> QED
    BY <1>2, <2>2, <2>3
<1>6. /\ \A a \in AgentIds : limitedAt'[a] <= Len(delivered')
      /\ \A p \in Pairs : resetAt'[p] <= Len(delivered')
  BY <1>1, <1>5 DEF MessagingTypes
<1>7. audit' \in Seq(Messages)
  BY <1>1 DEF MessagingTypes
<1>8. MessagingTypes'
  BY <1>1, <1>3, <1>4, <1>5, <1>6, <1>7 DEF MessagingTypes
<1> QED
  BY <1>3, <1>4, <1>8

LEMMA WindowsSent ==
    ASSUME WindowsInv, NEW m \in Messages, Send(m)
    PROVE  WindowsInv'
<1>1. CASE RefuseUnknown(m)
  <2>1. UNCHANGED <<registered, rateVars, pairVars, audit, delivered, when, now>>
    BY <1>1 DEF RefuseUnknown, messagingVars, engineVars, routerVars, rateVars, pairVars
  <2> QED
    BY <2>1 DEF WindowsInv, MessagingTypes, RatesFollowed, PairsFollowed, rateVars, pairVars
<1>2. ASSUME Authentic(m)
      PROVE  Source[m] \in AgentIds
  <2>1. <<Tenant[m], Source[m]>> \in Keys
    BY <1>2 DEF Authentic, WindowsInv, MessagingTypes
  <2> QED
    BY <2>1, MessagingConstants
<1>3. CASE RefuseRate(m)
  <2>1. /\ CheckRate(Source[m], FALSE) /\ Authentic(m)
        /\ UNCHANGED <<registered, limits, limitedAt, pairVars, audit, delivered, when, now>>
    BY <1>3 DEF RefuseRate, routerVars, pairVars
  <2> QED
    BY <1>2, <2>1, WindowsChecked
<1>4. CASE RefusePolicy(m)
  <2>1. /\ CheckRate(Source[m], TRUE) /\ Authentic(m) /\ ~RateFull(Source[m])
        /\ UNCHANGED <<registered, limits, limitedAt, pairVars, audit, delivered, when, now>>
    BY <1>4 DEF RefusePolicy, routerVars, pairVars
  <2> QED
    BY <1>2, <2>1, WindowsChecked
<1> QED
  BY <1>1, <1>3, <1>4, WindowsAccepted DEF Send

LEMMA WindowsAsked ==
    ASSUME WindowsInv, NEW q \in Questions, Ask(q)
    PROVE  WindowsInv'
<1> DEFINE a == q.context.key
           records == ~RateFull(a)
<1>1. /\ a \in AgentIds /\ records \in BOOLEAN /\ CheckRate(a, records)
      /\ UNCHANGED <<registered, limits, limitedAt, pairVars, audit, delivered, when, now>>
  BY MessagingConstants DEF Ask, routerVars, pairVars
<1>2. records => ~RateFull(a)
  OBVIOUS
<1> HIDE DEF a, records
<1> QED
  BY <1>1, <1>2, WindowsChecked

LEMMA WindowsLimited ==
    ASSUME WindowsInv, NEW a \in RateKeys, NEW max \in Rates, SetRateLimit(a, max)
    PROVE  WindowsInv'
<1> USE DEF WindowsInv
<1>1. /\ a \in AgentIds /\ max \in Nat /\ RateWindow \in Nat
      /\ limits' = [limits EXCEPT ![a] = max] /\ requestLog' = [requestLog EXCEPT ![a] = <<>>]
      /\ limitedAt' = [limitedAt EXCEPT ![a] = Len(delivered)]
      /\ UNCHANGED <<registered, counts, resetAt, audit, delivered, when, now>>
  BY MessagingConstants DEF SetRateLimit, routerVars
<1>2. Times(<<>>, now) /\ Len(delivered) \in Nat
  BY DEF MessagingTypes, Times
<1>3. MessagingTypes'
  <2>1. \A b \in AgentIds : Times(requestLog'[b], now)
    BY <1>1, <1>2 DEF MessagingTypes
  <2>2. \A b \in AgentIds : limitedAt'[b] <= Len(delivered)
    BY <1>1, <1>2 DEF MessagingTypes
  <2>3. /\ limits' \in [AgentIds -> Nat \cup {Absent}] /\ requestLog' \in [AgentIds -> Seq(Nat)]
        /\ limitedAt' \in [AgentIds -> Nat]
    BY <1>1, <1>2 DEF MessagingTypes
  <2> QED
    BY <1>1, <2>1, <2>2, <2>3 DEF MessagingTypes
<1>4. PairsFollowed'
  BY <1>1 DEF PairsFollowed
<1>5. ASSUME NEW b \in AgentIds, limits'[b] # Absent
      PROVE  /\ \A t \in Int : t >= now - RateWindow =>
                  Cardinality(Since(delivered, when, limitedAt'[b], From(b), t)) <= CountAfter(requestLog'[b], t)
             /\ CountAfter(requestLog'[b], now - RateWindow) <= limits'[b]
  <2>1. CASE b = a
    <3>1. limits'[b] = max /\ requestLog'[b] = <<>> /\ limitedAt'[b] = Len(delivered)
      BY <1>1, <2>1 DEF MessagingTypes
    <3>2. \A t \in Int : Cardinality(Since(delivered, when, Len(delivered), From(b), t)) = 0
      BY SinceNone DEF MessagingTypes
    <3>3. \A t \in Int : CountAfter(<<>>, t) = 0
      BY CountNone
    <3>4. now - RateWindow \in Int
      BY <1>1 DEF MessagingTypes
    <3> QED
      BY <1>1, <3>1, <3>2, <3>3, <3>4
  <2>2. CASE b # a
    <3>1. limits'[b] = limits[b] /\ requestLog'[b] = requestLog[b] /\ limitedAt'[b] = limitedAt[b]
      BY <1>1, <2>2 DEF MessagingTypes
    <3> QED
      BY <1>5, <3>1 DEF RatesFollowed
  <2> QED
    BY <2>1, <2>2
<1>6. RatesFollowed'
  BY <1>1, <1>5 DEF RatesFollowed
<1> QED
  BY <1>3, <1>4, <1>6

LEMMA WindowsReset ==
    ASSUME WindowsInv, NEW p \in Pairs, Reset(p)
    PROVE  WindowsInv'
<1> USE DEF WindowsInv
<1>1. /\ counts' = [counts EXCEPT ![p] = <<>>] /\ resetAt' = [resetAt EXCEPT ![p] = Len(delivered)]
      /\ UNCHANGED <<registered, limits, requestLog, limitedAt, audit, delivered, when, now>>
  BY DEF Reset, engineVars, routerVars
<1>2. Times(<<>>, now) /\ Len(delivered) \in Nat
  BY DEF MessagingTypes, Times
<1>3. MessagingTypes'
  <2>1. \A b \in Pairs : Times(counts'[b], now) /\ resetAt'[b] <= Len(delivered)
    BY <1>1, <1>2 DEF MessagingTypes
  <2>2. counts' \in [Pairs -> Seq(Nat)] /\ resetAt' \in [Pairs -> Nat]
    BY <1>1, <1>2 DEF MessagingTypes
  <2> QED
    BY <1>1, <2>1, <2>2 DEF MessagingTypes
<1>4. RatesFollowed'
  BY <1>1 DEF RatesFollowed
<1>5. ASSUME NEW b \in Pairs
      PROVE  /\ \A t \in Int : t >= now - PairWindow =>
                  Cardinality(Since(delivered, when, resetAt'[b], Between(b), t)) = CountAfter(counts'[b], t)
             /\ CountAfter(counts'[b], now - PairWindow) <= Threshold
  <2>1. CASE b = p
    <3>1. counts'[b] = <<>> /\ resetAt'[b] = Len(delivered)
      BY <1>1, <2>1 DEF MessagingTypes
    <3>2. \A t \in Int : Cardinality(Since(delivered, when, Len(delivered), Between(b), t)) = 0
      BY SinceNone DEF MessagingTypes
    <3>3. \A t \in Int : CountAfter(<<>>, t) = 0
      BY CountNone
    <3>4. now - PairWindow \in Int /\ Threshold \in Nat
      BY MessagingConstants DEF MessagingTypes
    <3> QED
      BY <3>1, <3>2, <3>3, <3>4
  <2>2. CASE b # p
    <3>1. counts'[b] = counts[b] /\ resetAt'[b] = resetAt[b]
      BY <1>1, <2>2 DEF MessagingTypes
    <3> QED
      BY <3>1 DEF PairsFollowed
  <2> QED
    BY <2>1, <2>2
<1>6. PairsFollowed'
  BY <1>1, <1>5 DEF PairsFollowed
<1> QED
  BY <1>3, <1>4, <1>6

LEMMA WindowsCounted ==
    ASSUME WindowsInv, NEW p \in Pairs, GetCount(p)
    PROVE  WindowsInv'
<1> USE DEF WindowsInv
<1>1. /\ counts' = [counts EXCEPT ![p] = Recent(counts[p], PairWindow)]
      /\ UNCHANGED <<registered, limits, requestLog, limitedAt, resetAt, audit, delivered, when, now>>
  BY DEF GetCount, engineVars, routerVars
<1>2. /\ PairsFollowed' /\ counts' \in [Pairs -> Seq(Nat)]
      /\ \A b \in Pairs : Times(counts'[b], now)
  BY <1>1, PairStep
<1>3. RatesFollowed'
  BY <1>1 DEF RatesFollowed
<1>4. MessagingTypes'
  BY <1>1, <1>2 DEF MessagingTypes
<1> QED
  BY <1>2, <1>3, <1>4

\* Time passes: the windows move on, and what was counted in them is enough.
LEMMA WindowsTick ==
    ASSUME WindowsInv, Tick
    PROVE  WindowsInv'
<1> USE DEF WindowsInv
<1>1. /\ now' = now + 1 /\ now \in Nat /\ RateWindow \in Nat /\ PairWindow \in Nat /\ Threshold \in Nat
      /\ UNCHANGED <<registered, limits, requestLog, limitedAt, counts, resetAt, audit, delivered, when>>
  BY MessagingConstants DEF Tick, engineVars, routerVars, MessagingTypes
<1>2. ASSUME NEW log, Times(log, now)
      PROVE  Times(log, now')
  BY <1>1, <1>2 DEF Times
<1>3. MessagingTypes'
  BY <1>1, <1>2 DEF MessagingTypes
<1>4. ASSUME NEW a \in AgentIds, limits'[a] # Absent
      PROVE  /\ \A t \in Int : t >= now' - RateWindow =>
                  Cardinality(Since(delivered', when', limitedAt'[a], From(a), t)) <= CountAfter(requestLog'[a], t)
             /\ CountAfter(requestLog'[a], now' - RateWindow) <= limits'[a]
  <2>1. /\ \A t \in Int : t >= now - RateWindow =>
             Cardinality(Since(delivered, when, limitedAt[a], From(a), t)) <= CountAfter(requestLog[a], t)
        /\ CountAfter(requestLog[a], now - RateWindow) <= limits[a] /\ limits[a] \in Nat
    BY <1>1, <1>4 DEF RatesFollowed, MessagingTypes
  <2> DEFINE c == now - RateWindow
             d == now' - RateWindow
  <2>2. c \in Int /\ d \in Int /\ c <= d /\ requestLog[a] \in Seq(Nat)
    BY <1>1 DEF MessagingTypes
  <2>3. \A t \in Int : t >= d => t >= c
    BY <1>1
  <2> HIDE DEF c, d
  <2>4. CountAfter(requestLog[a], d) <= CountAfter(requestLog[a], c)
        /\ CountAfter(requestLog[a], d) \in Nat /\ CountAfter(requestLog[a], c) \in Nat
    BY <2>2, CountLess, CountAppend, <1>1
  <2> QED
    BY <1>1, <2>1, <2>2, <2>3, <2>4 DEF c, d
<1>5. ASSUME NEW p \in Pairs
      PROVE  /\ \A t \in Int : t >= now' - PairWindow =>
                  Cardinality(Since(delivered', when', resetAt'[p], Between(p), t)) = CountAfter(counts'[p], t)
             /\ CountAfter(counts'[p], now' - PairWindow) <= Threshold
  <2>1. /\ \A t \in Int : t >= now - PairWindow =>
             Cardinality(Since(delivered, when, resetAt[p], Between(p), t)) = CountAfter(counts[p], t)
        /\ CountAfter(counts[p], now - PairWindow) <= Threshold
    BY DEF PairsFollowed
  <2> DEFINE c == now - PairWindow
             d == now' - PairWindow
  <2>2. c \in Int /\ d \in Int /\ c <= d /\ counts[p] \in Seq(Nat)
    BY <1>1 DEF MessagingTypes
  <2>3. \A t \in Int : t >= d => t >= c
    BY <1>1
  <2> HIDE DEF c, d
  <2>4. CountAfter(counts[p], d) <= CountAfter(counts[p], c)
        /\ CountAfter(counts[p], d) \in Nat /\ CountAfter(counts[p], c) \in Nat
    BY <2>2, CountLess, CountAppend, <1>1
  <2> QED
    BY <1>1, <2>1, <2>2, <2>3, <2>4, SMTT(30) DEF c, d
<1>6. RatesFollowed'
  BY <1>4 DEF RatesFollowed
<1>7. PairsFollowed'
  BY <1>5 DEF PairsFollowed
<1> QED
  BY <1>3, <1>6, <1>7

LEMMA WindowsNext == WindowsInv /\ [MessagingNext]_messagingVars => WindowsInv'
<1> SUFFICES ASSUME WindowsInv, [MessagingNext]_messagingVars PROVE WindowsInv'
  OBVIOUS
<1>1. ASSUME registered' \subseteq Keys, audit' \in Seq(Messages),
             UNCHANGED <<rateVars, pairVars, delivered, when, now>>
      PROVE  WindowsInv'
  BY <1>1 DEF WindowsInv, MessagingTypes, RatesFollowed, PairsFollowed, rateVars, pairVars
<1>0. registered \subseteq Keys /\ audit \in Seq(Messages)
  BY DEF WindowsInv, MessagingTypes
<1> USE DEF rateVars, pairVars, engineVars, routerVars
<1>2. ASSUME NEW k \in Keys, Register(k) \/ Deregister(k) PROVE WindowsInv'
  BY <1>0, <1>1, <1>2 DEF Register, Deregister
<1>3. ASSUME NEW i, NEW p, AddPolicy(i, p) PROVE WindowsInv'
  BY <1>0, <1>1, <1>3 DEF AddPolicy
<1>4. ASSUME NEW role, AddRole(role) PROVE WindowsInv'
  BY <1>0, <1>1, <1>4 DEF AddRole
<1>5. ASSUME NEW i, RemovePolicy(i) PROVE WindowsInv'
  BY <1>0, <1>1, <1>5 DEF RemovePolicy
<1>6. ASSUME NEW a, ClearInbox(a) PROVE WindowsInv'
  BY <1>0, <1>1, <1>6 DEF ClearInbox
<1>7. ASSUME ClearAudit PROVE WindowsInv'
  BY <1>0, <1>1, <1>7 DEF ClearAudit
<1>8. ASSUME UNCHANGED messagingVars PROVE WindowsInv'
  BY <1>0, <1>1, <1>8 DEF messagingVars
<1> QED
  BY <1>2, <1>3, <1>4, <1>5, <1>6, <1>7, <1>8, WindowsSent, WindowsAsked, WindowsLimited,
     WindowsReset, WindowsCounted, WindowsTick DEF MessagingNext

\* The sets of LimitsKept are the deliveries that the invariant counts.
LEMMA WithinSince ==
    ASSUME MessagingTypes, NEW n \in Nat, NEW width \in Nat
    PROVE  /\ \A a : {d \in Within(n, width) : Source[delivered[d]] = a}
                       = Since(delivered, when, n, From(a), now - width)
           /\ \A p : {d \in Within(n, width) : PairOf(delivered[d]) = p}
                       = Since(delivered, when, n, Between(p), now - width)
<1>1. \A d \in n + 1 .. Len(delivered) : delivered[d] \in Messages
  BY DEF MessagingTypes
<1> QED
  BY <1>1 DEF Within, Since, From, Between

LEMMA WindowsLimit == WindowsInv => LimitsKept
<1> SUFFICES ASSUME WindowsInv PROVE LimitsKept
  OBVIOUS
<1> USE DEF WindowsInv
<1>0. now \in Nat /\ RateWindow \in Nat /\ PairWindow \in Nat /\ Threshold \in Nat
  BY MessagingConstants DEF MessagingTypes
<1>1. ASSUME NEW a \in AgentIds, limits[a] # Absent
      PROVE  Cardinality({d \in Within(limitedAt[a], RateWindow) : Source[delivered[d]] = a}) <= limits[a]
  <2>1. limitedAt[a] \in Nat /\ limits[a] \in Nat /\ delivered \in Seq(Messages) /\ requestLog[a] \in Seq(Nat)
    BY <1>1 DEF MessagingTypes
  <2>2. {d \in Within(limitedAt[a], RateWindow) : Source[delivered[d]] = a}
          = Since(delivered, when, limitedAt[a], From(a), now - RateWindow)
    BY <1>0, <2>1, WithinSince
  <2> DEFINE c == now - RateWindow
  <2>3. c \in Int /\ c >= c
    BY <1>0
  <2>4. /\ Cardinality(Since(delivered, when, limitedAt[a], From(a), c)) <= CountAfter(requestLog[a], c)
        /\ CountAfter(requestLog[a], c) <= limits[a]
    BY <1>1, <2>3 DEF RatesFollowed
  <2> HIDE DEF c
  <2>5. Cardinality(Since(delivered, when, limitedAt[a], From(a), c)) \in Nat /\ CountAfter(requestLog[a], c) \in Nat
    BY <1>0, <2>1, <2>3, SinceType, CountAppend
  <2>6. Cardinality(Since(delivered, when, limitedAt[a], From(a), c)) <= limits[a]
    BY <2>1, <2>4, <2>5
  <2> QED
    BY <2>2, <2>6 DEF c
<1>2. ASSUME NEW p \in Pairs
      PROVE  Cardinality({d \in Within(resetAt[p], PairWindow) : PairOf(delivered[d]) = p}) <= Threshold
  <2>1. resetAt[p] \in Nat
    BY DEF MessagingTypes
  <2>2. {d \in Within(resetAt[p], PairWindow) : PairOf(delivered[d]) = p}
          = Since(delivered, when, resetAt[p], Between(p), now - PairWindow)
    BY <1>0, <2>1, WithinSince
  <2>3. now - PairWindow \in Int /\ now - PairWindow >= now - PairWindow
    BY <1>0
  <2> QED
    BY <2>2, <2>3 DEF PairsFollowed
<1> QED
  BY <1>1, <1>2 DEF LimitsKept

LEMMA WindowsAlways == MessagingSpec => []WindowsInv
  BY WindowsInit, WindowsNext, PTL DEF MessagingSpec

\* Whatever is sent, asked, limited, reset and read, and whenever: no agent gets
\* more messages through in a window than its limit, and no pair more than the
\* breaker's threshold.
THEOREM LimitsAlwaysKept == MessagingSpec => []LimitsKept
  BY WindowsAlways, WindowsLimit, PTL

\* The breaker drops a message only if its pair has exchanged as many as the
\* threshold in the window.
THEOREM BreaksOnlyIfFull == MessagingSpec => BrokenOnlyIfFull
<1> DEFINE Full == \A m \in Messages :
              audit' = Append(audit, m) /\ delivered' = delivered =>
                  Cardinality({d \in Within(resetAt[PairOf(m)], PairWindow) :
                                  PairOf(delivered[d]) = PairOf(m)}) >= Threshold
<1>1. WindowsInv /\ [MessagingNext]_messagingVars => [Full]_messagingVars
  <2> SUFFICES ASSUME WindowsInv, MessagingNext, NEW m \in Messages,
                      audit' = Append(audit, m), delivered' = delivered
               PROVE  Cardinality({d \in Within(resetAt[PairOf(m)], PairWindow) :
                                      PairOf(delivered[d]) = PairOf(m)}) >= Threshold
    OBVIOUS
  <2> USE DEF WindowsInv
  <2>0. audit \in Seq(Messages) /\ delivered \in Seq(Messages)
    BY DEF MessagingTypes
  <2>1. audit' # audit /\ audit' # <<>>
    <3>1. Len(Append(audit, m)) = Len(audit) + 1 /\ Len(audit) \in Nat
      BY <2>0
    <3> QED
      BY <3>1
  <2>2. \A x \in Messages : delivered' # Append(delivered, x)
    <3>1. \A x \in Messages : Len(Append(delivered, x)) = Len(delivered) + 1 /\ Len(delivered) \in Nat
      BY <2>0
    <3> QED
      BY <3>1
  <2>3. PICK x \in Messages : Send(x)
    BY <2>1 DEF MessagingNext, Register, Deregister, AddPolicy, AddRole, RemovePolicy, Ask, SetRateLimit,
                Reset, GetCount, ClearInbox, ClearAudit, Tick
  <2>4. Break(x)
    BY <2>1, <2>2, <2>3 DEF Send, RefuseUnknown, RefuseRate, RefusePolicy, Deliver, messagingVars
  <2>5. x = m
    <3>1. Append(audit, x) = Append(audit, m)
      BY <2>4 DEF Break, Accept, Log
    <3> QED
      BY <2>0, <3>1
  <2> DEFINE p == PairOf(m)
             c == now - PairWindow
  <2>6. /\ p \in Pairs /\ now \in Nat /\ PairWindow \in Nat /\ Threshold \in Nat /\ resetAt[p] \in Nat
        /\ Times(counts[p], now) /\ counts[p] \in Seq(Nat)
    BY MessagingConstants DEF MessagingTypes
  <2>7. Len(Recent(counts[p], PairWindow)) >= Threshold
    BY <2>4, <2>5 DEF Break, PairFull
  <2>8. {d \in Within(resetAt[p], PairWindow) : PairOf(delivered[d]) = p}
          = Since(delivered, when, resetAt[p], Between(p), c)
    <3> HIDE DEF p
    <3> QED
      BY <2>6, WithinSince
  <2>9. c \in Int /\ c >= c
    BY <2>6
  <2>10. Cardinality(Since(delivered, when, resetAt[p], Between(p), c)) = CountAfter(counts[p], c)
    <3> HIDE DEF p
    <3> QED
      BY <2>6, <2>9 DEF PairsFollowed
  <2>11. Len(Recent(counts[p], PairWindow)) = CountAfter(counts[p], c)
    <3> HIDE DEF p
    <3> QED
      BY <2>6, KeptCounts
  <2> QED
    BY <2>7, <2>8, <2>10, <2>11
<1> QED
  BY <1>1, WindowsAlways, PTL DEF MessagingSpec, BrokenOnlyIfFull

----------------------------------------------------------------------------
(* The policies of a store *)

\* A policy under its id: those of a role ask for the role, and those that are
\* named for the secrets deny them.
InPlace(i, p) ==
    /\ i[1] \in Roles => p.conditions.role = i[1]
    /\ i[1] \in Roles \cup {"default"} /\ i[2] = "secrets" =>
          p = Policy("forbid", Star, "read", "File", "secrets/", Absent,
                     IF i[1] = "default" THEN Absent ELSE i[1])

PoliciesInPlace(policies) == \A i \in DOMAIN policies : InPlace(i, policies[i])

LEMMA NamedInPlace ==
    ASSUME NEW owner, NEW rows, \A r \in rows : InPlace(<<owner, r.name>>, r.policy)
    PROVE  PoliciesInPlace(Named(owner, rows))
<1> SUFFICES ASSUME NEW i \in {<<owner, r.name>> : r \in rows}
             PROVE  InPlace(i, (CHOOSE r \in rows : r.name = i[2]).policy)
  BY DEF Named, PoliciesInPlace
<1>1. PICK x \in rows : i = <<owner, x.name>>
  OBVIOUS
<1> DEFINE r == CHOOSE r \in rows : r.name = i[2]
<1>2. r \in rows /\ r.name = i[2]
  BY <1>1
<1>3. i = <<owner, r.name>>
  BY <1>1, <1>2
<1> HIDE DEF r
<1>4. InPlace(i, r.policy)
  BY <1>2, <1>3
<1> QED
  BY <1>4 DEF r

LEMMA WithInPlace ==
    ASSUME NEW policies, PoliciesInPlace(policies), NEW others, PoliciesInPlace(others)
    PROVE  PoliciesInPlace(With(policies, others))
BY DEF PoliciesInPlace, With

LEMMA DefaultsInPlace == PoliciesInPlace(DefaultPolicies)
<1> DEFINE rows == {Row("read", "permit", "read", "File", Star, Absent),
                    Row("write", "permit", "write", "File", "project/", Absent),
                    Row("secrets", "forbid", "read", "File", "secrets/", Absent),
                    Row("destructive", "forbid", "execute", "Command", "rm", Absent)}
<1>1. "default" \notin Roles
  BY MessagingAssumption
<1>2. \A r \in rows : InPlace(<<"default", r.name>>, r.policy)
  BY <1>1 DEF Row, InPlace
<1> HIDE DEF rows
<1>3. PoliciesInPlace(Named("default", rows))
  BY <1>2, NamedInPlace
<1> QED
  BY <1>3 DEF DefaultPolicies, rows

\* A row of a role: it asks for the role, and is the denial if it is named so.
RowOf(r, role) ==
    /\ r.policy.conditions.role = role
    /\ r.name = "secrets" => r = Row("secrets", "forbid", "read", "File", "secrets/", role)

LEMMA RoleInPlace ==
    ASSUME NEW role \in Roles
    PROVE  PoliciesInPlace(RolePolicies(role))
<1> DEFINE permit(name, action, type, resource) == Row(name, "permit", action, type, resource, role)
           all == {permit("read", "read", "File", Star),
                   permit("send", "send_message", "Message", Star),
                   Row("secrets", "forbid", "read", "File", "secrets/", role)}
           writers == IF role \in {"developer", "admin"}
                      THEN {permit("write", "write", "File", "project/")} ELSE {}
           special == CASE role = "admin"    -> {permit("agents", "manage", "Agent", Star),
                                                permit("policies", "manage", "Policy", Star)}
                        [] role = "monitor"  -> {permit("metrics", "read", "Metrics", Star),
                                                permit("audit", "read", "AuditLog", Star)}
                        [] role = "reviewer" -> {permit("review", "review", "Code", Star)}
                        [] OTHER             -> {}
<1>0. ASSUME NEW name, name # "secrets", NEW effect, NEW action, NEW type, NEW resource
      PROVE  RowOf(Row(name, effect, action, type, resource, role), role)
  BY <1>0 DEF RowOf, Row, Policy
<1>1. \A r \in all : RowOf(r, role)
  <2>1. RowOf(Row("secrets", "forbid", "read", "File", "secrets/", role), role)
    BY DEF RowOf, Row, Policy
  <2> QED
    BY <1>0, <2>1
<1>2. \A r \in writers : RowOf(r, role)
  BY <1>0
<1>3. \A r \in special : RowOf(r, role)
  <2>1. \A r \in {permit("agents", "manage", "Agent", Star), permit("policies", "manage", "Policy", Star)} :
            RowOf(r, role)
    BY <1>0
  <2>2. \A r \in {permit("metrics", "read", "Metrics", Star), permit("audit", "read", "AuditLog", Star)} :
            RowOf(r, role)
    BY <1>0
  <2>3. \A r \in {permit("review", "review", "Code", Star)} : RowOf(r, role)
    BY <1>0
  <2> HIDE DEF permit
  <2> QED
    BY <2>1, <2>2, <2>3
<1> DEFINE rows == all \cup writers \cup special
<1>4. RolePolicies(role) = Named(role, rows)
  BY DEF RolePolicies
<1>5. \A r \in rows : RowOf(r, role)
  <2> HIDE DEF all, writers, special
  <2> QED
    BY <1>1, <1>2, <1>3
<1> HIDE DEF rows
<1>6. ASSUME NEW r \in rows
      PROVE  InPlace(<<role, r.name>>, r.policy)
  <2>1. RowOf(r, role)
    BY <1>5
  <2>2. role # "default" /\ role \in Roles
    BY MessagingAssumption
  <2>3. r.policy.conditions.role = role
    BY <2>1 DEF RowOf
  <2>4. r.name = "secrets" => r.policy = Policy("forbid", Star, "read", "File", "secrets/", Absent, role)
    <3> SUFFICES ASSUME r.name = "secrets"
                 PROVE  r.policy = Policy("forbid", Star, "read", "File", "secrets/", Absent, role)
      OBVIOUS
    <3>1. r = Row("secrets", "forbid", "read", "File", "secrets/", role)
      BY <2>1 DEF RowOf
    <3> QED
      BY <3>1 DEF Row
  <2> QED
    BY <2>2, <2>3, <2>4 DEF InPlace
<1> QED
  BY <1>4, <1>6, NamedInPlace

PoliciesKept == PoliciesInPlace(store)

LEMMA PoliciesInit == MessagingInit => PoliciesKept
<1>1. PoliciesInPlace(<<>>)
  BY DEF PoliciesInPlace
<1> QED
  BY <1>1, DefaultsInPlace DEF MessagingInit, PoliciesKept

LEMMA PoliciesNext ==
    PoliciesKept /\ [MessagingNext]_messagingVars => PoliciesKept'
<1> SUFFICES ASSUME PoliciesInPlace(store), [MessagingNext]_messagingVars
             PROVE  PoliciesInPlace(store')
  BY DEF PoliciesKept
<1>1. ASSUME NEW i \in PolicyIds, NEW p \in Policies, AddPolicy(i, p)
      PROVE  PoliciesInPlace(store')
  <2>1. PoliciesInPlace([j \in {i} |-> p])
    <3>1. i[1] \notin Roles \cup {"default"}
      BY MessagingAssumption
    <3>2. InPlace(i, p)
      BY <3>1 DEF InPlace
    <3> QED
      BY <3>2 DEF PoliciesInPlace
  <2>2. store' = With(store, [j \in {i} |-> p])
    BY <1>1 DEF AddPolicy
  <2> QED
    BY <2>1, <2>2, WithInPlace
<1>2. ASSUME NEW role \in Roles, AddRole(role)
      PROVE  PoliciesInPlace(store')
  BY <1>2, RoleInPlace, WithInPlace DEF AddRole
<1>3. ASSUME NEW i, RemovePolicy(i)
      PROVE  PoliciesInPlace(store')
  <2>1. store' = [j \in DOMAIN store \ {i} |-> store[j]]
    BY <1>3 DEF RemovePolicy, Restrict
  <2> QED
    BY <2>1 DEF PoliciesInPlace
<1>4. CASE UNCHANGED store
  BY <1>4
<1>5. CASE UNCHANGED messagingVars
  BY <1>5 DEF messagingVars, engineVars
<1> QED
  BY <1>1, <1>2, <1>3, <1>4, <1>5
     DEF MessagingNext, Register, Deregister, Ask, SetRateLimit, Send, RefuseUnknown, RefuseRate, RefusePolicy,
         Break, Deliver, Accept, Reset, GetCount, ClearInbox, ClearAudit, Tick, messagingVars, engineVars

LEMMA PoliciesApart == PoliciesKept => RolesApart
<1> SUFFICES ASSUME PoliciesInPlace(store), NEW q \in Questions
             PROVE  LET others == {i \in DOMAIN store : i[1] \in Roles /\ i[1] # q.context.role}
                        denials == {<<i, "secrets">> : i \in {"default"} \cup ({q.context.role} \cap Roles)}
                    IN  /\ Permitted(store, q) = Permitted(Restrict(store, DOMAIN store \ others), q)
                        /\ q.action = "read" /\ q.type = "File" /\ q.resource = "secrets/"
                           /\ denials \cap DOMAIN store # {} => ~Permitted(store, q)
  BY DEF RolesApart, PoliciesKept
<1> DEFINE others == {i \in DOMAIN store : i[1] \in Roles /\ i[1] # q.context.role}
           denials == {<<i, "secrets">> : i \in {"default"} \cup ({q.context.role} \cap Roles)}
           rest == Restrict(store, DOMAIN store \ others)
<1>1. Permitted(store, q) = Permitted(rest, q)
  <2>1. ASSUME NEW i \in others
        PROVE  ~Matches(store[i], q)
    <3>1. i \in DOMAIN store /\ i[1] \in Roles /\ i[1] # q.context.role /\ i[1] # Absent
      BY MessagingAssumption
    <3>2. store[i].conditions.role = i[1]
      BY <3>1 DEF PoliciesInPlace, InPlace
    <3> QED
      BY <3>1, <3>2 DEF Matches
  <2>2. DOMAIN rest = DOMAIN store \ others /\ \A i \in DOMAIN rest : rest[i] = store[i]
    BY DEF Restrict
  <2> HIDE DEF rest, others
  <2>3. {i \in DOMAIN store : Matches(store[i], q)} = {i \in DOMAIN rest : Matches(rest[i], q)}
    BY <2>1, <2>2
  <2> DEFINE I == {i \in DOMAIN rest : Matches(rest[i], q)}
  <2>4. \A i \in I : rest[i] = store[i]
    BY <2>2
  <2> HIDE DEF I
  <2>5. {store[i].effect : i \in I} = {rest[i].effect : i \in I}
    BY <2>4
  <2> QED
    BY <2>3, <2>5 DEF Permitted, I
<1>2. ASSUME q.action = "read", q.type = "File", q.resource = "secrets/", denials \cap DOMAIN store # {}
      PROVE  ~Permitted(store, q)
  <2>1. PICK i \in denials : i \in DOMAIN store
    BY <1>2
  <2>2. PICK r \in {"default"} \cup ({q.context.role} \cap Roles) : i = <<r, "secrets">>
    BY <2>1
  <2>3. r = "default" \/ (r = q.context.role /\ r \in Roles)
    BY <2>2
  <2>4. store[i] = Policy("forbid", Star, "read", "File", "secrets/", Absent, IF r = "default" THEN Absent ELSE r)
    <3>1. i[1] = r /\ i[2] = "secrets"
      BY <2>2
    <3> QED
      BY <2>1, <2>3, <3>1 DEF PoliciesInPlace, InPlace
  <2>5. Matches(store[i], q) /\ store[i].effect = "forbid"
    BY <1>2, <2>3, <2>4 DEF Matches, Policy
  <2>6. "forbid" \in {store[j].effect : j \in {k \in DOMAIN store : Matches(store[k], q)}}
    BY <2>1, <2>5
  <2> QED
    BY <2>6 DEF Permitted
<1> QED
  BY <1>1, <1>2

\* Whatever is added and removed, roles stay apart and denied secrets stay
\* denied.
THEOREM RolesAlwaysApart == MessagingSpec => []RolesApart
<1>1. MessagingSpec => []PoliciesKept
  BY PoliciesInit, PoliciesNext, PTL DEF MessagingSpec
<1> QED
  BY <1>1, PoliciesApart, PTL

=============================================================================
