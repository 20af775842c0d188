----------------------------- MODULE QualityGate -----------------------------
(***************************************************************************)
(* An evaluation session and the handoff of the session to a human when it *)
(* is escalated (HandoffAgent.create_from_evaluation).                     *)
(***************************************************************************)
EXTENDS Evaluation, Handoff

gateVars == <<evalVars, handoffVars>>

GateInit == EvalInit /\ HandoffInit

\* The score a request reports: that of the last iteration, 0.0 if there is none.
LastScore == IF iterations = <<>> THEN [sum |-> 0, weight |-> 1]
             ELSE OverallScore(kind, iterations[Len(iterations)].scores)

LastOf(seq) == seq[Len(seq)]

\* create_from_evaluation: the request takes the last evaluation with it.
HandOver(r) ==
    /\ finalStatus = "escalated"
    /\ Create(r, [score |-> LastScore, count |-> Len(iterations),
                  failed |-> IF iterations = <<>> THEN {}
                             ELSE {s.id : s \in {LastOf(iterations).scores[i] : i \in
                                       {j \in DOMAIN LastOf(iterations).scores : ~LastOf(iterations).scores[j].passed}}}])
    /\ UNCHANGED evalVars

Human == \E r \in Requests : (Escalate(r) \/ CheckStatus(r) \/ \E d \in Decisions : Resolve(r, d))
                             /\ UNCHANGED evalVars

GateNext == \/ EvalNext /\ UNCHANGED handoffVars
            \/ \E r \in Requests : HandOver(r)
            \/ Human

GateSpec == GateInit /\ [][GateNext]_gateVars /\ WF_gateVars(EvalNext /\ UNCHANGED handoffVars)

-----------------------------------------------------------------------------
\* What a deterministic check found stands: whatever the evaluating model
\* wrote of the item, however often, the result has only the check's score.
DeterministicStands ==
    \A i \in DOMAIN iterations :
        LET it == iterations[i]
        IN  \A id \in DOMAIN it.det :
              /\ \E j \in DOMAIN it.scores : it.scores[j].id = id
              /\ \A j \in DOMAIN it.scores : it.scores[j].id = id => it.scores[j] = it.det[id]

\* An output passes by its rubric: where no item is scored twice, an output
\* that is approved has a weighted mean over ALL items of the rubric, an item
\* that the model passed over counting as zero, of at least the threshold.
RubricSum(it) ==
    LET Of(id) == LET js == {j \in DOMAIN it.scores : it.scores[j].id = id}
                  IN  IF js = {} THEN 0 ELSE it.scores[CHOOSE j \in js : TRUE].score
    IN  Total([i \in DOMAIN Rubric(kind) |->
                   (Of(Rubric(kind)[i].id) - OverallThreshold) * Rubric(kind)[i].weight])

ApprovedByRubric ==
    \A i \in DOMAIN iterations :
        LET it == iterations[i]
        IN  Cardinality({it.scores[j].id : j \in DOMAIN it.scores}) = Len(it.scores)
              => (it.passed <=> RubricSum(it) >= 0)

\* A specialist that is scored by the rules is never asked to revise without
\* being told what is wrong: when the mean fails, some item with a feedback does.
RevisionGuided ==
    ~useLLM => \A i \in DOMAIN iterations : iterations[i].revised => iterations[i].feedback # {}

\* A human decides on what failed, once it has failed: a request made from a
\* session reports a score below the threshold after every iteration that was
\* allowed; and a request shows as decided only as its last decision says.
HumanDecides ==
    \A r \in Requests : status[r] # NoRequest =>
        /\ finalStatus = "escalated"
        /\ basis[r].count = IF maxIter < 1 THEN 0 ELSE maxIter
        /\ basis[r].score.sum < OverallThreshold * basis[r].score.weight
        /\ status[r] \in Decided => responses[r] # NoResponse /\ responses[r].status = status[r]

\* Every session ends, approved, escalated or with an exception.
SessionEnds == <>(finalStatus # "in_progress")
=============================================================================
