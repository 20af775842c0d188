----------------------------- MODULE Evaluation -----------------------------
(***************************************************************************)
(* The evaluators and their reflect-refine loop (plato/evaluator).  One    *)
(* session of evaluate_with_refinement: a specialist writes an output, an  *)
(* evaluator scores it against a rubric, and the specialist revises until  *)
(* the output passes or the iterations are used up.                        *)
(*                                                                         *)
(* An output is a function from features to counts: what the heuristics    *)
(* and the deterministic checks look for in the text.  A reply of the      *)
(* evaluating model is a sequence of sections.  Scores are whole numbers   *)
(* of 1/8400, which represents every score of the heuristics exactly;      *)
(* weights are doubled.                                                    *)
(***************************************************************************)
EXTENDS Integers, Sequences, FiniteSets, SequencesExt, ListFunctions

CONSTANTS
    Outputs,      \* kind of evaluator -> the outputs its specialist may write
    Replies,      \* kind of evaluator -> the replies of the evaluating model
    Near,         \* title of a section -> ids it contains or is contained in
    Overrides,    \* values of the argument max_iterations (None is 0: both are false)
    NoItem,       \* a title that is near no item
    NoScore,      \* a section without "Score:"
    BadNumber     \* a "Score:" that float() rejects, as "0.8."

VARIABLES
    kind,         \* which evaluator
    useLLM,       \* whether an evaluator_agent was given
    maxIter,      \* max_iterations or self.rubric.max_iterations
    phase,        \* what the loop does next
    output,       \* specialist_output
    iterations,   \* session.iterations
    finalStatus   \* session.final_status; "raised" when the call raised

evalVars == <<kind, useLLM, maxIter, phase, output, iterations, finalStatus>>

Kinds == {"design", "code_review", "scaffold", "deployment"}
FULL == 8400
Pct(p) == p * 84
OverallThreshold == Pct(70)
DefaultIterations == 3

\* What the heuristics and the checks look for in an output.
Features ==
    [design |-> {"checks", "file_refs", "line_refs", "fences", "actions", "blocker", "warning", "info", "indented"},
     code_review |-> {"files", "line_refs", "security", "fences", "fixes", "critical", "important", "suggestion",
                      "linting"},
     scaffold |-> {"pyproject", "imports", "deps", "tests", "asserts", "dockerfile", "health", "env",
                   "expected_files", "sigterm", "stdout", "nonroot", "setup_py"},
     deployment |-> {"star_action", "star_resource", "scoped", "multistage", "nonroot", "healthcheck", "layers",
                     "artifacts", "secrets", "placeholders", "template", "cdk_imports", "stack", "constructs",
                     "policies", "bad_policies"}]

Item(id, w, t) == [id |-> id, weight |-> w, threshold |-> Pct(t)]

\* default_rubric of the four evaluators.
DesignRubric ==
    <<Item("completeness", 3, 70), Item("accuracy", 4, 80), Item("actionability", 3, 70),
      Item("severity_calibration", 2, 70), Item("evidence_quality", 2, 60)>>
CodeReviewRubric ==
    <<Item("coverage", 3, 70), Item("accuracy", 4, 80), Item("security_depth", 3, 70),
      Item("fix_quality", 2, 70), Item("prioritization", 2, 70)>>
ScaffoldRubric ==
    <<Item("runnable", 4, 80), Item("tests_pass", 3, 70), Item("readiness", 4, 70),
      Item("completeness", 2, 70), Item("best_practices", 2, 70)>>
DeployRubric ==
    <<Item("iam_least_privilege", 4, 80), Item("dockerfile_quality", 3, 70),
      Item("config_completeness", 2, 70), Item("env_safety", 3, 80), Item("cdk_correctness", 2, 70)>>

Rubric(k) == CASE k = "design" -> DesignRubric [] k = "code_review" -> CodeReviewRubric
               [] k = "scaffold" -> ScaffoldRubric [] k = "deployment" -> DeployRubric

ItemIds(k) == {Rubric(k)[i].id : i \in DOMAIN Rubric(k)}
ItemOf(k, id) == CHOOSE item \in {Rubric(k)[i] : i \in DOMAIN Rubric(k)} : item.id = id

\* A section of a reply: its title, its score, and whether it has feedback.
Sections(k) == [title : ItemIds(k) \cup DOMAIN Near, score : Nat \cup {NoScore, BadNumber}, feedback : BOOLEAN]

ASSUME EvaluationAssumption ==
    /\ \A k \in Kinds : Outputs[k] \subseteq [Features[k] -> Nat]
    /\ \A k \in Kinds : Replies[k] \subseteq Seq(Sections(k))
    /\ \A k \in Kinds : NoItem \notin ItemIds(k)
    /\ {NoScore, BadNumber} \cap Int = {}
    /\ Overrides \subseteq Int

-----------------------------------------------------------------------------
(* The heuristics: a score for each item from what the output mentions.    *)

Has(o, f) == o[f] > 0
If(b, p) == IF b THEN Pct(p) ELSE 0
Ratio(n, d) == IF n >= d THEN FULL ELSE (n * FULL) \div d    \* min(1.0, n / d)

DesignHeuristic(o) ==
    [completeness |-> Ratio(o["checks"], 12),
     accuracy |-> (IF Has(o, "file_refs") THEN Pct(50) ELSE Pct(20)) + If(Has(o, "line_refs"), 40)
                  + If(Has(o, "fences"), 10),
     actionability |-> Ratio(o["actions"], 5),
     severity_calibration |-> If(Has(o, "blocker"), 40) + If(Has(o, "warning"), 30) + If(Has(o, "info"), 30),
     evidence_quality |-> If(Has(o, "line_refs"), 50)
                          + (IF Has(o, "fences") \/ Has(o, "indented") THEN Pct(50) ELSE Pct(20))]

CodeReviewHeuristic(o) ==
    LET half == Pct(50)
        fixes == Ratio(o["fixes"], 3)
    IN  [coverage |-> Ratio(o["files"], 3),
         accuracy |-> Ratio(o["line_refs"], 3),
         security_depth |-> Ratio(o["security"], 3),
         fix_quality |-> (IF o["fences"] >= 2 THEN half ELSE Pct(20)) + (IF fixes < half THEN fixes ELSE half),
         prioritization |-> If(Has(o, "critical"), 40) + If(Has(o, "important"), 30) + If(Has(o, "suggestion"), 30)]

ScaffoldHeuristic(o) ==
    [runnable |-> If(Has(o, "pyproject"), 40) + If(Has(o, "imports"), 30) + If(Has(o, "deps"), 30),
     tests_pass |-> If(Has(o, "tests"), 50) + If(Has(o, "asserts"), 50),
     readiness |-> If(Has(o, "dockerfile"), 35) + If(Has(o, "health"), 35) + If(Has(o, "env"), 30),
     completeness |-> Ratio(o["expected_files"], 7),
     best_practices |-> If(Has(o, "sigterm"), 34) + If(Has(o, "stdout"), 33) + If(Has(o, "nonroot"), 33)]

DeployHeuristic(o) ==
    [iam_least_privilege |-> If(~Has(o, "star_action"), 30) + If(~Has(o, "star_resource"), 30)
                             + If(Has(o, "scoped"), 40),
     dockerfile_quality |-> If(Has(o, "multistage"), 25) + If(Has(o, "nonroot"), 25)
                            + If(Has(o, "healthcheck"), 25) + If(Has(o, "layers"), 25),
     config_completeness |-> Ratio(o["artifacts"], 6),
     env_safety |-> If(~Has(o, "secrets"), 40) + If(Has(o, "placeholders"), 30) + If(Has(o, "template"), 30),
     cdk_correctness |-> If(Has(o, "cdk_imports"), 40) + (IF Has(o, "stack") THEN Pct(30) ELSE Pct(10))
                         + If(Has(o, "constructs"), 30)]

Heuristic(k, o) ==
    CASE k = "design" -> DesignHeuristic(o) [] k = "code_review" -> CodeReviewHeuristic(o)
      [] k = "scaffold" -> ScaffoldHeuristic(o) [] k = "deployment" -> DeployHeuristic(o)

\* An ItemScore; "feedback" says whether its feedback is not empty.
ItemScore(id, s, pass, fb) == [id |-> id, score |-> s, passed |-> pass, feedback |-> fb]

\* _evaluate_heuristic: one score per item, with feedback where it does not pass.
HeuristicScores(k, o) ==
    LET score == Heuristic(k, o)
        Judge(item) == ItemScore(item.id, score[item.id], score[item.id] >= item.threshold,
                                 score[item.id] < item.threshold)
    IN  [i \in DOMAIN Rubric(k) |-> Judge(Rubric(k)[i])]

-----------------------------------------------------------------------------
(* Deterministic checks: id of an item -> its score.  "tool" is whether    *)
(* ruff, mypy or pip can be run at this moment.                            *)

NoChecks == [id \in {} |-> 0]

ReviewChecks(o, tool) ==
    IF ~tool THEN NoChecks
    ELSE LET s == IF Has(o, "linting") THEN Pct(90) ELSE Pct(60)
         IN  [accuracy |-> ItemScore("accuracy", s, s >= Pct(80), s < Pct(80))]

ScaffoldChecks(o, tool) ==
    IF tool /\ (Has(o, "pyproject") \/ Has(o, "setup_py"))
    THEN [runnable |-> ItemScore("runnable", Pct(70), FALSE, TRUE)]
    ELSE NoChecks

DeployChecks(o) ==
    IF ~Has(o, "policies") THEN NoChecks
    ELSE LET s == IF Has(o, "bad_policies") THEN Pct(20) ELSE Pct(70)
         IN  [iam_least_privilege |-> ItemScore("iam_least_privilege", s, FALSE, TRUE)]

DeterministicChecks(k, o, tool) ==
    CASE k = "code_review" -> ReviewChecks(o, tool) [] k = "scaffold" -> ScaffoldChecks(o, tool)
      [] k = "deployment" -> DeployChecks(o) [] k = "design" -> NoChecks

\* Mutant: a deterministic score is used only where the model gave none.
MergeMissing(scores, det) ==
    LET ids == {scores[i].id : i \in DOMAIN scores}
    IN  scores \o SetToSeq({det[id] : id \in DOMAIN det \ ids})

\* Deterministic scores replace every other score of the same item, and are
\* added where there is none.
Merge(scores, det) ==
    LET ids == {scores[i].id : i \in DOMAIN scores}
    IN  [i \in DOMAIN scores |-> IF scores[i].id \in DOMAIN det THEN det[scores[i].id] ELSE scores[i]]
        \o SetToSeq({det[id] : id \in DOMAIN det \ ids})

-----------------------------------------------------------------------------
(* Parsing of a reply.  The order in which the code walks over the set of  *)
(* the rubric's ids is not fixed: a title near several may match any.      *)

\* The item a title is taken for when it is not the id of one: each choice is
\* one order of the rubric's ids.
Guesses(k) ==
    {g \in [DOMAIN Near -> ItemIds(k) \cup {NoItem}] :
        \A t \in DOMAIN Near : IF Near[t] \cap ItemIds(k) = {} THEN g[t] = NoItem ELSE g[t] \in Near[t]}

MatchedId(k, title, guess) == IF title \in ItemIds(k) THEN title ELSE guess[title]

Clamp(s) == IF s = NoScore THEN 0 ELSE IF s > FULL THEN FULL ELSE s

\* The sections that are about an item, with its id for a title.
Matched(k, reply, guess) ==
    Among([i \in DOMAIN reply |-> [reply[i] EXCEPT !.title = MatchedId(k, reply[i].title, guess)]],
          [title : ItemIds(k), score : Int \cup {NoScore, BadNumber}, feedback : BOOLEAN])

\* Mutant: an item without a section gets no score at all.
ParseGiven(k, matched) ==
    LET Judge(s) == ItemScore(s.title, Clamp(s.score), Clamp(s.score) >= ItemOf(k, s.title).threshold, s.feedback)
    IN  [i \in DOMAIN matched |-> Judge(matched[i])]

\* One score per matched section, and a zero for every item that has none.
ParseReply(k, matched) ==
    LET Judge(s) == ItemScore(s.title, Clamp(s.score), Clamp(s.score) >= ItemOf(k, s.title).threshold, s.feedback)
        scored == {matched[i].title : i \in DOMAIN matched}
        silent == Among(Rubric(k), {item \in ToSet(Rubric(k)) : item.id \notin scored})
    IN  [i \in DOMAIN matched |-> Judge(matched[i])]
        \o [i \in DOMAIN silent |-> ItemScore(silent[i].id, 0, FALSE, TRUE)]

\* compute_overall_score: the weighted sum and the total weight, not divided.
OverallScore(k, scores) ==
    LET weight == [i \in DOMAIN scores |-> ItemOf(k, scores[i].id).weight]
    IN  [sum |-> Total([i \in DOMAIN scores |-> scores[i].score * weight[i]]), weight |-> Total(weight)]

\* build_result
Passes(k, scores) ==
    LET overall == OverallScore(k, scores)
    IN  IF overall.weight = 0 THEN 0 >= OverallThreshold ELSE overall.sum >= OverallThreshold * overall.weight

\* Mutant: only the items without any score are named.
FeedbackOfMissing(scores) == {scores[i].id : i \in {j \in DOMAIN scores : scores[j].score = 0}}

\* aggregate_feedback: the items named to the specialist.
FeedbackItems(scores) ==
    {scores[i].id : i \in {j \in DOMAIN scores : ~scores[j].passed /\ scores[j].feedback}}

-----------------------------------------------------------------------------
EvalInit ==
    /\ kind \in Kinds
    /\ useLLM \in BOOLEAN
    /\ \E m \in Overrides : maxIter = IF m = 0 THEN DefaultIterations ELSE m
    /\ phase = "draft"
    /\ output = <<>>
    /\ iterations = <<>>
    /\ finalStatus = "in_progress"

\* Mutant: a loop without iterations leaves the status as it is.
WriteUnsettled ==
    /\ phase \in {"draft", "revise"}
    /\ output' \in Outputs[kind]
    /\ phase' = IF maxIter < 1 THEN "done" ELSE "evaluate"
    /\ UNCHANGED <<kind, useLLM, maxIter, iterations, finalStatus>>

\* specialist.run: the first output, or a revision.  A number of iterations
\* below one ends the loop before it has begun.
Write ==
    /\ phase \in {"draft", "revise"}
    /\ output' \in Outputs[kind]
    /\ IF maxIter < 1 THEN phase' = "done" /\ finalStatus' = "escalated"
                      ELSE phase' = "evaluate" /\ UNCHANGED finalStatus
    /\ UNCHANGED <<kind, useLLM, maxIter, iterations>>

\* The specialist or the evaluating model raises; nothing catches it.
AgentRaises ==
    /\ phase # "done"
    /\ phase = "evaluate" => useLLM
    /\ phase' = "done"
    /\ finalStatus' = "raised"
    /\ UNCHANGED <<kind, useLLM, maxIter, output, iterations>>

\* Mutant: the loop stops one iteration early.
ConcludeEarly(scores, det) ==
    LET passed == Passes(kind, scores)
        more == Len(iterations) + 2 < maxIter
    IN  /\ iterations' = Append(iterations,
               [output |-> output, scores |-> scores, det |-> det, passed |-> passed,
                feedback |-> IF passed THEN {} ELSE FeedbackItems(scores),
                revised |-> ~passed /\ more])
        /\ finalStatus' = IF passed THEN "approved" ELSE IF more THEN finalStatus ELSE "escalated"
        /\ phase' = IF ~passed /\ more THEN "revise" ELSE "done"
        /\ UNCHANGED <<kind, useLLM, maxIter, output>>

\* What the loop does with the scores of one evaluation.
Conclude(scores, det) ==
    LET passed == Passes(kind, scores)
        more == Len(iterations) + 1 < maxIter
    IN  /\ iterations' = Append(iterations,
               [output |-> output, scores |-> scores, det |-> det, passed |-> passed,
                feedback |-> IF passed THEN {} ELSE FeedbackItems(scores),
                revised |-> ~passed /\ more])
        /\ finalStatus' = IF passed THEN "approved" ELSE IF more THEN finalStatus ELSE "escalated"
        /\ phase' = IF ~passed /\ more THEN "revise" ELSE "done"
        /\ UNCHANGED <<kind, useLLM, maxIter, output>>

\* evaluate_once without an evaluating model.
EvaluateByRules ==
    /\ phase = "evaluate" /\ ~useLLM
    /\ \E tool \in BOOLEAN :
          LET det == DeterministicChecks(kind, output, tool)
          IN  Conclude(Merge(HeuristicScores(kind, output), det), det)

\* evaluate_once with the reply of an evaluating model.  float() raises on a
\* score as "0.8.", and nothing catches it.
EvaluateByModel ==
    /\ phase = "evaluate" /\ useLLM
    /\ \E tool \in BOOLEAN, reply \in Replies[kind], guess \in Guesses(kind) :
          LET matched == Matched(kind, reply, guess)
              det == DeterministicChecks(kind, output, tool)
          IN  IF \E i \in DOMAIN matched : matched[i].score = BadNumber
              THEN /\ phase' = "done"
                   /\ finalStatus' = "raised"
                   /\ UNCHANGED <<kind, useLLM, maxIter, output, iterations>>
              ELSE Conclude(Merge(ParseReply(kind, matched), det), det)

EvalNext == Write \/ AgentRaises \/ EvaluateByRules \/ EvaluateByModel
=============================================================================
