---------------------------- MODULE MCQualityGate ----------------------------
EXTENDS QualityGate

CONSTANT r1

Off(fs) == [f \in fs |-> 0]

\* Per kind: a poor output, and one that is close to the threshold or that a
\* deterministic check contradicts.
MCOutputs ==
    [design |->
       {[Off(Features.design) EXCEPT !["checks"] = 12, !["file_refs"] = 1, !["actions"] = 4, !["blocker"] = 1, !["info"] = 1],
        [Off(Features.design) EXCEPT !["checks"] = 9, !["file_refs"] = 1, !["line_refs"] = 1, !["actions"] = 3,
                                    !["blocker"] = 1, !["warning"] = 1]},
     code_review |->
       {[Off(Features.code_review) EXCEPT !["files"] = 3, !["line_refs"] = 2, !["security"] = 2, !["fences"] = 2, !["fixes"] = 1,
                                    !["critical"] = 1, !["suggestion"] = 1],
        [Off(Features.code_review) EXCEPT !["files"] = 3, !["security"] = 3, !["fixes"] = 2, !["linting"] = 1,
                                    !["critical"] = 1, !["important"] = 1]},
     scaffold |->
       {[Off(Features.scaffold) EXCEPT !["imports"] = 1, !["setup_py"] = 1],
        [Off(Features.scaffold) EXCEPT !["pyproject"] = 1, !["imports"] = 1, !["deps"] = 1, !["tests"] = 1, !["dockerfile"] = 1,
              !["health"] = 1, !["expected_files"] = 5, !["stdout"] = 1, !["nonroot"] = 1]},
     deployment |->
       {[Off(Features.deployment) EXCEPT !["scoped"] = 1, !["multistage"] = 1, !["nonroot"] = 1, !["healthcheck"] = 1,
              !["artifacts"] = 5, !["placeholders"] = 1, !["template"] = 1, !["cdk_imports"] = 1, !["stack"] = 1,
              !["policies"] = 1],
        [Off(Features.deployment) EXCEPT !["scoped"] = 1, !["multistage"] = 1, !["artifacts"] = 6, !["policies"] = 1,
              !["bad_policies"] = 1, !["template"] = 1]}]

Section(t, s, fb) == [title |-> t, score |-> s, feedback |-> fb]
Uniform(ids, s, fb) == LET seq == SetToSeq(ids) IN [i \in DOMAIN seq |-> Section(seq[i], s, fb)]

\* Per kind: every item with a good score and one item left out; every item
\* bad without feedback; one item named a second time, near two of them; a
\* score that cannot be read.
MCReplies ==
    [k \in Kinds |->
        LET ids == ItemIds(k)
            one == CHOOSE id \in ids : TRUE
        IN  {Uniform(ids \ {one}, Pct(90), FALSE),
             Uniform(ids, Pct(60), FALSE),
             Uniform(ids, Pct(72), TRUE) \o <<Section("quality", 10 * FULL, FALSE), Section("notes", NoScore, FALSE)>>,
             <<Section(one, BadNumber, FALSE)>>}]

\* "quality" is contained in evidence_quality, fix_quality and
\* dockerfile_quality, "completeness" contains or is one of the ids.
MCNear == [quality |-> {"evidence_quality", "fix_quality", "dockerfile_quality", "completeness"}, notes |-> {}]

MCOverrides == {-1, 0, 1}
=============================================================================
