----------------------------- MODULE MCAgentTurn -----------------------------
EXTENDS AgentTurn, TLC

CONSTANTS t1, t2

Hook(name) == [hook |-> name, enabled_by |-> NoPath]
If(path, name) == [hook |-> name, enabled_by |-> path]
Options == [allow |-> NoList, deny |-> {}, extraction |-> FALSE, consolidation |-> FALSE]
Harness(hooks, allow) ==
    [hooks |-> hooks, deny |-> {"bash"}, allow |-> allow,
     paths |-> [on |-> "true", off |-> "false", gone |-> "missing"]]

\* No harness; a harness that allows a tool and denies it; one with the hooks
\* that bring their own lists, and spans; two that are not valid.
MCAgents ==
    {[harness |-> NoHarness, options |-> [Options EXCEPT !.allow = {"read"}]],
     [harness |-> Harness(<<Hook("AuditHook"), Hook("ModelMetricsHook"), Hook("ToolPolicyHook"), Hook("ApprovalHook")>>,
                          {"read", "bash"}), options |-> Options],
     [harness |-> Harness(<<Hook("OTELSpanHook"), Hook("SessionRecordingHook"), If("off", "BusinessMetricsHook"),
                            If("on", "ToolPolicyHook"), Hook("SecurityGuardrailHook")>>, {}), options |-> Options],
     [harness |-> Harness(<<Hook("AuditHook"), Hook("AuditHook")>>, {}), options |-> Options],
     [harness |-> Harness(<<If("gone", "ToolPolicyHook")>>, {}), options |-> Options]}

MCCallIds == {<<t1, 1>>, <<t1, 2>>, <<t2, 1>>}
MCToolUses == {[tool |-> "skills", input |-> [path |-> 1]], [tool |-> "read", input |-> [path |-> 5]],
               [tool |-> "bash", input |-> <<>>]}
MCAllowedTools == [reader |-> {"skills", "read"}, shell |-> {"skills", "bash"}]
MCRuleset ==
    LET range == <<[param |-> "path", type |-> "range", min |-> 0, max |-> 3]>>
    IN  [skills |-> range, read |-> range]
=============================================================================
