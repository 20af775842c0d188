------------------------------ MODULE ToolHooks ------------------------------
(***************************************************************************)
(* Which hooks a FoundationAgent is given by its harness, and what those   *)
(* that may refuse a tool call say of it: ToolPolicyHook, ApprovalHook and *)
(* SecurityGuardrailHook.                                                  *)
(***************************************************************************)
EXTENDS Integers, Sequences, FiniteSets, SequencesExt

CONSTANTS NoHarness,   \* harness=None
          NoPath,      \* a hook without enabled_by
          NoList,      \* an allowlist, or a skill's allowed_tools, that is None
          NoSkill,     \* no skill is activated
          NotNumeric   \* a parameter that float() refuses

KnownHooks == {"AuditHook", "TelemetryHook", "GuardrailsHook", "SoulSystemHook", "MemoryHook", "ModelMetricsHook",
    "ToolPolicyHook", "ApprovalHook", "BusinessMetricsHook", "HallucinationDetectorHook", "OTELSpanHook",
    "SessionRecordingHook", "MemoryExtractionHook", "ConsolidationHook", "AIDLCTelemetryHook", "SecurityGuardrailHook"}

AlwaysOnHooks == <<"SoulSystemHook", "AuditHook", "GuardrailsHook", "TelemetryHook">>

\* A hook is registered as [hook, enabled_by]; paths says what an enabled_by
\* path leads to on the harness: "true", "false" or "missing".
HookNames(h) == {h.hooks[i].hook : i \in DOMAIN h.hooks}

\* DomainHarness.validate: its hard errors, on which the agent is not made.
ValidHarness(h) ==
    /\ HookNames(h) \subseteq KnownHooks
    /\ Cardinality(HookNames(h)) = Len(h.hooks)
    /\ \A i \in DOMAIN h.hooks : h.hooks[i].enabled_by # NoPath => h.paths[h.hooks[i].enabled_by] # "missing"

IsHookEnabled(cfg, h) == cfg.enabled_by = NoPath \/ h.paths[cfg.enabled_by] = "true"

\* Without a harness the agent has ten hooks, and two more if it is asked to.
LegacyHooks(options) ==
    <<"SoulSystemHook", "MemoryHook", "AuditHook", "GuardrailsHook", "TelemetryHook", "ModelMetricsHook",
      "ToolPolicyHook", "BusinessMetricsHook", "HallucinationDetectorHook", "SessionRecordingHook">>
    \o (IF options.extraction THEN <<"MemoryExtractionHook">> ELSE <<>>)
    \o (IF options.consolidation THEN <<"ConsolidationHook">> ELSE <<>>)

HarnessHooks(h) ==
    LET Loaded(cfg) == cfg.hook \notin ToSet(AlwaysOnHooks) /\ IsHookEnabled(cfg, h)
        loaded == SelectSeq(h.hooks, Loaded)
    IN  AlwaysOnHooks \o [i \in DOMAIN loaded |-> loaded[i].hook]

HookRegistry(h, options) == IF h = NoHarness THEN LegacyHooks(options) ELSE HarnessHooks(h)

\* The lists of the harness, unless they are empty, go before the arguments.
ToolAllowlist(h, options) == IF h # NoHarness /\ h.allow # {} THEN h.allow ELSE options.allow
ToolDenylist(h, options) == IF h # NoHarness /\ h.deny # {} THEN h.deny ELSE options.deny

-----------------------------------------------------------------------------
\* ToolPolicyHook.on_before_tool_call: the denylist goes before the allowlist;
\* in the mutated form it is the other way round.
PolicyAllowsFirst(tool, allow, deny) == IF allow # NoList THEN tool \notin allow ELSE tool \in deny

PolicyRefuses(tool, allow, deny) == tool \in deny \/ (allow # NoList /\ tool \notin allow)

\* ApprovalHook: approval is not asked of anybody; the default decides.
ApprovalRefuses(tool, required, default) == tool \in required /\ default # "allow"

\* Constraint.validate, on values whose text is what they are compared by; a
\* pattern stands for the set of values that it matches.
Violates(c, value) ==
    CASE c.type \in {"allowlist", "regex"} -> c.values # NoList /\ value \notin c.values
      [] c.type = "denylist"  -> c.values # NoList /\ value \in c.values
      [] c.type = "range"     -> value = NotNumeric \/ value < c.min \/ value > c.max
      [] OTHER                -> FALSE

\* SecurityGuardrailHook.on_before_tool_call: the harness's denylist, what the
\* activated skill allows, and the constraints on the parameters that are given.
SecurityRefuses(tool, input, skill, deny, allowedTools, ruleset) ==
    \/ tool \in deny
    \/ /\ skill \in DOMAIN allowedTools
       /\ allowedTools[skill] # NoList
       /\ tool \notin allowedTools[skill]
    \/ /\ tool \in DOMAIN ruleset
       /\ \E i \in DOMAIN ruleset[tool] :
             LET c == ruleset[tool][i]
             IN  c.param \in DOMAIN input /\ Violates(c, input[c.param])
=============================================================================
