------------------------------ MODULE AgentTurn ------------------------------
(***************************************************************************)
(* The turns of one FoundationAgent as its hooks see them.  A turn runs on *)
(* a Strands agent: the cached one, or one made for a stream.  Strands     *)
(* calls the model and then, one beside the other, the tools the model     *)
(* asks for, and raises an event before and after each, which the          *)
(* callbacks of all hooks get.  One event is one step.                     *)
(* The hooks belong to the FoundationAgent and not to a turn: turns that   *)
(* overlap, on two Strands agents or, after a lost stream, on one, share   *)
(* what the hooks keep.                                                    *)
(***************************************************************************)
EXTENDS ToolHooks

CONSTANTS Turns,         \* invocations of the agent
          CallIds,       \* the tool uses of the turns, <<turn, toolUseId>>
          ToolUses,      \* what the model can ask for: [tool, input]
          Guarded,       \* the tools whose approval may be asked for and given up
          Agents,        \* the [harness, options] the agent can be made from
          AllowedTools,  \* per skill, the allowed_tools of its SKILL.md
          Ruleset,       \* the parameter constraints of the guardrail
          SkillTool,     \* the tool that activates a skill
          Watched,       \* the tools whose output HallucinationDetectorHook keeps
          NoTurn

ASSUME TurnAssumption ==
    /\ \A c \in CallIds : c[1] \in Turns
    /\ CallIds \cap Turns = {} /\ NoTurn \notin Turns

VARIABLES agent,      \* the harness, the options and the registry of hooks
          cached, on, \* _agent, and the Strands agent of each turn: the turn it was built for
          skill,      \* per Strands agent, the skill that was activated last
          required,   \* ApprovalHook._required_tools
          waived,     \* history: the calls for which, since the model asked for them, no approval was needed once
          phase, calls,  \* Strands: where each turn is, its tool calls
          decisions,  \* SecurityGuardrailHook: what its audit logger said of each call
          audit, telemetry, recording, spans, models, business, captured,  \* the other hooks
          overlapped  \* two turns have run at once

books == <<audit, telemetry, recording, spans, models, business, captured>>
strands == <<cached, on, skill>>
approvals == <<required, waived>>
vars == <<agent, strands, approvals, phase, calls, decisions, books, overlapped>>

Has(hook) == hook \in ToSet(agent.hooks)
Made == {c \in CallIds : calls[c].state # "none"}
NoCall == [state |-> "none"]
NoInvocation == [turn |-> NoTurn, tools |-> 0]
Running(t) == phase[t] \notin {"idle", "ended"}

Init ==
    /\ \E a \in Agents : /\ a.harness # NoHarness => ValidHarness(a.harness)
                         /\ agent = [harness |-> a.harness, options |-> a.options,
                                     hooks |-> HookRegistry(a.harness, a.options)]
    /\ cached = NoTurn /\ on = [t \in Turns |-> NoTurn] /\ skill = [t \in Turns |-> NoSkill]
    /\ required = {} /\ waived = {} /\ decisions = {}
    /\ phase = [t \in Turns |-> "idle"] /\ calls = [c \in CallIds |-> NoCall]
    /\ audit = {} /\ captured = {}
    /\ telemetry = [current |-> NoInvocation, invocations |-> {}, pending |-> {}, calls |-> {}]
    /\ recording = [pending |-> {}, calls |-> {}, ends |-> 0]
    /\ spans = [root |-> NoTurn, active |-> {}, ended |-> {}]
    /\ models = [counter |-> 0, callId |-> [t \in Turns |-> 0], pending |-> {}, history |-> {}]
    /\ business = [started |-> 0, completed |-> 0, depth |-> 0]
    /\ overlapped = FALSE

-----------------------------------------------------------------------------
\* BeforeInvocationEvent: the telemetry begins an invocation and drops the one
\* that it may still have.  In the mutated form the session's calls count.
TelemetryBeginsSession(t) == [turn |-> t, tools |-> Cardinality(telemetry.calls)]

TelemetryBegins(t) == [turn |-> t, tools |-> 0]

RootSpanBegins(t) == IF Has("OTELSpanHook") THEN [spans EXCEPT !.root = t] ELSE spans

BusinessBegins == IF Has("BusinessMetricsHook") THEN [business EXCEPT !.started = @ + 1] ELSE business

BeforeInvocation(t) ==
    /\ phase' = [phase EXCEPT ![t] = "model"]
    /\ telemetry' = [telemetry EXCEPT !.current = TelemetryBegins(t)]
    /\ spans' = RootSpanBegins(t)
    /\ business' = BusinessBegins
    /\ overlapped' = (overlapped \/ \E u \in Turns : Running(u))
    /\ UNCHANGED <<agent, skill, approvals, calls, decisions, audit, recording, models, captured>>

\* invoke and invoke_streaming use the cached Strands agent and build it first
\* if there is none.
Invoke(t) ==
    /\ phase[t] = "idle"
    /\ cached' = IF cached = NoTurn THEN t ELSE cached
    /\ on' = [on EXCEPT ![t] = cached']
    /\ BeforeInvocation(t)

\* _build_strands_agent_with_callback: one that is not kept, with the same hooks.
InvokeClone(t) ==
    /\ phase[t] = "idle"
    /\ on' = [on EXCEPT ![t] = t]
    /\ UNCHANGED cached
    /\ BeforeInvocation(t)

Reset ==
    /\ cached # NoTurn
    /\ cached' = NoTurn
    /\ UNCHANGED <<agent, on, skill, approvals, phase, calls, decisions, books, overlapped>>

-----------------------------------------------------------------------------
\* BeforeModelCallEvent: the number of the call goes into the invocation_state
\* of the turn, and an entry under that number into _pending_calls.
MetricsBegin(t) ==
    IF ~Has("ModelMetricsHook") THEN models
    ELSE [models EXCEPT !.counter = @ + 1, !.callId[t] = models.counter + 1,
                        !.pending = @ \cup {[call |-> models.counter + 1, turn |-> t]}]

ModelSpanBegins(t) == IF Has("OTELSpanHook") THEN [spans EXCEPT !.active = @ \cup {t}] ELSE spans

BeforeModelCall(t) ==
    /\ phase[t] = "model"
    /\ phase' = [phase EXCEPT ![t] = "asked"]
    /\ models' = MetricsBegin(t)
    /\ spans' = ModelSpanBegins(t)
    /\ UNCHANGED <<agent, strands, approvals, calls, decisions, audit, telemetry, recording, business, captured,
                   overlapped>>

\* AfterModelCallEvent: the entry that the number of the turn leads to is taken
\* out and recorded.
PendingCall(t) == models.callId[t]

MetricsEnd(t) ==
    LET taken == {e \in models.pending : e.call = PendingCall(t)}
    IN  IF ~Has("ModelMetricsHook") THEN models
        ELSE [models EXCEPT !.callId[t] = 0, !.pending = @ \ taken,
                            !.history = @ \cup {[answered |-> t, began |-> e.turn, call |-> e.call] : e \in taken}]

ModelSpanEnds(t) == [spans EXCEPT !.active = @ \ {t}]

ModelAnswered(t, to) ==
    /\ phase[t] = "asked"
    /\ phase' = [phase EXCEPT ![t] = to]
    /\ models' = MetricsEnd(t)
    /\ spans' = ModelSpanEnds(t)
    /\ UNCHANGED <<agent, strands, required, decisions, audit, telemetry, recording, business, captured, overlapped>>

\* The model asks for a batch of tools. Of each call, skills are the skills that
\* were active from then on until the hooks were asked.
ModelAsksForTools(t) ==
    \E ids \in SUBSET {c \in CallIds \ Made : c[1] = t} :
        /\ ids # {}
        /\ ModelAnswered(t, "tools")
        /\ \E asked \in [ids -> ToolUses] :
              calls' = [c \in CallIds |->
                          IF c \in ids
                            THEN [state |-> "asked", tool |-> asked[c].tool, input |-> asked[c].input,
                                  skills |-> {skill[on[t]]}]
                            ELSE calls[c]]
              /\ waived' = waived \cup {c \in ids : asked[c].tool \notin required}

\* The model answers, or fails; either way the turn goes to its end.
ModelEndsTurn(t) == ModelAnswered(t, "answered") /\ UNCHANGED <<calls, waived>>

-----------------------------------------------------------------------------
\* What the guardrail's hook decides, on the skill of the call's Strands agent.
GuardrailBlocks(c) ==
    SecurityRefuses(calls[c].tool, calls[c].input, skill[on[c[1]]],
                    IF agent.harness = NoHarness THEN {} ELSE agent.harness.deny, AllowedTools, Ruleset)

PolicyBlocks(c) ==
    PolicyRefuses(calls[c].tool, ToolAllowlist(agent.harness, agent.options),
                  ToolDenylist(agent.harness, agent.options))

\* Every callback gets the event, refused or not; each may set cancel_tool and
\* none takes it back.  An ApprovalHook of a harness blocks by default.
Refused(c) ==
    \/ Has("ToolPolicyHook") /\ PolicyBlocks(c)
    \/ Has("ApprovalHook") /\ ApprovalRefuses(calls[c].tool, required, "block")
    \/ Has("SecurityGuardrailHook") /\ GuardrailBlocks(c)

\* What the audit logger of the guardrail says of the call.
Decision(c) == [call |-> c, action |-> IF GuardrailBlocks(c) THEN "BLOCK" ELSE "ALLOW"]

AuditBefore(c) == audit \cup {[call |-> c, status |-> "started"]}
TelemetryBefore(c) == [telemetry EXCEPT !.pending = @ \cup {c}]
RecordingBefore(c) == IF Has("SessionRecordingHook") THEN [recording EXCEPT !.pending = @ \cup {c}] ELSE recording
SpanBefore(c) == IF Has("OTELSpanHook") THEN [spans EXCEPT !.active = @ \cup {c}] ELSE spans

BeforeToolCall(c) ==
    /\ calls[c].state = "asked"
    /\ calls' = [calls EXCEPT ![c].state = IF Refused(c) THEN "refused" ELSE "running"]
    /\ decisions' = IF Has("SecurityGuardrailHook") THEN decisions \cup {Decision(c)} ELSE decisions
    /\ audit' = AuditBefore(c)
    /\ telemetry' = TelemetryBefore(c)
    /\ recording' = RecordingBefore(c)
    /\ spans' = SpanBefore(c)
    /\ UNCHANGED <<agent, strands, approvals, phase, models, business, captured, overlapped>>

\* The tool itself; the one that activates a skill does so, for the calls that
\* wait on the same Strands agent as well.
Activated(c, s) ==
    [d \in CallIds |-> CASE d = c -> [calls[c] EXCEPT !.state = "ran"]
                        [] calls[d].state = "asked" /\ on[d[1]] = on[c[1]] -> [calls[d] EXCEPT !.skills = @ \cup {s}]
                        [] OTHER -> calls[d]]

ToolRuns(c) ==
    /\ calls[c].state = "running"
    /\ IF calls[c].tool = SkillTool
         THEN \E s \in DOMAIN AllowedTools : /\ skill' = [skill EXCEPT ![on[c[1]]] = s]
                                             /\ calls' = Activated(c, s)
         ELSE /\ UNCHANGED skill
              /\ calls' = [calls EXCEPT ![c].state = "ran"]
    /\ UNCHANGED <<agent, cached, on, approvals, phase, decisions, books, overlapped>>

\* AfterToolCallEvent, which comes for a refused call too: the telemetry takes
\* out the pending entry and counts the call for the invocation it has.  In the
\* mutated form it does so for the calls that ran.
Counted(invocation) == IF invocation = NoInvocation THEN invocation ELSE [invocation EXCEPT !.tools = @ + 1]

TelemetryAfterIfRan(c) ==
    IF calls[c].state = "ran"
      THEN [telemetry EXCEPT !.pending = @ \ {c}, !.calls = @ \cup {[call |-> c, timed |-> c \in telemetry.pending]},
                             !.current = Counted(@)]
      ELSE telemetry

TelemetryAfter(c) ==
    [telemetry EXCEPT !.pending = @ \ {c}, !.calls = @ \cup {[call |-> c, timed |-> c \in telemetry.pending]},
                      !.current = Counted(@)]

AuditAfter(c) == audit \cup {[call |-> c, status |-> "completed"]}

RecordingAfter(c) ==
    IF ~Has("SessionRecordingHook") THEN recording
    ELSE [recording EXCEPT !.pending = @ \ {c}, !.calls = @ \cup {[call |-> c, timed |-> c \in recording.pending]}]

BusinessAfter == IF Has("BusinessMetricsHook") THEN [business EXCEPT !.depth = @ + 1] ELSE business

Captured(c) == IF Has("HallucinationDetectorHook") /\ calls[c].tool \in Watched THEN captured \cup {c} ELSE captured

\* A span that is not active is not ended.
SpanAfter(c) == IF c \in spans.active THEN [spans EXCEPT !.active = @ \ {c}, !.ended = @ \cup {c}] ELSE spans

AfterToolCall(c) ==
    /\ calls[c].state \in {"ran", "refused"}
    /\ calls' = [calls EXCEPT ![c].state = IF @ = "ran" THEN "done" ELSE "cancelled"]
    /\ audit' = AuditAfter(c)
    /\ telemetry' = TelemetryAfter(c)
    /\ recording' = RecordingAfter(c)
    /\ spans' = SpanAfter(c)
    /\ business' = BusinessAfter
    /\ captured' = Captured(c)
    /\ UNCHANGED <<agent, strands, approvals, phase, decisions, models, overlapped>>

\* Strands: the results of the whole batch go to the model.
ToolsDone(t) ==
    /\ phase[t] = "tools"
    /\ \A c \in CallIds : c[1] = t => calls[c].state \in {"none", "done", "cancelled"}
    /\ phase' = [phase EXCEPT ![t] = "model"]
    /\ UNCHANGED <<agent, strands, approvals, calls, decisions, books, overlapped>>

\* AfterInvocationEvent: the telemetry records the invocation it has, if any,
\* and the spans end the root they have, if any.
TelemetryEnds ==
    IF telemetry.current = NoInvocation THEN telemetry
    ELSE [telemetry EXCEPT !.invocations = @ \cup {telemetry.current}, !.current = NoInvocation]

RootSpanEnds == IF spans.root = NoTurn THEN spans ELSE [spans EXCEPT !.root = NoTurn, !.ended = @ \cup {spans.root}]

RecordingEnds == IF Has("SessionRecordingHook") THEN [recording EXCEPT !.ends = @ + 1] ELSE recording

BusinessEnds == IF Has("BusinessMetricsHook") THEN [business EXCEPT !.completed = @ + 1] ELSE business

AfterInvocation(t) ==
    /\ phase[t] = "answered"
    /\ phase' = [phase EXCEPT ![t] = "ended"]
    /\ telemetry' = TelemetryEnds
    /\ recording' = RecordingEnds
    /\ spans' = RootSpanEnds
    /\ business' = BusinessEnds
    /\ UNCHANGED <<agent, strands, approvals, calls, decisions, audit, models, captured, overlapped>>

\* add_required_tool and remove_required_tool, at any time.
AddRequiredTool(tool) ==
    /\ Has("ApprovalHook")
    /\ required' = required \cup {tool}
    /\ UNCHANGED <<waived, agent, strands, phase, calls, decisions, books, overlapped>>

RemoveRequiredTool(tool) ==
    /\ Has("ApprovalHook")
    /\ required' = required \ {tool}
    /\ waived' = waived \cup {c \in Made : calls[c].state = "asked" /\ calls[c].tool = tool}
    /\ UNCHANGED <<agent, strands, phase, calls, decisions, books, overlapped>>

Next == \/ Reset
        \/ \E t \in Turns : \/ Invoke(t) \/ InvokeClone(t) \/ BeforeModelCall(t) \/ ModelAsksForTools(t)
                            \/ ModelEndsTurn(t) \/ ToolsDone(t) \/ AfterInvocation(t)
        \/ \E c \in CallIds : BeforeToolCall(c) \/ ToolRuns(c) \/ AfterToolCall(c)
        \/ \E tool \in Guarded : AddRequiredTool(tool) \/ RemoveRequiredTool(tool)

Spec == Init /\ [][Next]_vars

-----------------------------------------------------------------------------
RunsOrRan(c) == calls[c].state \in {"running", "ran", "done"}

SkillAllows(s, tool) == s \in DOMAIN AllowedTools /\ AllowedTools[s] # NoList => tool \in AllowedTools[s]

\* What a call that runs has passed: the denylist of the harness, as long as the
\* harness loads one of the two hooks that look at it; the allowlist, the
\* harness's or, if that is empty, the constructor's; the guardrail, and one of
\* the skills that were active since the model asked for it; and, with an
\* approval hook, a moment since then at which it needed no approval.
Passed(c) ==
    LET tool == calls[c].tool
        allow == ToolAllowlist(agent.harness, agent.options)
    IN  /\ agent.harness # NoHarness /\ (Has("ToolPolicyHook") \/ Has("SecurityGuardrailHook"))
              => tool \notin agent.harness.deny
        /\ Has("ToolPolicyHook") /\ allow # NoList => tool \in allow
        /\ Has("ApprovalHook") => c \in waived
        /\ Has("SecurityGuardrailHook") =>
              /\ [call |-> c, action |-> "ALLOW"] \in decisions
              /\ [call |-> c, action |-> "BLOCK"] \notin decisions
              /\ \E s \in calls[c].skills : SkillAllows(s, tool)

\* A call runs only if it has passed all of that, whatever the other hooks, the
\* skills, the approvals, the turns and the calls beside it do: a hook that has
\* nothing against a call takes no other's refusal back (tool_policy_hook.py,
\* approval_hook.py, security_guardrail.py).
RefusedNeverRuns == \A c \in Made : RunsOrRan(c) => Passed(c)

\* The books agree whenever no turn is going on, even if turns overlapped: each
\* hook that follows tool calls has nothing open and one entry, with its
\* beginning, for every call there was, refused ones included; the metrics
\* count the same calls and turns. At any time, every model call that has been
\* recorded was recorded with its own beginning (model_metrics_hook.py, by way
\* of the invocation_state).
BooksAgree ==
    /\ \A e \in models.history : e.began = e.answered
    /\ (\A t \in Turns : ~Running(t)) =>
           LET ended == {t \in Turns : phase[t] = "ended"}
               timed == {[call |-> c, timed |-> TRUE] : c \in Made}
           IN  /\ audit = [call : Made, status : {"started", "completed"}]
               /\ telemetry.pending = {} /\ telemetry.calls = timed
               /\ Has("SessionRecordingHook") =>
                     recording.pending = {} /\ recording.calls = timed /\ recording.ends = Cardinality(ended)
               /\ Has("OTELSpanHook") => spans.active = {} /\ spans.root = NoTurn /\ Made \subseteq spans.ended
               /\ Has("BusinessMetricsHook") =>
                     business = [started |-> Cardinality(ended), completed |-> Cardinality(ended), depth |-> Cardinality(Made)]
               /\ Has("HallucinationDetectorHook") => captured = {c \in Made : calls[c].tool \in Watched}
               /\ Has("ModelMetricsHook") => models.pending = {} /\ Cardinality(models.history) = models.counter

\* As long as no two turns overlap, the telemetry has one entry for every turn
\* that ended, with the number of tool calls of that turn (telemetry_hook.py).
TurnsCounted ==
    ~overlapped => telemetry.invocations = {[turn |-> t, tools |-> Cardinality({c \in Made : c[1] = t})] :
                                               t \in {u \in Turns : phase[u] = "ended"}}

=============================================================================
