# Formal models of the agent platform

TLA+ models, model-checking runs and machine-checked proofs for the platform in this
repository: the control plane that registers agents and hands out tasks, the messages between
agents, the evaluators and their handoff to a human, the runtime that keeps one agent per session,
the hooks and the memory of an agent, the two Slack adapters and the AIDLC inception workflow. The
modules are translated from the source; `PROJECT.json` says for every definition which lines it stands
for.

1. [The system and its parts](#1-the-system-and-its-parts)
2. [Modules](#2-modules)
3. [What each module models](#3-what-each-module-models)
4. [Runs and bounds](#4-runs-and-bounds)
5. [Fairness](#5-fairness)
6. [Proofs](#6-proofs)
7. [Findings](#7-findings)
8. [What is not modelled, and the plan](#8-what-is-not-modelled-and-the-plan)

Paths below are relative to `src/`; `plato/` and `foundation/` stand for
`src/platform_agent/plato/` and `src/platform_agent/foundation/`.

## 1. The system and its parts

A user writes to the bot in Slack. The *ack* Lambda puts the event on an SQS FIFO queue, the
*worker* Lambda takes it, claims it in a DynamoDB table and invokes the *runtime*
(`entrypoint.py`) over WebSocket or HTTP. The runtime keeps one agent per session, behind a lock.
The agent (a Strands agent with hooks, memory and tools) may drive an AIDLC inception, consult
evaluators or dispatch sub-agents. Beside this stands the *control plane*: a registry of agents,
a store of tasks that agents claim or are assigned, a router for the messages between them with
policies, limits and an audit log; it exists in memory and on DynamoDB. A second, independent
Slack adapter is shipped as the template of the skill `agentcore-harness-slackbot`.

| part | state it keeps | operations | works with | what is hard | what makes it correct |
|---|---|---|---|---|---|
| Agent registry, lifecycle (`plato/control_plane/registry.py`, `lifecycle.py`) | agents by tenant and id: state, profile, heartbeat | register, deregister, update_state, heartbeat, boot, check_all, auto_restart, drain, shutdown | read by the dispatcher; shutdown writes tasks | shutdown against a dispatch in flight, sweeps at any time | tasks of an agent that leaves are taken back |
| Task manager, dispatcher (`task_manager.py`) | tasks: status, assignee, claim time, retries | create, claim, assign, update_status, release_expired_claims, retry_or_fail, dispatch | registry | check and write without a lock, late reports, leases and retries racing | one owner at a time; a task in the queue carries nothing of its last owner |
| Control plane on DynamoDB (`dynamodb_store.py`) | items of agents, capabilities, tasks, a state index | the same, as one request or several | any number of processes, the same dispatcher | interleaving of requests, crashes between them, unconditional updates | exclusive claims, index and items agree, the life cycle is followed |
| Messages (`message_router.py`, `policy_engine.py`, `audit.py`, `foundation/guardrails`) | inboxes, breaker counts, rate limits and their logs, policies, audit entries | send through five middleware, policies and limits set, resets, reads that drop old entries | registry | what an earlier stage counted and a later one dropped; edges of windows | limits kept in every window, breaker breaks only what exceeds, every delivery audited |
| Agent pool and handlers (`entrypoint.py`) | agents and locks by session, least recently used first | get_or_create with eviction, apply policy, acquire, invoke, release; the WebSocket's thread and its client | the Slack worker | eviction under a running request, a client that leaves | one request on an agent at a time; everyone is answered |
| Slack delivery (`slack/lambda_function.py`, `slack/handler.py`) | memory of events per container, SQS, the claims' table, indicators and replies in Slack | ack, enqueue, receive, claim, guard, indicator, stream or invoke, reply | Slack, SQS, DynamoDB, the runtime | duplicates at every layer, expiry of deduplication, batches, any call failing, crashes, visibility timeouts | one reply per message, none lost, a thread in turn, no indicator left behind |
| AIDLC inception (`plato/aidlc/`, `plato/skills/aidlc_inception/tools.py`) | workflows in memory, the current context, a state file per project | start, submit, approve, reject, skip, restart | driven by the agent's tool calls of every session, in threads | sequences of calls, calls that overlap, saves that fail, re-assessment of complexity, one context for all sessions, restart | no stage passed without approval or reason; what was done is on disk |
| Harness Slackbot (`skills/agentcore-harness-slackbot/assets/slack-adapter-template/`) | SQS FIFO queue and dead-letter queue, a stream publisher per message | ingress, worker, stream start/append/stop, fallback posts | Slack, SQS, the agent's event stream | a call to Slack that failed or was taken without an answer, retries after a partial answer | Slack shows prefixes of the answer only; answered or dead-lettered; a conversation in turn |
| Evaluators (`plato/evaluator/`) | the iterations of one session | score by rules or by a model, check, merge, approve, revise, escalate | handoff | a model's reply that leaves out or repeats items, averages at the threshold, no iteration allowed | a check's finding stands; approved only by the whole rubric; every session ends |
| Handoff (`foundation/handoff/agent.py`) | requests, the channel's responses | create, escalate, approve, reject, amend, poll, expire | evaluators, command line | escalation after a decision, several decisions | what shows as decided is the last decision |
| Hooks of an agent (`foundation/hooks/`, `foundation/harness.py`, `foundation/agent.py`) | pending calls, spans, counters, audit entries, activated skills | callbacks on the events of a turn | the Strands agent | turns that overlap share the hooks, several hooks speak of one call | what one refuses never runs; every book closes what it opened |
| Memory consolidation (`consolidation_hook.py`, `memory_extraction_hook.py`) | per folder: memories, insights, a state file, a lock file | extract, gates, lock, gather, store, save | agents on one file system | steps of two processes, crashes, stale copies of the state | locks accounted for, the interval kept, one user's memories apart |
| Memory of users (`memory.py`, `foundation/tools/memory_tools.py`, `memory_access_guard.py`, `entrypoint.py`) | events per actor and session, long-term records, strategies | context for a new session, load history, save, recall, ingest | AgentCore Memory | answers that stray, cut and merged lists, turns written out of order, failing calls | recall in scope and complete; the best records in the context; a history the model accepts |
| Parallel dispatch (`foundation/parallel_dispatch.py`), Bedrock loop (`bedrock_runtime.py`) | none beyond a call | dispatch, converse | agent | left to asyncio, or sequential | see section 8 |
| Tools, skills, protocols, command line, deployment | configuration, tables | see `PROJECT.json` | | sequential, no shared state of their own | |

`PROJECT.json` lists all of them as components with their sources and status, and under `hazards`
the places in this code that are hard to test, each with the properties that cover it.

## 2. Modules

```
ControlPlaneData            names, states, ages
  AgentRegistry             registry and the life cycle that needs it alone
  TaskManager               task store, claim and assignment as check and write
    ControlPlane            both, with dispatcher, drain and shutdown
      ControlPlane_proofs     types, shape, claims, assignees, refinement of TaskOwnership
      MCControlPlane
  DynamoDBStore             registry, tasks, dispatcher, one step per request
    DynamoDBStore_proofs
    MCDynamoDBStore
TaskOwnership               abstract: what any task store promises
ListFunctions               sums and selections of a list (extended by those that need them)
  ListFunctions_proofs      what they compute, for every list (extended by three modules of proofs)
Messaging                   router, policies, limits, breaker, audit log
  Approval_proofs           together with QualityGate and InceptionWorkflow
  MCMessaging
Evaluation                  rubrics, heuristics, checks, merge, the refinement loop
Handoff                     requests for a human, decisions, polling
  QualityGate               both (extends Evaluation and Handoff)
    Approval_proofs         together with Messaging and InceptionWorkflow
    MCQualityGate
AgentPool                   sessions, agents, locks, requests
  Runtime_proofs            together with AgentTurn
  MCAgentPool
ToolHooks                   which hooks an agent gets, what each says of a call
  AgentTurn                 turns, events, the books of all hooks
    Runtime_proofs          together with AgentPool
    MCAgentTurn
WorkspaceMemory             extraction and consolidation in shared folders
  Memory_proofs             together with AgentMemory
  MCWorkspaceMemory
AgentMemory                 context, recall, ingestion, conversation history
  Memory_proofs             together with WorkspaceMemory
  MCAgentMemory
SlackDelivery               ack, queue, workers, claims, indicators, replies
  SlackDelivery_proofs
  MCSlackDelivery
InceptionWorkflow           stages, approvals, the tools in their threads, the state file, restarts
  Approval_proofs           together with Messaging and QualityGate
  MCInceptionWorkflow
HarnessSlackbot             queue, worker, stream publisher, fallback
  HarnessSlackbot_proofs
  MCHarnessSlackbot
```

No module declares a `RECURSIVE` operator: what runs over a sequence (`Total`, `Among`, `Joined`) is a recursive
function, so any of them can be proved about. Definitions whose
comment begins "A mutant of", "Mutant:" or "In the mutated form" are altered copies of the
definition below them. They are used by no specification; each replaces its original to confirm that a property notices the alteration.

## 3. What each module models

### The control plane in memory: `ControlPlaneData`, `AgentRegistry`, `TaskManager`, `ControlPlane`

*Correspondence.* `agents` is `AgentRegistry._agents`, keyed by tenant and agent id; `tasks` is
`TaskManager._tasks`. Each public operation that changes state is an action with the same name;
the conditions that raise or return early are its guards. `CheckAll` is the heartbeat sweep, over
one tenant or all; `Boot` is the cold start with its self-check; `Drain` and `Shutdown` take the
agent's unfinished tasks back first, as `GracefulShutdown` does. `Dispatch` reads the registry,
scores the READY agents that have every required capability and goes on to `assign_task`.

*Check and write.* `claim_task` and `assign_task` read a task, check it and then write it without
a lock, so they are two actions (`ClaimCheck`/`ClaimWrite`, `AssignCheck`/`AssignWrite`) with the
call kept in `pending`. The constant `Threaded` says whether two callers may interleave there. On
one event loop they may not, because nothing between the two awaits: `Quiet` keeps everything else
out. With threads nothing keeps them apart.

*Time.* A heartbeat and a lease are ages that stop one tick after their limit. Every comparison in
the code is "older than the limit", so nothing beyond can be told apart.

*Left out.* Priorities and deadlines order and label lists that no operation acts on; progress
notes, results and messages are payload.

*Properties.*
`TaskShape`: a queued task has no owner and no lease, an assigned or claimed one has an owner, a
claimed one the time stamp the sweep needs. `ClaimExclusive`: between two visits to the queue at
most one agent is told that a task is its own. `AssigneeRegistered`: a task that was dispatched is
never left with an agent that is gone (no sweep looks at ASSIGNED tasks), unless a caller
deregistered the agent without a shutdown. `OwnershipSpec`: the control plane implements
`TaskOwnership`, where a task passes from one owner to another only through having none; the
refinement maps `owner` to `assigned_to`.

*What the model also shows the code to do.* `update_status` checks neither the old status nor the
caller: a late report reopens a finished task, or leaves a requeued one in progress without an
owner. `OwnershipSpec` shows that it never moves the task to another agent.

### The control plane on DynamoDB: `DynamoDBStore`

One request to DynamoDB is one step; what a client has read stays in `calls`. Any number of
clients interleave request by request and each may crash between two of its requests. Registration
is a conditional put of the agent and one put per capability; `update_state` and `claim_task` read
and then write, the first without a condition, the second with one; `assign_task` overwrites;
dispatch is a query of the state index, one get per agent and `assign_task`. An item that an
unconditional `update_item` had to create is not `whole`: reading it raises `KeyError`.
`PrefixOf` models `begins_with` on tenant names without the closing separator. Heartbeats and
the audit store are left out: nothing in the store reads the first, the second only appends.

*Properties.* `ClaimExclusive` across processes; `Findable`: every agent is found by its state and by
each capability that it has, so that only a registration that is under way or crashed hides one;
`InvalidOnlyIfStale`: the life cycle is broken only when another process changed the agent between
read and write; `TakenOnlyByDispatch`: a task passes directly from one agent to another only by the
dispatcher's unconditional update.

### Messages between agents: `Messaging`

`Send(m)` is one call of `MessageRouter.send`, with the middleware in the documented order:
authenticate, policy check, content filter, audit log, circuit breaker. Its five disjuncts are the
places where a message can end, and each carries every side effect of the stages before:
`RefuseUnknown`, `RefuseRate`, `RefusePolicy` (which has already counted against the rate limit),
`Break` (which has already filtered and logged the message) and `Deliver`. The rate limit and the
breaker keep the time stamps of their window, and reading them drops the old ones, as the code does.

A policy has an effect, an action, a type and a pattern of resources, and conditions; the store
is empty or begins with the defaults (`DefaultPolicies`), the policies of a role (`RolePolicies`) are added
together, others one at a time, and any may be replaced or removed. `Permitted` is the engine: a
matching forbid wins, otherwise a permit is needed. `Ask` is what callers other than the router ask
it, with the checks of `PlatformPolicyEngine` in front (states before READY, other tenants). Texts
are not modelled: the content filter changes them and drops no message. Queries and reports of the
audit log are left out.

*Properties.* History variables record the deliveries, independently of the counters. `LimitsKept`:
in no window does an agent, or a pair, get more through than its limit, whenever limits were set,
breakers reset and counters read. `BrokenOnlyIfFull`: the breaker drops only while the threshold has
really been delivered, so what it drops does not keep it closed. `RolesApart`: the policies of one
role change nothing for another, and no set of policies opens the secrets that a policy in it denies.
The ids of other policies are assumed to differ from those the two functions make. That the
audit log also has messages the breaker dropped, and that the rate limit is charged for messages that
policies or the breaker drop, is what the code does. Inboxes and breaker are keyed by agent id alone,
without the tenant, as in the code.

### Evaluation and handoff: `Evaluation`, `Handoff`, `QualityGate`

`Evaluation` is one session of `evaluate_with_refinement`. `Write` is the specialist's output,
`Evaluate` its scores (by the heuristics, or by a model whose reply is parsed), merged with the
deterministic checks; `Conclude` approves, escalates or asks for a revision. An output is a function
from features to counts: what the four heuristics and the checks look for in a text; the regular
expressions that find it are abstracted away, everything that is computed from the counts is not. A
reply is a sequence of sections with a title, a score that may be missing or unreadable, and feedback
or none; `ParseReply` finds the items by id and by title, as the code does (`Near` says which ids a
title is near to). Scores are whole numbers of 1/8400 and weights are doubled, so that every score of
the heuristics is exact; the code computes with floats, and what rounding does at exactly the
threshold is not modelled. `maxIter` is what the caller passes or the rubric says, negative numbers
and zero included.

`Handoff` has the requests, whose one object the agent and the CLI channel share, and the channel's
responses. `QualityGate` hands an escalated session over, with what it reports, and lets a human
decide, escalate again and decide otherwise.

*Properties.* `DeterministicStands`: what a check found is what the result says of that item, however
often the model named it. `ApprovedByRubric`: where no item is scored twice, an output passes exactly
if its mean over the whole rubric, items left out counting as zero, is at the threshold.
`RevisionGuided`: with the rules alone, a revision is never asked for without feedback.
`HumanDecides`: a request comes from a session that failed in all its iterations, and shows as decided
as its last decision says. `SessionEnds`.

### Sessions and requests: `AgentPool`

A request goes through `GetOrCreate`, `Apply` (its role's tool policy),
`LookUpLock`, `Acquire` (over HTTP it waits; over a WebSocket a busy session is an error at once,
`Busy`), its run, `LookUpRelease` and `Release`, each a step of its thread: the pool's own lock is
taken and given back within each of them. The pool makes an agent and a lock together
and drops them together, so one *instance* number stands for both. `GetOrCreate` evicts the least
recently used sessions beyond the limit. `LookUpRelease` finds the lock the session has *by then*.
`Disconnect` is a WebSocket client that goes away: the handler unwinds and releases while the
agent's thread goes on until `ThreadEnds`. The pool's size is 1 or 2
here. Conversations, injected memory and lazy initialisation are left out.

`_apply_role_tool_policy` does nothing unless the agent has an attribute `tool_policy_hook`. The agents of
the pool are made with a harness, and that branch of `FoundationAgent.__init__` puts the hook into the
registry only. So `Apply` is a step that changes nothing, and no property speaks of the roles (see the
findings).

*Properties.* `ExclusiveWhileKept`: two requests run on one agent at once only after its session
was evicted or a WebSocket client left it; the unconditional form, which is what `entrypoint.py:207`
says, does not hold. `Answered`: every request is answered unless its session is evicted.

### The hooks of a turn: `ToolHooks`, `AgentTurn`

`ToolHooks` says which hooks a harness gives an agent (its validation, `enabled_by`, the hooks that
are always on, the list used without a harness) and what each of the three that may refuse says of a
call: `PolicyRefuses`, `ApprovalRefuses`, `SecurityRefuses`. In `AgentTurn` each event of the Strands
agent is one step, in which the callbacks of all hooks run; a turn runs on the cached Strands agent,
or on a clone made for a stream, and the tools of a batch run beside each other. Hooks belong to the
FoundationAgent, so turns that overlap (a lost stream goes on while the next request runs) share what
they keep. A tool may activate a skill, which narrows the tools of its Strands agent, also for calls
that wait. `Ruleset` is the guardrail's constraints on parameters: `_make_hook` passes none, code
that makes the hook itself can. The reports made from what the hooks keep are left out, as is the
scan of outputs for patterns, which only logs.

`required` is the list of tools that need an approval: of an agent with a harness it is empty at first
(see the findings), and callers add to it and take from it at any time. `waived` is a history variable:
the calls whose tool was not on that list at some moment since the model asked for it.

*Properties.* `RefusedNeverRuns`: what runs has `Passed` every hook that may refuse it. Its tool is not on
the denylist and is on the allowlist; the guardrail has allowed the call and never blocked it; a skill
active since the model asked for it allows the tool; and with an approval hook the call was `waived`; all
that whatever the calls and turns beside it do. `BooksAgree`: when no turn is going on, audit, telemetry, recording, spans and counters have
closed what they opened, and count the same calls. `TurnsCounted`: without overlap, the telemetry has
every turn with its number of calls (with overlap it has not: the second turn resets the first).

### Memories in a workspace: `WorkspaceMemory`

Agents are processes that share folders. The steps of `_acquire_lock` are separate accesses to the
file system (`LockExists`, `StatLock`, `UnlinkLock`, `WriteLock`), and so are gathering, storing,
saving and releasing; a process may stop at any of them (`Crash`) and start again, and an access may
raise: while the lock is taken (`AcquireFails`, which may leave a lock that is nobody's), and while the
memories are gathered or stored (`ConsolidationFails`, after which the state is not saved). Time stamps are
ages that stop at the gate that compares them, so that time goes on for ever in finitely many states.
`unaware` is a history variable: the agents whose copy of the state misses the newest consolidation of
their folder. Four deployments differ in the template of the namespace and in the actors.

*Properties.* `LockAccounted`: a lock file belongs to an agent within its consolidation or to one that
stopped there or failed while writing it; no early return and no other exception leaves one. `TimeGateKept`: within the interval only an agent whose
copy of the state misses the last consolidation consolidates again. `OwnMemories`: where the template
names the actor, nobody condenses another's memories. `ConsolidatesAgain`: when no more agents stop and
nothing raises any more, the folder of an agent that goes on is consolidated again and again, so a lock that was left behind is
taken over.

### What is remembered of users: `AgentMemory`

A request resolves its actor (token, header, payload), gets a context of long-term records if its
session has no agent yet, may save and recall memories with tools bound to the actor that the agent
was made for, and ingests its turn in two calls after its lock is released. A recall asks once per
namespace, cuts each answer to `TopK`, merges and cuts again (`Merged`); the context raises the score of
preferences, ranks, removes doubles and fits a budget (`Selected`). `strays` says that the service answers with records of
other namespaces; calls fail, agents restart. `ToBedrock` is the conversion of a stored history to
messages, `SafeNamespaces` the access guard. `validate_retrieval_config`, the local history and
`turns_to_bedrock` are called by tests and scripts only; the last two are in the model for what they
promise.

Which namespaces there are is the deployment's choice, so it is assumed of `Templates`: that they keep
the actors apart (`TemplatesApart`: what begins with the namespace of an actor's search is that actor's)
and that searches reach what the guard leaves to an actor (`TemplatesReach`). Nothing in the code checks
either. TLC evaluates both for the instance's five templates, in which one user's name begins another's
and one template resolves to the root. A template without `{actorId}` would violate the first, one
without the slash behind it too.

*Properties.* `RecallScoped`: what a recall gives an agent are records of its actor, from namespaces
that the guard, which reads names in another way, allows. `RecallComplete`: none that is relevant is
missing, unless the answer is full of records at least as relevant, and none is there twice.
`ContextBest`: the context is the best of what was found, within the budget unless it is one record.
`BedrockReady`: any history, also one out of order, becomes messages that begin with the user and take
turns, with every text in its place.

### From Slack to the reply: `SlackDelivery`

Slack delivers an event once or more to an ack container, which looks at its age and its own
memory and enqueues it under the group of its thread; SQS drops duplicates within its window. A
worker receives up to a batch of one group and handles the records in order: the filter of events
(`Actionable`), memory, conditional put of the claim, the guard for direct messages that looks whether
the bot has posted since, the indicator, the agent over WebSocket and then HTTP, the reply in place of
the indicator. An event is a message and a kind, for Slack may have two events for one message, of
which one is answered; the deduplications know messages only. When SQS refuses an event the ack
container handles it itself. Every call can fail (`Faults`): SQS (also after it took the message),
DynamoDB (the code goes on without a claim), the agent, a busy session, Slack, a crash of the
container, a visibility timeout under a worker's hands. A call to Slack fails also when Slack did what it
was asked to and only the answer was lost: the indicator is then shown and the handler does not have
its `ts` (`PostFails`; the message is marked `unheard`). With identity (`Identity`) nothing that the
HTTP request raises leaves the handler. Expiry of memories, windows and rows is nondeterministic in the
order that their periods allow. `marks` records what befell a message, so that the properties can name
their exceptions.

*Properties.* `OneReply`: one reply whatever is delivered twice and whatever expired, unless the
table could not be asked. `IndicatorSettled`: an indicator stays only if Slack refused to remove it,
the container died, the session was busy or the answer to its own post was lost. `ThreadSequential`: messages of a thread are worked on
one at a time. `Answered`: a message that Slack has been told is taken is answered, whatever happens to
its neighbours in the batch, unless a fault hits it, the guard drops it, or its other event came first.

### Approval gates: `InceptionWorkflow`

Each workflow operator (`Started`, `Submitted`, `Approved`, `Rejected`, `Skipped`, `Advanced`)
gives the workflow after the change. The tools are plain functions without a lock, which the agent runs
in threads: those of one batch, and those of several sessions, at the same time. A call is therefore four
steps or five: it looks up the workflow of the context and checks it (`SubmitAnswers`, `ApproveStage`,
`RejectStage`), assesses the answers if they are those that decide the complexity
(`Assess`), changes what the workflow is by then (`Change`), serialises it (`Serialise`) and writes the
file (`WriteFile`). `StartInception` makes a workflow and goes on to save it. Other calls come in between.
What raises in between leaves the rest undone: the artifact (`ArtifactFails`) or the file (`WriteFails`,
which may also leave it cut short) cannot be written.
The assignments of one change are one step, and one call at a time starts a session's workflow.

The six stages are numbers in their order, three of them conditional, the second decides the complexity.
`SkipStage` is `AIDLCWorkflow.skip_stage`, public but called by no tool; it does not save. `Restart` loses
memory, context and the calls under way, and keeps the files. Answers are what they are assessed as,
artifacts that they exist. History variables name what the properties except: `raced`, the sessions whose
workflow changed while another call was between its check and its change; `behind`, those with a change
that was not saved, because the save failed, was overlapped by another or never came; `skipped`, those
moved by hand.

*Properties.* `StageOrder`: everything before the current stage is done, everything after it not
begun. `ApprovalFinal`: no tool call takes an approval back. Both hold of workflows on which no two calls
overlapped and which were not skipped out of turn. `SavedState`: what was done to a workflow is on disk, or
a call is still to bring it there, however calls of two threads interleave and although one session moves
the context under the other; unless it is `behind`. Overlapping calls do break the gates (see the
findings). Proved beside these (`Approval_proofs`), and in
no run: `SkippedOnlyIfSimple`, that a skipped stage is conditional and the project, *as last assessed*, is
simple. That an inception resumes after a restart is what `state.py:189` promises; it does not.

### The shipped Slack adapter: `HarnessSlackbot`

The ingress enqueues before it answers Slack, so a failed `send_message` means another delivery.
A worker takes one message at a time; the publisher keeps `latest` (what the agent said) and `sent`
(what Slack has), starts a stream, appends chunks, stops it, or, when Slack does not start one,
posts the answer in parts. An answer is `<<1, 2, 3, ...>>`, so that what Slack shows can be compared
with it. `StartFails` includes the call that Slack took although its answer was lost; `GiveUp` is
an exception or a dead container at any stage. After `MaxReceives` the message goes to the
dead-letter queue (`Bury`).

*Properties.* `ConversationInTurn`: the agent is invoked for one message of a runtime session at a
time, oldest first. `AnswerFaithful`: whatever Slack shows is a prefix of the answer, with nothing
twice and nothing left out, and is all of it once an attempt has ended.
`AnsweredOrDead`: every message on the queue is answered or moved to the dead-letter queue.
`NoAnswerTwice`: a second answer needs an attempt that failed.

## 4. Runs and bounds

TLC explores all states of each passing run within its instance.

| run | shows | instance and bounds | why that is enough |
|---|---|---|---|
| `control_plane` | `ClaimExclusive`, `AssigneeRegistered`, `OwnershipSpec` on one event loop | 2 tenants that both know agent id `a`, a second id that never registers, 1 task, 3 profiles, `MaxRetries` 1, at most 2 calls of `retry_or_fail` per task (`RetryCap`), limits of 0 ticks; 484,064 states | two claimants and a foreign tenant with the same id are there; a task's operations never read another task; a limit of 0 ticks still separates current from expired; one retry and one failure |
| `claim_race` | `ClaimExclusive` fails with threads | the same with `Threaded` | two calls check before either writes |
| `dynamodb_store` | `ClaimExclusive`, `Findable`, `InvalidOnlyIfStale`, `TakenOnlyByDispatch` | 2 clients (symmetric), 1 registered key, a second agent id that claims, 2 capabilities, 1 task; `Asked` and `Said` limit the states that calls ask for; 441,730 states | every race is between two requests of two clients; two capabilities make registration three requests. One registered key: agents of a tenant whose name begins another's are not in this instance (see the findings) |
| `messaging` | `LimitsKept`, `BrokenOnlyIfFull`, `RolesApart` | 1 sender, a direct and a broadcast message sent repeatedly, the default policies, those of one role and one of its own that permits or forbids everything, threshold 1, windows of 2 and 1 ticks, limits 0 and 1, clock up to 2 (`Horizon`), 2 deliveries (`MaxSends`), six questions of other callers; 294,084 states | entries expire, limits change and breakers are reset inside a window; both edges of both windows are reached; a request with a role, with another and with none |
| `quality_gate` | `DeterministicStands`, `ApprovedByRubric`, `RevisionGuided`, `HumanDecides`, `SessionEnds` | the four evaluators, per kind 2 outputs (poor, and near the threshold or contradicted by a check) and 4 replies (an item left out, all bad without feedback, an item named twice and a section without a score, an unreadable score), -1, 0, 1 or the rubric's 3 iterations, 1 request, at most 2 escalations (`MaxEscalations`); 7,244 states | each way a reply can go wrong, both sides of the threshold, no iteration and the last one, a second escalation after a decision |
| `agent_pool` | `ExclusiveWhileKept`, `Answered` | 2 HTTP and 1 WebSocket requests on 2 sessions, pool of 1 or 2; 80,230 states | with a pool of 1 every second session evicts; with 2 nobody is evicted and the lock alone decides |
| `agent_turn` | `RefusedNeverRuns`, `BooksAgree`, `TurnsCounted` | 2 turns with 2 calls and 1, an agent without a harness, two valid harnesses that bring every hook between them, two that are refused, 2 skills with lists of their own, 3 tools, one tool that approvals are asked for and given up; 3,908,939 states | two calls of a batch and one of another turn that overlaps or does not; the skill tool, an allowed and a denied one |
| `workspace_memory` | `LockAccounted`, `TimeGateKept`, `OwnMemories`, `ConsolidatesAgain` | 2 agents of one user, of two or of none, 4 deployments, gates of 2 ticks and 2 events, locks stale after 1 tick, the newest file; 310,504 states | two agents meet at every pair of lines, and each may raise there, a lock is fresh or stale, the gate is open, closed or stale |
| `agent_memory` | `RecallScoped`, `RecallComplete`, `ContextBest`, `BedrockReady` | 2 requests (symmetric) of 3 kinds of callers, users `U1` and `U12` who share a thread, 5 templates, 2 stores of 4 records, 5 records at most (`MaxRecords`), one call of a tool per request (`MaxCalls`), 1 restart, 1 failure, `TopK` 2, budget 6; 1,921,552 states | one name begins the other; a list longer than `TopK`; a record alone over the budget and some that meet it; histories of two interleaved turns |
| `slack_delivery` | `OneReply`, `IndicatorSettled`, `ThreadSequential`, `Answered` | 2 direct messages of a thread, one of which has two events and is delivered twice, 1 ack container, 2 workers, batches of 2, one fault of any of 7 kinds, without identity (which takes failures away and adds none); only a message that may be delivered again grows old (`AgedForDelivery`: of any other the age changes nothing that is asked for); 706,339 states | a batch with a neighbour, a duplicate at each layer, both orders of the two events and any one fault at any moment. |
| `inception` | `StageOrder`, `SavedState`, `ApprovalFinal` | the 6 stages of `stages.py`, 2 sessions with a project each, 2 threads (symmetric), artifacts and saves that fail, one `skip_stage` per workflow. `WithinBounds`: the second session's workflow is started and submitted to, and not followed further; everything may happen to the first one in its first two stages, and in the later ones as long as the other session has none and no calls have raced on it, with one thread only once a save has failed or it was moved by hand; after a restart it is followed into its third stage again only over a file that had not come that far or cannot be read. 1,475,783 states | the real list of stages, and two calls between every two lines of each other, on one workflow or on two, with a context that moves under a call. That calls race, and that saves fail beside others, is the same at every stage |
| `harness_slackbot` | `ConversationInTurn`, `AnswerFaithful`, `NoAnswerTwice`, `AnsweredOrDead` | 2 direct messages of one channel in two threads, 2 deliveries each, 2 workers, answers of up to 3 units, stream chunks of 1 and posts of 2, 2 receives, 2 faults; 419,119 states | an answer longer than either chunk, a conversation across threads, a failed attempt followed by another failure or a success |

Deadlock is checked in `control_plane`, `dynamodb_store`, `messaging` and `inception`, and not in the
others: there each request, message, session or turn comes a bounded number of times, and the system
then has nothing left to do. That it does not stop earlier is what their liveness properties say, where
they have one.

For every property of a passing run `PROJECT.json` lists under `mutants` an altered definition
with which TLC finds that property violated: a dropped guard, a missing reset, a swapped group. So
none of them holds only because the model leaves its case out.

## 5. Fairness

| module | fairness | why the code justifies it |
|---|---|---|
| `AgentPool` | weak fairness of every step of a request | threads run, and an invocation ends because calls to the model time out. Not of `GetOrCreate`: a request need not arrive; not of `Disconnect`; not of `ThreadEnds` |
| `SlackDelivery` | weak fairness of a container's ordinary steps, of some worker receiving, of each in-flight message becoming visible again | Lambda runs its containers and polls; SQS ends every visibility timeout. No fairness of deliveries, faults or expiries |
| `QualityGate` | weak fairness of the session's steps | `evaluate_with_refinement` is one call that runs to its end. Not of the human |
| `WorkspaceMemory` | weak fairness of time and of each step of an agent that was invoked | a call of a hook runs to its end; not of `Start`, `BeforeInvocation` and `Crash`. `ConsolidatesAgain` names what it needs besides: no more crashes, no more exceptions, and an agent that goes on being invoked |
| `HarnessSlackbot` | weak fairness of a worker's ordinary steps, of receiving, of moving to the dead-letter queue | as above; the agent's stream ends because its client has timeouts |
| `ControlPlane`, `DynamoDBStore`, `Messaging`, `InceptionWorkflow`, `AgentTurn`, `AgentMemory` | none | nothing in the source schedules the sweeps, the retries or the users; what depends on a caller is not promised, and only safety is stated |

## 6. Proofs

All are checked by TLAPS to the last leaf, for every value of the constants that satisfies the
named assumptions in the modules (types of the parameters and that `None` is none of the others).

**`ControlPlane_proofs`.** `TypeCorrect` (`[]TypeOK`) and `ShapeCorrect` (`[]TaskShape`) hold with
threads or without. `ClaimsExclusive` (`[]ClaimExclusive`) and `AssigneesRegistered`
(`[]AssigneeRegistered`) are proved on one event loop (`~Threaded`); run `claim_race` shows that
the first needs it. The last two are not inductive as they stand. The strengthening is

    IInv == TypeOK /\ TaskShape /\ QueueClean /\ CallsCurrent

`QueueClean`: nobody was told to own a task that is pending or assigned; without it a claim could
add a second winner. `CallsCurrent`: at most one call is between its check and its write, and what
it checked still holds (for a claim, that the task is still claimable by that agent; for an
assignment, that the task is still pending and the agent still registered); without it a write
could act on what is no longer true. The lemmas go through the actions one by one; `Inductive` puts
them together, and `AssigneeRegistered`, which speaks of the agents as well, is carried through a
second, shorter induction that uses `IInv`.

`OwnershipImplemented` is `Spec => OwnershipSpec` under `~Threaded`: Init maps to Init; `ClaimWrite` and `AssignWrite` map to `Take`, requeuing to `Release`, everything else
to a stutter. That a `ClaimWrite` is a `Take` or a stutter is `CallsCurrent` again.

**`Runtime_proofs`, of `AgentPool`.** `Exclusive` (`[]ExclusiveWhileKept`), for any finite number of requests and any limits. The invariant is

    PoolInv == PoolTyped /\ OneSessionEach /\ SameAgent /\ OneInside /\ WorkingInside

An instance belongs to one session for good (`OneSessionEach`); while a session is kept all its
requests have its agent and its lock (`SameAgent`); of these one at a time is between acquire and
release, and it has the lock (`OneInside`); an agent works for a request inside or for a client
that left (`WorkingInside`). TLC has checked it as an invariant on the instance of `agent_pool`.

**`Approval_proofs`, of `InceptionWorkflow`.** `StagesInOrder` (`[]StageOrder`), `SkipsJustified`
(`[]SkippedOnlyIfSimple`), `StateSaved` (`[]SavedState`) and `ApprovalsFinal` (`ApprovalFinal`), for
any list of stages, any conditional ones, any number of sessions, projects and threads. The invariant,
which TLC has checked on the instance of `inception`, is

    IInv == TypeOK /\ StageOrder /\ SkippedOnlyIfSimple /\ SavedState /\ AnswersKept /\ Assessed
            /\ CallsSound /\ SavesSound

`CallsSound`: a call acts on a workflow that is there, and, on a workflow where no calls overlapped, what
it has checked still holds when it changes the workflow. With it `StageOrder` is inductive: a stage that
awaits approval is the current one, so approving it advances from it. `SkippedOnlyIfSimple` is not: after a rejection a project may be
assessed again, as less simple than when stages were skipped. `Assessed` says why that does no
harm: the complexity is standard until its stage has been submitted, so nothing up to that stage was
skipped, and by `StageOrder` nothing after it has begun while it can be submitted again.
`WorkflowStep` reduces every step of the system to what it does to one session's workflow; the rest of
these is about single workflows. `SavesSound` carries `SavedState`: where no saves overlap, the one that is
being written is of the workflow as it is, or another call is still to serialise a later one. That the first stage needed after a given one exists is the well-foundedness of `<` on
the naturals (`FirstStage`).

**`Approval_proofs`, of `QualityGate`.** `ChecksAlwaysStand` (`[]DeterministicStands`),
`AlwaysApprovedByRubric` (`[]ApprovedByRubric`), `RevisionsAlwaysGuided` (`[]RevisionGuided`) and
`HumanAlwaysDecides` (`[]HumanDecides`), for any outputs (counts of the features), any replies and any
guesses at their titles, any number of iterations and of requests.

    GateInv == SessionTyped /\ Loop /\ Stored /\ RequestsTyped /\ Created /\ HumanDecides

Most of the work is about the operators. `Totals` and `AmongEntries` (in `ListFunctions_proofs`) say what
the recursive functions compute; an induction along a sequence (`Upwards`) is the well-foundedness of `<` on the
naturals, and that a recursive definition has the function it names is `Recursion`. `RubricShape` and
`ItemFound` go through the four rubrics, `HeuristicType` and `CheckedScores` through the heuristics and
the checks. `Merging` says what merging keeps, replaces and adds, `Parsing` that every item gets a
score. Two results carry the properties: `MeanOverRubric`, that the score over the reply's order is the
one over the rubric's if nothing is scored twice (the order is a permutation of the five items), and
`FailureNamed`, that a mean below 0.7 has an item below its own threshold, because the thresholds of
each rubric, weighed, reach 0.7. The induction then needs of the loop only `Loop` (it escalates when the
last iteration allowed has failed), and of the requests only `Created` (an answer is to a request that
exists) beside `HumanDecides`.

**`Approval_proofs`, of `Messaging`.** `LimitsAlwaysKept` (`[]LimitsKept`), `BreaksOnlyIfFull`
(`BrokenOnlyIfFull`) and `RolesAlwaysApart` (`[]RolesApart`), for any messages, agents, pairs, limits,
thresholds and windows, any policies and roles. Two invariants, proved apart:

    WindowsInv   == MessagingTypes /\ RatesFollowed /\ PairsFollowed
    PoliciesKept == PoliciesInPlace(store)

`LimitsKept` speaks of one window, which moves with the clock, so it is not inductive. `RatesFollowed`
and `PairsFollowed` compare the log with the history for every time in the window at once: since a
limit was set, no more deliveries are later than it than entries of the agent's log; since a breaker was
reset, as many, no more and no less, as entries of the pair's. The equality gives `BrokenOnlyIfFull`: what
the breaker counts has been delivered. That dropping old entries changes no such count is `CountAmong`,
which rests on `AmongCount`, an induction along the list. `PoliciesInPlace`: what is stored under an id of
a role asks for the role, and what is stored under the id of a denial is that denial.

**`DynamoDBStore_proofs`.** `ClaimsExclusive` (`[]ClaimExclusive`), `TakesAreDispatches`
(`TakenOnlyByDispatch`), `AgentsFindable` (`[]Findable`) and `InvalidStepsStale`
(`InvalidOnlyIfStale`), for any number of clients, keys, capabilities and tasks. Two invariants, one
for the tasks and one for the agents:

    TaskInv  == Typed /\ PendingUntaken /\ ClaimExclusive
    AgentInv == Typed /\ IndexAgrees /\ AsksValid

`PendingUntaken`: nobody was told that a pending task is its own, so that the condition of the claim
makes it exclusive whatever was read before. `IndexAgrees`: the state index says of a key what its item
says. `AsksValid`: an update under way was valid for the state it has read, so it breaks the life cycle
only if that state is no longer the item's.

**`Runtime_proofs`, of `AgentTurn`.** `RefusalsHold` (`[]RefusedNeverRuns`), for any hooks, tools, skills and calls.

    IInv == Typed /\ ActiveNoted /\ Undecided /\ WaivedNoted /\ RefusedNeverRuns

`ActiveNoted`: the skill that is active on a call's Strands agent is among those noted for the call
while it waits. `Undecided`: of a call that the hooks have not been asked about nothing has been
decided, so a decision is the last one of its call. `WaivedNoted`: a call that waits
while its tool needs no approval is `waived`, so whatever the approval hook lets pass has had that moment,
however the list changes afterwards.

`BooksAlwaysAgree` (`[]BooksAgree`) and `TurnsAlwaysCounted` (`[]TurnsCounted`) need more:

    BookInv == BookTypes /\ OpenInTools /\ CallBooks /\ ModelBook /\ TurnBook

`BooksAgree` compares the books when nothing is under way. `CallBooks` says what each hook's book holds
*meanwhile*: as many entries that wait as calls the hook was asked of, as many closed ones as calls that
are over. `ModelBook` keeps the numbers of the model's calls apart, of those waited for and those
recorded, and `TurnBook` says of turns that do not overlap that the telemetry's invocation is the
running turn's. `Moves` reduces a step to how it moves calls and turns between these sets, and the books
are then followed one by one.

**`Memory_proofs`, of `WorkspaceMemory`.** `LocksAccounted` (`[]LockAccounted`), `GateKept` (`[]TimeGateKept`) and
`MemoriesOwn` (`[]OwnMemories`), for any number of agents, any templates and gates, on the types
(`TypeCorrect`). `OwnersHold` says the first for all folders of all deployments. `GateInv` says of an
agent that is aware of its folder's newest insight that its copy of the state is not older than that
insight, and of an agent past its gates that it has found its copy old enough. `OwnFolders` adds to the
third that what an agent has gathered is its actor's, and that a folder named after an actor has only
that actor's memories.

**`Memory_proofs`, of `AgentMemory`.** `RecallsAlwaysScoped` (`[]RecallScoped`), `RecallsAlwaysComplete`
(`[]RecallComplete`), `ContextAlwaysBest` (`[]ContextBest`) and `BedrockAlwaysReady` (`[]BedrockReady`),
for any callers, sessions, templates, records, limits and budgets that satisfy `MemoryAssumption`,
`TemplatesApart` and `TemplatesReach`.

    MemoryInv == MemoryTyped /\ \A r \in Requests : Whole(req[r]) /\ Placed(req[r]) /\ Bound(req[r])
                     /\ Searching(req[r].search) /\ Answered(req[r]) /\ Looked(req[r])

TLC has checked it as an invariant on the instance of `agent_memory`. `Answered` says of a search that is
over what it answered; the rest says how it comes to that. A search is under way for several steps while
the service extracts more records, so `Progress` says that each query that is no longer to be asked is
*covered*: for every record that was there when the search began and that the query asks for, what has
been found has that record, or `TopK` different ones that are as relevant (`Represented`). `AnswerCovers`
shows that one answer of the service covers its query although it is cut to `TopK`, and
`RepresentedGrows` that later answers undo nothing. At the end `MergedRepresents` shows that merging keeps
what is represented, though doubles and the records of others go before the limit is applied: this is
where the order of the steps matters, and where the mutant `MergedTooEarly` fails. `AllAskedFor` is where
`TemplatesReach` is needed, and `OwnScoped`, which holds even when the service strays, is where
`TemplatesApart` is.

The other two are about operators. `Orders` says that `InOrder` lists a set by any strict order,
`Sorted` and `FirstKept` what `ByScore` and `FirstOfEach` give and leave out, `ContextIsBest` that the
selection has the best within the budget. `MergedMessages` follows the loop of
`turns_to_bedrock_messages` message by message, `UserFirst` what is put before it, and
`BedrockMessages` joins them: the texts of the messages, one after the other, are those of the
conversation that are not blank.

**`HarnessSlackbot_proofs`.** `ConversationsInTurn` (`[]ConversationInTurn`) and `AnswersFaithful`
(`[]AnswerFaithful`), for any number of messages, channels and workers, chunks of any size and any
number of faults.

    IInv == Typed /\ Handled /\ ConversationInTurn /\ SentShown /\ AnswerFaithful

`Handled`: what a worker works on is in flight to it. With `ConversationInTurn` two workers are then
never at one message (`OneWorker`), even when the queue holds it twice. So nobody else changes what
`SentShown` says: the newest attempt that Slack shows is what the publisher believes to have sent, and
there is none of it before a stream has started or a part was posted.

`NoAnswersTwice` (`[]NoAnswerTwice`) is a budget, `CountInv == failed \in [Messages -> Nat] /\ InFlight
/\ Budget`: the answers a message has had, the entries of the queue that may still come to one, and the
delivery that SQS would still take are together at most one more than the failures. A duplicate that SQS
takes uses up the delivery, a new receive needs a failure.

**`SlackDelivery_proofs`.** `TypeCorrect` (`[]TypeOK`), `OneReplyHolds` (`[]OneReply`),
`IndicatorsSettled` (`[]IndicatorSettled`) and `ThreadsSequential` (`[]ThreadSequential`), for any
number of messages, threads, acknowledging and working containers.

    IInv == TypeOK /\ JobInv /\ ClaimInv /\ ShownInv /\ BatchInv

`JobInv`: what a container holds fits where it is. `ClaimInv`: unless the table could not be asked, at
most one container has passed the claim of a message, and while it works the row is there and the reply
is not; when the row has expired, either there was no reply or nothing will handle the message again.
`ShownInv`: a message that none of `IndicatorSettled`'s exceptions befell has as many indicators as
containers that will settle one. `BatchInv`: a batch is
in flight, of one group and the only one of it, unless something disturbed the thread. `Carries`
reduces the steps of a container past the queue to one shape.

**Only model-checked.** Liveness (`AgentPool!Answered`, `SlackDelivery!Answered`, `AnsweredOrDead`,
`SessionEnds`, `ConsolidatesAgain`): temporal proofs under fairness are out of the prover's reach. Every
invariant and every other action property of a passing run has a theorem.

## 7. Findings

`PROJECT.json` has each with its lines. Those with a run are counterexamples of TLC; the others
were met while translating, and where a property has to except one, its text says so.

With a run:
- `claim_race`: `claim_task` is not atomic under threads, though its docstring and `test_chaos.py`
  say so.

Control plane and messages:
- `auto_restart` makes an agent READY without the self-check its docstring names.
- On DynamoDB `update_state` brings back an agent that another process terminated, as an item that
  cannot be read; `assign_task` has no condition, `claim_task` refuses tasks that were assigned to the
  claimant, and `find_by_state` mixes tenants whose names are prefixes of each other.
- A message to `"*"` lands in an inbox of that name, which no agent reads. With the policies of the
  roles alone the router denies every message.

Evaluation and handoff:
- A request that was decided and is escalated again still yields the old decision to `check_status`.
- A score with a full stop behind it cannot be read.
- `plato handoff resolve` decides in a channel that nobody else has.

Runtime, hooks and memory:
- The tool policy of a user's role is never set on an agent of the pool.
- Two requests run on one agent after an eviction or after a WebSocket client left.
- No tool call counts as an error in the telemetry; the tools that need an approval are read from an
  attribute that a harness does not have; the first invocation overwrites session and skill of the
  business metrics.
- The lock file of the consolidation is checked and then written; the count of events is never saved;
  a template with `{actor_id}` puts all users into one folder, and one that begins with a slash leaves
  the workspace.
- Recall by category and the context of a session ask for namespaces that no strategy has; requests
  without an identity share one actor; a failing `get_memory` leaves an empty list of strategies; the
  tools of a shared thread stay bound to its first user.

Slack:
- A direct message that mentions the bot has two events. When the mention comes first, the other is
  dropped as its duplicate and the mention is ignored: the message is never answered.
- After a transient failure SQS delivers again, the worker takes the message for a duplicate and it is
  never answered.
- Two direct messages of one user are in two SQS groups and one agent session. A busy session is
  answered by a `TypeError`.
- The answer to the post of an indicator is lost: the handler has no `ts` of it, and it stays beside the
  reply.
- The adapter's fallback also runs when Slack took the stream's start and the answer was lost.

Inception:
- An approval and a rejection of one stage in two threads both find it awaiting: the workflow passes the
  stage, which is then in progress again and cannot be submitted any more.
- After a restart an inception can only be started again, and the saved one is lost. `skip_stage` does
  not look at the current stage. The context is one per process for all sessions.
- An exception between a change and its save leaves memory ahead of the file, for only `ValueError` is
  caught; two saves in threads may leave the older one.

## 8. What is not modelled, and the plan

*External.* Slack, SQS, DynamoDB, Bedrock and the Strands agent loop are modelled only as the code
uses them: what a call may return, which failures it may have, which order it promises.

*Left out for good.* Generating and analysing text (reviews, templates, deliverables, deployment
files), reports and sinks of telemetry, command lines, one-shot scripts, wrappers of HTTP and SDK
calls: sequential code without state of its own. Signatures, secrets and the token exchange are matters
for a security review.

*Parallel dispatch.* `dispatch_parallel` is `asyncio.gather` over tasks that share a semaphore and
nothing else; each catches its own failure. That places are given back and results stay in order is the
standard library's doing, and a model would check that. What the code leaves open is plain to see: an
executor that is not a coroutine is never timed out and stops the others meanwhile, and a
`max_concurrency` of 0 waits for ever.

*The Bedrock loop.* At most `MAX_TOOL_ROUNDS` answers of the model, each with its results appended:
one sequential loop that nothing interrupts.

*Partly modelled*, as `PROJECT.json` says part by part: heartbeats and the audit table on DynamoDB;
texts, and queries of the audit log; conversations and injected memory in the pool; the system prompt,
the workspace tools and the MCP clients of an agent; the files of the local memory backend; formatting
and splitting of replies in Slack; questions and artifacts of an inception.

*What would come next.* The splitting of long replies (`_update_message_chunked`) and the formatting of
answers compared with a definition. Agents of several tenants in the instance of `dynamodb_store`. The
composition of `SlackDelivery` with `AgentPool`, for two messages of one session in two groups.

*Proofs to come*: that each message's texts are one uninterrupted run of one speaker, and the composition
named above as a refinement of what either part promises.
