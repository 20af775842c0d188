------------------------- MODULE InceptionWorkflow -------------------------
(***************************************************************************)
(* The approval gates of an AIDLC inception (plato/aidlc/workflow.py,      *)
(* stages.py, state.py) and the tools through which an agent drives it     *)
(* (plato/skills/aidlc_inception/tools.py). A workflow goes through an     *)
(* ordered list of stages; the answers to a stage wait for an approval,    *)
(* which advances the workflow past the conditional stages that a simple   *)
(* project does not need. The tools keep the workflows of one process in   *)
(* memory, each under its tenant and repository, act on the one that was   *)
(* started last and save it to its project's directory after every call.   *)
(*                                                                         *)
(* The tools are plain functions that run in threads, those of one batch   *)
(* and those of several sessions at the same time, on the module's state   *)
(* and without a lock. A call checks the workflow, changes it, serialises  *)
(* it and writes the file, and other calls come in between; the            *)
(* assignments of one change are one step. A call that raises in between   *)
(* leaves what it has done.                                                *)
(*                                                                         *)
(* A session stands for a tenant and repository and is the key of its      *)
(* workflow. Stages are named by their place in the list. The answers are  *)
(* abstracted to the complexity they are assessed as, an artifact to the   *)
(* fact that it was written; time stamps, notes and the audit log are left *)
(* out.                                                                    *)
(*                                                                         *)
(* skipped, raced and behind are history variables: whether skip_stage,    *)
(* which no tool calls, was called on a session's workflow, on its current *)
(* stage or on another; the sessions whose workflow changed while another  *)
(* call was between its check and its change; and those with a change that *)
(* was not saved, since the save failed, or was overlapped by another, or  *)
(* the call ended before it.                                               *)
(***************************************************************************)
EXTENDS Integers, FiniteSets, FiniteSetsExt

CONSTANTS
    LastStage,      \* the number of stages
    Conditional,    \* the conditional ones
    Requirements,   \* the stage whose answers decide the complexity
    Sessions,
    Projects,       \* project directories
    ProjectOf,      \* the project of each session
    Calls,          \* the threads that call tools
    None

Stages == 1 .. LastStage

ASSUME InceptionAssumption ==
    /\ LastStage \in Nat \ {0}
    /\ Conditional \subseteq Stages \ {1}
    /\ Requirements \in Stages \ Conditional
    /\ ProjectOf \in [Sessions -> Projects]
    /\ None \notin Stages /\ None \notin Sessions

Complexity == {"simple", "standard", "complex"}

StageStatus == {"pending", "in_progress", "awaiting_approval", "approved", "skipped"}

WorkflowState == [key        : Sessions,
                  current    : Stages \cup {None},
                  status     : [Stages -> StageStatus],
                  complexity : Complexity,
                  artifacts  : SUBSET Stages]

NoWorkflow == [key |-> None]

\* A call of a tool: checked and about to assess the answers, about to change
\* the workflow, about to serialise it, or to write what it serialised.
Call == [pc      : {"idle", "assess", "change", "save", "write"},
         tool    : {"submit", "approve", "reject", "none"},
         session : Sessions \cup {None},
         stage   : Stages \cup {None},
         image   : WorkflowState \cup {NoWorkflow}]

Idle == [pc |-> "idle", tool |-> "none", session |-> None, stage |-> None, image |-> NoWorkflow]

VARIABLES
    active,         \* _active_workflows
    context,        \* _current_tenant_id, _current_repo
    calls,
    disk,           \* aidlc-state.json in each project's directory, if it can be read
    skipped, raced, behind

vars == <<active, context, calls, disk, skipped, raced, behind>>

Init ==
    /\ active = [s \in Sessions |-> NoWorkflow]
    /\ context = None
    /\ calls = [c \in Calls |-> Idle]
    /\ disk = [p \in Projects |-> NoWorkflow]
    /\ skipped = [s \in Sessions |-> "no"]
    /\ raced = {} /\ behind = {}

----------------------------------------------------------------------------
(* AIDLCWorkflow: each operator gives the state after the call *)

\* A new workflow, started.
Started(s) == [key        |-> s,
               current    |-> 1,
               status     |-> [n \in Stages |-> IF n = 1 THEN "in_progress" ELSE "pending"],
               complexity |-> "standard",
               artifacts  |-> {}]

ShouldSkip(w, n) == n \in Conditional /\ w.complexity = "simple"

\* On to the first stage after n that is needed; the ones before it are skipped.
Advanced(w, n) ==
    LET needed == {k \in n + 1 .. LastStage : ~ShouldSkip(w, k)}
        next   == IF needed = {} THEN None ELSE Min(needed)
        passed == {k \in n + 1 .. LastStage : \A i \in needed : k < i}
    IN  [w EXCEPT !.current = next,
                  !.status  = [k \in Stages |-> IF k \in passed THEN "skipped"
                                                ELSE IF k = next THEN "in_progress" ELSE @[k]]]

Awaiting(w, n) == w.status[n] = "awaiting_approval"

\* submit_answers: only for the current stage, while it is in progress.
Submittable(w, n) == w.current = n /\ w.status[n] = "in_progress"

Submitted(w, n) == [w EXCEPT !.artifacts = @ \cup {n}, !.status[n] = "awaiting_approval"]

Approved(w, n) == Advanced([w EXCEPT !.status[n] = "approved"], n)

Rejected(w, n) == [w EXCEPT !.status[n] = "in_progress"]

\* skip_stage looks neither at the current stage nor at this one's status.
Skipped(w, n) == Advanced([w EXCEPT !.status[n] = "skipped"], n)

----------------------------------------------------------------------------
(* The tools *)

\* The calls on a workflow that have checked it and not yet changed it.
Midway(s) == {c \in Calls : calls[c].session = s /\ calls[c].pc \in {"assess", "change"}}

Writing(s) == {c \in Calls : calls[c].session = s /\ calls[c].pc = "write"}

Saving(s) == [Idle EXCEPT !.pc = "save", !.session = s]

\* aidlc_start_inception: a session that has a workflow in memory is refused.
\* The project's directory is not looked at.
\* Bound: one call at a time starts a session's workflow.
StartInception(c, s) ==
    /\ calls[c] = Idle
    /\ active[s] = NoWorkflow
    /\ active' = [active EXCEPT ![s] = Started(s)]
    /\ context' = s
    /\ calls' = [calls EXCEPT ![c] = Saving(s)]
    /\ skipped' = [skipped EXCEPT ![s] = "no"]
    /\ UNCHANGED <<disk, raced, behind>>

\* _get_current_workflow: the workflow of the context. It is always in memory.
Current == active[context]

\* A call has looked at the workflow of the context, and goes on with it.
Enter(c, tool, n) ==
    /\ calls[c] = Idle
    /\ calls' = [calls EXCEPT ![c] = [Idle EXCEPT
                    !.pc = IF tool = "submit" /\ n = Requirements THEN "assess" ELSE "change",
                    !.tool = tool, !.session = context, !.stage = n]]
    /\ UNCHANGED <<active, context, disk, skipped, raced, behind>>

SubmitAnswers(c, n) ==
    /\ context # None
    /\ Submittable(Current, n)
    /\ Enter(c, "submit", n)

\* A mutant of ApproveStage: the status is not looked at.
ApproveAnything(c, n) ==
    /\ context # None
    /\ Enter(c, "approve", n)

ApproveStage(c, n) ==
    /\ context # None
    /\ Awaiting(Current, n)
    /\ Enter(c, "approve", n)

\* A mutant of RejectStage: the status is not looked at.
RejectAnything(c, n) ==
    /\ context # None
    /\ Enter(c, "reject", n)

RejectStage(c, n) ==
    /\ context # None
    /\ Awaiting(Current, n)
    /\ Enter(c, "reject", n)

\* Call c changes the workflow of s to w and goes on as k.
Becomes(c, s, w, k) ==
    /\ active' = [active EXCEPT ![s] = w]
    /\ calls' = [calls EXCEPT ![c] = k]
    /\ raced' = IF Midway(s) \subseteq {c} THEN raced ELSE raced \cup {s}
    /\ UNCHANGED <<context, disk, skipped, behind>>

\* The answers to the requirements are assessed as soon as they are accepted.
Assess(c, assessed) ==
    LET s == calls[c].session
    IN  /\ calls[c].pc = "assess"
        /\ Becomes(c, s, [active[s] EXCEPT !.complexity = assessed],
                   [calls[c] EXCEPT !.pc = "change"])

\* What the tool makes of the workflow, as it is by now.
Changed(w, tool, n) ==
    CASE tool = "submit"  -> Submitted(w, n)
      [] tool = "approve" -> Approved(w, n)
      [] tool = "reject"  -> Rejected(w, n)

Change(c) ==
    LET s == calls[c].session
    IN  /\ calls[c].pc = "change"
        /\ Becomes(c, s, Changed(active[s], calls[c].tool, calls[c].stage), Saving(s))

\* The artifact cannot be written: submit_answers raises, and no save follows.
ArtifactFails(c) ==
    /\ calls[c].pc = "change" /\ calls[c].tool = "submit"
    /\ calls' = [calls EXCEPT ![c] = Idle]
    /\ behind' = IF calls[c].stage = Requirements THEN behind \cup {calls[c].session} ELSE behind
    /\ UNCHANGED <<active, context, disk, skipped, raced>>

\* A mutant of Serialise: the workflow of the context is saved.
SerialiseCurrent(c) ==
    LET s == context
    IN  /\ calls[c].pc = "save"
        /\ calls' = [calls EXCEPT ![c] = [Idle EXCEPT
                        !.pc = "write", !.session = s, !.image = active[s]]]
        /\ behind' = IF Writing(s) = {} THEN behind \ {s} ELSE behind \cup {s}
        /\ UNCHANGED <<active, context, disk, skipped, raced>>

\* save_state takes the state as it is by now ...
Serialise(c) ==
    LET s == calls[c].session
    IN  /\ calls[c].pc = "save"
        /\ calls' = [calls EXCEPT ![c] = [Idle EXCEPT
                        !.pc = "write", !.session = s, !.image = active[s]]]
        /\ behind' = IF Writing(s) = {} THEN behind \ {s} ELSE behind \cup {s}
        /\ UNCHANGED <<active, context, disk, skipped, raced>>

\* ... and writes it over what the file has.
WriteFile(c) ==
    /\ calls[c].pc = "write"
    /\ disk' = [disk EXCEPT ![ProjectOf[calls[c].session]] = calls[c].image]
    /\ calls' = [calls EXCEPT ![c] = Idle]
    /\ UNCHANGED <<active, context, skipped, raced, behind>>

\* The directory cannot be made or the file cannot be opened, or it is left
\* cut short. The tool raises.
WriteFails(c) ==
    /\ calls[c].pc = "write"
    /\ \/ UNCHANGED disk
       \/ disk' = [disk EXCEPT ![ProjectOf[calls[c].session]] = NoWorkflow]
    /\ calls' = [calls EXCEPT ![c] = Idle]
    /\ behind' = behind \cup {calls[c].session}
    /\ UNCHANGED <<active, context, skipped, raced>>

\* AIDLCWorkflow.skip_stage, called on a workflow of this process; it does not
\* save. Bound: once per workflow.
SkipStage(s, n) ==
    /\ active[s] # NoWorkflow
    /\ skipped[s] = "no"
    /\ n \in Conditional
    /\ active' = [active EXCEPT ![s] = Skipped(@, n)]
    /\ skipped' = [skipped EXCEPT ![s] = IF active[s].current = n THEN "current" ELSE "other"]
    /\ raced' = IF Midway(s) = {} THEN raced ELSE raced \cup {s}
    /\ behind' = behind \cup {s}
    /\ UNCHANGED <<context, calls, disk>>

\* The process ends and starts again. A file that was being written may be
\* left cut short: that is WriteFails before it.
Restart ==
    /\ context # None
    /\ active' = [s \in Sessions |-> NoWorkflow]
    /\ context' = None
    /\ calls' = [c \in Calls |-> Idle]
    /\ raced' = {} /\ behind' = {}
    /\ UNCHANGED <<disk, skipped>>

----------------------------------------------------------------------------

Next ==
    \/ \E c \in Calls :
          \/ \E s \in Sessions : StartInception(c, s)
          \/ \E n \in Stages : SubmitAnswers(c, n) \/ ApproveStage(c, n) \/ RejectStage(c, n)
          \/ \E assessed \in Complexity : Assess(c, assessed)
          \/ Change(c) \/ ArtifactFails(c)
          \/ Serialise(c) \/ WriteFile(c) \/ WriteFails(c)
    \/ \E s \in Sessions, n \in Stages : SkipStage(s, n)
    \/ Restart

Spec == Init /\ [][Next]_vars

----------------------------------------------------------------------------

TypeOK ==
    /\ active \in [Sessions -> WorkflowState \cup {NoWorkflow}]
    /\ context \in Sessions \cup {None}
    /\ calls \in [Calls -> Call]
    /\ disk \in [Projects -> WorkflowState \cup {NoWorkflow}]
    /\ skipped \in [Sessions -> {"no", "current", "other"}]
    /\ raced \subseteq Sessions /\ behind \subseteq Sessions
    /\ context # None => active[context] # NoWorkflow

Running(s) == active[s] # NoWorkflow

Done(w, n) == w.status[n] \in {"approved", "skipped"}

\* "State machine prevents skipping unapproved stages": every stage before the
\* current one is done, every one after it has not begun, and a workflow is
\* complete only when all are; unless skip_stage was called out of turn, or two
\* calls overlapped.
StageOrder ==
    \A s \in Sessions :
        Running(s) /\ skipped[s] # "other" /\ s \notin raced =>
            LET w == active[s]
            IN  \A n \in Stages :
                    IF w.current = None \/ n < w.current THEN Done(w, n)
                    ELSE IF n = w.current THEN w.status[n] \in {"in_progress", "awaiting_approval"}
                    ELSE w.status[n] = "pending"

\* An approved stage has its artifact, and a stage was skipped only because it
\* is conditional and the project, as last assessed, is simple, or by hand.
SkippedOnlyIfSimple ==
    \A s \in Sessions :
        Running(s) /\ s \notin raced =>
            \A n \in Stages :
                /\ active[s].status[n] = "approved" => n \in active[s].artifacts
                /\ active[s].status[n] = "skipped" =>
                     /\ n \in Conditional
                     /\ active[s].complexity = "simple" \/ skipped[s] # "no"

\* The calls whose change has still to be serialised.
Unsaved(s) ==
    {c \in Calls : /\ calls[c].session = s
                   /\ \/ calls[c].pc = "save"
                      \/ calls[c].pc = "change" /\ calls[c].tool = "submit"
                                                /\ calls[c].stage = Requirements}

OwnDirectory(s) == \A r \in Sessions \ {s} : ProjectOf[r] # ProjectOf[s]

\* What the tools did to a workflow, whichever session's it is and whatever
\* the context has become, is on disk or a call is still to bring it there;
\* unless a change was left unsaved, or another session uses the directory.
SavedState ==
    \A s \in Sessions :
        Running(s) /\ OwnDirectory(s) /\ s \notin behind =>
            \/ disk[ProjectOf[s]] = active[s]
            \/ Unsaved(s) # {}
            \/ \E c \in Writing(s) : calls[c].image = active[s]

\* An approval is final: a call of a tool never takes it back, as long as the
\* workflow was not moved out of turn and no two calls overlapped.
ApprovalFinal ==
    [][\A s \in Sessions, n \in Stages :
          /\ active[s] # NoWorkflow /\ active'[s] # NoWorkflow
          /\ skipped'[s] # "other" /\ s \notin raced'
          /\ active[s].status[n] = "approved"
          => active'[s].status[n] = "approved"]_vars

----------------------------------------------------------------------------
(* The inductive invariant behind StageOrder, SkippedOnlyIfSimple,         *)
(* SavedState and ApprovalFinal.                                           *)

\* Answers leave an artifact before they are approved.
AnswersKept ==
    \A s \in Sessions : Running(s) /\ s \notin raced =>
        \A n \in Stages :
            active[s].status[n] \in {"awaiting_approval", "approved"} => n \in active[s].artifacts

\* Until the complexity is assessed it is standard, so that an assessment comes
\* before every stage that was skipped.
Assessed ==
    \A s \in Sessions : Running(s) /\ skipped[s] = "no" /\ s \notin raced =>
        /\ active[s].status[Requirements] = "pending" => active[s].complexity = "standard"
        /\ \A n \in 1 .. Requirements : active[s].status[n] # "skipped"

\* A call has a workflow, and what it has checked is still so when it changes
\* the workflow.
CallsSound ==
    \A c \in Calls : LET k == calls[c] IN k.pc # "idle" =>
        /\ k.session \in Sessions /\ Running(k.session)
        /\ k.pc \in {"assess", "change"} =>
              /\ k.tool # "none" /\ k.stage # None
              /\ k.pc = "assess" => k.tool = "submit" /\ k.stage = Requirements
              /\ k.session \notin raced =>
                    IF k.tool = "submit" THEN Submittable(active[k.session], k.stage)
                    ELSE Awaiting(active[k.session], k.stage)

\* A save that none overlaps writes what is in memory, or another will.
SavesSound ==
    \A s \in Sessions \ behind : \A c \in Writing(s) :
        /\ Writing(s) = {c}
        /\ calls[c].image = active[s] \/ Unsaved(s) # {}

IInv == /\ TypeOK /\ StageOrder /\ SkippedOnlyIfSimple /\ SavedState
        /\ AnswersKept /\ Assessed /\ CallsSound /\ SavesSound

=============================================================================
