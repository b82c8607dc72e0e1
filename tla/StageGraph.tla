------------------------------ MODULE StageGraph ------------------------------
(***************************************************************************)
(* The human-gated stage pipeline of src/agent/src/graph.py: a chain of    *)
(* stages, each a draft -> [audit] -> [verify] -> gate subgraph wired by   *)
(* _wire_stage, entered through intake on every run.                       *)
(*                                                                         *)
(* A LangGraph node is one action.  Its state update reaches the durable   *)
(* checkpoint (st, work, restart, failure, req) only when the node         *)
(* returns; what it wrote into the workspace before that (disk,            *)
(* lastDrafting, leftover) stays even if the process is killed.            *)
(* Every node that writes the workspace therefore has two outcomes:        *)
(* the node returns, or the process dies first (Killed).                   *)
(***************************************************************************)
EXTENDS Integers

CONSTANTS
    N,               \* stages 1..N, in the order of STAGES
    SpecStage,       \* the "specification" stage; 1 is "requirements-prd"
    PlanStage,       \* the "plan" stage
    BuildStage,      \* the "ac-to-tests" stage: once it starts, Build has begun
    Audited,         \* stages with an audit leg in this session's mode
    Policy,          \* verify policy of each stage, _stage_verify_policy
    MaxCycles,       \* clarification cap of each stage
    MaxVerifyCycles, \* verify cap of each stage
    InfraCap,        \* VERIFY_INFRA_RETRY_CAP
    LedgerStages,    \* stages whose verify can report no_new_work
    FixStages,       \* stages with a verify_fix node
    RedraftEvery,    \* redraft_every_attempt stages (metrics-exit)
    MayBeNotReady,   \* a draft may come back with readiness = false
    Kills,           \* the process or the sandbox may die at any step
    Lossy,           \* the checkpoint may be lost between runs
    PersistFails,    \* a workspace write may fail (logged and swallowed)
    MaxRuns,         \* bound: number of graph invocations
    MaxReq           \* bound: number of requirement revisions

Stage == 1..N
Prd   == 1
Human == {SpecStage, PlanStage}

StageAssumption ==
    /\ N \in Nat
    /\ SpecStage = Prd + 1 /\ PlanStage = SpecStage + 1
    /\ BuildStage \in Stage /\ PlanStage < BuildStage
    /\ Audited \subseteq Stage
    /\ Policy \in [Stage -> {"none", "off", "advisory", "blocking"}]
    /\ MaxCycles \in [Stage -> Nat]
    /\ MaxVerifyCycles \in [Stage -> Nat]
    /\ InfraCap \in Nat
    /\ LedgerStages \subseteq Stage
    /\ FixStages \subseteq Stage
    /\ RedraftEvery \subseteq {N}
    /\ MayBeNotReady \in BOOLEAN /\ Kills \in BOOLEAN
    /\ Lossy \in BOOLEAN /\ PersistFails \in BOOLEAN
    /\ MaxRuns \in Nat /\ MaxReq \in Nat
ASSUME StageAssumption

VARIABLES
    node,         \* the node about to run; "idle" when no run is active
    cur,          \* the stage that node belongs to
    st,           \* checkpoint: GraphState["stages"]
    work,         \* checkpoint: the draft in hand at stage cur
    restart,      \* checkpoint: restart_from_requirements
    failure,      \* checkpoint: run_failure type
    known,        \* the checkpoint holds stages
    req,          \* checkpoint: revision of raw_requirements_text
    owed,         \* ghost: oldest revision an approval may still stand for
    disk,         \* .ai-dev-workflow/ as last persisted
    lastDrafting, \* stage of the newest "<stage> drafting" commit, 0 if none
    marked,       \* ghost: the drafting commit of the draft under way was made
    leftover,     \* ghost: uncommitted work of killed drafts, by their kind
    sandbox,      \* a sandbox is registered for the thread
    touched,      \* the session row has a run_id (scaffold's touch_run)
    headless,     \* this run is driven by run_headless.py
    runs          \* invocations so far

checkpoint == <<st, work, restart, failure, known, req, owed>>
workspace  == <<disk, lastDrafting, marked, leftover>>
run        == <<sandbox, touched, headless, runs>>
vars       == <<node, cur, checkpoint, workspace, run>>

-----------------------------------------------------------------------------
(* State of a stage.  appr is approved_content: "raw" content never passed *)
(* the stage's deterministic verify, "checked" content did; arev is the    *)
(* requirements revision the content was drafted from.                     *)

Nodes == {"idle", "scaffold", "record", "draft", "drafting", "audit",
          "verify", "verify_fix", "auto_approve", "gate", "escalate",
          "draft_escalate", "no_new_work"}

Status  == {"not_started", "drafting", "needs_clarification",
            "ready_for_review", "approved"}
Verdict == {"none", "passed", "failed", "infra", "cannot_verify"}
Content == {"none", "raw", "checked"}
Failure == {"none", "set_aside_failed", "cannot_verify",
            "infra_retry_cap_exceeded", "verification_cap_exceeded",
            "draft_infra_exhausted", "no_new_work"}

StageState == [status : Status, cycle : Nat, vcycle : Nat, infra : Nat,
               last : Verdict, appr : Content, arev : Nat]

default_stage_state ==
    [status |-> "not_started", cycle |-> 0, vcycle |-> 0, infra |-> 0,
     last |-> "none", appr |-> "none", arev |-> 0]

NoStages == [s \in Stage |-> default_stage_state]
NoWork   == [ok |-> FALSE, rev |-> 0]
EmptyWorkspace ==
    [written |-> FALSE, stages |-> NoStages, req |-> 0, owed |-> 0]

HasVerify(s)     == Policy[s] # "none"
VerifyEnabled(s) == Policy[s] \in {"advisory", "blocking"}

\* The gate node waits in interrupt() for a reviewer; a headless run answers
\* it at once.
Paused == node = "gate" /\ cur \in Human /\ ~headless

Active == node # "idle" /\ ~Paused

-----------------------------------------------------------------------------
(* Moving on, and persisting on the way.                                   *)

Goto(n, s)   == node' = n /\ cur' = s
NextStage(s) == IF s < N THEN Goto("draft", s + 1) ELSE Goto("idle", s)
Retry(s)     == Goto(IF s \in FixStages THEN "verify_fix" ELSE "draft", s)

\* What persist_state stores of the stages and hydrate_state plus intake's
\* _reset_stage_mechanics give back: the verify mechanics start over.
Snapshot(stages, r, o) ==
    [written |-> TRUE,
     stages  |-> [s \in Stage |->
                    [stages[s] EXCEPT !.vcycle = 0, !.infra = 0, !.last = "none"]],
     req |-> r, owed |-> o]

\* _persist_if_sandboxed: every stage at once; nothing without a sandbox;
\* a failure is swallowed.
Persist(stages, r, o) ==
    \/ sandbox /\ disk' = Snapshot(stages, r, o)
    \/ (~sandbox \/ PersistFails) /\ disk' = disk

\* The process dies before the node returns: what was persisted stays, the
\* checkpoint does not move.  A pending interrupt survives in it.
Killed ==
    /\ Kills
    /\ node' = IF Paused THEN "gate" ELSE "idle"
    /\ UNCHANGED <<cur, checkpoint>>

-----------------------------------------------------------------------------
Init ==
    /\ node = "idle" /\ cur = Prd
    /\ st = NoStages /\ work = NoWork
    /\ restart = FALSE /\ failure = "none" /\ known = FALSE
    /\ req = 0 /\ owed = 0
    /\ disk = EmptyWorkspace /\ lastDrafting = 0
    /\ marked = FALSE /\ leftover = {}
    /\ sandbox = FALSE /\ touched = FALSE /\ headless = FALSE /\ runs = 0

-----------------------------------------------------------------------------
(* Intake: the entry of every run that does not answer a pending gate.     *)

_reset_stage_status_fields(r) ==
    [r EXCEPT !.status = "not_started", !.cycle = 0]

_reset_stage_mechanics(r) ==
    [r EXCEPT !.vcycle = 0, !.last = "none"]

\* The stages a run starts from: the checkpoint's, or those hydrated from the
\* workspace when the checkpoint was lost and the thread has run before.
Hydrates      == ~known /\ touched /\ disk.written
IntakeStages  == IF Hydrates THEN disk.stages ELSE st
IntakeReq     == IF Hydrates THEN disk.req ELSE req
IntakeOwed    == IF Hydrates THEN disk.owed ELSE owed

run_ended == failure # "none" \/ st[N].status = "approved"

\* A submission is dropped once Build has started, until the run has ended.
Accepts(new) ==
    new /\ (st[BuildStage].status = "not_started" \/ run_ended)

\* (mutant) only the "drafting" status itself counts as interrupted
interrupted_while_drafting ==
    lastDrafting # 0 /\ IntakeStages[lastDrafting].status = "drafting"

_interrupted_draft_stage ==
    lastDrafting # 0
      /\ IntakeStages[lastDrafting].status \in {"not_started", "drafting"}

\* Every run is preceded by a provision; a rebuilt container comes up on the old
\* one's workspace volume, or on a fresh clone of the pushed branch.
LeftInWorkspace == IF sandbox THEN {leftover} ELSE {leftover, {}}

\* (mutant) a re-entry resets without a submission that would earn it
IntakeReset_unearned(r, s, fresh, resume) ==
    LET stage_resume == resume /\ s \notin RedraftEvery
        reset == IF stage_resume THEN r.status = "ready_for_review"
                 ELSE r.status \in {"ready_for_review", "approved", "drafting"}
    IN  _reset_stage_mechanics(IF reset THEN _reset_stage_status_fields(r) ELSE r)

\* (mutant) a fresh submission leaves approved stages approved
IntakeReset_unfinished(r, s, fresh, resume) ==
    LET reset == (fresh \/ resume) /\ r.status = "ready_for_review"
    IN  _reset_stage_mechanics(IF reset THEN _reset_stage_status_fields(r) ELSE r)

\* The loop over the stages: a fresh submission resets what earlier runs
\* reached, a resume keeps approvals and redrafts what was under review.
IntakeReset(r, s, fresh, resume) ==
    LET stage_resume == resume /\ s \notin RedraftEvery
        reset == \/ /\ fresh /\ ~stage_resume
                    /\ r.status \in {"ready_for_review", "approved", "drafting"}
                 \/ stage_resume /\ r.status = "ready_for_review"
    IN  _reset_stage_mechanics(IF reset THEN _reset_stage_status_fields(r) ELSE r)

\* (mutant) the stages after the rewound one stay approved
Rewound_alone(r, s, rewind) ==
    IF rewind # 0 /\ s = rewind
    THEN _reset_stage_mechanics(_reset_stage_status_fields(r))
    ELSE r

\* rewind_to_stage: that stage of STAGES, which the PRD is not part of, and
\* every stage after it start over (0: none).
Rewound(r, s, rewind) ==
    IF rewind # 0 /\ s >= rewind
    THEN _reset_stage_mechanics(_reset_stage_status_fields(r))
    ELSE r

\* A new input re-enters at intake; a browser run cannot be started over a
\* pending interrupt, run_headless.py's can.
MayInvoke(hl) == runs < MaxRuns /\ (node = "idle" \/ (Paused /\ hl))

\* flag: the resume flag of a provision, which a fresh submission overrides, or
\* run_headless.py's AIDW_RESUME (--thread without --fresh-run), which stands.
intake_node(new, flag, rewind, hl) ==
    LET fresh  == Accepts(new)
        resume == flag /\ (hl \/ ~fresh)
        r      == IF fresh THEN IntakeReq + 1 ELSE IntakeReq
    IN  /\ MayInvoke(hl)
        /\ new => req < MaxReq
        /\ st' = [s \in Stage |->
                    Rewound(IntakeReset(IntakeStages[s], s, fresh, resume), s, rewind)]
        /\ leftover' \in IF _interrupted_draft_stage THEN {{}} ELSE LeftInWorkspace
        /\ failure' = IF failure = "set_aside_failed" THEN "none" ELSE failure
        /\ req' = r
        /\ owed' = IF fresh /\ ~resume THEN r ELSE IntakeOwed
        /\ known' = TRUE
        /\ Goto(IF r > 0 THEN "scaffold" ELSE "idle", Prd)
        /\ sandbox' = TRUE /\ headless' = hl /\ runs' = runs + 1
        /\ UNCHANGED <<work, restart, disk, lastDrafting, marked, touched>>

\* The interrupted work cannot be set aside: the run ends right there and
\* returns nothing but its run_failure.
intake_set_aside_failed(hl) ==
    /\ MayInvoke(hl)
    /\ _interrupted_draft_stage
    /\ leftover' \in LeftInWorkspace
    /\ failure' = "set_aside_failed"
    /\ Goto("idle", Prd)
    /\ sandbox' = TRUE /\ headless' = hl /\ runs' = runs + 1
    /\ UNCHANGED <<st, work, restart, known, req, owed, disk, lastDrafting,
                   marked, touched>>

\* The only node that clears the previous run's failure -- in a sandbox.
scaffold_node ==
    /\ node = "scaffold"
    /\ touched' = (touched \/ sandbox)
    /\ failure' = IF sandbox THEN "none" ELSE failure
    /\ Goto("record", Prd)
    /\ UNCHANGED <<st, work, restart, known, req, owed, workspace,
                   sandbox, headless, runs>>

record_raw_requirements_node ==
    /\ node = "record"
    /\ Persist(st, req, owed)
    /\ \/ Goto("draft", Prd) /\ UNCHANGED checkpoint
       \/ Killed
    /\ UNCHANGED <<lastDrafting, marked, leftover, run>>

-----------------------------------------------------------------------------
(* Draft.                                                                  *)

\* (mutant) the stage is skipped on its content alone, whatever its status
skip_on_content(s) ==
    /\ st[s].appr # "none"
    /\ st[s].last \in {"none", "passed"}

\* (mutant) a failed verification does not cancel the skip
skip_rejected(s) ==
    st[s].status = "approved" /\ st[s].appr # "none"

should_skip_draft(s) ==
    /\ st[s].status = "approved" /\ st[s].appr # "none"
    /\ \/ st[s].last = "none" /\ s \notin RedraftEvery
       \/ st[s].last = "passed"

\* The route is already_approved for any stage still approved after the node.
draft_skip ==
    /\ node = "draft" /\ should_skip_draft(cur)
    /\ NextStage(cur)
    /\ UNCHANGED <<checkpoint, workspace, run>>

\* "drafting" is persisted and committed before the model call; the
\* checkpoint does not see it.
draft_start ==
    /\ node = "draft" /\ ~should_skip_draft(cur)
    /\ Goto("drafting", cur)
    /\ \/ /\ sandbox
          /\ disk' = Snapshot([st EXCEPT ![cur].status = "drafting"], req, owed)
          /\ lastDrafting' = cur /\ marked' = TRUE
       \/ /\ ~sandbox \/ PersistFails
          /\ marked' = FALSE /\ UNCHANGED <<disk, lastDrafting>>
    /\ UNCHANGED <<checkpoint, leftover, run>>

\* (mutant) an audited stage is taken to be verified by its audit
route_past_verify(s) ==
    IF s \notin Audited /\ Policy[s] = "advisory"
    THEN Goto("verify", s) ELSE Goto("gate", s)

make_route_after_draft_ready(s) ==
    IF s \in Audited THEN Goto("audit", s)
    ELSE IF VerifyEnabled(s) THEN Goto("verify", s)
    ELSE Goto("gate", s)

draft_ready ==
    /\ node = "drafting"
    /\ st' = [st EXCEPT ![cur].status = "ready_for_review"]
    /\ work' = [ok |-> FALSE, rev |-> req]
    /\ make_route_after_draft_ready(cur)
    /\ UNCHANGED <<restart, failure, known, req, owed, workspace, run>>

\* A draft that asks questions: another lap without a human when headless,
\* forced through at the cap, otherwise the run pauses for an answer.
draft_not_ready ==
    LET cycle == st[cur].cycle + 1
    IN  /\ node = "drafting" /\ MayBeNotReady
        /\ st' = [st EXCEPT ![cur] = [@ EXCEPT !.status = "needs_clarification",
                                               !.cycle = cycle]]
        /\ work' = [ok |-> FALSE, rev |-> req]
        /\ Goto(IF cycle >= MaxCycles[cur] THEN "auto_approve"
                ELSE IF headless THEN "draft" ELSE "idle", cur)
        /\ UNCHANGED <<restart, failure, known, req, owed, workspace, run>>

draft_infra_exhausted ==
    /\ node = "drafting"
    /\ Goto("draft_escalate", cur)
    /\ UNCHANGED <<checkpoint, workspace, run>>

\* The audit may revise the draft, so what comes out is unverified again.
audit_node ==
    /\ node = "audit"
    /\ Persist(st, req, owed)
    /\ \/ /\ Goto(IF VerifyEnabled(cur) THEN "verify" ELSE "gate", cur)
          /\ work' = [work EXCEPT !.ok = FALSE]
          /\ UNCHANGED <<st, restart, failure, known, req, owed>>
       \/ Killed
    /\ UNCHANGED <<lastDrafting, marked, leftover, run>>

-----------------------------------------------------------------------------
(* Deterministic verify, and its four ways out (make_route_after_verify).  *)

VerifyUnchanged ==
    UNCHANGED <<work, restart, failure, known, req, owed, workspace, run>>

verify_cannot ==
    /\ node = "verify" /\ ~sandbox
    /\ st' = [st EXCEPT ![cur].last = "cannot_verify"]
    /\ Goto("escalate", cur)
    /\ VerifyUnchanged

\* Content that passes is "checked" wherever it stands: in the draft, and in
\* the approval an auto-approve already made of this very draft.
Passed(s) ==
    [st EXCEPT ![s] =
        [@ EXCEPT !.last = "passed",
                  !.appr = IF st[s].status = "approved" THEN "checked" ELSE st[s].appr]]

verify_pass ==
    /\ node = "verify" /\ sandbox
    /\ Persist(Passed(cur), req, owed)
    /\ \/ /\ st' = Passed(cur)
          /\ work' = [work EXCEPT !.ok = TRUE]
          /\ \/ Goto("gate", cur)
             \/ cur \in LedgerStages /\ Goto("no_new_work", cur)
          /\ UNCHANGED <<restart, failure, known, req, owed>>
       \/ Killed
    /\ UNCHANGED <<lastDrafting, marked, leftover, run>>

\* (mutant) the last lap goes on to the gate, as the clarification cap does
verify_fail_forced ==
    LET lap == st[cur].vcycle + 1
    IN  /\ node = "verify" /\ sandbox
        /\ st' = [st EXCEPT ![cur] = [@ EXCEPT !.last = "failed", !.vcycle = lap]]
        /\ IF lap >= MaxVerifyCycles[cur] \/ Policy[cur] = "advisory"
           THEN Goto("gate", cur) ELSE Retry(cur)
        /\ VerifyUnchanged

\* (mutant) a redraft starts with a fresh verify budget
verify_fail_uncounted ==
    /\ node = "verify" /\ sandbox
    /\ st' = [st EXCEPT ![cur] = [@ EXCEPT !.last = "failed", !.vcycle = 0]]
    /\ IF 1 >= MaxVerifyCycles[cur] THEN Goto("escalate", cur)
       ELSE IF Policy[cur] = "advisory" THEN Goto("gate", cur)
       ELSE Retry(cur)
    /\ VerifyUnchanged

\* An audit finding or a missing skill fails what the check itself passed and
\* keeps its report; the route reads no_new_work there before the verdict.
verify_fail ==
    LET lap == st[cur].vcycle + 1
    IN  /\ node = "verify" /\ sandbox
        /\ st' = [st EXCEPT ![cur] = [@ EXCEPT !.last = "failed", !.vcycle = lap]]
        /\ \/ IF lap >= MaxVerifyCycles[cur] THEN Goto("escalate", cur)
              ELSE IF Policy[cur] = "advisory" THEN Goto("gate", cur)
              ELSE Retry(cur)
           \/ cur \in LedgerStages /\ Goto("no_new_work", cur)
        /\ VerifyUnchanged

\* Infrastructure verdicts spend their own budget.
verify_infra ==
    LET tries == st[cur].infra + 1
    IN  /\ node = "verify" /\ sandbox
        /\ st' = [st EXCEPT ![cur] = [@ EXCEPT !.last = "infra", !.infra = tries]]
        /\ IF tries < InfraCap THEN Retry(cur) ELSE Goto("escalate", cur)
        /\ VerifyUnchanged

verify_fix_node ==
    /\ node = "verify_fix"
    /\ Goto("draft", cur)
    /\ UNCHANGED <<checkpoint, workspace, run>>

-----------------------------------------------------------------------------
(* Approval.                                                               *)

\* approved_content := draft
Approved(s) ==
    [st EXCEPT ![s] =
        [@ EXCEPT !.status = "approved", !.cycle = 0,
                  !.appr = IF work.ok THEN "checked" ELSE "raw",
                  !.arev = work.rev]]

gate_approve ==
    /\ node = "gate"
    /\ Persist(Approved(cur), req, owed)
    /\ \/ /\ st' = Approved(cur) /\ restart' = FALSE
          /\ NextStage(cur)
          /\ UNCHANGED <<work, failure, known, req, owed>>
       \/ Killed
    /\ UNCHANGED <<lastDrafting, marked, leftover, run>>

\* (mutant) the decision is stored as the status
Rejected_as_decided(s) == [st EXCEPT ![s].status = "rejected"]

Rejected(s) == [st EXCEPT ![s].status = "needs_clarification"]

\* The route reads restart_from_requirements before the stage's status.
gate_reject ==
    /\ Paused
    /\ Persist(Rejected(cur), req, owed)
    /\ \/ /\ st' = Rejected(cur)
          /\ Goto("draft", IF restart THEN Prd ELSE cur)
          /\ UNCHANGED <<work, restart, failure, known, req, owed>>
       \/ Killed
    /\ UNCHANGED <<lastDrafting, marked, leftover, run>>

\* (mutant) the specification stays approved through a correction at the plan
corrected_plan_only(t, s) ==
    CASE t = Prd -> "drafting"
      [] t = PlanStage /\ s = PlanStage -> "not_started"
      [] t = SpecStage /\ s = SpecStage -> "needs_clarification"
      [] OTHER -> st[t].status

\* A rejection that carries revised requirements restarts at the PRD; at the
\* plan gate the approved specification has to be redrafted too.
corrected_status(t, s) ==
    CASE t = Prd -> "drafting"
      [] t = SpecStage /\ s = PlanStage -> "drafting"
      [] t = PlanStage /\ s = PlanStage -> "not_started"
      [] t = SpecStage /\ s = SpecStage -> "needs_clarification"
      [] OTHER -> st[t].status

Corrected(s) ==
    [t \in Stage |->
        [st[t] EXCEPT !.status = corrected_status(t, s),
                      !.vcycle = IF t = Prd THEN 0 ELSE st[t].vcycle]]

gate_correct ==
    /\ Paused /\ req < MaxReq
    /\ Persist(Corrected(cur), req + 1, req + 1)
    /\ \/ /\ st' = Corrected(cur) /\ req' = req + 1 /\ owed' = req + 1
          /\ restart' = TRUE
          /\ Goto("draft", Prd)
          /\ UNCHANGED <<work, failure, known>>
       \/ Killed
    /\ UNCHANGED <<lastDrafting, marked, leftover, run>>

\* (mutant) every auto-approval is persisted at once
auto_approve_and_persist ==
    /\ node = "auto_approve"
    /\ Persist(Approved(cur), req, owed)
    /\ \/ /\ st' = Approved(cur)
          /\ IF HasVerify(cur) THEN Goto("verify", cur) ELSE NextStage(cur)
          /\ UNCHANGED <<work, restart, failure, known, req, owed>>
       \/ Killed
    /\ UNCHANGED <<lastDrafting, marked, leftover, run>>

\* The clarification cap: approved without audit or human.  Only a stage that
\* has no deterministic verify persists the approval here.
auto_approve_node ==
    /\ node = "auto_approve"
    /\ IF HasVerify(cur) THEN disk' = disk ELSE Persist(Approved(cur), req, owed)
    /\ \/ /\ st' = Approved(cur)
          /\ IF HasVerify(cur) THEN Goto("verify", cur) ELSE NextStage(cur)
          /\ UNCHANGED <<work, restart, failure, known, req, owed>>
       \/ Killed
    /\ UNCHANGED <<lastDrafting, marked, leftover, run>>

-----------------------------------------------------------------------------
(* The nodes that end a run with a failure.                                *)

\* First cause wins.  Recording it closes the session row, which tears the
\* sandbox down while the node goes on; the persist that follows may or may
\* not still find one.
RecordFailure(type) == failure' = IF failure = "none" THEN type ELSE failure
TearDown == sandbox' = (sandbox /\ failure # "none")
PersistDuringTearDown(stages) ==
    Persist(stages, req, owed) \/ (failure = "none" /\ disk' = disk)

EscalationType(s) ==
    CASE st[s].last = "cannot_verify" -> "cannot_verify"
      [] st[s].last = "infra" -> "infra_retry_cap_exceeded"
      [] OTHER -> "verification_cap_exceeded"

Revoked(s) ==
    [st EXCEPT ![s] =
        [@ EXCEPT !.vcycle = 0, !.infra = 0, !.status = "needs_clarification",
                  !.appr = "none", !.arev = 0]]

escalate_node ==
    /\ node = "escalate"
    /\ PersistDuringTearDown(Revoked(cur))
    /\ \/ /\ st' = Revoked(cur) /\ RecordFailure(EscalationType(cur))
          /\ Goto("idle", cur)
          /\ UNCHANGED <<work, restart, known, req, owed>>
       \/ Killed
    /\ TearDown
    /\ UNCHANGED <<lastDrafting, marked, leftover, touched, headless, runs>>

draft_escalate_node ==
    LET stopped == [st EXCEPT ![cur].status = "needs_clarification"]
    IN  /\ node = "draft_escalate"
        /\ PersistDuringTearDown(stopped)
        /\ \/ /\ st' = stopped /\ RecordFailure("draft_infra_exhausted")
              /\ Goto("idle", cur)
              /\ UNCHANGED <<work, restart, known, req, owed>>
           \/ Killed
        /\ TearDown
        /\ UNCHANGED <<lastDrafting, marked, leftover, touched, headless, runs>>

no_new_work_node ==
    /\ node = "no_new_work"
    /\ failure' = "no_new_work"
    /\ sandbox' = FALSE
    /\ Goto("idle", cur)
    /\ UNCHANGED <<st, work, restart, known, req, owed, workspace,
                   touched, headless, runs>>

-----------------------------------------------------------------------------
(* Faults.                                                                 *)

\* The agent process dies.  A draft's CLI leaves its edits uncommitted; an
\* interrupt that was already raised stays pending, whoever raised it.
kill ==
    /\ Kills /\ Active
    /\ \/ Goto("idle", cur) /\ headless' = headless
       \/ /\ node = "gate" /\ cur \in Human
          /\ Goto("gate", cur) /\ headless' = FALSE
    /\ leftover' =
         IF node # "drafting" THEN leftover
         ELSE leftover \cup
              {IF ~marked THEN "unmarked"
               ELSE IF st[cur].status \in {"not_started", "drafting"} THEN "first_lap"
               ELSE "redraft_lap"}
    /\ UNCHANGED <<checkpoint, disk, lastDrafting, marked, sandbox, touched, runs>>

\* The container dies or is reaped; its registration goes with it.
sandbox_lost ==
    /\ Kills /\ sandbox
    /\ sandbox' = FALSE
    /\ UNCHANGED <<node, cur, checkpoint, workspace, touched, headless, runs>>

\* The checkpoint database is gone, or the fail-soft in-memory saver died
\* with its process.
checkpoint_lost ==
    /\ Lossy /\ known /\ ~Active
    /\ Goto("idle", Prd)
    /\ st' = NoStages /\ work' = NoWork /\ restart' = FALSE
    /\ failure' = "none" /\ known' = FALSE /\ req' = 0 /\ owed' = 0
    /\ UNCHANGED <<workspace, run>>

-----------------------------------------------------------------------------
ProgramStep ==
    \/ scaffold_node \/ record_raw_requirements_node
    \/ draft_skip \/ draft_start \/ draft_ready \/ draft_not_ready
    \/ draft_infra_exhausted \/ audit_node
    \/ verify_cannot \/ verify_pass \/ verify_fail \/ verify_infra
    \/ verify_fix_node \/ auto_approve_node
    \/ (~Paused /\ gate_approve)
    \/ escalate_node \/ draft_escalate_node \/ no_new_work_node

ReviewerStep == (Paused /\ gate_approve) \/ gate_reject \/ gate_correct

Intake ==
    \E hl \in BOOLEAN :
        \/ \E new, flag \in BOOLEAN, rewind \in {0} \cup (SpecStage..N) :
               intake_node(new, flag, rewind, hl)
        \/ intake_set_aside_failed(hl)

Fault == kill \/ sandbox_lost \/ checkpoint_lost

Next == Fault \/ Intake \/ ReviewerStep \/ ProgramStep

Spec == Init /\ [][Next]_vars

\* The driver task keeps stepping the graph, and every model call ends: in an
\* answer, or in the infra-exhausted exit once its retries are spent.
Fairness == WF_vars(ProgramStep)

FairSpec == Spec /\ Fairness

-----------------------------------------------------------------------------
(* Properties.                                                             *)

Working == node \notin {"idle", "scaffold", "record"}

TypeOK ==
    /\ node \in Nodes /\ cur \in Stage
    /\ st \in [Stage -> StageState]
    /\ work \in [ok : BOOLEAN, rev : Nat]
    /\ restart \in BOOLEAN /\ failure \in Failure /\ known \in BOOLEAN
    /\ req \in Nat /\ owed \in Nat
    /\ disk \in [written : BOOLEAN, stages : [Stage -> StageState],
                 req : Nat, owed : Nat]
    /\ lastDrafting \in 0..N /\ marked \in BOOLEAN
    /\ leftover \subseteq {"unmarked", "first_lap", "redraft_lap"}
    /\ sandbox \in BOOLEAN /\ touched \in BOOLEAN /\ headless \in BOOLEAN
    /\ runs \in Nat

\* A stage is worked on only when every stage before it is approved, with
\* content: no resume, rewind, correction, kill or skip jumps over one.
UpstreamApproved ==
    Working => \A s \in 1..(cur - 1) :
                   st[s].status = "approved" /\ st[s].appr # "none"

\* Whatever a stage is built on passed the deterministic verify of the stage
\* that produced it, where that verify blocks: content that failed, or never
\* faced it, is not skipped past as "already approved".
ConsumedWasChecked ==
    Working => \A s \in 1..(cur - 1) :
                   Policy[s] = "blocking" => st[s].appr = "checked"

\* Nor is such content ever on the branch as an approval, where the run after
\* a lost checkpoint would hydrate it.
DiskApprovalsChecked ==
    \A s \in Stage :
        (Policy[s] = "blocking" /\ disk.stages[s].status = "approved")
            => disk.stages[s].appr = "checked"

\* No stage is built on an approval of requirements that a submission or a
\* correction at a gate has since replaced.
ApprovalsCurrent ==
    Working => \A s \in 1..(cur - 1) : st[s].arev >= owed

\* Entering a run without new requirements, a rewind or a lost checkpoint
\* takes no approval away.
ApprovalsSurviveReattach ==
    [][ \A hl, flag \in BOOLEAN :
           intake_node(FALSE, flag, 0, hl)
               => \A s \in Stage : IntakeStages[s].status = "approved"
                                     => st'[s].status = "approved" ]_vars

\* Work left uncommitted by the interrupted first draft of a stage, whose
\* "drafting" commit was made, is out of the tree before any node runs on it.
FirstDraftSetAside == Working => "first_lap" \notin leftover

\* A run that is going ends, or waits for its reviewer: the verify laps, infra
\* retries and clarification laps of all stages are bounded together.
RunTerminates == Active ~> (node = "idle" \/ Paused)

-----------------------------------------------------------------------------
(* What the pipeline promises (ApprovalChain), and how its state stands for *)
(* the state of that promise.                                               *)

\* The stages of a checkpoint, or of the branch, whose approval stands: it has
\* content, checked where verify blocks, of the requirements in force.
Standing(stages, o) ==
    {s \in Stage : /\ stages[s].status = "approved" /\ stages[s].appr # "none"
                   /\ stages[s].arev >= o
                   /\ Policy[s] = "blocking" => stages[s].appr = "checked"}

Chain == INSTANCE ApprovalChain
    WITH at    <- IF Working THEN cur ELSE 0,
         done  <- Standing(st, owed),
         saved <- Standing(disk.stages, disk.owed)

\* Every node, correction, lever, resume, kill and hydration is a step of the
\* promise: approvals are won one by one, in order, by work on that stage, and
\* none comes back that was not saved.
KeepsApprovalChain == Chain!Spec
=============================================================================
