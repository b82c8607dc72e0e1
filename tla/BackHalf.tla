------------------------------- MODULE BackHalf -------------------------------
(***************************************************************************)
(* The back half of the pipeline (src/agent/src/graph.py, build_graph): a  *)
(* rebuild placement behind every code-writing stage, test hardening and   *)
(* e2e behind one of them, then the metrics gate and metrics-exit.         *)
(*                                                                         *)
(* Stage k is followed by placement k; stage Last is metrics-exit.  The    *)
(* inside of a stage is StageGraph's; here it is drafted, then approved or *)
(* given up.  A node's update and the edge taken after it are one action.  *)
(* What tests, builds and scanners find is nondeterministic.               *)
(***************************************************************************)
EXTENDS Integers

CONSTANTS
    P,             \* placements (4 in the code)
    MaxFix,        \* max_fix_cycles of a placement
    MaxTestFix,    \* TEST_HARDENING_MAX_FIX_CYCLES
    MaxE2eFix,     \* E2E_MAX_FIX_CYCLES
    MaxScans,      \* _METRICS_GATE_MAX_ATTEMPTS
    MaxRuns,       \* bound: runs started
    MaxLosses      \* bound: sandboxes lost in mid-run

BackHalfAssumption ==
    /\ P \in Nat /\ P >= 2
    /\ MaxFix \in Nat /\ MaxTestFix \in Nat /\ MaxE2eFix \in Nat
    /\ MaxScans \in Nat /\ MaxScans > 0
    /\ MaxRuns \in Nat /\ MaxLosses \in Nat
ASSUME BackHalfAssumption

VARIABLES
    node,       \* the node about to run, "idle" between runs
    at,         \* the stage, or the placement, it belongs to
    runs,       \* runs started so far: the number of the one under way
    run_id,     \* GraphState["run_id"]: the run that minted it
    status,     \* checkpoint: status of each stage
    drafted,    \* workspace: the stage's draft file is there
    rebuild,    \* checkpoint: GraphState["rebuild"]
    hardening,  \* checkpoint: GraphState["test_hardening"]
    e2e,        \* checkpoint: GraphState["e2e"]
    gate,       \* checkpoint: repo_scan.metrics_gate
    failure,    \* checkpoint: run_failure type
    refused,    \* checkpoint: targeted_fix_refused
    row,        \* dbo.sessions: status, and type of the failure
    sandbox,    \* a sandbox is registered
    losses,     \* sandboxes lost in mid-run so far
    built,      \* ghost: the sources are as the last green build left them
    passed      \* ghost: clusters this run has got past

clusters == <<rebuild, hardening, e2e, gate>>
outcome  == <<failure, refused, row>>
ghosts   == <<built, passed>>
vars     == <<node, at, runs, run_id, status, drafted, clusters, outcome,
              sandbox, losses, ghosts>>

Placement == 1..P
Last      == P + 1
Stage     == 1..Last
Hardening == P - 1   \* the placement test hardening and e2e come after

StageNodes == {"draft", "gate", "rebuild", "rebuild_fix", "rebuild_escalate"}
TestNodes  == {"run_tests", "test_fix", "regression_gate", "flake_triage",
               "mint_tickets", "exit_check", "exit_escalate"}
E2eNodes   == {"e2e_gate_check", "e2e_run", "e2e_fix", "e2e_escalate"}
ExitNodes  == {"metrics_compute", "metrics_record", "exit_draft", "exit_finalize"}
Nodes      == {"idle"} \cup StageNodes \cup TestNodes \cup E2eNodes \cup ExitNodes

\* The clusters of a run: its placements, then these three.
Tests    == P + 1
E2e      == P + 2
Scan     == P + 3
Clusters == 1..Scan

Failure == {"none", "stage", "cannot_verify", "rebuild_cap_exceeded",
            "stable_test_regression", "flake_quarantine_incomplete",
            "e2e_cap_exceeded", "metrics_regression"}
\* What the row says of a run that got as far as the exit report.
Verdict == {"gates_not_passed", "exit_report_failed"}

StageStatus == {"not_started", "ready_for_review", "approved", "needs_clarification"}

RebuildState == [status : {"not_started", "clean", "failed", "fixing"}, laps : Nat,
                 cannot_verify : BOOLEAN, passed_run : Nat]

\* One flaky test stands for all; its quarantine entry may get a ticket's title,
\* or none, before it is linked.
TestHardeningState ==
    [laps : Nat, stable_fail : BOOLEAN, cannot_verify : BOOLEAN,
     quarantine : {"none", "untriaged", "titled", "linked"}]

E2EState == [laps : Nat, cannot_verify : BOOLEAN]
Gate     == [reasons : BOOLEAN, attempt : Nat]
Row      == [status : {"in_progress", "failed", "completed"}, cause : Failure \cup Verdict]

default_rebuild_state ==
    [status |-> "not_started", laps |-> 0, cannot_verify |-> FALSE, passed_run |-> 0]

default_test_hardening_state ==
    [laps |-> 0, stable_fail |-> FALSE, quarantine |-> "none", cannot_verify |-> FALSE]

default_e2e_state == [laps |-> 0, cannot_verify |-> FALSE]

Goto(n, k) == node' = n /\ at' = k

\* close_session of a failure; only cannot_verify takes the sandbox along.
record_run_failure(type) ==
    /\ failure' = type
    /\ row' = [status |-> "failed", cause |-> type]
    /\ sandbox' = (sandbox /\ type # "cannot_verify")

Init ==
    /\ node = "idle" /\ at = 1 /\ runs = 0 /\ run_id = 0
    /\ status = [s \in Stage |-> "not_started"] /\ drafted = {}
    /\ rebuild = [k \in Placement |-> default_rebuild_state]
    /\ hardening = default_test_hardening_state
    /\ e2e = default_e2e_state /\ gate = [reasons |-> FALSE, attempt |-> 0]
    /\ failure = "none" /\ refused = FALSE
    /\ row = [status |-> "in_progress", cause |-> "none"]
    /\ sandbox = FALSE /\ losses = 0
    /\ built = FALSE /\ passed = {}

-----------------------------------------------------------------------------
(* Entering a run: intake, then scaffold in the sandbox just provisioned.  *)

not_ready == row.status = "failed" /\ row.cause \in Verdict
is_finished_with_verdict == row.status = "completed" \/ not_ready

reset_rebuild_state(k, from) ==
    IF k >= from THEN default_rebuild_state ELSE rebuild[k]

\* A new submission starts every stage over, a resume the stage under review.
Reset(s, new, resume) ==
    \/ new /\ status[s] \in {"ready_for_review", "approved"}
    \/ resume /\ s # Last /\ status[s] = "ready_for_review"

\* from: the first stage that rewind-to-stage or reset-e2e starts over, and with
\* it the placements behind; the stages before keep what they have.
Enter(new, resume, from) ==
    /\ node = "idle" /\ runs < MaxRuns
    /\ ~(new /\ resume)
    /\ runs' = runs + 1
    /\ run_id' = IF resume /\ run_id # 0 THEN run_id ELSE runs + 1
    /\ status' = [s \in Stage |->
                    IF s >= from \/ Reset(s, new, resume) THEN "not_started" ELSE status[s]]
    /\ Goto("draft", 1)
    /\ row' = [status |-> "in_progress", cause |-> "none"]
    /\ failure' = "none" /\ sandbox' = TRUE
    /\ passed' = {} /\ UNCHANGED hardening

intake_node(new, resume) ==
    /\ Enter(new, resume, Last + 1)
    /\ e2e' = [e2e EXCEPT !.laps = 0]
    /\ refused' = FALSE
    /\ UNCHANGED <<drafted, rebuild, gate, losses, built>>

rewind_to_stage(from, resume) ==
    /\ row.status = "failed" /\ from \in Stage
    /\ Enter(FALSE, resume, from)
    /\ rebuild' = [k \in Placement |-> reset_rebuild_state(k, from)]
    /\ e2e' = [e2e EXCEPT !.laps = 0]
    /\ refused' = FALSE
    /\ UNCHANGED <<drafted, gate, losses, built>>

\* adversarial-compliance and metrics-exit start over, and the placements from
\* the one before e2e on.
reset_e2e(resume) ==
    /\ is_finished_with_verdict
    /\ Enter(FALSE, resume, P)
    /\ rebuild' = [k \in Placement |-> reset_rebuild_state(k, Hardening)]
    /\ e2e' = default_e2e_state
    /\ refused' = FALSE
    /\ UNCHANGED <<drafted, gate, losses, built>>

\* The fixer edits the sources before the run starts, or is refused because the
\* same reasons survived it before.
targeted_fix(resume) ==
    /\ not_ready
    /\ e2e' = [e2e EXCEPT !.laps = 0]
    /\ \/ Enter(FALSE, resume, Last) /\ built' = FALSE /\ refused' = FALSE
       \/ Enter(FALSE, resume, Last + 1) /\ built' = built /\ refused' = TRUE
    /\ UNCHANGED <<drafted, rebuild, gate, losses>>

-----------------------------------------------------------------------------
(* The code-writing stages.                                                *)

\* should_skip_draft: intake has cleared the verification on record.
stage_skip ==
    /\ node = "draft" /\ status[at] = "approved"
    /\ Goto("rebuild", at)
    /\ UNCHANGED <<runs, run_id, status, drafted, clusters, outcome, sandbox,
                   losses, ghosts>>

stage_draft ==
    /\ node = "draft" /\ status[at] # "approved"
    /\ status' = [status EXCEPT ![at] = "ready_for_review"]
    /\ built' = FALSE
    /\ Goto("gate", at)
    /\ UNCHANGED <<runs, run_id, drafted, clusters, outcome, sandbox, losses,
                   passed>>

stage_approve ==
    /\ node = "gate"
    /\ status' = [status EXCEPT ![at] = "approved"]
    /\ drafted' = IF sandbox THEN drafted \cup {at} ELSE drafted
    /\ Goto("rebuild", at)
    /\ UNCHANGED <<runs, run_id, clusters, outcome, sandbox, losses, ghosts>>

\* Verify laps or infra retries are spent (StageGraph's escalate nodes).
stage_escalate ==
    /\ node = "gate"
    /\ status' = [status EXCEPT ![at] = "needs_clarification"]
    /\ failure' = "stage" /\ row' = [status |-> "failed", cause |-> "stage"]
    /\ sandbox' = FALSE
    /\ drafted' \in {drafted, drafted \cup {at}}
    /\ Goto("idle", 1)
    /\ UNCHANGED <<runs, run_id, clusters, refused, losses, ghosts>>

-----------------------------------------------------------------------------
(* Rebuild: the placement behind stage at.                                 *)

stage_started(s) == status[s] # "not_started" \/ s \in drafted

\* (mutant) a pass of any run will do
skip_once_clean(k) == rebuild[k].status = "clean" /\ stage_started(k + 1)

should_skip_rebuild(k) ==
    /\ rebuild[k].status = "clean" /\ rebuild[k].passed_run = run_id
    /\ stage_started(k + 1)

\* (mutant) every placement leads to the next stage
after_rebuild_next_stage ==
    /\ Goto("draft", at + 1)
    /\ passed' = passed \cup {at}

\* next_node: the last placement leads to the README and the metrics.
AfterRebuild ==
    /\ Goto(CASE at = P -> "metrics_compute"
              [] at = Hardening -> "run_tests"
              [] OTHER -> "draft", IF at = P THEN Last ELSE at + 1)
    /\ passed' = passed \cup {at}

RebuildUnchanged ==
    UNCHANGED <<runs, run_id, status, drafted, hardening, e2e, gate, outcome,
                sandbox, losses>>

rebuild_skip ==
    /\ node = "rebuild" /\ sandbox /\ should_skip_rebuild(at)
    /\ rebuild' = [rebuild EXCEPT ![at].cannot_verify = FALSE]
    /\ AfterRebuild
    /\ built' = built
    /\ RebuildUnchanged

\* Build, red gate and scan delta are green, and the sources committed.
rebuild_clean ==
    /\ node = "rebuild" /\ sandbox /\ ~should_skip_rebuild(at)
    /\ rebuild' = [rebuild EXCEPT ![at] =
          [@ EXCEPT !.status = "clean", !.passed_run = run_id, !.cannot_verify = FALSE]]
    /\ AfterRebuild
    /\ built' = TRUE
    /\ RebuildUnchanged

rebuild_failed ==
    /\ node = "rebuild" /\ sandbox /\ ~should_skip_rebuild(at)
    /\ rebuild' = [rebuild EXCEPT ![at] =
          [@ EXCEPT !.status = "failed", !.cannot_verify = FALSE]]
    /\ Goto(IF rebuild[at].laps < MaxFix THEN "rebuild_fix" ELSE "rebuild_escalate", at)
    /\ UNCHANGED <<built, passed>>
    /\ RebuildUnchanged

rebuild_cannot_verify ==
    /\ node = "rebuild" /\ ~sandbox
    /\ rebuild' = [rebuild EXCEPT ![at] =
          [@ EXCEPT !.status = "failed", !.cannot_verify = TRUE]]
    /\ Goto("rebuild_escalate", at)
    /\ UNCHANGED <<built, passed>>
    /\ RebuildUnchanged

\* A lap lost to infrastructure, or to a lost sandbox, counts too.
rebuild_fix ==
    /\ node = "rebuild_fix"
    /\ rebuild' = [rebuild EXCEPT ![at] =
          [@ EXCEPT !.laps = rebuild[at].laps + 1, !.status = "fixing"]]
    /\ built' = FALSE
    /\ Goto("rebuild", at)
    /\ UNCHANGED <<runs, run_id, status, drafted, hardening, e2e, gate, outcome,
                   sandbox, losses, passed>>

\* Without a sandbox there is nothing to report on; otherwise the exit report
\* is still written.
rebuild_escalate ==
    /\ node = "rebuild_escalate"
    /\ record_run_failure(IF rebuild[at].cannot_verify THEN "cannot_verify"
                          ELSE "rebuild_cap_exceeded")
    /\ rebuild' = [rebuild EXCEPT ![at] = [@ EXCEPT !.laps = 0, !.cannot_verify = FALSE]]
    /\ IF rebuild[at].cannot_verify THEN Goto("idle", 1) ELSE Goto("exit_draft", Last)
    /\ UNCHANGED <<runs, run_id, status, drafted, hardening, e2e, gate, refused,
                   losses, ghosts>>

-----------------------------------------------------------------------------
(* Test hardening.                                                         *)

HardeningUnchanged ==
    UNCHANGED <<runs, run_id, status, drafted, rebuild, e2e, gate, refused, losses>>

RunTests(after) ==
    /\ node = "run_tests"
    /\ hardening' = after
    /\ node' = CASE after.cannot_verify -> "regression_gate"
                 [] after.stable_fail /\ ~after.cannot_verify ->
                      IF after.laps < MaxTestFix THEN "test_fix" ELSE "regression_gate"
                 [] OTHER -> "flake_triage"
    /\ HardeningUnchanged
    /\ UNCHANGED <<at, failure, row, sandbox, ghosts>>

\* The suite ran: what always fails is a regression, what fails at times flaky.
run_tests_measured ==
    /\ sandbox
    /\ \E stable_fail, flaky \in BOOLEAN :
          RunTests([hardening EXCEPT
              !.stable_fail = stable_fail, !.cannot_verify = FALSE,
              !.quarantine = IF flaky /\ @ = "none" THEN "untriaged" ELSE @])

\* No usable command or report: "nothing to harden".  The outcomes on record, of
\* an earlier lap or run, stay.
run_tests_unusable ==
    sandbox /\ RunTests([hardening EXCEPT !.cannot_verify = FALSE])

run_tests_cannot_verify ==
    ~sandbox /\ RunTests([hardening EXCEPT !.cannot_verify = TRUE])

\* (mutant) a lap that changed nothing is not counted
test_fix_uncounted ==
    /\ node = "test_fix" /\ sandbox
    /\ built' = FALSE /\ hardening' = hardening
    /\ Goto("run_tests", at)
    /\ HardeningUnchanged
    /\ UNCHANGED <<failure, row, sandbox, passed>>

test_fix ==
    /\ node = "test_fix" /\ sandbox
    /\ hardening' = [hardening EXCEPT !.laps = @ + 1]
    /\ built' = FALSE
    /\ Goto("run_tests", at)
    /\ HardeningUnchanged
    /\ UNCHANGED <<failure, row, sandbox, passed>>

test_fix_no_sandbox ==
    /\ node = "test_fix" /\ ~sandbox
    /\ Goto("run_tests", at)
    /\ HardeningUnchanged
    /\ UNCHANGED <<hardening, failure, row, sandbox, ghosts>>

\* The laps stay spent: only cannot_verify is set back.
regression_gate ==
    /\ node = "regression_gate"
    /\ record_run_failure(IF hardening.cannot_verify THEN "cannot_verify"
                          ELSE "stable_test_regression")
    /\ hardening' = [hardening EXCEPT !.cannot_verify = FALSE]
    /\ Goto("exit_draft", Last)
    /\ HardeningUnchanged
    /\ UNCHANGED ghosts

\* The model links the test to a known story, gives a new ticket's title, or
\* leaves it out.
flake_triage ==
    /\ node = "flake_triage"
    /\ hardening' \in
          {[hardening EXCEPT !.quarantine = q] :
              q \in IF sandbox /\ hardening.quarantine = "untriaged"
                    THEN {"untriaged", "titled", "linked"} ELSE {hardening.quarantine}}
    /\ Goto("mint_tickets", at)
    /\ HardeningUnchanged
    /\ UNCHANGED <<failure, row, sandbox, ghosts>>

mint_tickets ==
    /\ node = "mint_tickets"
    /\ hardening' = [hardening EXCEPT !.quarantine =
                        IF sandbox /\ @ = "titled" THEN "linked" ELSE @]
    /\ Goto("exit_check", at)
    /\ HardeningUnchanged
    /\ UNCHANGED <<failure, row, sandbox, ghosts>>

exit_check ==
    /\ node = "exit_check"
    /\ IF ~hardening.stable_fail /\ hardening.quarantine \in {"none", "linked"}
       THEN node' = "e2e_gate_check" /\ passed' = passed \cup {Tests}
       ELSE node' = "exit_escalate" /\ passed' = passed
    /\ HardeningUnchanged
    /\ UNCHANGED <<at, hardening, failure, row, sandbox, built>>

exit_escalate ==
    /\ node = "exit_escalate"
    /\ record_run_failure("flake_quarantine_incomplete")
    /\ Goto("exit_draft", Last)
    /\ HardeningUnchanged
    /\ UNCHANGED <<hardening, ghosts>>

-----------------------------------------------------------------------------
(* e2e.                                                                    *)

E2eUnchanged ==
    UNCHANGED <<runs, run_id, status, drafted, rebuild, hardening, gate, refused, losses>>

\* No UI framework, or an application that does not start.
e2e_skip ==
    /\ node = "e2e_gate_check"
    /\ Goto("draft", P) /\ passed' = passed \cup {E2e}
    /\ E2eUnchanged
    /\ UNCHANGED <<e2e, failure, row, sandbox, built>>

e2e_gate_check ==
    /\ node = "e2e_gate_check"
    /\ Goto("e2e_run", at)
    /\ E2eUnchanged
    /\ UNCHANGED <<e2e, failure, row, sandbox, ghosts>>

e2e_route_after_run(passing, cannot_verify) ==
    CASE cannot_verify -> "escalate"
      [] passing       -> "pass"
      [] OTHER         -> IF e2e.laps < MaxE2eFix THEN "fix" ELSE "escalate"

E2eRun(passing, cannot_verify) ==
    /\ node = "e2e_run"
    /\ e2e' = [e2e EXCEPT !.cannot_verify = cannot_verify]
    /\ LET route == e2e_route_after_run(passing, cannot_verify)
       IN  /\ Goto(CASE route = "pass" -> "draft"
                     [] route = "fix" -> "e2e_fix"
                     [] OTHER -> "e2e_escalate", IF route = "pass" THEN P ELSE at)
           /\ passed' = IF route = "pass" THEN passed \cup {E2e} ELSE passed
    /\ E2eUnchanged
    /\ UNCHANGED <<failure, row, sandbox, built>>

\* No sandbox, no runner, or not the vault's secrets.
e2e_run_cannot_verify == E2eRun(FALSE, TRUE)

e2e_run_boot_failed == sandbox /\ E2eRun(FALSE, FALSE)

\* Tests, screenshots, coverage of the wireframes and page checks decide.
e2e_run_suite == sandbox /\ \E passing \in BOOLEAN : E2eRun(passing, FALSE)

e2e_fix ==
    /\ node = "e2e_fix" /\ sandbox
    /\ e2e' = [e2e EXCEPT !.laps = @ + 1]
    /\ built' = FALSE
    /\ Goto("e2e_run", at)
    /\ E2eUnchanged
    /\ UNCHANGED <<failure, row, sandbox, passed>>

e2e_fix_no_sandbox ==
    /\ node = "e2e_fix" /\ ~sandbox
    /\ Goto("e2e_run", at)
    /\ E2eUnchanged
    /\ UNCHANGED <<e2e, failure, row, sandbox, ghosts>>

e2e_escalate ==
    /\ node = "e2e_escalate"
    /\ record_run_failure(IF e2e.cannot_verify THEN "cannot_verify" ELSE "e2e_cap_exceeded")
    /\ e2e' = [e2e EXCEPT !.laps = 0, !.cannot_verify = FALSE]
    /\ Goto("exit_draft", Last)
    /\ E2eUnchanged
    /\ UNCHANGED ghosts

-----------------------------------------------------------------------------
(* The metrics gate and metrics-exit.                                      *)

ExitUnchanged ==
    UNCHANGED <<runs, run_id, rebuild, hardening, e2e, refused, losses>>

MetricsCompute(reasons, attempt) ==
    /\ node = "metrics_compute"
    /\ gate' = [reasons |-> reasons, attempt |-> attempt]
    /\ Goto(CASE ~reasons -> "exit_draft"
              [] reasons /\ attempt < MaxScans -> "metrics_compute"
              [] OTHER -> "metrics_record", Last)
    /\ passed' = IF reasons THEN passed ELSE passed \cup {Scan}
    /\ ExitUnchanged
    /\ UNCHANGED <<status, drafted, failure, row, sandbox, built>>

\* A scan that regressed is repeated once, for tool flake.
metrics_compute ==
    sandbox /\ \E reasons \in BOOLEAN : MetricsCompute(reasons, gate.attempt + 1)

\* Without a sandbox the attempts count as spent.
metrics_compute_no_sandbox == ~sandbox /\ MetricsCompute(TRUE, MaxScans)

\* (mutant) the regression is left to the report
metrics_regression_unrecorded ==
    /\ node = "metrics_record"
    /\ Goto("exit_draft", Last)
    /\ ExitUnchanged
    /\ UNCHANGED <<status, drafted, gate, failure, row, sandbox, ghosts>>

metrics_regression_record ==
    /\ node = "metrics_record"
    /\ failure' = "metrics_regression"
    /\ Goto("exit_draft", Last)
    /\ ExitUnchanged
    /\ UNCHANGED <<status, drafted, gate, row, sandbox, ghosts>>

\* metrics-exit is drafted in every run; its verify blocks nothing.
exit_draft ==
    /\ node = "exit_draft" /\ sandbox
    /\ status' = [status EXCEPT ![Last] = "approved"]
    /\ drafted' = drafted \cup {Last}
    /\ Goto("exit_finalize", Last)
    /\ ExitUnchanged
    /\ UNCHANGED <<gate, failure, row, sandbox, ghosts>>

\* (mutant) the last failure is recorded
exit_escalate_stage_records ==
    /\ node = "exit_draft"
    /\ status' = [status EXCEPT ![Last] = "needs_clarification"]
    /\ failure' = "stage" /\ row' = [status |-> "failed", cause |-> "stage"]
    /\ sandbox' = FALSE
    /\ drafted' \in {drafted, drafted \cup {Last}}
    /\ Goto("idle", 1)
    /\ ExitUnchanged
    /\ UNCHANGED <<gate, ghosts>>

\* Its draft's infra retries are spent, or there is no sandbox to verify in.  A
\* failure on record stands and keeps its row.
exit_escalate_stage ==
    /\ node = "exit_draft"
    /\ status' = [status EXCEPT ![Last] = "needs_clarification"]
    /\ IF failure # "none" THEN UNCHANGED <<failure, row, sandbox>>
       ELSE /\ failure' = "stage" /\ row' = [status |-> "failed", cause |-> "stage"]
            /\ sandbox' = FALSE
    /\ drafted' \in {drafted, drafted \cup {Last}}
    /\ Goto("idle", 1)
    /\ ExitUnchanged
    /\ UNCHANGED <<gate, ghosts>>

_final_merge_readiness(ready) == ready /\ failure = "none" /\ ~refused

\* (mutant) the row tells what the report says
final_outcome_of_report(ready) ==
    IF ready THEN [status |-> "completed", cause |-> "none"]
    ELSE [status |-> "failed", cause |-> "gates_not_passed"]

final_outcome(ready) ==
    CASE failure # "none" -> [status |-> "failed", cause |-> failure]
      [] ready            -> [status |-> "completed", cause |-> "none"]
      [] OTHER            -> [status |-> "failed", cause |-> "gates_not_passed"]

Finish(outcome_row) ==
    /\ node = "exit_finalize"
    /\ row' = outcome_row /\ sandbox' = FALSE
    /\ Goto("idle", 1)
    /\ ExitUnchanged
    /\ UNCHANGED <<status, drafted, gate, failure, ghosts>>

\* The session is closed once, with the outcome or with the failure to report it.
exit_finalize ==
    sandbox /\ \E ready \in BOOLEAN : Finish(final_outcome(_final_merge_readiness(ready)))

exit_finalize_degraded ==
    sandbox /\ Finish([status |-> "failed", cause |-> "exit_report_failed"])

\* The post-approve hook does nothing without a sandbox.
exit_hook_skipped == ~sandbox /\ Finish(row)

-----------------------------------------------------------------------------
(* Faults.                                                                 *)

\* The process dies: the node under way returns nothing.
kill ==
    /\ node # "idle"
    /\ Goto("idle", 1)
    /\ built' \in {built, built /\ node \notin {"draft", "rebuild_fix", "test_fix", "e2e_fix"}}
    /\ passed' = {}
    /\ UNCHANGED <<runs, run_id, status, drafted, clusters, outcome, sandbox,
                   losses>>

sandbox_lost ==
    /\ sandbox /\ node # "idle" /\ losses < MaxLosses
    /\ sandbox' = FALSE /\ losses' = losses + 1
    /\ UNCHANGED <<node, at, runs, run_id, status, drafted, clusters, outcome, ghosts>>

\* A tab that reattaches provisions the thread again, run or no run.
provision ==
    /\ ~sandbox /\ node # "idle"
    /\ sandbox' = TRUE
    /\ UNCHANGED <<node, at, runs, run_id, status, drafted, clusters, outcome,
                   losses, ghosts>>

-----------------------------------------------------------------------------
Intake ==
    \E resume \in BOOLEAN :
        \/ \E new \in BOOLEAN : intake_node(new, resume)
        \/ \E from \in Stage : rewind_to_stage(from, resume)
        \/ reset_e2e(resume) \/ targeted_fix(resume)

StageStep == stage_skip \/ stage_draft \/ stage_approve \/ stage_escalate

RebuildStep ==
    \/ rebuild_skip \/ rebuild_clean \/ rebuild_failed \/ rebuild_cannot_verify
    \/ rebuild_fix \/ rebuild_escalate

HardeningStep ==
    \/ run_tests_measured \/ run_tests_unusable \/ run_tests_cannot_verify
    \/ test_fix \/ test_fix_no_sandbox \/ regression_gate
    \/ flake_triage \/ mint_tickets \/ exit_check \/ exit_escalate

E2eStep ==
    \/ e2e_skip \/ e2e_gate_check \/ e2e_run_cannot_verify \/ e2e_run_boot_failed
    \/ e2e_run_suite \/ e2e_fix \/ e2e_fix_no_sandbox
    \/ e2e_escalate

ExitStep ==
    \/ metrics_compute \/ metrics_compute_no_sandbox \/ metrics_regression_record
    \/ exit_draft \/ exit_escalate_stage
    \/ exit_finalize \/ exit_finalize_degraded \/ exit_hook_skipped

ProgramStep == StageStep \/ RebuildStep \/ HardeningStep \/ E2eStep \/ ExitStep

Next == Intake \/ ProgramStep \/ kill \/ sandbox_lost \/ provision

Spec == Init /\ [][Next]_vars

\* The driver task keeps stepping the graph; every model call, build, test run
\* and scan has a timeout.
FairSpec == Spec /\ WF_vars(ProgramStep)

-----------------------------------------------------------------------------
(* Properties.                                                             *)

TypeOK ==
    /\ node \in Nodes /\ at \in Stage
    /\ node \in StageNodes => at \in Placement
    /\ runs \in Nat /\ run_id \in Nat /\ losses \in Nat
    /\ status \in [Stage -> StageStatus] /\ drafted \subseteq Stage
    /\ rebuild \in [Placement -> RebuildState]
    /\ hardening \in TestHardeningState /\ e2e \in E2EState /\ gate \in Gate
    /\ failure \in Failure /\ row \in Row
    /\ refused \in BOOLEAN /\ sandbox \in BOOLEAN /\ built \in BOOLEAN
    /\ passed \subseteq Clusters

\* A session is completed, and its pull request opened, only by a run that got
\* past every placement, the test suite, e2e and the metrics scan itself, none
\* of them on a verdict that could not be reached, and that owes no failure.
CompletedIsEarned ==
    row.status = "completed" =>
        /\ passed = Clusters
        /\ failure = "none" /\ ~refused
        /\ ~hardening.stable_fail /\ ~gate.reasons
        /\ hardening.quarantine \in {"none", "linked"}

\* The metrics judge, and metrics-exit finishes, a tree that was built green
\* after its last change by any stage or fixer -- in a run that is not resumed.
FreshRunBuiltLast ==
    (node = "metrics_compute" /\ run_id = runs) => built

\* The first failure of a run is the one the run keeps and its row tells, however
\* many clusters and stages give up after it.
FirstCauseKept ==
    [][ (failure # "none" /\ runs' = runs) => failure' = failure ]_vars

FirstCauseTold ==
    (node = "idle" /\ failure # "none" /\ row.status = "failed")
        => row.cause \in {failure, "exit_report_failed"}

\* A run that goes on ends.
RunEnds == node # "idle" ~> node = "idle"
=============================================================================
