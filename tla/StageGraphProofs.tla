--------------------------- MODULE StageGraphProofs ---------------------------
(***************************************************************************)
(* The stage pipeline for any chain of stages, any verify policies and     *)
(* caps, and any number of runs, corrections and faults.                   *)
(*                                                                         *)
(* None of the safety properties is inductive.  They follow from three     *)
(* invariants: OrderInv (approvals, in the checkpoint and on the branch,   *)
(* form a prefix of the chain that ends below the stage worked on),        *)
(* CheckedInv (approved content that is not checked is a draft in hand on  *)
(* its way to a verify) and SetAsideInv (what a killed first draft left is *)
(* still recognised).  Each is proved action by action; the lemmas before  *)
(* them say what each action makes of the stages, so that the records are  *)
(* taken apart once.  That a run winds down, at the end, needs the types   *)
(* alone.                                                                  *)
(***************************************************************************)
EXTENDS StageGraph, TLAPS

\* The fixed points of the chain.
LEMMA Constants ==
    /\ N \in Nat /\ Prd \in Stage /\ SpecStage \in Stage /\ PlanStage \in Stage
    /\ SpecStage = 2 /\ PlanStage = 3 /\ Stage \subseteq Nat /\ N >= 4
BY StageAssumption DEF StageAssumption, Stage, Prd

-----------------------------------------------------------------------------
(* Types.                                                                  *)

Stages == [Stage -> StageState]
Disk   == [written : BOOLEAN, stages : Stages, req : Nat, owed : Nat]

\* The empty checkpoint and workspace are well typed.
LEMMA DefaultTyped == NoStages \in Stages /\ EmptyWorkspace \in Disk
BY DEF NoStages, default_stage_state, EmptyWorkspace, Stages, Disk, StageState,
       Status, Verdict, Content

\* So is what persist_state stores,
LEMMA SnapshotTyped ==
    ASSUME NEW stages \in Stages, NEW r \in Nat, NEW o \in Nat
    PROVE  Snapshot(stages, r, o) \in Disk
BY DEF Snapshot, Stages, Disk, StageState, Verdict

\* and the workspace after it was, or was not, stored.
LEMMA PersistTyped ==
    ASSUME disk \in Disk, NEW stages \in Stages, NEW r \in Nat, NEW o \in Nat,
           Persist(stages, r, o)
    PROVE  disk' \in Disk
BY SnapshotTyped DEF Persist

\* What intake makes of the stages it found is well typed.
LEMMA IntakeTyped ==
    ASSUME TypeOK, NEW fresh \in BOOLEAN, NEW resume \in BOOLEAN,
           NEW rewind \in Nat
    PROVE  /\ IntakeStages \in Stages /\ IntakeReq \in Nat /\ IntakeOwed \in Nat
           /\ [s \in Stage |->
                 Rewound(IntakeReset(IntakeStages[s], s, fresh, resume), s, rewind)]
              \in Stages
<1>1. IntakeStages \in Stages /\ IntakeReq \in Nat /\ IntakeOwed \in Nat
  BY DEF TypeOK, IntakeStages, IntakeReq, IntakeOwed, Stages
<1>2. ASSUME NEW x \in StageState, NEW s \in Stage
      PROVE  IntakeReset(x, s, fresh, resume) \in StageState
  BY DEF IntakeReset, _reset_stage_mechanics, _reset_stage_status_fields,
         StageState, Status, Verdict
<1>3. ASSUME NEW x \in StageState, NEW s \in Stage
      PROVE  Rewound(x, s, rewind) \in StageState
  BY DEF Rewound, _reset_stage_mechanics, _reset_stage_status_fields,
         StageState, Status, Verdict
<1>4. QED
  BY <1>1, <1>2, <1>3 DEF Stages

\* Every move of the graph leads to a node of a stage of the chain.
LEMMA MovesTyped ==
    ASSUME NEW s \in Stage, cur \in Stage
    PROVE  /\ NextStage(s) => node' \in Nodes /\ cur' \in Stage
           /\ Retry(s) => node' \in Nodes /\ cur' \in Stage
           /\ make_route_after_draft_ready(s) => node' \in Nodes /\ cur' \in Stage
           /\ Killed => node' \in Nodes /\ cur' \in Stage
BY Constants DEF NextStage, Retry, make_route_after_draft_ready, Killed, Goto,
                 Nodes, Stage

-----------------------------------------------------------------------------
(* What the nodes make of the stages: only the current one changes, and of  *)
(* the fields the invariants speak of only those named.                     *)

\* The inline updates of the draft and verify nodes.
Marked(x)   == [st EXCEPT ![cur].status = x]
Asked(n)    == [st EXCEPT ![cur] = [@ EXCEPT !.status = "needs_clarification", !.cycle = n]]
Failed(n)   == [st EXCEPT ![cur] = [@ EXCEPT !.last = "failed", !.vcycle = n]]
NoVerdict(n) == [st EXCEPT ![cur] = [@ EXCEPT !.last = "infra", !.infra = n]]
Unverifiable == [st EXCEPT ![cur].last = "cannot_verify"]

Becomes(f, status, last, appr, arev) ==
    /\ f \in Stages
    /\ \A t \in Stage : t # cur => f[t] = st[t]
    /\ f[cur].status = status /\ f[cur].last = last
    /\ f[cur].appr = appr /\ f[cur].arev = arev

\* Replacing the state of the current stage.
LEMMA UpdateBecomes ==
    ASSUME NEW x \in StageState, st \in Stages, cur \in Stage
    PROVE  Becomes([st EXCEPT ![cur] = x], x.status, x.last, x.appr, x.arev)
BY DEF Becomes, Stages

\* The updates of the nodes, field by field.
LEMMA Effects ==
    ASSUME TypeOK
    PROVE  /\ Becomes(Passed(cur), st[cur].status, "passed",
                      IF st[cur].status = "approved" THEN "checked" ELSE st[cur].appr,
                      st[cur].arev)
           /\ Becomes(Approved(cur), "approved", st[cur].last,
                      IF work.ok THEN "checked" ELSE "raw", work.rev)
           /\ Becomes(Rejected(cur), "needs_clarification", st[cur].last,
                      st[cur].appr, st[cur].arev)
           /\ Becomes(Revoked(cur), "needs_clarification", st[cur].last, "none", 0)
           /\ \A x \in Status :
                 Becomes(Marked(x), x, st[cur].last, st[cur].appr, st[cur].arev)
           /\ \A n \in Nat :
                 /\ Becomes(Asked(n), "needs_clarification", st[cur].last,
                            st[cur].appr, st[cur].arev)
                 /\ Becomes(Failed(n), st[cur].status, "failed",
                            st[cur].appr, st[cur].arev)
                 /\ Becomes(NoVerdict(n), st[cur].status, "infra",
                            st[cur].appr, st[cur].arev)
           /\ Becomes(Unverifiable, st[cur].status, "cannot_verify",
                      st[cur].appr, st[cur].arev)
<1>a. /\ cur \in Stage /\ st \in Stages /\ st[cur] \in StageState
      /\ st[cur].appr \in Content /\ work.rev \in Nat
  BY DEF TypeOK, Stages, StageState
<1>1. Becomes(Passed(cur), st[cur].status, "passed",
              IF st[cur].status = "approved" THEN "checked" ELSE st[cur].appr,
              st[cur].arev)
  <2> DEFINE x == [st[cur] EXCEPT !.last = "passed",
                     !.appr = IF st[cur].status = "approved" THEN "checked"
                              ELSE st[cur].appr]
  <2>1. x \in StageState
    BY <1>a DEF StageState, Verdict, Content
  <2>2. /\ x.status = st[cur].status /\ x.last = "passed" /\ x.arev = st[cur].arev
        /\ x.appr = IF st[cur].status = "approved" THEN "checked" ELSE st[cur].appr
    BY <1>a DEF StageState
  <2>3. Passed(cur) = [st EXCEPT ![cur] = x]
    BY DEF Passed
  <2> HIDE DEF x
  <2>4. Becomes([st EXCEPT ![cur] = x], x.status, x.last, x.appr, x.arev)
    BY <1>a, <2>1, UpdateBecomes
  <2>5. QED
    BY <2>2, <2>3, <2>4, Zenon
<1>2. Becomes(Approved(cur), "approved", st[cur].last,
              IF work.ok THEN "checked" ELSE "raw", work.rev)
  <2> DEFINE x == [st[cur] EXCEPT !.status = "approved", !.cycle = 0,
                     !.appr = IF work.ok THEN "checked" ELSE "raw",
                     !.arev = work.rev]
  <2>1. x \in StageState
    BY <1>a DEF StageState, Status, Content
  <2>2. /\ x.status = "approved" /\ x.last = st[cur].last /\ x.arev = work.rev
        /\ x.appr = IF work.ok THEN "checked" ELSE "raw"
    BY <1>a DEF StageState
  <2>3. Approved(cur) = [st EXCEPT ![cur] = x]
    BY DEF Approved
  <2> HIDE DEF x
  <2>4. Becomes([st EXCEPT ![cur] = x], x.status, x.last, x.appr, x.arev)
    BY <1>a, <2>1, UpdateBecomes
  <2>5. QED
    BY <2>2, <2>3, <2>4, Zenon
<1>3. Becomes(Rejected(cur), "needs_clarification", st[cur].last,
              st[cur].appr, st[cur].arev)
  <2> DEFINE x == [st[cur] EXCEPT !.status = "needs_clarification"]
  <2>1. x \in StageState
    BY <1>a DEF StageState, Status
  <2>2. /\ x.status = "needs_clarification" /\ x.last = st[cur].last
        /\ x.appr = st[cur].appr /\ x.arev = st[cur].arev
    BY <1>a DEF StageState
  <2>3. Rejected(cur) = [st EXCEPT ![cur] = x]
    BY DEF Rejected
  <2> HIDE DEF x
  <2>4. Becomes([st EXCEPT ![cur] = x], x.status, x.last, x.appr, x.arev)
    BY <1>a, <2>1, UpdateBecomes
  <2>5. QED
    BY <2>2, <2>3, <2>4, Zenon
<1>4. Becomes(Revoked(cur), "needs_clarification", st[cur].last, "none", 0)
  <2> DEFINE x == [st[cur] EXCEPT !.vcycle = 0, !.infra = 0,
                     !.status = "needs_clarification", !.appr = "none", !.arev = 0]
  <2>1. x \in StageState
    BY <1>a DEF StageState, Status, Content
  <2>2. /\ x.status = "needs_clarification" /\ x.last = st[cur].last
        /\ x.appr = "none" /\ x.arev = 0
    BY <1>a DEF StageState
  <2>3. Revoked(cur) = [st EXCEPT ![cur] = x]
    BY DEF Revoked
  <2> HIDE DEF x
  <2>4. Becomes([st EXCEPT ![cur] = x], x.status, x.last, x.appr, x.arev)
    BY <1>a, <2>1, UpdateBecomes
  <2>5. QED
    BY <2>2, <2>3, <2>4, Zenon
<1>5. ASSUME NEW status \in Status
      PROVE  Becomes(Marked(status), status, st[cur].last, st[cur].appr, st[cur].arev)
  <2> DEFINE x == [st[cur] EXCEPT !.status = status]
  <2>1. x \in StageState
    BY <1>a DEF StageState
  <2>2. /\ x.status = status /\ x.last = st[cur].last
        /\ x.appr = st[cur].appr /\ x.arev = st[cur].arev
    BY <1>a DEF StageState
  <2>3. Marked(status) = [st EXCEPT ![cur] = x]
    BY DEF Marked
  <2> HIDE DEF x
  <2>4. Becomes([st EXCEPT ![cur] = x], x.status, x.last, x.appr, x.arev)
    BY <1>a, <2>1, UpdateBecomes
  <2>5. QED
    BY <2>2, <2>3, <2>4, Zenon
<1>6. ASSUME NEW n \in Nat
      PROVE  Becomes(Asked(n), "needs_clarification", st[cur].last,
                     st[cur].appr, st[cur].arev)
  <2> DEFINE x == [st[cur] EXCEPT !.status = "needs_clarification", !.cycle = n]
  <2>1. x \in StageState
    BY <1>a DEF StageState, Status
  <2>2. /\ x.status = "needs_clarification" /\ x.last = st[cur].last
        /\ x.appr = st[cur].appr /\ x.arev = st[cur].arev
    BY <1>a DEF StageState
  <2>3. Asked(n) = [st EXCEPT ![cur] = x]
    BY DEF Asked
  <2> HIDE DEF x
  <2>4. Becomes([st EXCEPT ![cur] = x], x.status, x.last, x.appr, x.arev)
    BY <1>a, <2>1, UpdateBecomes
  <2>5. QED
    BY <2>2, <2>3, <2>4, Zenon
<1>7. ASSUME NEW n \in Nat
      PROVE  Becomes(Failed(n), st[cur].status, "failed", st[cur].appr, st[cur].arev)
  <2> DEFINE x == [st[cur] EXCEPT !.last = "failed", !.vcycle = n]
  <2>1. x \in StageState
    BY <1>a DEF StageState, Verdict
  <2>2. /\ x.status = st[cur].status /\ x.last = "failed"
        /\ x.appr = st[cur].appr /\ x.arev = st[cur].arev
    BY <1>a DEF StageState
  <2>3. Failed(n) = [st EXCEPT ![cur] = x]
    BY DEF Failed
  <2> HIDE DEF x
  <2>4. Becomes([st EXCEPT ![cur] = x], x.status, x.last, x.appr, x.arev)
    BY <1>a, <2>1, UpdateBecomes
  <2>5. QED
    BY <2>2, <2>3, <2>4, Zenon
<1>8. ASSUME NEW n \in Nat
      PROVE  Becomes(NoVerdict(n), st[cur].status, "infra", st[cur].appr, st[cur].arev)
  <2> DEFINE x == [st[cur] EXCEPT !.last = "infra", !.infra = n]
  <2>1. x \in StageState
    BY <1>a DEF StageState, Verdict
  <2>2. /\ x.status = st[cur].status /\ x.last = "infra"
        /\ x.appr = st[cur].appr /\ x.arev = st[cur].arev
    BY <1>a DEF StageState
  <2>3. NoVerdict(n) = [st EXCEPT ![cur] = x]
    BY DEF NoVerdict
  <2> HIDE DEF x
  <2>4. Becomes([st EXCEPT ![cur] = x], x.status, x.last, x.appr, x.arev)
    BY <1>a, <2>1, UpdateBecomes
  <2>5. QED
    BY <2>2, <2>3, <2>4, Zenon
<1>9. Becomes(Unverifiable, st[cur].status, "cannot_verify", st[cur].appr, st[cur].arev)
  <2> DEFINE x == [st[cur] EXCEPT !.last = "cannot_verify"]
  <2>1. x \in StageState
    BY <1>a DEF StageState, Verdict
  <2>2. /\ x.status = st[cur].status /\ x.last = "cannot_verify"
        /\ x.appr = st[cur].appr /\ x.arev = st[cur].arev
    BY <1>a DEF StageState
  <2>3. Unverifiable = [st EXCEPT ![cur] = x]
    BY DEF Unverifiable
  <2> HIDE DEF x
  <2>4. Becomes([st EXCEPT ![cur] = x], x.status, x.last, x.appr, x.arev)
    BY <1>a, <2>1, UpdateBecomes
  <2>5. QED
    BY <2>2, <2>3, <2>4, Zenon
<1>10. QED
  BY <1>1, <1>2, <1>3, <1>4, <1>5, <1>6, <1>7, <1>8, <1>9

\* A correction takes back the PRD and, at the plan, the specification.
LEMMA CorrectedEffect ==
    ASSUME TypeOK, cur \in Human
    PROVE  /\ Corrected(cur) \in Stages
           /\ \A t \in Stage :
                 /\ t > cur \/ Corrected(cur)[t].status # "approved"
                 /\ t > cur => Corrected(cur)[t].status = st[t].status
                 /\ Corrected(cur)[t].last = st[t].last
<1>1. \A t \in Stage : st[t] \in StageState
  BY DEF TypeOK
<1>2. ASSUME NEW t \in Stage
      PROVE  /\ corrected_status(t, cur) \in Status
             /\ t > cur \/ corrected_status(t, cur) # "approved"
             /\ t > cur => corrected_status(t, cur) = st[t].status
  BY <1>1, Constants DEF corrected_status, StageState, Status, Human, Stage, Prd
<1>3. ASSUME NEW t \in Stage
      PROVE  /\ Corrected(cur)[t] \in StageState
             /\ Corrected(cur)[t].status = corrected_status(t, cur)
             /\ Corrected(cur)[t].last = st[t].last
  <2> DEFINE v == IF t = Prd THEN 0 ELSE st[t].vcycle
  <2>1. v \in Nat
    BY <1>1 DEF StageState
  <2>2. Corrected(cur)[t] =
          [st[t] EXCEPT !.status = corrected_status(t, cur), !.vcycle = v]
    BY DEF Corrected
  <2> HIDE DEF v
  <2>3. QED
    BY <1>1, <1>2, <2>1, <2>2 DEF StageState
<1>4. QED
  BY <1>2, <1>3 DEF Corrected, Stages

-----------------------------------------------------------------------------
\* Every step keeps every variable in its type.
LEMMA TypeStep ==
    ASSUME TypeOK, [Next]_vars
    PROVE  TypeOK'
<1>a. /\ st \in Stages /\ disk \in Disk /\ cur \in Stage
      /\ st[cur].cycle \in Nat /\ st[cur].vcycle \in Nat /\ st[cur].infra \in Nat
  BY DEF TypeOK, Stages, Disk, StageState
<1>b. \A f : \A status, last, appr, arev :
         Becomes(f, status, last, appr, arev) => f \in Stages
  BY DEF Becomes
<1> USE DEF TypeOK, checkpoint, workspace, run, Disk, Stages
<1>1. CASE UNCHANGED vars
  BY <1>1 DEF vars
<1>2. CASE kill
  BY <1>2 DEF kill, Goto, Nodes
<1>3. CASE sandbox_lost
  BY <1>3 DEF sandbox_lost
<1>4. CASE checkpoint_lost
  BY <1>4, DefaultTyped, Constants DEF checkpoint_lost, Goto, Nodes, NoWork, Failure
<1>5. ASSUME NEW hl \in BOOLEAN, NEW new \in BOOLEAN, NEW flag \in BOOLEAN,
             NEW rewind \in {0} \cup (SpecStage..N),
             intake_node(new, flag, rewind, hl)
      PROVE  TypeOK'
  <2> DEFINE fresh == Accepts(new)
             resume == flag /\ (hl \/ ~fresh)
             r == IF fresh THEN IntakeReq + 1 ELSE IntakeReq
  <2>1. rewind \in Nat
    BY Constants
  <2>2. fresh \in BOOLEAN
    BY Zenon DEF Accepts
  <2>3. resume \in BOOLEAN
    BY Zenon
  <2>4. st' = [s \in Stage |->
                 Rewound(IntakeReset(IntakeStages[s], s, fresh, resume), s, rewind)]
    BY <1>5, Zenon DEF intake_node
  <2> HIDE DEF fresh, resume
  <2>5. st' \in Stages /\ r \in Nat /\ IntakeOwed \in Nat
    BY <2>1, <2>2, <2>3, <2>4, IntakeTyped
  <2> HIDE DEF r
  <2>6. /\ node' \in Nodes /\ cur' \in Stage /\ req' = r
        /\ owed' = (IF fresh /\ ~resume THEN r ELSE IntakeOwed)
        /\ failure' \in Failure /\ leftover' \subseteq leftover
        /\ known' \in BOOLEAN /\ sandbox' \in BOOLEAN /\ headless' \in BOOLEAN
        /\ runs' \in Nat
        /\ UNCHANGED <<work, restart, disk, lastDrafting, marked, touched>>
    BY <1>5, Constants DEF intake_node, Goto, Nodes, Failure, LeftInWorkspace,
       fresh, resume, r
  <2>7. QED
    BY <2>5, <2>6
<1>6. ASSUME NEW hl \in BOOLEAN, intake_set_aside_failed(hl) PROVE TypeOK'
  BY <1>6, Constants
     DEF intake_set_aside_failed, Goto, Nodes, Failure, LeftInWorkspace
<1>7. CASE scaffold_node
  BY <1>7, Constants DEF scaffold_node, Goto, Nodes, Failure
<1>8. CASE record_raw_requirements_node
  BY <1>8, PersistTyped, Constants
     DEF record_raw_requirements_node, Goto, Nodes, Killed
<1>9. CASE draft_skip
  BY <1>9, MovesTyped DEF draft_skip
<1>10. CASE draft_start
  <2>1. Marked("drafting") \in Stages
    BY <1>b, Effects DEF Status
  <2>2. marked' \in BOOLEAN
    BY <1>10, Zenon DEF draft_start
  <2>3. disk' = Snapshot(Marked("drafting"), req, owed) \/ disk' = disk
    BY <1>10, Zenon DEF draft_start, Marked
  <2>4. disk' \in Disk
    <3>1. req \in Nat /\ owed \in Nat
      OBVIOUS
    <3> HIDE DEF TypeOK, Disk, Stages
    <3>2. Snapshot(Marked("drafting"), req, owed) \in Disk
      BY <2>1, <3>1, SnapshotTyped
    <3>3. QED
      BY <1>a, <2>3, <3>2
  <2>5. QED
    BY <1>10, <2>2, <2>4, Constants DEF draft_start, Goto, Nodes, Stage
<1>11. CASE draft_ready
  <2>1. st' \in Stages
    BY <1>11, <1>b, Effects DEF draft_ready, Marked, Status
  <2>2. QED
    BY <1>11, <2>1, MovesTyped DEF draft_ready
<1>12. CASE draft_not_ready
  <2>1. st' = Asked(st[cur].cycle + 1)
    BY <1>12 DEF draft_not_ready, Asked
  <2>2. st' \in Stages
    BY <1>a, <1>b, <2>1, Effects
  <2>3. QED
    BY <1>12, <2>2 DEF draft_not_ready, Goto, Nodes
<1>13. CASE draft_infra_exhausted
  BY <1>13 DEF draft_infra_exhausted, Goto, Nodes
<1>14. CASE audit_node
  BY <1>14, PersistTyped DEF audit_node, Goto, Nodes, Killed
<1>15. CASE verify_cannot
  <2>1. st' \in Stages
    BY <1>15, <1>b, Effects DEF verify_cannot, Unverifiable
  <2>2. QED
    BY <1>15, <2>1 DEF verify_cannot, VerifyUnchanged, Goto, Nodes
<1>16. CASE verify_pass
  <2>1. Passed(cur) \in Stages
    BY <1>b, Effects
  <2>2. disk' \in Disk
    BY <1>16, <1>a, <2>1, PersistTyped DEF verify_pass
  <2>3. QED
    BY <1>16, <2>1, <2>2 DEF verify_pass, Goto, Nodes, Killed
<1>17. CASE verify_fail
  <2>1. st' = Failed(st[cur].vcycle + 1)
    BY <1>17 DEF verify_fail, Failed
  <2>2. st' \in Stages
    BY <1>a, <1>b, <2>1, Effects
  <2>3. QED
    BY <1>17, <2>2, MovesTyped DEF verify_fail, VerifyUnchanged, Goto, Nodes
<1>18. CASE verify_infra
  <2>1. st' = NoVerdict(st[cur].infra + 1)
    BY <1>18 DEF verify_infra, NoVerdict
  <2>2. st' \in Stages
    BY <1>a, <1>b, <2>1, Effects
  <2>3. QED
    BY <1>18, <2>2, MovesTyped DEF verify_infra, VerifyUnchanged, Goto, Nodes
<1>19. CASE verify_fix_node
  BY <1>19 DEF verify_fix_node, Goto, Nodes
<1>20. CASE auto_approve_node
  <2>1. Approved(cur) \in Stages
    BY <1>b, Effects
  <2>2. disk' \in Disk
    BY <1>20, <1>a, <2>1, PersistTyped DEF auto_approve_node
  <2>3. QED
    BY <1>20, <2>1, <2>2, MovesTyped DEF auto_approve_node, Goto, Nodes, Killed
<1>21. CASE gate_approve
  <2>1. Approved(cur) \in Stages
    BY <1>b, Effects
  <2>2. disk' \in Disk
    BY <1>21, <1>a, <2>1, PersistTyped DEF gate_approve
  <2>3. QED
    BY <1>21, <2>1, <2>2, MovesTyped DEF gate_approve, Killed, Nodes
<1>22. CASE gate_reject
  <2>1. Rejected(cur) \in Stages
    BY <1>b, Effects
  <2>2. disk' \in Disk
    BY <1>22, <1>a, <2>1, PersistTyped DEF gate_reject
  <2>3. QED
    BY <1>22, <2>1, <2>2, Constants DEF gate_reject, Goto, Nodes, Killed
<1>23. CASE gate_correct
  <2>1. Corrected(cur) \in Stages
    BY <1>23, CorrectedEffect DEF gate_correct, Paused
  <2>2. disk' \in Disk
    BY <1>23, <1>a, <2>1, PersistTyped DEF gate_correct
  <2>3. restart' \in BOOLEAN
    BY <1>23, Zenon DEF gate_correct, Killed
  <2>4. QED
    BY <1>23, <2>1, <2>2, <2>3, Constants DEF gate_correct, Goto, Nodes, Killed
<1>24. CASE escalate_node
  <2>1. Revoked(cur) \in Stages
    BY <1>b, Effects
  <2>2. disk' \in Disk
    BY <1>24, <1>a, <2>1, PersistTyped DEF escalate_node, PersistDuringTearDown
  <2>3. failure' \in Failure
    BY <1>24 DEF escalate_node, RecordFailure, EscalationType, Failure, Killed
  <2>4. sandbox' \in BOOLEAN
    BY <1>24, Zenon DEF escalate_node, TearDown
  <2>5. QED
    BY <1>24, <2>1, <2>2, <2>3, <2>4 DEF escalate_node, Goto, Nodes, Killed
<1>25. CASE draft_escalate_node
  <2>1. Marked("needs_clarification") \in Stages
    BY <1>b, Effects DEF Status
  <2>2. disk' \in Disk
    BY <1>25, <1>a, <2>1, PersistTyped
       DEF draft_escalate_node, PersistDuringTearDown, Marked
  <2>3. failure' \in Failure
    BY <1>25 DEF draft_escalate_node, RecordFailure, Failure, Killed
  <2>4. sandbox' \in BOOLEAN
    BY <1>25, Zenon DEF draft_escalate_node, TearDown
  <2>5. st' \in Stages
    BY <1>25, <2>1 DEF draft_escalate_node, Marked, Killed
  <2>6. QED
    BY <1>25, <2>2, <2>3, <2>4, <2>5 DEF draft_escalate_node, Goto, Nodes, Killed
<1>26. CASE no_new_work_node
  BY <1>26 DEF no_new_work_node, Goto, Nodes, Failure
<1> HIDE DEF TypeOK, checkpoint, workspace, run, Disk, Stages
<1>27. QED
  BY <1>1, <1>2, <1>3, <1>4, <1>5, <1>6, <1>7, <1>8, <1>9, <1>10, <1>11,
     <1>12, <1>13, <1>14, <1>15, <1>16, <1>17, <1>18, <1>19, <1>20, <1>21,
     <1>22, <1>23, <1>24, <1>25, <1>26
     DEF Next, Fault, Intake, ReviewerStep, ProgramStep

\* The initial state is well typed.
LEMMA InitTyped == Init => TypeOK
<1> SUFFICES ASSUME Init PROVE TypeOK
  OBVIOUS
<1>1. /\ restart \in BOOLEAN /\ known \in BOOLEAN /\ marked \in BOOLEAN
        /\ sandbox \in BOOLEAN /\ touched \in BOOLEAN /\ headless \in BOOLEAN
  BY Zenon DEF Init
<1>2. work \in [ok : BOOLEAN, rev : Nat]
  BY DEF Init, NoWork
<1>3. QED
  BY <1>1, <1>2, Constants, DefaultTyped
     DEF Init, TypeOK, Nodes, Failure, Disk, Stages

\* Every variable keeps its type; in particular no step writes a status, a
\* verdict or a failure outside the vocabulary the consumers know.
THEOREM Typing == Spec => []TypeOK
BY InitTyped, TypeStep, PTL DEF Spec

-----------------------------------------------------------------------------
(* The order of approvals.                                                 *)

IsApproved(f, s) == f[s].status = "approved"
BadLast(f, s)    == f[s].last \notin {"none", "passed"}
OpenAfter(f, s)  == \A t \in (s + 1)..N : ~IsApproved(f, t)

\* Approvals form a prefix of the chain, have content, and none is older than
\* the requirements they may stand for.
Sound(f, o) ==
    \A s \in Stage : IsApproved(f, s) =>
        /\ f[s].appr # "none" /\ f[s].arev >= o
        /\ \A t \in 1..(s - 1) : IsApproved(f, t)

SoundApprovals == Sound(st, owed) /\ Sound(disk.stages, disk.owed)

Revisions ==
    /\ owed <= req /\ disk.owed <= disk.req
    /\ node \in {"audit", "verify", "auto_approve", "gate"} => work.rev >= owed

\* The stage worked on is the first that is not approved, or (a node before
\* should_skip_draft has looked) one further up.
Frontier ==
    Working =>
        /\ \A s \in 1..(cur - 1) : IsApproved(st, s)
        /\ node # "draft" => OpenAfter(st, cur)

\* A verdict that forbids the skip of its stage is of this run: the stage is
\* still the last one reached, or a gate let it through since.
Verdicts ==
    /\ Working => \A s \in Stage : BadLast(st, s) =>
                     IF s < cur THEN ~restart ELSE OpenAfter(st, s)
    /\ node \in {"scaffold", "record"} => \A s \in Stage : ~BadLast(st, s)
    /\ \A s \in Stage : Policy[s] = "none" => ~BadLast(st, s)
    /\ node = "verify" => HasVerify(cur)

OrderInv == TypeOK /\ SoundApprovals /\ Revisions /\ Frontier /\ Verdicts

\* Approved content that is not checked is an auto-approved draft in hand, on
\* its way into or out of a verify it has not passed.
Unverified(s) ==
    /\ MayBeNotReady /\ cur = s
    /\ \/ node = "verify"
       \/ /\ node \in {"draft", "drafting", "verify_fix", "escalate", "draft_escalate"}
          /\ BadLast(st, s)

CheckedInv ==
    /\ \A s \in Stage : (Policy[s] = "blocking" /\ IsApproved(st, s))
                          => st[s].appr = "checked" \/ Unverified(s)
    /\ DiskApprovalsChecked
    /\ node = "gate" /\ Policy[cur] = "blocking" => work.ok
    /\ node = "auto_approve" => MayBeNotReady

-----------------------------------------------------------------------------
(* Changing one stage of a sound chain.                                    *)

\* Taking an approval away is sound when none comes after it,
LEMMA DemotedSound ==
    ASSUME cur \in Stage, NEW o \in Nat, Sound(st, o), OpenAfter(st, cur),
           NEW f, NEW status, NEW last, NEW appr, NEW arev,
           Becomes(f, status, last, appr, arev), status # "approved"
    PROVE  Sound(f, o) /\ OpenAfter(f, cur)
BY Constants DEF Sound, OpenAfter, IsApproved, Becomes, Stage

\* giving one when all before it are given,
LEMMA PromotedSound ==
    ASSUME cur \in Stage, NEW o \in Nat, Sound(st, o), OpenAfter(st, cur),
           \A s \in 1..(cur - 1) : IsApproved(st, s),
           NEW f, NEW last, NEW appr, NEW arev \in Nat,
           Becomes(f, "approved", last, appr, arev), appr # "none", arev >= o
    PROVE  Sound(f, o) /\ OpenAfter(f, cur)
BY Constants DEF Sound, OpenAfter, IsApproved, Becomes, Stage

\* and leaving the status alone always.
LEMMA KeptSound ==
    ASSUME cur \in Stage, NEW o \in Nat, Sound(st, o),
           NEW f, NEW last, NEW appr,
           Becomes(f, st[cur].status, last, appr, st[cur].arev),
           appr # "none" \/ appr = st[cur].appr
    PROVE  Sound(f, o) /\ (OpenAfter(st, cur) => OpenAfter(f, cur))
BY Constants DEF Sound, OpenAfter, IsApproved, Becomes, Stage

\* A snapshot is as sound as what it was taken of,
LEMMA SnapshotSound ==
    ASSUME NEW f \in Stages, NEW r \in Nat, NEW o \in Nat, Sound(f, o)
    PROVE  /\ Sound(Snapshot(f, r, o).stages, o)
           /\ Snapshot(f, r, o).owed = o /\ Snapshot(f, r, o).req = r
<1>1. ASSUME NEW s \in Stage
      PROVE  /\ Snapshot(f, r, o).stages[s].status = f[s].status
             /\ Snapshot(f, r, o).stages[s].appr = f[s].appr
             /\ Snapshot(f, r, o).stages[s].arev = f[s].arev
  BY DEF Snapshot, Stages, StageState
<1>2. Sound(Snapshot(f, r, o).stages, o)
  BY <1>1, Constants DEF Sound, IsApproved, Stage
<1>3. QED
  BY <1>2 DEF Snapshot

DiskSound == Sound(disk.stages, disk.owed) /\ disk.owed <= disk.req

\* and so is the branch, whether it was stored or not.
LEMMA PersistSound ==
    ASSUME NEW f \in Stages, NEW r \in Nat, NEW o \in Nat, o <= r,
           Sound(f, o), DiskSound,
           disk' = Snapshot(f, r, o) \/ disk' = disk
    PROVE  DiskSound'
BY SnapshotSound DEF DiskSound

\* Every persist stores a snapshot or nothing.
LEMMA PersistForm ==
    ASSUME NEW f, NEW r, NEW o,
           Persist(f, r, o) \/ (PersistDuringTearDown(f) /\ r = req /\ o = owed)
    PROVE  disk' = Snapshot(f, r, o) \/ disk' = disk
BY DEF Persist, PersistDuringTearDown

Entered(fresh, resume, rewind) ==
    [s \in Stage |->
        Rewound(IntakeReset(IntakeStages[s], s, fresh, resume), s, rewind)]
EnteredReq(fresh) == IF fresh THEN IntakeReq + 1 ELSE IntakeReq
EnteredOwed(fresh, resume) ==
    IF fresh /\ ~resume THEN EnteredReq(fresh) ELSE IntakeOwed

\* The stages whose approval a run's entry leaves alone.
Keeps(fresh, resume, rewind, s) ==
    /\ (resume /\ s \notin RedraftEvery) \/ ~fresh
    /\ rewind = 0 \/ s < rewind

\* Of the stages it found, intake keeps the content and these approvals.
LEMMA IntakeKeeps ==
    ASSUME TypeOK,
           NEW fresh \in BOOLEAN, NEW resume \in BOOLEAN, NEW rewind \in Nat,
           NEW s \in Stage
    PROVE  /\ Entered(fresh, resume, rewind)[s].last = "none"
           /\ IsApproved(Entered(fresh, resume, rewind), s)
                <=> IsApproved(IntakeStages, s) /\ Keeps(fresh, resume, rewind, s)
           /\ Entered(fresh, resume, rewind)[s].appr = IntakeStages[s].appr
           /\ Entered(fresh, resume, rewind)[s].arev = IntakeStages[s].arev
<1> DEFINE g == IntakeReset(IntakeStages[s], s, fresh, resume)
<1>1. IntakeStages[s] \in StageState
  BY DEF TypeOK, IntakeStages
<1>2. /\ g \in StageState /\ g.last = "none"
      /\ g.status = "approved" =>
            /\ IntakeStages[s].status = "approved"
            /\ (resume /\ s \notin RedraftEvery) \/ ~fresh
      /\ IntakeStages[s].status = "approved" =>
            ((resume /\ s \notin RedraftEvery) \/ ~fresh => g.status = "approved")
      /\ g.appr = IntakeStages[s].appr /\ g.arev = IntakeStages[s].arev
  BY <1>1 DEF IntakeReset, _reset_stage_mechanics, _reset_stage_status_fields,
              StageState, Status, Verdict
<1>3. Entered(fresh, resume, rewind)[s] = Rewound(g, s, rewind)
  BY DEF Entered
<1> HIDE DEF g
<1>4. QED
  BY <1>2, <1>3, Constants
     DEF IsApproved, Keeps, Rewound, _reset_stage_mechanics,
         _reset_stage_status_fields, StageState

\* What intake starts a run from is as sound as what it found.
LEMMA IntakeSound ==
    ASSUME TypeOK, SoundApprovals, Revisions,
           NEW fresh \in BOOLEAN, NEW resume \in BOOLEAN, NEW rewind \in Nat
    PROVE  /\ Sound(Entered(fresh, resume, rewind), EnteredOwed(fresh, resume))
           /\ EnteredOwed(fresh, resume) <= EnteredReq(fresh)
           /\ \A s \in Stage :
                 /\ Entered(fresh, resume, rewind)[s].last = "none"
                 /\ IsApproved(Entered(fresh, resume, rewind), s) =>
                      /\ IsApproved(IntakeStages, s)
                      /\ Entered(fresh, resume, rewind)[s].appr = IntakeStages[s].appr
<1> DEFINE r == EnteredReq(fresh)
           o == EnteredOwed(fresh, resume)
           f == Entered(fresh, resume, rewind)
           keeps(s) == Keeps(fresh, resume, rewind, s)
<1>1. /\ Sound(IntakeStages, IntakeOwed) /\ IntakeOwed <= IntakeReq
      /\ IntakeReq \in Nat /\ IntakeOwed \in Nat
  BY DEF TypeOK, SoundApprovals, Revisions, IntakeStages, IntakeReq, IntakeOwed
<1>3. ASSUME NEW s \in Stage
      PROVE  /\ f[s].last = "none"
             /\ IsApproved(f, s) <=> IsApproved(IntakeStages, s) /\ keeps(s)
             /\ f[s].appr = IntakeStages[s].appr /\ f[s].arev = IntakeStages[s].arev
  BY IntakeKeeps
<1>4. ASSUME NEW s \in Stage, keeps(s), NEW t \in 1..(s - 1)
      PROVE  keeps(t)
  BY <1>4, Constants, StageAssumption DEF StageAssumption, Stage, Keeps
<1>5. o <= r /\ \A s \in Stage : keeps(s) => o = IntakeOwed
  BY <1>1 DEF EnteredReq, EnteredOwed, Keeps
<1> HIDE DEF f, keeps, o, r
<1>6. Sound(f, o)
  BY <1>1, <1>3, <1>4, <1>5, Constants DEF Sound, IsApproved, Stage
<1>7. QED
  BY <1>3, <1>5, <1>6 DEF f, o, r

-----------------------------------------------------------------------------
\* Every step keeps the order of approvals.
LEMMA OrderStep ==
    ASSUME OrderInv, [Next]_vars
    PROVE  OrderInv'
<1>a. TypeOK /\ TypeOK'
  BY TypeStep DEF OrderInv
<1>b. /\ SoundApprovals /\ Revisions /\ Frontier /\ Verdicts /\ DiskSound
      /\ Sound(st, owed)
  BY DEF OrderInv, SoundApprovals, Revisions, DiskSound
<1>c. /\ cur \in Stage /\ st \in Stages /\ req \in Nat /\ owed \in Nat
      /\ work.rev \in Nat /\ owed <= req /\ disk \in Disk
      /\ \A s \in Stage : st[s] \in StageState
  BY <1>a, <1>b DEF TypeOK, Stages, Disk, Revisions
<1> DEFINE Inv == SoundApprovals /\ Revisions /\ Frontier /\ Verdicts
<1>d. Inv' => OrderInv'
  BY <1>a DEF OrderInv
<1> SUFFICES Inv'
  BY <1>d
<1> USE <1>c, Constants DEF checkpoint, workspace, run
<1>1. CASE UNCHANGED vars
  BY <1>1, <1>b DEF vars, SoundApprovals, Revisions, Frontier, Verdicts, Working,
     HasVerify, Sound, OpenAfter, IsApproved, BadLast
<1>2. CASE kill
  BY <1>2, <1>b DEF kill, Goto, SoundApprovals, Revisions, Frontier, Verdicts,
     Working, HasVerify, Sound, OpenAfter, IsApproved, BadLast
<1>3. CASE sandbox_lost
  BY <1>3, <1>b DEF sandbox_lost, SoundApprovals, Revisions, Frontier, Verdicts,
     Working, HasVerify, Sound, OpenAfter, IsApproved, BadLast
<1>4. CASE checkpoint_lost
  BY <1>4, <1>b DEF checkpoint_lost, Goto, NoStages, default_stage_state,
     SoundApprovals, Revisions, Frontier, Verdicts, Working, HasVerify,
     Sound, OpenAfter, IsApproved, BadLast
<1>5. ASSUME NEW hl \in BOOLEAN, NEW new \in BOOLEAN, NEW flag \in BOOLEAN,
             NEW rewind \in {0} \cup (SpecStage..N),
             intake_node(new, flag, rewind, hl)
      PROVE  Inv'
  <2> DEFINE fresh == Accepts(new)
             resume == flag /\ (hl \/ ~fresh)
             r == EnteredReq(fresh)
             o == EnteredOwed(fresh, resume)
             f == Entered(fresh, resume, rewind)
  <2>1. rewind \in Nat
    OBVIOUS
  <2>2. fresh \in BOOLEAN /\ resume \in BOOLEAN
    BY Zenon DEF Accepts
  <2>3. st' = f /\ req' = r /\ owed' = o /\ disk' = disk
        /\ node' \in {"scaffold", "idle"} /\ cur' = Prd
    BY <1>5 DEF intake_node, Goto, Entered, EnteredReq, EnteredOwed
  <2> HIDE DEF fresh, resume
  <2>4. ASSUME NEW x \in BOOLEAN, NEW y \in BOOLEAN
        PROVE  /\ Sound(Entered(x, y, rewind), EnteredOwed(x, y))
               /\ EnteredOwed(x, y) <= EnteredReq(x)
               /\ \A s \in Stage : Entered(x, y, rewind)[s].last = "none"
    BY <1>a, <1>b, <2>1, IntakeSound
  <2>5. Sound(f, o) /\ o <= r /\ \A s \in Stage : f[s].last = "none"
    BY <2>2, <2>4, Zenon
  <2> HIDE DEF f, r, o
  <2>6. SoundApprovals'
    BY <1>b, <2>3, <2>5 DEF SoundApprovals
  <2>7. Revisions' /\ Frontier'
    BY <1>b, <2>3, <2>5 DEF Revisions, Frontier, Working
  <2>8. Verdicts'
    BY <2>3, <2>5 DEF Verdicts, Working, BadLast
  <2>9. QED
    BY <2>6, <2>7, <2>8
<1>6. ASSUME NEW hl \in BOOLEAN, intake_set_aside_failed(hl) PROVE Inv'
  BY <1>6, <1>b DEF intake_set_aside_failed, Goto, SoundApprovals, Revisions,
     Frontier, Verdicts, Working, HasVerify, Sound, OpenAfter, IsApproved, BadLast
<1>7. CASE scaffold_node
  BY <1>7, <1>b DEF scaffold_node, Goto, SoundApprovals, Revisions,
     Frontier, Verdicts, Working, HasVerify, Sound, OpenAfter, IsApproved, BadLast
<1>8. CASE record_raw_requirements_node
  <2>1. DiskSound'
    BY <1>8, <1>b, PersistForm, PersistSound DEF record_raw_requirements_node
  <2>2. /\ UNCHANGED checkpoint
        /\ \/ node' = "draft" /\ cur' = Prd
           \/ node' \in {"idle", "gate"} /\ cur' = cur /\ node' = "idle"
    BY <1>8 DEF record_raw_requirements_node, Killed, Goto, Paused
  <2>3. QED
    BY <1>8, <1>b, <2>1, <2>2 DEF record_raw_requirements_node,
       SoundApprovals, Revisions, Frontier, Verdicts, Working, HasVerify,
       DiskSound, Sound, OpenAfter, IsApproved, BadLast, Prd
<1>9. CASE draft_skip
  <2>1. /\ UNCHANGED <<checkpoint, workspace>>
        /\ IsApproved(st, cur) /\ ~BadLast(st, cur) /\ node = "draft"
        /\ \/ node' = "draft" /\ cur' = cur + 1
           \/ node' = "idle" /\ cur' = cur
    BY <1>9 DEF draft_skip, should_skip_draft, NextStage, Goto, IsApproved, BadLast
  <2>2. SoundApprovals' /\ Revisions'
    BY <1>b, <2>1 DEF SoundApprovals, Revisions
  <2>3. Frontier' /\ Verdicts'
    BY <1>b, <2>1 DEF Frontier, Verdicts, Working, IsApproved, BadLast, Stage,
       OpenAfter, HasVerify
  <2>4. QED
    BY <2>2, <2>3
<1>10. CASE draft_start
  \* an approved stage is drafted again only for a verdict of this run, or
  \* because it is the last one
  <2>1. OpenAfter(st, cur)
    <3>1. CASE ~IsApproved(st, cur)
      BY <1>b, <3>1 DEF Sound, OpenAfter, IsApproved, Stage
    <3>2. CASE IsApproved(st, cur) /\ BadLast(st, cur)
      BY <1>10, <1>b, <3>2 DEF draft_start, Verdicts, Working
    <3>3. CASE IsApproved(st, cur) /\ ~BadLast(st, cur)
      <4>1. cur \in RedraftEvery
        BY <1>10, <1>b, <3>3 DEF draft_start, should_skip_draft, Sound, IsApproved,
           BadLast
      <4>2. QED
        BY <4>1, StageAssumption DEF StageAssumption, OpenAfter
    <3>4. QED
      BY <3>1, <3>2, <3>3
  <2>2. Becomes(Marked("drafting"), "drafting", st[cur].last, st[cur].appr, st[cur].arev)
    BY <1>a, Effects DEF Status
  <2>3. Sound(Marked("drafting"), owed) /\ Marked("drafting") \in Stages
    BY <1>b, <2>1, <2>2, DemotedSound DEF Becomes
  <2>4. disk' = Snapshot(Marked("drafting"), req, owed) \/ disk' = disk
    BY <1>10, Zenon DEF draft_start, Marked
  <2>5. DiskSound'
    BY <1>b, <2>3, <2>4, PersistSound
  <2>6. node = "draft" /\ node' = "drafting" /\ cur' = cur /\ UNCHANGED checkpoint
    BY <1>10 DEF draft_start, Goto
  <2>7. QED
    BY <1>b, <2>1, <2>5, <2>6 DEF SoundApprovals, DiskSound, Revisions, Frontier,
       Verdicts, Working, OpenAfter, IsApproved, BadLast, Sound
<1>11. CASE draft_ready
  <2>1. /\ node = "drafting" /\ cur' = cur
        /\ node' \in {"audit", "verify", "gate"}
        /\ node' = "verify" => HasVerify(cur)
        /\ st' = Marked("ready_for_review") /\ work'.rev = req
        /\ UNCHANGED <<restart, req, owed, disk>>
    BY <1>11 DEF draft_ready, make_route_after_draft_ready, VerifyEnabled, HasVerify,
       Goto, Marked
  <2>2. Becomes(st', "ready_for_review", st[cur].last, st[cur].appr, st[cur].arev)
    BY <1>a, <2>1, Effects DEF Status
  <2>3. OpenAfter(st, cur)
    BY <1>b, <2>1 DEF Frontier, Working
  <2>4. Sound(st', owed) /\ OpenAfter(st', cur)
    BY <1>b, <2>2, <2>3, DemotedSound
  <2>5. QED
    BY <1>b, <2>1, <2>2, <2>3, <2>4 DEF SoundApprovals, Revisions, Frontier,
       Verdicts, Working, Becomes, HasVerify, OpenAfter, IsApproved, BadLast, Stage
<1>12. CASE draft_not_ready
  <2>1. /\ node = "drafting" /\ cur' = cur
        /\ node' \in {"auto_approve", "draft", "idle"}
        /\ st' = Asked(st[cur].cycle + 1) /\ work'.rev = req
        /\ UNCHANGED <<restart, req, owed, disk>>
    BY <1>12 DEF draft_not_ready, Goto, Asked
  <2>2. Becomes(st', "needs_clarification", st[cur].last, st[cur].appr, st[cur].arev)
    BY <1>a, <2>1, Effects DEF StageState
  <2>3. OpenAfter(st, cur)
    BY <1>b, <2>1 DEF Frontier, Working
  <2>4. Sound(st', owed) /\ OpenAfter(st', cur)
    BY <1>b, <2>2, <2>3, DemotedSound
  <2>5. QED
    BY <1>b, <2>1, <2>2, <2>3, <2>4 DEF SoundApprovals, Revisions, Frontier,
       Verdicts, Working, Becomes, HasVerify, OpenAfter, IsApproved, BadLast, Stage
<1>13. CASE draft_infra_exhausted
  BY <1>13, <1>b DEF draft_infra_exhausted, Goto, SoundApprovals, Revisions,
     Frontier, Verdicts, Working, HasVerify, Sound, OpenAfter, IsApproved, BadLast
<1>14. CASE audit_node
  <2>1. DiskSound'
    BY <1>14, <1>b, PersistForm, PersistSound DEF audit_node
  <2>2. /\ node = "audit" /\ cur' = cur /\ work'.rev = work.rev
        /\ node' \in {"verify", "gate", "idle"}
        /\ node' = "verify" => HasVerify(cur)
        /\ UNCHANGED <<st, restart, req, owed>>
    BY <1>14, <1>a DEF audit_node, VerifyEnabled, HasVerify, Goto, Killed, Paused, TypeOK
  <2>3. QED
    BY <1>b, <2>1, <2>2 DEF SoundApprovals, DiskSound, Revisions,
       Frontier, Verdicts, Working, Becomes, HasVerify, OpenAfter, IsApproved,
       BadLast, Stage, Sound
<1>15. CASE verify_cannot
  <2>1. /\ node = "verify" /\ node' = "escalate" /\ cur' = cur
        /\ st' = Unverifiable
        /\ UNCHANGED <<work, restart, req, owed, disk>>
    BY <1>15 DEF verify_cannot, VerifyUnchanged, Goto, Unverifiable
  <2>2. Becomes(st', st[cur].status, "cannot_verify", st[cur].appr, st[cur].arev)
    BY <1>a, <2>1, Effects
  <2>3. OpenAfter(st, cur)
    BY <1>b, <2>1 DEF Frontier, Working
  <2>4. Sound(st', owed) /\ OpenAfter(st', cur)
    BY <1>b, <2>2, <2>3, KeptSound
  <2>5. QED
    BY <1>b, <2>1, <2>2, <2>3, <2>4 DEF SoundApprovals, Revisions, Frontier,
       Verdicts, Working, Becomes, HasVerify, OpenAfter, IsApproved, BadLast, Stage
<1>16. CASE verify_pass
  <2>1. Becomes(Passed(cur), st[cur].status, "passed",
                IF st[cur].status = "approved" THEN "checked" ELSE st[cur].appr,
                st[cur].arev)
    BY <1>a, Effects
  <2>2. OpenAfter(st, cur) /\ node = "verify"
    BY <1>16, <1>b DEF verify_pass, Frontier, Working
  <2>3. Sound(Passed(cur), owed) /\ OpenAfter(Passed(cur), cur) /\ Passed(cur) \in Stages
    BY <1>b, <2>1, <2>2, KeptSound DEF Becomes
  <2>4. DiskSound'
    BY <1>16, <1>b, <2>3, PersistForm, PersistSound DEF verify_pass
  <2>5. /\ cur' = cur /\ UNCHANGED <<restart, req, owed>> /\ work'.rev = work.rev
        /\ \/ st' = Passed(cur) /\ node' \in {"gate", "no_new_work"}
           \/ st' = st /\ node' = "idle"
    BY <1>16, <1>a DEF verify_pass, Goto, Killed, Paused, TypeOK
  <2>6. CASE st' = Passed(cur) /\ node' \in {"gate", "no_new_work"}
    BY <1>b, <2>1, <2>2, <2>3, <2>4, <2>5, <2>6 DEF SoundApprovals, DiskSound, Revisions,
       Frontier, Verdicts, Working, Becomes, HasVerify, OpenAfter, IsApproved,
       BadLast, Stage
  <2>7. CASE st' = st /\ node' = "idle"
    BY <1>b, <2>4, <2>5, <2>7 DEF SoundApprovals, DiskSound, Revisions,
       Frontier, Verdicts, Working, Becomes, HasVerify, OpenAfter, IsApproved,
       BadLast, Stage, Sound
  <2>8. QED
    BY <2>5, <2>6, <2>7
<1>17. CASE verify_fail
  <2>1. /\ node = "verify" /\ cur' = cur
        /\ node' \in {"escalate", "gate", "no_new_work", "verify_fix", "draft"}
        /\ st' = Failed(st[cur].vcycle + 1)
        /\ UNCHANGED <<work, restart, req, owed, disk>>
    BY <1>17 DEF verify_fail, VerifyUnchanged, Retry, Goto, Failed
  <2>2. Becomes(st', st[cur].status, "failed", st[cur].appr, st[cur].arev)
    BY <1>a, <2>1, Effects DEF StageState
  <2>3. OpenAfter(st, cur)
    BY <1>b, <2>1 DEF Frontier, Working
  <2>4. Sound(st', owed) /\ OpenAfter(st', cur)
    BY <1>b, <2>2, <2>3, KeptSound
  <2>5. QED
    BY <1>b, <2>1, <2>2, <2>3, <2>4 DEF SoundApprovals, Revisions, Frontier,
       Verdicts, Working, Becomes, HasVerify, OpenAfter, IsApproved, BadLast, Stage
<1>18. CASE verify_infra
  <2>1. /\ node = "verify" /\ cur' = cur
        /\ node' \in {"escalate", "verify_fix", "draft"}
        /\ st' = NoVerdict(st[cur].infra + 1)
        /\ UNCHANGED <<work, restart, req, owed, disk>>
    BY <1>18 DEF verify_infra, VerifyUnchanged, Retry, Goto, NoVerdict
  <2>2. Becomes(st', st[cur].status, "infra", st[cur].appr, st[cur].arev)
    BY <1>a, <2>1, Effects DEF StageState
  <2>3. OpenAfter(st, cur)
    BY <1>b, <2>1 DEF Frontier, Working
  <2>4. Sound(st', owed) /\ OpenAfter(st', cur)
    BY <1>b, <2>2, <2>3, KeptSound
  <2>5. QED
    BY <1>b, <2>1, <2>2, <2>3, <2>4 DEF SoundApprovals, Revisions, Frontier,
       Verdicts, Working, Becomes, HasVerify, OpenAfter, IsApproved, BadLast, Stage
<1>19. CASE verify_fix_node
  BY <1>19, <1>b DEF verify_fix_node, Goto, SoundApprovals, Revisions,
     Frontier, Verdicts, Working, HasVerify, Sound, OpenAfter, IsApproved, BadLast
<1>20. CASE auto_approve_node
  <2>1. Becomes(Approved(cur), "approved", st[cur].last,
                IF work.ok THEN "checked" ELSE "raw", work.rev)
    BY <1>a, Effects
  <2>2. /\ OpenAfter(st, cur) /\ node = "auto_approve" /\ work.rev >= owed
        /\ \A s \in 1..(cur - 1) : IsApproved(st, s)
    BY <1>20, <1>b DEF auto_approve_node, Frontier, Working, Revisions
  <2>3. /\ Sound(Approved(cur), owed) /\ OpenAfter(Approved(cur), cur)
        /\ Approved(cur) \in Stages
    BY <1>b, <2>1, <2>2, PromotedSound DEF Becomes
  <2>4. DiskSound'
    BY <1>20, <1>b, <2>3, PersistForm, PersistSound DEF auto_approve_node
  <2>5. /\ UNCHANGED <<work, restart, req, owed>>
        /\ \/ st' = Approved(cur) /\ node' = "verify" /\ cur' = cur /\ HasVerify(cur)
           \/ /\ st' = Approved(cur) /\ Policy[cur] = "none"
              /\ (node' = "draft" /\ cur' = cur + 1) \/ (node' = "idle" /\ cur' = cur)
           \/ st' = st /\ node' = "idle" /\ cur' = cur
    <3>1. CASE Killed
      BY <2>2, <3>1 DEF Killed, Paused
    <3>2. CASE ~Killed
      <4>1. /\ st' = Approved(cur) /\ UNCHANGED <<work, restart, req, owed>>
            /\ IF HasVerify(cur) THEN Goto("verify", cur) ELSE NextStage(cur)
        BY <1>20, <3>2 DEF auto_approve_node
      <4>2. QED
        BY <4>1 DEF NextStage, Goto, HasVerify
    <3>3. QED
      BY <3>1, <3>2
  <2>6. CASE st' = Approved(cur) /\ node' = "verify" /\ cur' = cur /\ HasVerify(cur)
    BY <1>b, <2>1, <2>2, <2>3, <2>4, <2>5, <2>6 DEF SoundApprovals, DiskSound, Revisions,
       Frontier, Verdicts, Working, Becomes, HasVerify, OpenAfter, IsApproved,
       BadLast, Stage
  <2>7. CASE /\ st' = Approved(cur) /\ Policy[cur] = "none"
             /\ (node' = "draft" /\ cur' = cur + 1) \/ (node' = "idle" /\ cur' = cur)
    BY <1>b, <2>1, <2>2, <2>3, <2>4, <2>5, <2>7 DEF SoundApprovals, DiskSound, Revisions,
       Frontier, Verdicts, Working, Becomes, HasVerify, OpenAfter, IsApproved,
       BadLast, Stage
  <2>8. CASE st' = st /\ node' = "idle" /\ cur' = cur
    BY <1>b, <2>4, <2>5, <2>8 DEF SoundApprovals, DiskSound, Revisions,
       Frontier, Verdicts, Working, Becomes, HasVerify, OpenAfter, IsApproved,
       BadLast, Stage, Sound
  <2>9. QED
    BY <2>5, <2>6, <2>7, <2>8
<1>21. CASE gate_approve
  <2>1. Becomes(Approved(cur), "approved", st[cur].last,
                IF work.ok THEN "checked" ELSE "raw", work.rev)
    BY <1>a, Effects
  <2>2. /\ OpenAfter(st, cur) /\ node = "gate" /\ work.rev >= owed
        /\ \A s \in 1..(cur - 1) : IsApproved(st, s)
    BY <1>21, <1>b DEF gate_approve, Frontier, Working, Revisions
  <2>3. /\ Sound(Approved(cur), owed) /\ OpenAfter(Approved(cur), cur)
        /\ Approved(cur) \in Stages
    BY <1>b, <2>1, <2>2, PromotedSound DEF Becomes
  <2>4. DiskSound'
    BY <1>21, <1>b, <2>3, PersistForm, PersistSound DEF gate_approve
  <2>5. /\ UNCHANGED <<work, req, owed>>
        /\ \/ /\ st' = Approved(cur) /\ ~restart'
              /\ (node' = "draft" /\ cur' = cur + 1) \/ (node' = "idle" /\ cur' = cur)
           \/ st' = st /\ restart' = restart /\ node' \in {"idle", "gate"} /\ cur' = cur
    <3>1. CASE Killed
      BY <1>21, <3>1 DEF gate_approve, Killed
    <3>2. CASE ~Killed
      <4>1. /\ st' = Approved(cur) /\ NextStage(cur) /\ UNCHANGED <<work, req, owed>>
        BY <1>21, <3>2 DEF gate_approve
      <4>2. ~restart'
        BY <1>21, <3>2, Zenon DEF gate_approve
      <4>3. QED
        BY <4>1, <4>2 DEF NextStage, Goto
    <3>3. QED
      BY <3>1, <3>2
  <2>6. CASE /\ st' = Approved(cur) /\ ~restart'
             /\ (node' = "draft" /\ cur' = cur + 1) \/ (node' = "idle" /\ cur' = cur)
    BY <1>b, <2>1, <2>2, <2>3, <2>4, <2>5, <2>6 DEF SoundApprovals, DiskSound, Revisions,
       Frontier, Verdicts, Working, Becomes, HasVerify, OpenAfter, IsApproved,
       BadLast, Stage
  <2>7. CASE st' = st /\ restart' = restart /\ node' \in {"idle", "gate"} /\ cur' = cur
    BY <1>b, <2>2, <2>4, <2>5, <2>7 DEF SoundApprovals, DiskSound, Revisions,
       Frontier, Verdicts, Working, Becomes, HasVerify, OpenAfter, IsApproved,
       BadLast, Stage, Sound
  <2>8. QED
    BY <2>5, <2>6, <2>7
<1>22. CASE gate_reject
  <2>1. Becomes(Rejected(cur), "needs_clarification", st[cur].last,
                st[cur].appr, st[cur].arev)
    BY <1>a, Effects
  <2>2. OpenAfter(st, cur) /\ node = "gate"
    BY <1>22, <1>b DEF gate_reject, Paused, Frontier, Working
  <2>3. /\ Sound(Rejected(cur), owed) /\ OpenAfter(Rejected(cur), cur)
        /\ Rejected(cur) \in Stages
    BY <1>b, <2>1, <2>2, DemotedSound DEF Becomes
  <2>4. DiskSound'
    BY <1>22, <1>b, <2>3, PersistForm, PersistSound DEF gate_reject
  <2>5. /\ UNCHANGED <<work, restart, req, owed>>
        /\ \/ /\ st' = Rejected(cur) /\ node' = "draft"
              /\ cur' = IF restart THEN Prd ELSE cur
           \/ st' = st /\ node' \in {"idle", "gate"} /\ cur' = cur
    BY <1>22 DEF gate_reject, Goto, Killed
  <2>6. CASE st' = Rejected(cur) /\ node' = "draft" /\ cur' = IF restart THEN Prd ELSE cur
    BY <1>b, <2>1, <2>2, <2>3, <2>4, <2>5, <2>6 DEF SoundApprovals, DiskSound, Revisions,
       Frontier, Verdicts, Working, Becomes, HasVerify, OpenAfter, IsApproved,
       BadLast, Stage, Prd
  <2>7. CASE st' = st /\ node' \in {"idle", "gate"} /\ cur' = cur
    BY <1>b, <2>2, <2>4, <2>5, <2>7 DEF SoundApprovals, DiskSound, Revisions,
       Frontier, Verdicts, Working, Becomes, HasVerify, OpenAfter, IsApproved,
       BadLast, Stage, Sound
  <2>8. QED
    BY <2>5, <2>6, <2>7
<1>23. CASE gate_correct
  \* nothing is approved any more
  <2>1. cur \in Human /\ node = "gate" /\ OpenAfter(st, cur)
    BY <1>23, <1>b DEF gate_correct, Paused, Frontier, Working
  <2>2. /\ Corrected(cur) \in Stages
        /\ \A t \in Stage : /\ ~IsApproved(Corrected(cur), t)
                           /\ Corrected(cur)[t].last = st[t].last
    BY <1>a, <2>1, CorrectedEffect DEF OpenAfter, IsApproved, Stage
  <2>3. Sound(Corrected(cur), req + 1)
    BY <2>2 DEF Sound
  <2>4. DiskSound'
    <3>1. disk' = Snapshot(Corrected(cur), req + 1, req + 1) \/ disk' = disk
      BY <1>23 DEF gate_correct, Persist
    <3>2. req + 1 \in Nat /\ req + 1 <= req + 1
      OBVIOUS
    <3>3. QED
      BY <1>b, <2>2, <2>3, <3>1, <3>2, PersistSound
  <2>5. /\ work' = work
        /\ \/ /\ st' = Corrected(cur) /\ req' = req + 1 /\ owed' = req + 1
              /\ node' = "draft" /\ cur' = Prd
           \/ /\ UNCHANGED <<st, restart, req, owed>>
              /\ node' \in {"idle", "gate"} /\ cur' = cur
    BY <1>23 DEF gate_correct, Goto, Killed
  <2>6. CASE /\ st' = Corrected(cur) /\ req' = req + 1 /\ owed' = req + 1
             /\ node' = "draft" /\ cur' = Prd
    BY <1>b, <2>2, <2>3, <2>4, <2>5, <2>6 DEF SoundApprovals, DiskSound, Revisions,
       Frontier, Verdicts, Working, Becomes, HasVerify, OpenAfter, IsApproved,
       BadLast, Stage, Prd
  <2>7. CASE /\ UNCHANGED <<st, restart, req, owed>>
             /\ node' \in {"idle", "gate"} /\ cur' = cur
    BY <1>b, <2>1, <2>4, <2>5, <2>7 DEF SoundApprovals, DiskSound, Revisions,
       Frontier, Verdicts, Working, Becomes, HasVerify, OpenAfter, IsApproved,
       BadLast, Stage, Sound
  <2>8. QED
    BY <2>5, <2>6, <2>7
<1>24. CASE escalate_node
  <2>1. Becomes(Revoked(cur), "needs_clarification", st[cur].last, "none", 0)
    BY <1>a, Effects
  <2>2. OpenAfter(st, cur) /\ node = "escalate"
    BY <1>24, <1>b DEF escalate_node, Frontier, Working
  <2>3. Sound(Revoked(cur), owed) /\ Revoked(cur) \in Stages
    BY <1>b, <2>1, <2>2, DemotedSound DEF Becomes
  <2>4. DiskSound'
    BY <1>24, <1>b, <2>3, PersistForm, PersistSound DEF escalate_node
  <2>5. /\ UNCHANGED <<restart, req, owed>> /\ node' = "idle" /\ cur' = cur
        /\ st' \in {Revoked(cur), st}
    BY <1>24, <2>2 DEF escalate_node, Goto, Killed, Paused
  <2>6. QED
    BY <1>b, <2>1, <2>3, <2>4, <2>5 DEF SoundApprovals, DiskSound, Revisions,
       Frontier, Verdicts, Working, Becomes, HasVerify, OpenAfter, IsApproved,
       BadLast, Stage
<1>25. CASE draft_escalate_node
  <2> DEFINE f == Marked("needs_clarification")
  <2>1. Becomes(f, "needs_clarification", st[cur].last, st[cur].appr, st[cur].arev)
    BY <1>a, Effects DEF Status
  <2>2. OpenAfter(st, cur) /\ node = "draft_escalate"
    BY <1>25, <1>b DEF draft_escalate_node, Frontier, Working
  <2> HIDE DEF f
  <2>3. Sound(f, owed) /\ f \in Stages
    BY <1>b, <2>1, <2>2, DemotedSound DEF Becomes
  <2>4. /\ PersistDuringTearDown(f) /\ st' \in {f, st}
        /\ UNCHANGED <<restart, req, owed>> /\ node' = "idle" /\ cur' = cur
    BY <1>25, <2>2 DEF draft_escalate_node, Goto, Killed, Paused, f, Marked
  <2>5. DiskSound'
    BY <1>b, <2>3, <2>4, PersistForm, PersistSound
  <2>6. QED
    BY <1>b, <2>1, <2>3, <2>4, <2>5 DEF SoundApprovals, DiskSound, Revisions,
       Frontier, Verdicts, Working, Becomes, HasVerify, OpenAfter, IsApproved,
       BadLast, Stage
<1>26. CASE no_new_work_node
  BY <1>26, <1>b DEF no_new_work_node, Goto, SoundApprovals, Revisions,
     Frontier, Verdicts, Working, HasVerify, Sound, OpenAfter, IsApproved, BadLast
<1> HIDE DEF Inv, checkpoint, workspace, run
<1>27. QED
  BY <1>1, <1>2, <1>3, <1>4, <1>5, <1>6, <1>7, <1>8, <1>9, <1>10, <1>11,
     <1>12, <1>13, <1>14, <1>15, <1>16, <1>17, <1>18, <1>19, <1>20, <1>21,
     <1>22, <1>23, <1>24, <1>25, <1>26
     DEF OrderInv, Next, Fault, Intake, ReviewerStep, ProgramStep

\* Approvals form a prefix of the chain in every reachable state.
LEMMA Ordered == Spec => []OrderInv
<1>1. ASSUME Init PROVE OrderInv
  <2>1. TypeOK
    BY <1>1, InitTyped
  <2>2. SoundApprovals /\ Revisions /\ Frontier /\ Verdicts
    BY <1>1, Constants
       DEF Init, NoStages, default_stage_state, EmptyWorkspace, SoundApprovals,
           Sound, IsApproved, Revisions, Frontier, Verdicts, Working, BadLast
  <2>3. QED
    BY <2>1, <2>2 DEF OrderInv
<1>2. QED
  BY <1>1, OrderStep, PTL DEF Spec

\* No stage is worked on before every stage in front of it is approved, in any
\* chain, with any policies, caps, faults and number of runs.
THEOREM UpstreamFirst == Spec => []UpstreamApproved
<1>1. OrderInv => UpstreamApproved
  BY Constants DEF OrderInv, TypeOK, Frontier, SoundApprovals, Sound, IsApproved,
     UpstreamApproved, Stage
<1>2. QED
  BY <1>1, Ordered, PTL

\* No stage is worked on upon an approval older than the requirements that the
\* last submission or correction put in force.
THEOREM ApprovalsAreCurrent == Spec => []ApprovalsCurrent
<1>1. OrderInv => ApprovalsCurrent
  BY Constants DEF OrderInv, TypeOK, Frontier, SoundApprovals, Sound, IsApproved,
     ApprovalsCurrent, Stage
<1>2. QED
  BY <1>1, Ordered, PTL

\* A run entered without new requirements or a rewind keeps every approval.
THEOREM ReattachKeepsApprovals == Spec => ApprovalsSurviveReattach
<1>1. ASSUME TypeOK, NEW hl \in BOOLEAN, NEW flag \in BOOLEAN,
             intake_node(FALSE, flag, 0, hl),
             NEW s \in Stage, IntakeStages[s].status = "approved"
      PROVE  st'[s].status = "approved"
  <2>1. IntakeStages[s] \in StageState
    BY <1>1 DEF TypeOK, IntakeStages
  <2> DEFINE resume == flag /\ (hl \/ ~FALSE)
  <2>2. st'[s] = Rewound(IntakeReset(IntakeStages[s], s, FALSE, resume), s, 0)
    BY <1>1 DEF intake_node, Accepts
  <2> HIDE DEF resume
  <2>3. IntakeReset(IntakeStages[s], s, FALSE, resume).status = "approved"
    BY <1>1, <2>1 DEF IntakeReset, _reset_stage_mechanics,
       _reset_stage_status_fields, StageState
  <2>4. QED
    BY <2>2, <2>3 DEF Rewound
<1>2. TypeOK /\ [Next]_vars =>
        [ \A hl, flag \in BOOLEAN :
             intake_node(FALSE, flag, 0, hl)
               => \A s \in Stage : IntakeStages[s].status = "approved"
                                     => st'[s].status = "approved" ]_vars
  BY <1>1
<1>3. QED
  BY <1>2, Typing, PTL DEF Spec, ApprovalsSurviveReattach

-----------------------------------------------------------------------------
(* Nothing unverified is built upon, where a draft that is forced through   *)
(* by the clarification cap cannot be killed on its way to the verify, nor  *)
(* end its run there by reporting no new work in a verify that fails.       *)

LedgerVerifyAdvises == \A s \in LedgerStages : Policy[s] # "blocking"

Checked(f) ==
    \A s \in Stage : (Policy[s] = "blocking" /\ IsApproved(f, s)) => f[s].appr = "checked"

\* Storing checked approvals stores no other.
LEMMA PersistChecked ==
    ASSUME NEW f \in Stages, NEW r, NEW o, Checked(f), DiskApprovalsChecked,
           disk' = Snapshot(f, r, o) \/ disk' = disk
    PROVE  DiskApprovalsChecked'
<1>1. ASSUME NEW s \in Stage
      PROVE  /\ Snapshot(f, r, o).stages[s].status = f[s].status
             /\ Snapshot(f, r, o).stages[s].appr = f[s].appr
  BY DEF Snapshot, Stages, StageState
<1>2. QED
  BY <1>1 DEF Checked, DiskApprovalsChecked, IsApproved

\* Once the current stage is out of the way, the others are checked.
LEMMA BecomesChecked ==
    ASSUME cur \in Stage, CheckedInv,
           NEW f, NEW status, NEW last, NEW appr, NEW arev,
           Becomes(f, status, last, appr, arev),
           status # "approved" \/ appr = "checked" \/ Policy[cur] # "blocking"
    PROVE  Checked(f) /\ f \in Stages
BY DEF Checked, CheckedInv, Unverified, Becomes, IsApproved

\* At these nodes no draft is on its way to a verify.
LEMMA SettledChecked ==
    ASSUME CheckedInv,
           \/ ~MayBeNotReady
           \/ node \in {"idle", "scaffold", "record", "audit", "auto_approve",
                       "gate", "no_new_work"}
    PROVE  Checked(st)
BY DEF Checked, CheckedInv, Unverified

\* A process that dies leaves no approval behind that was not checked.
LEMMA KilledChecked ==
    ASSUME Kills => ~MayBeNotReady, CheckedInv, Killed, DiskApprovalsChecked'
    PROVE  CheckedInv'
<1>1. /\ Kills /\ UNCHANGED <<st, work, cur>> /\ node' \in {"idle", "gate"}
      /\ node' = "gate" => node = "gate"
  BY DEF Killed, Paused, checkpoint
<1>2. Checked(st)
  BY <1>1, SettledChecked
<1>3. QED
  BY <1>1, <1>2 DEF CheckedInv, Checked, IsApproved

\* A node that leaves every blocking stage checked, and is no gate.
LEMMA CheckedEnough ==
    ASSUME Checked(st'), DiskApprovalsChecked',
           node' \notin {"gate", "auto_approve"}
    PROVE  CheckedInv'
BY DEF CheckedInv, Checked, IsApproved

\* Every step leaves unverified content where it is on its way to a verify.
LEMMA CheckedStep ==
    ASSUME Kills => ~MayBeNotReady, MayBeNotReady => LedgerVerifyAdvises,
           OrderInv, CheckedInv, [Next]_vars
    PROVE  CheckedInv'
<1>a. TypeOK /\ SoundApprovals /\ Revisions
  BY DEF OrderInv
<1>b. /\ cur \in Stage /\ st \in Stages /\ disk \in Disk /\ work.rev \in Nat
      /\ \A s \in Stage : st[s] \in StageState
  BY <1>a DEF TypeOK, Stages, Disk
<1>c. CheckedInv /\ DiskApprovalsChecked
  BY DEF CheckedInv
<1> USE <1>b, Constants DEF checkpoint, workspace, run
<1>1. CASE UNCHANGED vars
  BY <1>1, <1>c DEF vars, CheckedInv, Unverified, IsApproved, BadLast,
     DiskApprovalsChecked
<1>2. CASE kill
  BY <1>2, <1>c DEF kill, Goto, CheckedInv, Unverified, IsApproved, BadLast,
     DiskApprovalsChecked
<1>3. CASE sandbox_lost
  BY <1>3, <1>c DEF sandbox_lost, CheckedInv, Unverified, IsApproved, BadLast,
     DiskApprovalsChecked
<1>4. CASE checkpoint_lost
  BY <1>4, <1>c DEF checkpoint_lost, Goto, NoStages, default_stage_state,
     CheckedInv, Unverified, IsApproved, DiskApprovalsChecked
<1>5. ASSUME NEW hl \in BOOLEAN, NEW new \in BOOLEAN, NEW flag \in BOOLEAN,
             NEW rewind \in {0} \cup (SpecStage..N),
             intake_node(new, flag, rewind, hl)
      PROVE  CheckedInv'
  <2> DEFINE fresh == Accepts(new)
             resume == flag /\ (hl \/ ~fresh)
             f == Entered(fresh, resume, rewind)
  <2>1. rewind \in Nat
    OBVIOUS
  <2>2. fresh \in BOOLEAN /\ resume \in BOOLEAN
    BY Zenon DEF Accepts
  <2>3. /\ st' = f /\ disk' = disk /\ node' \in {"scaffold", "idle"}
        /\ node \in {"idle", "gate"}
    BY <1>5 DEF intake_node, MayInvoke, Paused, Goto, Entered
  <2> HIDE DEF fresh, resume
  <2>4. ASSUME NEW x \in BOOLEAN, NEW y \in BOOLEAN
        PROVE  \A s \in Stage : IsApproved(Entered(x, y, rewind), s) =>
                  /\ IsApproved(IntakeStages, s)
                  /\ Entered(x, y, rewind)[s].appr = IntakeStages[s].appr
    BY <1>a, <2>1, IntakeSound
  <2>5. \A s \in Stage : IsApproved(f, s) =>
           IsApproved(IntakeStages, s) /\ f[s].appr = IntakeStages[s].appr
    BY <2>2, <2>4, Zenon
  <2>6. Checked(IntakeStages)
    BY <1>c, <2>3, SettledChecked
       DEF IntakeStages, Checked, DiskApprovalsChecked, IsApproved
  <2> HIDE DEF f
  <2>7. Checked(f)
    BY <2>5, <2>6 DEF Checked
  <2>8. QED
    BY <1>c, <2>3, <2>7 DEF CheckedInv, Checked, DiskApprovalsChecked
<1>6. ASSUME NEW hl \in BOOLEAN, intake_set_aside_failed(hl) PROVE CheckedInv'
  <2>1. Checked(st)
    BY <1>6, <1>c, SettledChecked DEF intake_set_aside_failed, MayInvoke, Paused
  <2>2. QED
    BY <1>6, <1>c, <2>1 DEF intake_set_aside_failed, Goto, CheckedInv, Checked,
       IsApproved, DiskApprovalsChecked
<1>7. CASE scaffold_node
  BY <1>7, <1>c DEF scaffold_node, Goto, CheckedInv, Unverified, IsApproved,
     DiskApprovalsChecked
<1>8. CASE record_raw_requirements_node
  <2>1. Checked(st)
    BY <1>8, <1>c, SettledChecked DEF record_raw_requirements_node
  <2>2. DiskApprovalsChecked'
    BY <1>8, <1>c, <2>1, PersistForm, PersistChecked DEF record_raw_requirements_node
  <2>3. st' = st /\ node' \in {"draft", "idle"}
    BY <1>8 DEF record_raw_requirements_node, Killed, Goto, Paused
  <2>4. QED
    BY <2>1, <2>2, <2>3 DEF CheckedInv, Checked, IsApproved
<1>9. CASE draft_skip
  \* what is skipped has no bad verdict
  <2>1. /\ node = "draft" /\ ~BadLast(st, cur) /\ UNCHANGED <<st, disk>>
        /\ node' \in {"draft", "idle"}
    BY <1>9 DEF draft_skip, should_skip_draft, NextStage, Goto, BadLast
  <2>2. Checked(st)
    BY <1>c, <2>1 DEF CheckedInv, Unverified, Checked
  <2>3. QED
    BY <1>c, <2>1, <2>2 DEF CheckedInv, Checked, IsApproved, DiskApprovalsChecked
<1>10. CASE draft_start
  <2>1. Becomes(Marked("drafting"), "drafting", st[cur].last, st[cur].appr, st[cur].arev)
    BY <1>a, Effects DEF Status
  <2>2. Checked(Marked("drafting")) /\ Marked("drafting") \in Stages
    BY <1>c, <2>1, BecomesChecked
  <2>3. disk' = Snapshot(Marked("drafting"), req, owed) \/ disk' = disk
    BY <1>10, Zenon DEF draft_start, Marked
  <2>4. DiskApprovalsChecked'
    BY <1>c, <2>2, <2>3, PersistChecked
  <2>5. node = "draft" /\ node' = "drafting" /\ cur' = cur /\ st' = st
    BY <1>10 DEF draft_start, Goto
  <2>6. QED
    BY <1>c, <2>4, <2>5 DEF CheckedInv, Unverified, IsApproved, BadLast
<1>11. CASE draft_ready
  <2>1. /\ st' = Marked("ready_for_review") /\ disk' = disk
        /\ node' \in {"audit", "verify", "gate"} /\ cur' = cur
        /\ node' = "gate" => Policy[cur] # "blocking"
    BY <1>11 DEF draft_ready, make_route_after_draft_ready, VerifyEnabled, Goto, Marked
  <2>2. Checked(st')
    BY <1>a, <1>c, <2>1, Effects, BecomesChecked DEF Status
  <2>3. QED
    BY <1>c, <2>1, <2>2 DEF CheckedInv, Checked, IsApproved, DiskApprovalsChecked
<1>12. CASE draft_not_ready
  <2>1. /\ st' = Asked(st[cur].cycle + 1) /\ disk' = disk /\ MayBeNotReady
        /\ node' \in {"auto_approve", "draft", "idle"}
    BY <1>12 DEF draft_not_ready, Goto, Asked
  <2>2. Becomes(st', "needs_clarification", st[cur].last, st[cur].appr, st[cur].arev)
    BY <1>a, <2>1, Effects DEF StageState
  <2>3. Checked(st')
    BY <1>c, <2>2, BecomesChecked
  <2>4. QED
    BY <1>c, <2>1, <2>3 DEF CheckedInv, Checked, IsApproved, DiskApprovalsChecked
<1>13. CASE draft_infra_exhausted
  BY <1>13, <1>c DEF draft_infra_exhausted, Goto, CheckedInv, Unverified,
     IsApproved, BadLast, DiskApprovalsChecked
<1>14. CASE audit_node
  <2>1. Checked(st)
    BY <1>14, <1>c, SettledChecked DEF audit_node
  <2>2. DiskApprovalsChecked'
    BY <1>14, <1>c, <2>1, PersistForm, PersistChecked DEF audit_node
  <2>3. CASE Killed
    BY <1>c, <2>2, <2>3, KilledChecked
  <2>4. CASE ~Killed
    <3>1. /\ st' = st /\ cur' = cur /\ node' \in {"verify", "gate"}
          /\ node' = "gate" => Policy[cur] # "blocking"
      BY <1>14, <2>4 DEF audit_node, VerifyEnabled, Goto
    <3>2. QED
      BY <2>1, <2>2, <3>1 DEF CheckedInv, Checked, IsApproved
  <2>5. QED
    BY <2>3, <2>4
<1>15. CASE verify_cannot
  <2>1. /\ node = "verify" /\ node' = "escalate" /\ cur' = cur /\ disk' = disk
        /\ st' = Unverifiable
    BY <1>15 DEF verify_cannot, VerifyUnchanged, Goto, Unverifiable
  <2>2. Becomes(st', st[cur].status, "cannot_verify", st[cur].appr, st[cur].arev)
    BY <1>a, <2>1, Effects
  <2>3. QED
    BY <1>c, <2>1, <2>2 DEF CheckedInv, Unverified, Becomes, IsApproved, BadLast,
       DiskApprovalsChecked
<1>16. CASE verify_pass
  <2>1. Becomes(Passed(cur), st[cur].status, "passed",
                IF st[cur].status = "approved" THEN "checked" ELSE st[cur].appr,
                st[cur].arev)
    BY <1>a, Effects
  <2>2. Checked(Passed(cur)) /\ Passed(cur) \in Stages
    <3>1. CASE st[cur].status = "approved"
      BY <1>c, <2>1, <3>1, BecomesChecked
    <3>2. CASE st[cur].status # "approved"
      BY <1>c, <2>1, <3>2, BecomesChecked
    <3>3. QED
      BY <3>1, <3>2
  <2>3. DiskApprovalsChecked'
    BY <1>16, <1>c, <2>2, PersistForm, PersistChecked DEF verify_pass
  <2>4. CASE Killed
    BY <1>c, <2>3, <2>4, KilledChecked
  <2>5. CASE ~Killed
    <3>1. st' = Passed(cur) /\ node' \in {"gate", "no_new_work"}
      BY <1>16, <2>5 DEF verify_pass, Goto
    <3>2. work'.ok
      BY <1>16, <1>a, <2>5 DEF verify_pass, TypeOK
    <3>3. QED
      BY <2>2, <2>3, <3>1, <3>2 DEF CheckedInv, Checked, IsApproved
  <2>6. QED
    BY <2>4, <2>5
<1>17. CASE verify_fail
  <2>1. /\ node = "verify" /\ cur' = cur /\ disk' = disk
        /\ node' \in {"escalate", "gate", "no_new_work", "verify_fix", "draft"}
        /\ node' = "gate" => Policy[cur] # "blocking"
        /\ node' = "no_new_work" => cur \in LedgerStages
        /\ st' = Failed(st[cur].vcycle + 1)
    BY <1>17 DEF verify_fail, VerifyUnchanged, Retry, Goto, Failed
  <2>2. Becomes(st', st[cur].status, "failed", st[cur].appr, st[cur].arev)
    BY <1>a, <2>1, Effects DEF StageState
  <2>3. CASE node' = "no_new_work"
    <3>1. MayBeNotReady => Policy[cur] # "blocking"
      BY <2>1, <2>3 DEF LedgerVerifyAdvises
    <3>2. QED
      BY <1>c, <2>1, <2>2, <2>3, <3>1 DEF CheckedInv, Unverified, Becomes, IsApproved,
         DiskApprovalsChecked
  <2>4. CASE node' # "no_new_work"
    BY <1>c, <2>1, <2>2, <2>4 DEF CheckedInv, Unverified, Becomes, IsApproved, BadLast,
       DiskApprovalsChecked
  <2>5. QED
    BY <2>3, <2>4
<1>18. CASE verify_infra
  <2>1. /\ node = "verify" /\ cur' = cur /\ disk' = disk
        /\ node' \in {"escalate", "verify_fix", "draft"}
        /\ st' = NoVerdict(st[cur].infra + 1)
    BY <1>18 DEF verify_infra, VerifyUnchanged, Retry, Goto, NoVerdict
  <2>2. Becomes(st', st[cur].status, "infra", st[cur].appr, st[cur].arev)
    BY <1>a, <2>1, Effects DEF StageState
  <2>3. QED
    BY <1>c, <2>1, <2>2 DEF CheckedInv, Unverified, Becomes, IsApproved, BadLast,
       DiskApprovalsChecked
<1>19. CASE verify_fix_node
  BY <1>19, <1>c DEF verify_fix_node, Goto, CheckedInv, Unverified,
     IsApproved, BadLast, DiskApprovalsChecked
<1>20. CASE auto_approve_node
  <2>1. Becomes(Approved(cur), "approved", st[cur].last,
                IF work.ok THEN "checked" ELSE "raw", work.rev)
    BY <1>a, Effects
  <2>2. node = "auto_approve" /\ MayBeNotReady /\ Checked(st)
    BY <1>20, <1>c, SettledChecked DEF auto_approve_node, CheckedInv
  <2>3. ~Killed
    BY <2>2 DEF Killed
  <2>4. CASE HasVerify(cur)
    <3>1. st' = Approved(cur) /\ disk' = disk /\ node' = "verify" /\ cur' = cur
      BY <1>20, <2>3, <2>4 DEF auto_approve_node, Goto
    <3>2. QED
      BY <1>c, <2>1, <2>2, <3>1 DEF CheckedInv, Unverified, Becomes, Checked,
         IsApproved, DiskApprovalsChecked
  <2>5. CASE ~HasVerify(cur)
    <3>1. Checked(Approved(cur)) /\ Approved(cur) \in Stages
      BY <1>c, <2>1, <2>5, BecomesChecked DEF HasVerify
    <3>2. DiskApprovalsChecked'
      BY <1>20, <1>c, <2>5, <3>1, PersistForm, PersistChecked DEF auto_approve_node
    <3>3. st' = Approved(cur) /\ node' \in {"draft", "idle"}
      BY <1>20, <2>3, <2>5 DEF auto_approve_node, NextStage, Goto
    <3>4. QED
      BY <3>1, <3>2, <3>3, CheckedEnough
  <2>6. QED
    BY <2>4, <2>5
<1>21. CASE gate_approve
  <2>1. Becomes(Approved(cur), "approved", st[cur].last,
                IF work.ok THEN "checked" ELSE "raw", work.rev)
    BY <1>a, Effects
  <2>2. Policy[cur] = "blocking" => work.ok
    BY <1>21, <1>c DEF gate_approve, CheckedInv
  <2>3. Checked(Approved(cur)) /\ Approved(cur) \in Stages
    <3>1. CASE work.ok
      BY <1>c, <2>1, <3>1, BecomesChecked
    <3>2. CASE ~work.ok
      BY <1>c, <2>1, <2>2, <3>2, BecomesChecked
    <3>3. QED
      BY <3>1, <3>2
  <2>4. DiskApprovalsChecked'
    BY <1>21, <1>c, <2>3, PersistForm, PersistChecked DEF gate_approve
  <2>5. CASE Killed
    BY <1>c, <2>4, <2>5, KilledChecked
  <2>6. CASE ~Killed
    <3>1. st' = Approved(cur) /\ node' \in {"draft", "idle"}
      BY <1>21, <2>6 DEF gate_approve, NextStage, Goto
    <3>2. QED
      BY <2>3, <2>4, <3>1, CheckedEnough
  <2>7. QED
    BY <2>5, <2>6
<1>22. CASE gate_reject
  <2>1. Becomes(Rejected(cur), "needs_clarification", st[cur].last,
                st[cur].appr, st[cur].arev)
    BY <1>a, Effects
  <2>2. Checked(Rejected(cur)) /\ Rejected(cur) \in Stages
    BY <1>c, <2>1, BecomesChecked
  <2>3. DiskApprovalsChecked'
    BY <1>22, <1>c, <2>2, PersistForm, PersistChecked DEF gate_reject
  <2>4. CASE Killed
    BY <1>c, <2>3, <2>4, KilledChecked
  <2>5. CASE ~Killed
    BY <1>22, <2>2, <2>3, <2>5, CheckedEnough DEF gate_reject, Goto
  <2>6. QED
    BY <2>4, <2>5
<1>23. CASE gate_correct
  <2>1. cur \in Human /\ node = "gate"
    BY <1>23 DEF gate_correct, Paused
  <2>2. OpenAfter(st, cur)
    BY <2>1 DEF OrderInv, Frontier, Working
  <2>3. Checked(Corrected(cur)) /\ Corrected(cur) \in Stages
    BY <1>a, <2>1, <2>2, CorrectedEffect DEF Checked, OpenAfter, IsApproved, Stage
  <2>4. disk' = Snapshot(Corrected(cur), req + 1, req + 1) \/ disk' = disk
    BY <1>23 DEF gate_correct, Persist
  <2>5. DiskApprovalsChecked'
    BY <1>c, <2>3, <2>4, PersistChecked
  <2>6. CASE Killed
    BY <1>c, <2>5, <2>6, KilledChecked
  <2>7. CASE ~Killed
    BY <1>23, <2>3, <2>5, <2>7, CheckedEnough DEF gate_correct, Goto
  <2>8. QED
    BY <2>6, <2>7
<1>24. CASE escalate_node
  <2>1. Becomes(Revoked(cur), "needs_clarification", st[cur].last, "none", 0)
    BY <1>a, Effects
  <2>2. Checked(Revoked(cur)) /\ Revoked(cur) \in Stages
    BY <1>c, <2>1, BecomesChecked
  <2>3. DiskApprovalsChecked'
    BY <1>24, <1>c, <2>2, PersistForm, PersistChecked DEF escalate_node
  <2>4. CASE Killed
    BY <1>c, <2>3, <2>4, KilledChecked
  <2>5. CASE ~Killed
    BY <1>24, <2>2, <2>3, <2>5, CheckedEnough DEF escalate_node, Goto
  <2>6. QED
    BY <2>4, <2>5
<1>25. CASE draft_escalate_node
  <2> DEFINE f == Marked("needs_clarification")
  <2>1. Becomes(f, "needs_clarification", st[cur].last, st[cur].appr, st[cur].arev)
    BY <1>a, Effects DEF Status
  <2> HIDE DEF f
  <2>2. Checked(f) /\ f \in Stages
    BY <1>c, <2>1, BecomesChecked
  <2>3. PersistDuringTearDown(f)
    BY <1>25 DEF draft_escalate_node, f, Marked
  <2>4. DiskApprovalsChecked'
    BY <1>c, <2>2, <2>3, PersistForm, PersistChecked
  <2>5. CASE Killed
    BY <1>c, <2>4, <2>5, KilledChecked
  <2>6. CASE ~Killed
    BY <1>25, <2>2, <2>4, <2>6, CheckedEnough DEF draft_escalate_node, Goto, f, Marked
  <2>7. QED
    BY <2>5, <2>6
<1>26. CASE no_new_work_node
  <2>1. Checked(st)
    BY <1>26, <1>c, SettledChecked DEF no_new_work_node
  <2>2. QED
    BY <1>26, <1>c, <2>1 DEF no_new_work_node, Goto, CheckedInv, Checked,
       IsApproved, DiskApprovalsChecked
<1> HIDE DEF checkpoint, workspace, run
<1>27. QED
  BY <1>1, <1>2, <1>3, <1>4, <1>5, <1>6, <1>7, <1>8, <1>9, <1>10, <1>11,
     <1>12, <1>13, <1>14, <1>15, <1>16, <1>17, <1>18, <1>19, <1>20, <1>21,
     <1>22, <1>23, <1>24, <1>25, <1>26
     DEF Next, Fault, Intake, ReviewerStep, ProgramStep

\* Both invariants hold in every reachable state.
LEMMA CheckedAlways ==
    ASSUME Kills => ~MayBeNotReady, MayBeNotReady => LedgerVerifyAdvises
    PROVE  Spec => [](OrderInv /\ CheckedInv)
<1>1. Init => CheckedInv
  BY DEF Init, NoStages, default_stage_state, EmptyWorkspace, CheckedInv,
         IsApproved, DiskApprovalsChecked
<1>2. CheckedInv /\ OrderInv /\ [Next]_vars => CheckedInv'
  BY CheckedStep
<1>3. QED
  BY <1>1, <1>2, Ordered, PTL DEF Spec

\* Where verify blocks, a later stage is built only on content that passed it:
\* unless a forced approval can lose its verify, to a kill or to "no new work".
THEOREM OnlyCheckedIsConsumed ==
    ASSUME Kills => ~MayBeNotReady, MayBeNotReady => LedgerVerifyAdvises
    PROVE  Spec => []ConsumedWasChecked
<1>1. OrderInv /\ CheckedInv => ConsumedWasChecked
  BY Constants DEF OrderInv, TypeOK, Frontier, CheckedInv, Unverified, IsApproved,
     ConsumedWasChecked, Stage
<1>2. QED
  BY <1>1, CheckedAlways, PTL

\* Nor does the branch ever hold such an approval, under the same condition.
THEOREM OnlyCheckedIsStored ==
    ASSUME Kills => ~MayBeNotReady, MayBeNotReady => LedgerVerifyAdvises
    PROVE  Spec => []DiskApprovalsChecked
<1>1. CheckedInv => DiskApprovalsChecked
  BY DEF CheckedInv
<1>2. QED
  BY <1>1, CheckedAlways, PTL

-----------------------------------------------------------------------------
(* Interrupted first drafts.                                               *)

Interrupted == {"not_started", "drafting"}

\* What a killed first draft left is still recognised: the newest "drafting"
\* commit names its stage, and neither the checkpoint nor the branch saw that
\* draft finish.
SetAsideInv ==
    /\ node = "drafting" /\ marked =>
          lastDrafting = cur /\ disk.stages[cur].status = "drafting"
    /\ "first_lap" \in leftover =>
          /\ node = "idle" /\ lastDrafting \in Stage
          /\ st[lastDrafting].status \in Interrupted
          /\ disk.stages[lastDrafting].status \in Interrupted

\* A step that neither starts a draft nor leaves work behind.
LEMMA QuietStep ==
    ASSUME SetAsideInv, node # "idle", node' # "drafting", leftover' = leftover
    PROVE  SetAsideInv'
BY DEF SetAsideInv

\* Every step keeps interrupted first drafts recognisable.
LEMMA SetAsideStep ==
    ASSUME TypeOK, SetAsideInv, [Next]_vars
    PROVE  SetAsideInv'
<1>a. /\ cur \in Stage /\ st \in Stages /\ disk \in Disk
      /\ lastDrafting \in 0..N
  BY DEF TypeOK, Stages, Disk
<1> USE <1>a, Constants DEF checkpoint, workspace, run
<1>1. CASE UNCHANGED vars
  BY <1>1 DEF vars, SetAsideInv
<1>2. CASE kill
  BY <1>2 DEF kill, Active, Goto, SetAsideInv, Interrupted
<1>3. CASE sandbox_lost
  BY <1>3 DEF sandbox_lost, SetAsideInv
<1>4. CASE checkpoint_lost
  BY <1>4 DEF checkpoint_lost, Goto, NoStages, default_stage_state, SetAsideInv,
     Interrupted
<1>5. ASSUME NEW hl \in BOOLEAN, NEW new \in BOOLEAN, NEW flag \in BOOLEAN,
             NEW rewind \in {0} \cup (SpecStage..N),
             intake_node(new, flag, rewind, hl)
      PROVE  SetAsideInv'
  <2>1. "first_lap" \in leftover => _interrupted_draft_stage
    BY DEF SetAsideInv, _interrupted_draft_stage, IntakeStages, Interrupted, Stage
  <2>2. /\ node' # "drafting"
        /\ leftover' \in IF _interrupted_draft_stage THEN {{}} ELSE LeftInWorkspace
    BY <1>5 DEF intake_node, Goto
  <2>3. "first_lap" \notin leftover'
    BY <2>1, <2>2 DEF LeftInWorkspace
  <2>4. QED
    BY <2>2, <2>3 DEF SetAsideInv
<1>6. ASSUME NEW hl \in BOOLEAN, intake_set_aside_failed(hl) PROVE SetAsideInv'
  BY <1>6 DEF intake_set_aside_failed, Goto, LeftInWorkspace, SetAsideInv
<1>7. CASE draft_start
  <2>1. /\ node' = "drafting" /\ cur' = cur /\ leftover' = leftover /\ node = "draft"
        /\ marked' => /\ lastDrafting' = cur
                      /\ disk' = Snapshot([st EXCEPT ![cur].status = "drafting"], req, owed)
    BY <1>7, Zenon DEF draft_start, Goto
  <2>2. Snapshot([st EXCEPT ![cur].status = "drafting"], req, owed).stages[cur].status
          = "drafting"
    <3>1. Becomes(Marked("drafting"), "drafting", st[cur].last, st[cur].appr, st[cur].arev)
      BY Effects DEF Status
    <3>2. Snapshot(Marked("drafting"), req, owed).stages[cur].status = "drafting"
      BY <3>1 DEF Snapshot, Becomes, Stages, StageState
    <3>3. QED
      BY <3>2 DEF Marked
  <2>3. QED
    BY <2>1, <2>2 DEF SetAsideInv
<1>8. CASE ProgramStep /\ ~draft_start
  <2>1. /\ node # "idle" /\ node' # "drafting" /\ leftover' = leftover
    BY <1>8 DEF ProgramStep, scaffold_node, record_raw_requirements_node, draft_skip,
       draft_ready, draft_not_ready, draft_infra_exhausted, audit_node, verify_cannot,
       verify_pass, verify_fail, verify_infra, VerifyUnchanged, verify_fix_node,
       auto_approve_node, gate_approve, escalate_node, draft_escalate_node,
       no_new_work_node, Goto, NextStage, Retry, make_route_after_draft_ready, Killed
  <2>2. QED
    BY <2>1, QuietStep
<1>9. CASE ReviewerStep
  <2>1. /\ node # "idle" /\ node' # "drafting" /\ leftover' = leftover
    BY <1>9 DEF ReviewerStep, Paused, gate_approve, gate_reject, gate_correct, Goto,
       NextStage, Killed
  <2>2. QED
    BY <2>1, QuietStep
<1> HIDE DEF checkpoint, workspace, run
<1>10. QED
  BY <1>1, <1>2, <1>3, <1>4, <1>5, <1>6, <1>7, <1>8, <1>9
     DEF Next, Fault, Intake

\* What the interrupted first draft of a stage left uncommitted is out of the
\* tree before any node runs on it, whatever was lost in between.
THEOREM FirstDraftsAreSetAside == Spec => []FirstDraftSetAside
<1>1. Init => SetAsideInv
  BY DEF Init, SetAsideInv
<1>2. SetAsideInv => FirstDraftSetAside
  BY DEF SetAsideInv, FirstDraftSetAside, Working
<1>3. QED
  BY <1>1, <1>2, SetAsideStep, Typing, PTL DEF Spec

----------------------------------------------------------------------------
(* The stage pipeline implements ApprovalChain, for any chain, policies,    *)
(* caps, faults and number of runs -- where a draft that is forced through  *)
(* by the clarification cap cannot be killed before its verify, the         *)
(* condition under which CheckedInv holds at all.                           *)
(*                                                                          *)
(* OrderInv and CheckedInv say what the approvals that stand look like;     *)
(* every node then is one decision of ApprovalChain: approve the stage in   *)
(* hand, reopen it, correct, or decide nothing.                             *)

At    == IF Working THEN cur ELSE 0
Done  == Standing(st, owed)
Saved == Standing(disk.stages, disk.owed)
Through(s) == 1..s
Onward(s)  == IF s < N THEN s + 1 ELSE 0

Decided(D, next) ==
    /\ Saved' = Saved \/ Saved' = D
    /\ (Done' = D /\ At' \in next) \/ (Done' = Done /\ At' \in {0, At})

\* A step is a step of the promise when it comes to one of its decisions.
LEMMA ChainStep ==
    ASSUME \/ UNCHANGED <<At, Done, Saved>>
           \/ At = 0 /\ Decided(Done, {0, 1})
           \/ At \in Done /\ At' = Onward(At) /\ UNCHANGED <<Done, Saved>>
           \/ At # 0 /\ Decided(Through(At), {At, Onward(At)})
           \/ At # 0 /\ Decided(Through(At - 1), {0, 1, At})
           \/ At # 0 /\ Decided({}, {1})
           \/ At # 0 /\ Decided(Done, {0, At})
           \/ /\ At' = 0 /\ UNCHANGED Saved
              /\ \E s \in 0..N : Done' \in {Done \cap Through(s), Saved \cap Through(s)}
    PROVE  [Chain!Next]_(Chain!vars)
<1> USE DEF Chain!Next, Chain!vars, Chain!Begin, Chain!Pass, Chain!Approve,
            Chain!Reopen, Chain!Correct, Chain!Continue, Chain!Enter, Chain!Decide,
            Chain!Through, Chain!Onward, Decided, Through, Onward, At, Done, Saved
<1>1. CASE UNCHANGED <<At, Done, Saved>>
  BY <1>1
<1>2. CASE At = 0 /\ Decided(Done, {0, 1})
  BY <1>2
<1>3. CASE At \in Done /\ At' = Onward(At) /\ UNCHANGED <<Done, Saved>>
  BY <1>3
<1>4. CASE At # 0 /\ Decided(Through(At), {At, Onward(At)})
  BY <1>4
<1>5. CASE At # 0 /\ Decided(Through(At - 1), {0, 1, At})
  BY <1>5
<1>6. CASE At # 0 /\ Decided({}, {1})
  BY <1>6
<1>7. CASE At # 0 /\ Decided(Done, {0, At})
  BY <1>7
<1>8. CASE /\ At' = 0 /\ UNCHANGED Saved
           /\ \E s \in 0..N : Done' \in {Done \cap Through(s), Saved \cap Through(s)}
  BY <1>8
<1>9. QED
  BY <1>1, <1>2, <1>3, <1>4, <1>5, <1>6, <1>7, <1>8

\* Nothing about approvals changes, and the work stays or stops.
LEMMA QuietChainStep ==
    ASSUME Done' = Done, At' \in {0, At}, Saved' = Saved \/ Saved' = Done
    PROVE  [Chain!Next]_(Chain!vars)
BY ChainStep DEF Decided

-----------------------------------------------------------------------------
(* What stands.                                                            *)

\* What the branch holds after a persist, or none.
LEMMA StoredStanding ==
    ASSUME NEW f \in Stages, NEW r \in Nat, NEW o \in Nat,
           disk' = Snapshot(f, r, o) \/ disk' = disk
    PROVE  Saved' = Saved \/ Saved' = Standing(f, o)
<1>1. ASSUME NEW s \in Stage
      PROVE  /\ Snapshot(f, r, o).stages[s].status = f[s].status
             /\ Snapshot(f, r, o).stages[s].appr = f[s].appr
             /\ Snapshot(f, r, o).stages[s].arev = f[s].arev
  BY DEF Snapshot, Stages, StageState
<1>2. Snapshot(f, r, o).owed = o
  BY DEF Snapshot
<1>3. Standing(Snapshot(f, r, o).stages, Snapshot(f, r, o).owed) = Standing(f, o)
  BY <1>1, <1>2 DEF Standing
<1>4. QED
  BY <1>3 DEF Saved

\* Every approval before the stage worked on stands.
LEMMA BeforeStands ==
    ASSUME OrderInv, CheckedInv, Working, NEW s \in 1..(cur - 1)
    PROVE  s \in Done
<1>1. s \in Stage /\ cur \in Stage /\ s # cur
  BY Constants DEF OrderInv, TypeOK, Stage
<1>2. IsApproved(st, s)
  BY DEF OrderInv, Frontier
<1>3. st[s].appr # "none" /\ st[s].arev >= owed
  BY <1>1, <1>2 DEF OrderInv, SoundApprovals, Sound
<1>4. Policy[s] = "blocking" => st[s].appr = "checked"
  BY <1>1, <1>2 DEF CheckedInv, Unverified
<1>5. QED
  BY <1>1, <1>2, <1>3, <1>4 DEF Done, Standing, IsApproved

Adequate(status, appr, arev) ==
    /\ status = "approved" /\ appr # "none" /\ arev >= owed
    /\ Policy[cur] = "blocking" => appr = "checked"

\* With nothing approved after it, the stage worked on decides what stands.
LEMMA BecomesStanding ==
    ASSUME OrderInv, CheckedInv, Working, OpenAfter(st, cur),
           NEW f, NEW status, NEW last, NEW appr, NEW arev,
           Becomes(f, status, last, appr, arev)
    PROVE  /\ Adequate(status, appr, arev) => Standing(f, owed) = Through(cur)
           /\ ~Adequate(status, appr, arev) => Standing(f, owed) = Through(cur - 1)
<1>1. cur \in 1..N /\ N \in Nat /\ Stage = 1..N
  BY Constants DEF OrderInv, TypeOK, Stage
<1>2. \A s \in 1..(cur - 1) : s \in Standing(f, owed)
  BY <1>1, BeforeStands DEF Standing, Done, Becomes
<1>3. \A s \in (cur + 1)..N : s \notin Standing(f, owed)
  BY <1>1 DEF Standing, Becomes, OpenAfter, IsApproved
<1>4. cur \in Standing(f, owed) <=> Adequate(status, appr, arev)
  BY <1>1 DEF Standing, Becomes, Adequate
<1>5. Standing(f, owed) \subseteq 1..N
  BY <1>1 DEF Standing
<1> DEFINE D == Standing(f, owed)
<1> HIDE DEF Adequate, D
<1>6. ASSUME Adequate(status, appr, arev) PROVE D = Through(cur)
  <2>1. \A s : s \in D <=> s \in 1..cur
    BY <1>1, <1>2, <1>3, <1>4, <1>5, <1>6 DEF D
  <2>2. QED
    BY <2>1, Zenon DEF Through
<1>7. ASSUME ~Adequate(status, appr, arev) PROVE D = Through(cur - 1)
  <2>1. \A s : s \in D <=> s \in 1..(cur - 1)
    BY <1>1, <1>2, <1>3, <1>4, <1>5, <1>7 DEF D
  <2>2. QED
    BY <2>1, Zenon DEF Through
<1>8. QED
  BY <1>6, <1>7 DEF D

\* A verdict on the stage worked on changes no approval.
LEMMA VerdictStanding ==
    ASSUME OrderInv, NEW f, NEW last,
           Becomes(f, st[cur].status, last, st[cur].appr, st[cur].arev)
    PROVE  Standing(f, owed) = Done
BY DEF Standing, Done, Becomes, OrderInv, TypeOK

\* What a run enters with is what it found, up to some stage.
LEMMA EnteredStanding ==
    ASSUME OrderInv, NEW fresh \in BOOLEAN, NEW resume \in BOOLEAN,
           NEW rewind \in {0} \cup (SpecStage..N)
    PROVE  \E s \in 0..N :
              Standing(Entered(fresh, resume, rewind), EnteredOwed(fresh, resume))
                = Standing(IntakeStages, IntakeOwed) \cap Through(s)
<1> DEFINE f == Entered(fresh, resume, rewind)
           o == EnteredOwed(fresh, resume)
           a == IF fresh /\ N \in RedraftEvery THEN N - 1 ELSE N
           b == IF rewind = 0 THEN N ELSE rewind - 1
           k == IF fresh /\ ~resume THEN 0 ELSE IF a < b THEN a ELSE b
<1>1. N \in Nat /\ N >= 4 /\ Stage = 1..N /\ SpecStage = 2 /\ RedraftEvery \subseteq {N}
      /\ rewind \in Nat /\ TypeOK
  BY Constants, StageAssumption DEF StageAssumption, Stage, OrderInv
<1>2. k \in 0..N
  BY <1>1
<1>3. ASSUME NEW s \in Stage
      PROVE  Keeps(fresh, resume, rewind, s) <=> s \in Through(k)
  BY <1>1 DEF Keeps, Through
<1>4. ASSUME NEW s \in Stage
      PROVE  /\ IsApproved(f, s) <=> IsApproved(IntakeStages, s) /\ s \in Through(k)
             /\ f[s].appr = IntakeStages[s].appr /\ f[s].arev = IntakeStages[s].arev
  BY <1>1, <1>3, IntakeKeeps
<1>5. ASSUME NEW s \in Stage, s \in Through(k) PROVE o = IntakeOwed
  BY <1>1, <1>5 DEF EnteredOwed, Through
<1> HIDE DEF f, o, k
<1>6. Standing(f, o) = Standing(IntakeStages, IntakeOwed) \cap Through(k)
  BY <1>4, <1>5 DEF Standing, IsApproved
<1>7. QED
  BY <1>2, <1>6 DEF f, o

-----------------------------------------------------------------------------
(* Every step is a step of the promise.                                    *)

\* A node that decides about the stage worked on may store what it decided; it
\* ends with the decision taken, or is killed before that.
Decides(f) ==
    /\ owed' = owed
    /\ disk' = Snapshot(f, req, owed) \/ disk' = disk
    /\ st' = f \/ (st' = st /\ At' \in {0, cur})

\* It stores, and leaves, what stands after its decision.
LEMMA DecidesStanding ==
    ASSUME OrderInv, NEW f \in Stages, Decides(f)
    PROVE  /\ Saved' = Saved \/ Saved' = Standing(f, owed)
           /\ st' = f => Done' = Standing(f, owed)
           /\ st' = st => Done' = Done
BY StoredStanding DEF Decides, Done, OrderInv, TypeOK

\* A decision to approve,
LEMMA ApproveStep ==
    ASSUME OrderInv, CheckedInv, Working, OpenAfter(st, cur),
           NEW f, NEW last, NEW appr, NEW arev,
           Becomes(f, "approved", last, appr, arev), Decides(f),
           Adequate("approved", appr, arev),
           (st' = f /\ At' \in {cur, Onward(cur)}) \/ (st' = st /\ At' \in {0, cur})
    PROVE  [Chain!Next]_(Chain!vars)
<1>1. cur # 0 /\ At = cur /\ f \in Stages
  BY Constants DEF OrderInv, TypeOK, At, Becomes, Stage
<1>2. Standing(f, owed) = Through(cur)
  BY BecomesStanding
<1>3. Saved' = Saved \/ Saved' = Through(cur)
  BY <1>1, <1>2, DecidesStanding
<1>4. \/ Done' = Through(cur) /\ At' \in {cur, Onward(cur)}
      \/ Done' = Done /\ At' \in {0, cur}
  BY <1>1, <1>2, DecidesStanding
<1>5. QED
  BY <1>1, <1>3, <1>4, ChainStep DEF Decided

\* or to take an approval away.
LEMMA ReopenStep ==
    ASSUME OrderInv, CheckedInv, Working, OpenAfter(st, cur),
           NEW f, NEW status, NEW last, NEW appr, NEW arev,
           Becomes(f, status, last, appr, arev), Decides(f),
           ~Adequate(status, appr, arev), At' \in {0, 1, cur}
    PROVE  [Chain!Next]_(Chain!vars)
<1>1. cur # 0 /\ At = cur /\ f \in Stages
  BY Constants DEF OrderInv, TypeOK, At, Becomes, Stage
<1>2. Standing(f, owed) = Through(cur - 1)
  BY BecomesStanding
<1>3. /\ Saved' = Saved \/ Saved' = Through(cur - 1)
      /\ Done' = Through(cur - 1) \/ (Done' = Done /\ At' \in {0, cur})
  BY <1>1, <1>2, DecidesStanding DEF Decides
<1>4. QED
  BY <1>1, <1>3, ChainStep DEF Decided

\* A node that stores the stages as they are, or stores nothing.
LEMMA StoreStep ==
    ASSUME OrderInv, st' = st, owed' = owed, At' \in {0, At},
           disk' = Snapshot(st, req, owed) \/ disk' = disk
    PROVE  [Chain!Next]_(Chain!vars)
<1>1. Saved' = Saved \/ Saved' = Done
  BY StoredStanding DEF OrderInv, TypeOK, Stages, Done
<1>2. QED
  BY <1>1, QuietChainStep DEF Done

\* Every step of the pipeline.
LEMMA RefinementStep ==
    ASSUME Kills => ~MayBeNotReady, MayBeNotReady => LedgerVerifyAdvises,
           OrderInv, CheckedInv, [Next]_vars
    PROVE  [Chain!Next]_(Chain!vars)
<1>a. /\ TypeOK /\ cur \in Stage /\ cur \in Nat /\ st \in Stages /\ req \in Nat /\ owed \in Nat
      /\ cur # 0
  BY Constants DEF OrderInv, TypeOK, Stages, Stage
<1>b. Working /\ node # "draft" => OpenAfter(st, cur)
  BY DEF OrderInv, Frontier
<1>c. Becomes(st, st[cur].status, st[cur].last, st[cur].appr, st[cur].arev)
  BY <1>a DEF Becomes
<1>d. Killed => /\ st' = st /\ owed' = owed /\ At' \in {0, At}
  BY DEF Killed, Paused, At, Working, checkpoint
<1>e. Working => At = cur
  BY DEF At
<1> USE DEF checkpoint, workspace, run
<1>1. CASE UNCHANGED vars
  BY <1>1, QuietChainStep DEF vars, Done, Saved, At, Working
<1>2. CASE kill
  BY <1>2, QuietChainStep DEF kill, Goto, Done, Saved, At, Working
<1>3. CASE sandbox_lost
  BY <1>3, QuietChainStep DEF sandbox_lost, Done, Saved, At, Working
<1>4. CASE checkpoint_lost
  <2>1. At' = 0 /\ Saved' = Saved /\ st' = NoStages
    BY <1>4 DEF checkpoint_lost, Goto, At, Working, Saved
  <2>2. Done' = {}
    BY <2>1 DEF Done, Standing, NoStages, default_stage_state
  <2>3. Done' = Done \cap Through(0) /\ 0 \in 0..N
    BY <2>2, Constants DEF Through
  <2>4. QED
    BY <2>1, <2>3, ChainStep
<1>5. ASSUME NEW hl \in BOOLEAN, NEW new \in BOOLEAN, NEW flag \in BOOLEAN,
             NEW rewind \in {0} \cup (SpecStage..N),
             intake_node(new, flag, rewind, hl)
      PROVE  [Chain!Next]_(Chain!vars)
  <2> DEFINE fresh == Accepts(new)
             resume == flag /\ (hl \/ ~fresh)
  <2>1. fresh \in BOOLEAN /\ resume \in BOOLEAN
    BY DEF Accepts
  <2>2. /\ st' = Entered(fresh, resume, rewind) /\ owed' = EnteredOwed(fresh, resume)
        /\ disk' = disk /\ node' \in {"scaffold", "idle"}
    BY <1>5 DEF intake_node, Entered, EnteredOwed, EnteredReq, Goto
  <2> HIDE DEF fresh, resume
  <2>3. \E s \in 0..N : Done' = Standing(IntakeStages, IntakeOwed) \cap Through(s)
    BY <2>1, <2>2, EnteredStanding DEF Done
  <2>4. Standing(IntakeStages, IntakeOwed) \in {Done, Saved}
    BY DEF IntakeStages, IntakeOwed, Done, Saved
  <2>5. At' = 0 /\ Saved' = Saved
    BY <2>2 DEF At, Working, Saved
  <2>6. QED
    BY <2>3, <2>4, <2>5, ChainStep
<1>6. ASSUME NEW hl \in BOOLEAN, intake_set_aside_failed(hl)
      PROVE  [Chain!Next]_(Chain!vars)
  BY <1>6, QuietChainStep DEF intake_set_aside_failed, Goto, Done, Saved, At, Working
<1>7. CASE scaffold_node
  BY <1>7, QuietChainStep DEF scaffold_node, Goto, Done, Saved, At, Working
<1>8. CASE record_raw_requirements_node
  <2>1. At = 0 /\ st' = st /\ owed' = owed /\ At' \in {0, 1}
    BY <1>8 DEF record_raw_requirements_node, Goto, Killed, At, Working, Prd, Paused
  <2>2. disk' = Snapshot(st, req, owed) \/ disk' = disk
    BY <1>8, PersistForm DEF record_raw_requirements_node
  <2>3. Saved' = Saved \/ Saved' = Done
    BY <1>a, <2>2, StoredStanding DEF Done
  <2>4. At = 0 /\ Decided(Done, {0, 1})
    BY <2>1, <2>3 DEF Decided, Done
  <2>5. QED
    BY <2>4, ChainStep
<1>9. CASE draft_skip
  <2>1. /\ node = "draft" /\ should_skip_draft(cur) /\ NextStage(cur)
        /\ UNCHANGED <<st, owed, disk>>
    BY <1>9 DEF draft_skip
  <2>2. IsApproved(st, cur) /\ ~BadLast(st, cur)
    BY <2>1 DEF should_skip_draft, IsApproved, BadLast
  <2>3. cur \in Done
    BY <1>a, <2>1, <2>2
       DEF Done, Standing, IsApproved, OrderInv, SoundApprovals, Sound, CheckedInv,
           Unverified
  <2>4. At = cur /\ At' = Onward(cur)
    BY <1>a, <2>1 DEF At, Working, NextStage, Goto, Onward
  <2>5. QED
    BY <2>1, <2>3, <2>4, ChainStep DEF Done, Saved
<1>10. CASE draft_start
  <2> DEFINE f == Marked("drafting")
  <2>1. Becomes(f, "drafting", st[cur].last, st[cur].appr, st[cur].arev)
    BY <1>a, Effects DEF Status
  <2>2. /\ disk' = Snapshot(f, req, owed) \/ disk' = disk
        /\ node = "draft" /\ node' = "drafting" /\ cur' = cur /\ st' = st /\ owed' = owed
    BY <1>10 DEF draft_start, Goto, Marked, f
  <2> HIDE DEF f
  <2>3. OpenAfter(st, cur)
    <3>1. OrderInv'
      BY <1>10, OrderStep DEF Next, ProgramStep
    <3>2. QED
      BY <2>2, <3>1 DEF OrderInv, Frontier, Working, OpenAfter, IsApproved
  <2>4. Working /\ At' \in {0, cur}
    BY <2>2 DEF Working, At
  <2>5. ~Adequate("drafting", st[cur].appr, st[cur].arev)
    BY DEF Adequate
  <2>6. QED
    BY <2>1, <2>2, <2>3, <2>4, <2>5, ReopenStep DEF Decides
<1>11. CASE draft_ready
  <2> DEFINE f == Marked("ready_for_review")
  <2>1. Becomes(f, "ready_for_review", st[cur].last, st[cur].appr, st[cur].arev)
    BY <1>a, Effects DEF Status
  <2>2. /\ disk' = disk /\ st' = f /\ owed' = owed /\ node = "drafting" /\ cur' = cur
        /\ node' \in {"audit", "verify", "gate"}
    BY <1>11 DEF draft_ready, make_route_after_draft_ready, Goto, Marked, f
  <2> HIDE DEF f
  <2>3. OpenAfter(st, cur) /\ Working /\ At' \in {0, 1, cur}
    BY <1>b, <2>2 DEF Working, At
  <2>4. ~Adequate("ready_for_review", st[cur].appr, st[cur].arev)
    BY DEF Adequate
  <2>5. QED
    BY <2>1, <2>2, <2>3, <2>4, ReopenStep DEF Decides
<1>12. CASE draft_not_ready
  <2> DEFINE f == Asked(st[cur].cycle + 1)
  <2>1. Becomes(f, "needs_clarification", st[cur].last, st[cur].appr, st[cur].arev)
    BY <1>a, Effects DEF Stages, StageState
  <2>2. /\ disk' = disk /\ st' = f /\ owed' = owed /\ node = "drafting" /\ cur' = cur
        /\ node' \in {"auto_approve", "draft", "idle"}
    BY <1>12 DEF draft_not_ready, Goto, Asked, f
  <2> HIDE DEF f
  <2>3. OpenAfter(st, cur) /\ Working /\ At' \in {0, 1, cur}
    BY <1>b, <2>2 DEF Working, At
  <2>4. ~Adequate("needs_clarification", st[cur].appr, st[cur].arev)
    BY DEF Adequate
  <2>5. QED
    BY <2>1, <2>2, <2>3, <2>4, ReopenStep DEF Decides
<1>13. CASE draft_infra_exhausted
  BY <1>13, QuietChainStep DEF draft_infra_exhausted, Goto, Done, Saved, At, Working
<1>14. CASE audit_node
  <2>1. disk' = Snapshot(st, req, owed) \/ disk' = disk
    BY <1>14, PersistForm DEF audit_node
  <2>2. st' = st /\ owed' = owed /\ At' \in {0, At}
    <3>1. CASE Killed
      BY <1>d, <3>1
    <3>2. CASE ~Killed
      BY <1>14, <3>2 DEF audit_node, Goto, At, Working
    <3>3. QED
      BY <3>1, <3>2
  <2>3. QED
    BY <2>1, <2>2, StoreStep
<1>15. CASE verify_cannot
  <2>1. /\ st' = Unverifiable /\ UNCHANGED <<owed, disk, cur>>
        /\ node = "verify" /\ node' = "escalate"
    BY <1>15 DEF verify_cannot, VerifyUnchanged, Goto, Unverifiable
  <2>2. Done' = Done
    BY <1>a, <2>1, Effects, VerdictStanding DEF Done
  <2>3. QED
    BY <2>1, <2>2, QuietChainStep DEF Saved, At, Working
<1>16. CASE verify_pass
  <2> DEFINE f == Passed(cur)
             a == IF st[cur].status = "approved" THEN "checked" ELSE st[cur].appr
  <2>1. Becomes(f, st[cur].status, "passed", a, st[cur].arev)
    BY <1>a, Effects
  <2>2. /\ node = "verify" /\ owed' = owed
        /\ disk' = Snapshot(f, req, owed) \/ disk' = disk
    BY <1>16, PersistForm DEF verify_pass, Killed, checkpoint
  <2>3. (st' = f /\ At' = cur) \/ (st' = st /\ At' \in {0, cur})
    BY <1>16, <1>d, <1>e DEF verify_pass, Goto, At, Working
  <2>4. Working /\ OpenAfter(st, cur)
    BY <1>b, <2>2 DEF Working
  <2>5. st[cur].status = "approved" <=> Adequate(st[cur].status, a, st[cur].arev)
    BY <1>a DEF Adequate, OrderInv, SoundApprovals, Sound, IsApproved
  <2> HIDE DEF f, a
  <2>6. CASE st[cur].status = "approved"
    <3>1. /\ Becomes(f, "approved", "passed", a, st[cur].arev)
          /\ Adequate("approved", a, st[cur].arev)
      BY <2>1, <2>5, <2>6
    <3>2. QED
      BY <2>2, <2>3, <2>4, <3>1, ApproveStep DEF Decides
  <2>7. CASE st[cur].status # "approved"
    BY <2>1, <2>2, <2>3, <2>4, <2>5, <2>7, ReopenStep DEF Decides
  <2>8. QED
    BY <2>6, <2>7
<1>17. CASE verify_fail
  <2>1. /\ node = "verify" /\ UNCHANGED <<cur, owed, disk>>
        /\ node' \in {"escalate", "gate", "no_new_work", "verify_fix", "draft"}
        /\ st' = Failed(st[cur].vcycle + 1)
    BY <1>17 DEF verify_fail, VerifyUnchanged, Retry, Goto, Failed
  <2>2. Becomes(st', st[cur].status, "failed", st[cur].appr, st[cur].arev)
    BY <1>a, <2>1, Effects DEF Stages, StageState
  <2>3. Done' = Done
    BY <2>1, <2>2, VerdictStanding DEF Done
  <2>4. QED
    BY <2>1, <2>3, QuietChainStep DEF Saved, At, Working
<1>18. CASE verify_infra
  <2>1. /\ node = "verify" /\ UNCHANGED <<cur, owed, disk>>
        /\ node' \in {"escalate", "verify_fix", "draft"}
        /\ st' = NoVerdict(st[cur].infra + 1)
    BY <1>18 DEF verify_infra, VerifyUnchanged, Retry, Goto, NoVerdict
  <2>2. Becomes(st', st[cur].status, "infra", st[cur].appr, st[cur].arev)
    BY <1>a, <2>1, Effects DEF Stages, StageState
  <2>3. Done' = Done
    BY <2>1, <2>2, VerdictStanding DEF Done
  <2>4. QED
    BY <2>1, <2>3, QuietChainStep DEF Saved, At, Working
<1>19. CASE verify_fix_node
  BY <1>19, QuietChainStep DEF verify_fix_node, Goto, Done, Saved, At, Working
<1>20. CASE auto_approve_node
  <2> DEFINE f == Approved(cur)
             a == IF work.ok THEN "checked" ELSE "raw"
             r == work.rev
  <2>1. Becomes(f, "approved", st[cur].last, a, r)
    BY <1>a, Effects
  <2>2. node = "auto_approve" /\ (HasVerify(cur) => disk' = disk)
    BY <1>20 DEF auto_approve_node
  <2>3. disk' = Snapshot(f, req, owed) \/ disk' = disk
    BY <1>20, <2>2, PersistForm DEF auto_approve_node
  <2>4. Working /\ OpenAfter(st, cur) /\ ~Killed
    BY <1>b, <2>2 DEF Working, Killed, CheckedInv
  <2>5. /\ st' = f /\ owed' = owed
        /\ IF HasVerify(cur) THEN Goto("verify", cur) ELSE NextStage(cur)
    BY <1>20, <2>4 DEF auto_approve_node
  <2>6. At' = IF HasVerify(cur) THEN cur ELSE Onward(cur)
    BY <1>a, <2>5 DEF NextStage, Goto, At, Working, Onward
  <2>7. ~Adequate("approved", a, r) => HasVerify(cur)
    BY <2>2 DEF Adequate, HasVerify, OrderInv, Revisions
  <2> HIDE DEF f, a, r
  <2>8. CASE Adequate("approved", a, r)
    BY <1>a, <2>1, <2>3, <2>4, <2>5, <2>6, <2>8, ApproveStep DEF Decides
  <2>9. CASE ~Adequate("approved", a, r)
    BY <2>1, <2>3, <2>4, <2>5, <2>6, <2>7, <2>9, ReopenStep DEF Decides
  <2>10. QED
    BY <2>8, <2>9
<1>21. CASE gate_approve
  <2> DEFINE f == Approved(cur)
             a == IF work.ok THEN "checked" ELSE "raw"
             r == work.rev
  <2>1. Becomes(f, "approved", st[cur].last, a, r)
    BY <1>a, Effects
  <2>2. node = "gate" /\ (disk' = Snapshot(f, req, owed) \/ disk' = disk)
    BY <1>21, PersistForm DEF gate_approve
  <2>3. Working /\ OpenAfter(st, cur)
    BY <1>b, <2>2 DEF Working
  <2>4. Adequate("approved", a, r)
    BY <2>2 DEF Adequate, OrderInv, Revisions, CheckedInv
  <2>5. owed' = owed /\ ((st' = f /\ At' = Onward(cur)) \/ (st' = st /\ At' \in {0, cur}))
    <3>1. CASE Killed
      BY <1>d, <1>e, <2>3, <3>1
    <3>2. CASE ~Killed
      <4>1. st' = f /\ owed' = owed /\ NextStage(cur)
        BY <1>21, <3>2 DEF gate_approve
      <4>2. QED
        BY <1>a, <4>1 DEF NextStage, Goto, At, Working, Onward
    <3>3. QED
      BY <3>1, <3>2
  <2> HIDE DEF f, a, r
  <2>6. QED
    BY <2>1, <2>2, <2>3, <2>4, <2>5, ApproveStep DEF Decides
<1>22. CASE gate_reject
  <2> DEFINE f == Rejected(cur)
  <2>1. Becomes(f, "needs_clarification", st[cur].last, st[cur].appr, st[cur].arev)
    BY <1>a, Effects
  <2>2. node = "gate" /\ (disk' = Snapshot(f, req, owed) \/ disk' = disk)
    BY <1>22, PersistForm DEF gate_reject, Paused
  <2>3. Working /\ OpenAfter(st, cur)
    BY <1>b, <2>2 DEF Working
  <2>4. owed' = owed /\ ((st' = f /\ At' \in {1, cur}) \/ (st' = st /\ At' \in {0, cur}))
    <3>1. CASE Killed
      BY <1>d, <1>e, <2>3, <3>1
    <3>2. CASE ~Killed
      BY <1>22, <3>2 DEF gate_reject, Goto, At, Working, Prd
    <3>3. QED
      BY <3>1, <3>2
  <2>5. ~Adequate("needs_clarification", st[cur].appr, st[cur].arev)
    BY DEF Adequate
  <2> HIDE DEF f
  <2>6. QED
    BY <2>1, <2>2, <2>3, <2>4, <2>5, ReopenStep DEF Decides
<1>23. CASE gate_correct
  <2>1. cur \in Human /\ node = "gate" /\ Working /\ At = cur
    BY <1>23 DEF gate_correct, Paused, Working, At
  <2>2. /\ Corrected(cur) \in Stages
        /\ \A t \in Stage : ~IsApproved(Corrected(cur), t)
    BY <1>a, <1>b, <2>1, CorrectedEffect DEF OpenAfter, IsApproved, Stage
  <2>3. Standing(Corrected(cur), req + 1) = {}
    BY <2>2 DEF Standing, IsApproved
  <2>4. disk' = Snapshot(Corrected(cur), req + 1, req + 1) \/ disk' = disk
    BY <1>23 DEF gate_correct, Persist
  <2>5. Saved' = Saved \/ Saved' = {}
    BY <1>a, <2>2, <2>3, <2>4, StoredStanding
  <2>6. (Done' = {} /\ At' = 1) \/ (Done' = Done /\ At' \in {0, At})
    <3>1. CASE Killed
      BY <1>d, <3>1 DEF Done
    <3>2. CASE ~Killed
      <4>1. st' = Corrected(cur) /\ owed' = req + 1 /\ node' = "draft" /\ cur' = 1
        BY <1>23, <3>2 DEF gate_correct, Goto, Prd
      <4>2. QED
        BY <2>3, <4>1 DEF Done, At, Working
    <3>3. QED
      BY <3>1, <3>2
  <2>7. At # 0 /\ Decided({}, {1})
    BY <1>a, <2>1, <2>5, <2>6 DEF Decided
  <2>8. QED
    BY <2>7, ChainStep
<1>24. CASE escalate_node
  <2> DEFINE f == Revoked(cur)
  <2>1. Becomes(f, "needs_clarification", st[cur].last, "none", 0)
    BY <1>a, Effects
  <2>2. node = "escalate" /\ (disk' = Snapshot(f, req, owed) \/ disk' = disk)
    BY <1>24, PersistForm DEF escalate_node
  <2>3. Working /\ OpenAfter(st, cur)
    BY <1>b, <2>2 DEF Working
  <2>4. owed' = owed /\ ((st' = f /\ At' = 0) \/ (st' = st /\ At' \in {0, cur}))
    BY <1>24, <1>d, <1>e, <2>3 DEF escalate_node, Goto, At, Working
  <2>5. ~Adequate("needs_clarification", "none", 0)
    BY DEF Adequate
  <2> HIDE DEF f
  <2>6. QED
    BY <2>1, <2>2, <2>3, <2>4, <2>5, ReopenStep DEF Decides
<1>25. CASE draft_escalate_node
  <2> DEFINE f == Marked("needs_clarification")
  <2>1. Becomes(f, "needs_clarification", st[cur].last, st[cur].appr, st[cur].arev)
    BY <1>a, Effects DEF Status
  <2>2. node = "draft_escalate" /\ (disk' = Snapshot(f, req, owed) \/ disk' = disk)
    BY <1>25, PersistForm DEF draft_escalate_node, Marked
  <2>3. Working /\ OpenAfter(st, cur)
    BY <1>b, <2>2 DEF Working
  <2>4. owed' = owed /\ ((st' = f /\ At' = 0) \/ (st' = st /\ At' \in {0, cur}))
    BY <1>25, <1>d, <1>e, <2>3 DEF draft_escalate_node, Goto, At, Working, Marked
  <2>5. ~Adequate("needs_clarification", st[cur].appr, st[cur].arev)
    BY DEF Adequate
  <2> HIDE DEF f
  <2>6. QED
    BY <2>1, <2>2, <2>3, <2>4, <2>5, ReopenStep DEF Decides
<1>26. CASE no_new_work_node
  BY <1>26, QuietChainStep DEF no_new_work_node, Goto, Done, Saved, At, Working
<1> HIDE DEF checkpoint, workspace, run
<1>27. QED
  BY <1>1, <1>2, <1>3, <1>4, <1>5, <1>6, <1>7, <1>8, <1>9, <1>10, <1>11,
     <1>12, <1>13, <1>14, <1>15, <1>16, <1>17, <1>18, <1>19, <1>20, <1>21,
     <1>22, <1>23, <1>24, <1>25, <1>26
     DEF Next, Fault, Intake, ReviewerStep, ProgramStep

\* Every behaviour of the pipeline, with any chain, policies, caps, faults and
\* number of runs, is one the promise allows.
THEOREM ImplementsApprovalChain ==
    ASSUME Kills => ~MayBeNotReady, MayBeNotReady => LedgerVerifyAdvises
    PROVE  Spec => KeepsApprovalChain
<1>1. Init => Chain!Init
  BY DEF Init, Chain!Init, Working, Standing, NoStages, default_stage_state,
         EmptyWorkspace
<1>2. OrderInv /\ CheckedInv /\ [Next]_vars => [Chain!Next]_(Chain!vars)
  BY RefinementStep
<1>3. QED
  BY <1>1, <1>2, CheckedAlways, PTL DEF Spec, KeepsApprovalChain, Chain!Spec

-----------------------------------------------------------------------------
(* Why a run ends, or comes to wait for its reviewer.  RunTerminates itself *)
(* needs fairness; what is proved is that every step that leaves a run      *)
(* active, faults among them, lowers a lexicographic measure of natural     *)
(* numbers: the stages to come, verify laps left, clarification laps left,  *)
(* nodes left in the lap.                                                   *)

Spent(n, cap) == IF n < cap THEN cap - n ELSE 0

Place == CASE node = "scaffold" -> 0 [] node = "record" -> 1 [] OTHER -> cur + 1

\* Laps the verify of this stage may still send it back for, of either kind.
VerifyLeft == Spent(st[cur].vcycle, MaxVerifyCycles[cur]) + Spent(st[cur].infra, InfraCap)

\* Laps its draft may still ask for; an auto-approval gives them back, but it is
\* behind the draft.
ClarifyLeft ==
    IF node \in {"verify_fix", "draft", "drafting"}
    THEN 1 + Spent(st[cur].cycle, MaxCycles[cur]) ELSE 0

\* Nodes left within a lap, and whether there is a sandbox to lose.
NodesLeft ==
    (CASE node \in {"verify_fix", "audit", "auto_approve"} -> 6
       [] node \in {"draft", "verify"}                     -> 4
       [] OTHER                                            -> 2)
      + (IF sandbox THEN 1 ELSE 0)

Lower ==
    \/ Place' > Place
    \/ Place' = Place /\ VerifyLeft' < VerifyLeft
    \/ Place' = Place /\ VerifyLeft' = VerifyLeft /\ ClarifyLeft' < ClarifyLeft
    \/ /\ Place' = Place /\ VerifyLeft' = VerifyLeft /\ ClarifyLeft' = ClarifyLeft
       /\ NodesLeft' < NodesLeft

Finite ==
    Place \in 0..(N + 1) /\ VerifyLeft \in Nat /\ ClarifyLeft \in Nat /\ NodesLeft \in Nat

\* The caps of every stage are natural numbers.
LEMMA Caps ==
    /\ InfraCap \in Nat
    /\ \A s \in Stage : MaxCycles[s] \in Nat /\ MaxVerifyCycles[s] \in Nat
BY StageAssumption DEF StageAssumption

\* What is left is a natural number, and a lap within the cap takes one off.
LEMMA SpentCounts ==
    ASSUME NEW n \in Nat, NEW cap \in Nat
    PROVE  /\ Spent(n, cap) \in Nat
           /\ n + 1 < cap => Spent(n + 1, cap) < Spent(n, cap)
BY DEF Spent

\* The counters of the stage in hand.
LEMMA Counters ==
    ASSUME TypeOK
    PROVE  /\ cur \in Stage /\ cur \in 1..N
           /\ st[cur].cycle \in Nat /\ st[cur].vcycle \in Nat /\ st[cur].infra \in Nat
           /\ MaxCycles[cur] \in Nat /\ MaxVerifyCycles[cur] \in Nat /\ InfraCap \in Nat
           /\ Spent(st[cur].cycle, MaxCycles[cur]) \in Nat
           /\ Spent(st[cur].vcycle, MaxVerifyCycles[cur]) \in Nat
           /\ Spent(st[cur].infra, InfraCap) \in Nat
<1>1. /\ cur \in Stage /\ cur \in 1..N
      /\ st[cur].cycle \in Nat /\ st[cur].vcycle \in Nat /\ st[cur].infra \in Nat
  BY DEF TypeOK, Stage, StageState
<1>2. MaxCycles[cur] \in Nat /\ MaxVerifyCycles[cur] \in Nat /\ InfraCap \in Nat
  BY <1>1, Caps
<1>3. QED
  BY <1>1, <1>2, SpentCounts

\* The measure is made of natural numbers, and the place is bounded.
LEMMA Measured == TypeOK => Finite
BY Counters, Constants DEF Finite, Place, VerifyLeft, ClarifyLeft, NodesLeft

\* The stage is left behind, or the run is over.
LEMMA MovesOn ==
    ASSUME TypeOK, node \notin {"scaffold", "record"}, NextStage(cur), Active'
    PROVE  Lower
<1>1. node' = "draft" /\ cur' = cur + 1
  BY DEF NextStage, Goto, Active
<1>2. QED
  BY <1>1, Counters DEF Lower, Place

\* Within the stage, no counter touched: the next node of the lap.
LEMMA NextNode ==
    ASSUME TypeOK, node \notin {"scaffold", "record"}, node' \notin {"scaffold", "record"},
           cur' = cur, st'[cur].vcycle = st[cur].vcycle, st'[cur].infra = st[cur].infra,
           \/ ClarifyLeft' < ClarifyLeft
           \/ ClarifyLeft' = ClarifyLeft /\ NodesLeft' < NodesLeft
    PROVE  Lower
BY DEF Lower, Place, VerifyLeft

\* Not waiting, a node whose process dies leaves no run going.
LEMMA KilledEnds == Active /\ Killed => ~Active'
BY DEF Active, Killed

\* What the updates of the nodes make of the counters.
LEMMA CountersAfter ==
    ASSUME TypeOK
    PROVE  /\ \A f \in {Passed(cur), Approved(cur)} :
                 f[cur].vcycle = st[cur].vcycle /\ f[cur].infra = st[cur].infra
           /\ \A x \in Status : /\ Marked(x)[cur].vcycle = st[cur].vcycle
                                /\ Marked(x)[cur].infra = st[cur].infra
           /\ \A n \in Nat : /\ Asked(n)[cur].vcycle = st[cur].vcycle
                             /\ Asked(n)[cur].infra = st[cur].infra
                             /\ Asked(n)[cur].cycle = n
                             /\ Failed(n)[cur].vcycle = n
                             /\ Failed(n)[cur].infra = st[cur].infra
                             /\ NoVerdict(n)[cur].vcycle = st[cur].vcycle
                             /\ NoVerdict(n)[cur].infra = n
           /\ Unverifiable[cur].vcycle = st[cur].vcycle
           /\ Unverifiable[cur].infra = st[cur].infra
<1>1. cur \in Stage /\ st \in [Stage -> StageState] /\ st[cur] \in StageState
  BY DEF TypeOK
<1>2. QED
  BY <1>1 DEF Passed, Approved, Marked, Asked, Failed, NoVerdict, Unverifiable,
         StageState

\* Every step after which the run is still active, faults among them, lowers the
\* measure.
LEMMA LowerStep == TypeOK /\ Active /\ Active' /\ Next => Lower
<1> SUFFICES ASSUME TypeOK, Active, Active', Next PROVE Lower
  OBVIOUS
<1> USE DEF checkpoint, workspace, run, Goto
<1>1. ~Intake /\ ~ReviewerStep /\ ~checkpoint_lost /\ ~kill
  <2>1. ~Intake
    BY Zenon DEF Active, Intake, intake_node, intake_set_aside_failed, MayInvoke
  <2>2. ~ReviewerStep /\ ~checkpoint_lost
    BY Zenon DEF Active, ReviewerStep, gate_reject, gate_correct, checkpoint_lost
  <2>3. ~kill
    BY DEF Active, Paused, kill
  <2>4. QED
    BY <2>1, <2>2, <2>3
<1>2. CASE sandbox_lost
  <2>1. UNCHANGED <<node, cur, st>> /\ sandbox /\ ~sandbox'
    BY <1>2 DEF sandbox_lost, checkpoint
  <2>2. NodesLeft' < NodesLeft
    BY <2>1 DEF NodesLeft
  <2>3. QED
    BY <2>1, <2>2 DEF Lower, Place, VerifyLeft, ClarifyLeft
<1>3. CASE scaffold_node
  <2>1. node = "scaffold" /\ node' = "record"
    BY <1>3 DEF scaffold_node
  <2>2. QED
    BY <2>1 DEF Lower, Place
<1>4. CASE record_raw_requirements_node
  <2>1. node = "record" /\ node' = "draft" /\ cur' = 1
    BY <1>4, KilledEnds DEF record_raw_requirements_node, Prd
  <2>2. QED
    BY <2>1 DEF Lower, Place
<1>5. CASE draft_skip
  BY <1>5, MovesOn DEF draft_skip
<1>6. CASE draft_start
  <2>1. node = "draft" /\ node' = "drafting" /\ UNCHANGED <<cur, st, sandbox>>
    BY <1>6 DEF draft_start
  <2>2. ClarifyLeft' = ClarifyLeft /\ NodesLeft' < NodesLeft
    BY <2>1 DEF ClarifyLeft, NodesLeft
  <2>3. QED
    BY <2>1, <2>2, NextNode
<1>7. CASE draft_ready
  <2>1. node = "drafting" /\ node' \in {"audit", "verify", "gate"} /\ cur' = cur
    BY <1>7 DEF draft_ready, make_route_after_draft_ready
  <2>2. st' = Marked("ready_for_review")
    BY <1>7 DEF draft_ready, Marked
  <2>3. ClarifyLeft' < ClarifyLeft
    BY <2>1, Counters DEF ClarifyLeft
  <2>4. QED
    BY <2>1, <2>2, <2>3, NextNode, CountersAfter DEF Status
<1>8. CASE draft_not_ready
  <2> DEFINE cycle == st[cur].cycle + 1
  <2>1. /\ node = "drafting" /\ cur' = cur /\ st' = Asked(cycle)
        /\ \/ node' = "auto_approve"
           \/ node' = "draft" /\ cycle < MaxCycles[cur]
    <3>1. /\ node = "drafting" /\ cur' = cur /\ st' = Asked(cycle)
          /\ node' = IF cycle >= MaxCycles[cur] THEN "auto_approve"
                     ELSE IF headless THEN "draft" ELSE "idle"
      BY <1>8 DEF draft_not_ready, Asked
    <3>2. node' # "idle" /\ cycle \in Nat /\ MaxCycles[cur] \in Nat
      BY Counters DEF Active
    <3> HIDE DEF cycle
    <3>3. CASE cycle >= MaxCycles[cur]
      BY <3>1, <3>2, <3>3
    <3>4. CASE ~(cycle >= MaxCycles[cur])
      BY <3>1, <3>2, <3>4
    <3>5. QED
      BY <3>3, <3>4
  <2>2. /\ st'[cur].vcycle = st[cur].vcycle /\ st'[cur].infra = st[cur].infra
        /\ st'[cur].cycle = cycle
    BY <2>1, Counters, CountersAfter
  <2>3. ClarifyLeft' < ClarifyLeft
    <3>1. CASE node' = "auto_approve"
      BY <2>1, <3>1, Counters DEF ClarifyLeft
    <3>2. CASE node' = "draft" /\ cycle < MaxCycles[cur]
      <4>a. cycle \in Nat
        BY Counters
      <4>1. Spent(cycle, MaxCycles[cur]) \in Nat
        <5> HIDE DEF cycle
        <5>1. QED
          BY <4>a, Counters, SpentCounts
      <4>2. Spent(cycle, MaxCycles[cur]) < Spent(st[cur].cycle, MaxCycles[cur])
        BY <3>2, Counters, SpentCounts
      <4>3. ClarifyLeft = 1 + Spent(st[cur].cycle, MaxCycles[cur])
        BY <2>1 DEF ClarifyLeft
      <4>4. ClarifyLeft' = 1 + Spent(cycle, MaxCycles[cur])
        BY <2>1, <2>2, <3>2 DEF ClarifyLeft
      <4>5. QED
        BY <4>1, <4>2, <4>3, <4>4, Counters
    <3>3. QED
      BY <2>1, <3>1, <3>2
  <2>4. QED
    BY <2>1, <2>2, <2>3, NextNode
<1>9. CASE draft_infra_exhausted
  <2>1. node = "drafting" /\ node' = "draft_escalate" /\ UNCHANGED <<cur, st>>
    BY <1>9 DEF draft_infra_exhausted
  <2>2. ClarifyLeft' < ClarifyLeft
    BY <2>1, Counters DEF ClarifyLeft
  <2>3. QED
    BY <2>1, <2>2, NextNode
<1>10. CASE audit_node
  <2>1. /\ node = "audit" /\ node' \in {"verify", "gate"}
        /\ UNCHANGED <<cur, st, sandbox>>
    BY <1>10, KilledEnds DEF audit_node
  <2>2. ClarifyLeft' = ClarifyLeft /\ NodesLeft' < NodesLeft
    BY <2>1 DEF ClarifyLeft, NodesLeft
  <2>3. QED
    BY <2>1, <2>2, NextNode
<1>11. CASE verify_cannot
  <2>1. /\ node = "verify" /\ node' = "escalate" /\ cur' = cur
        /\ sandbox' = sandbox /\ st' = Unverifiable
    BY <1>11 DEF verify_cannot, VerifyUnchanged, Unverifiable
  <2>2. ClarifyLeft' = ClarifyLeft /\ NodesLeft' < NodesLeft
    BY <2>1 DEF ClarifyLeft, NodesLeft
  <2>3. QED
    BY <2>1, <2>2, NextNode, CountersAfter
<1>12. CASE verify_pass
  <2>1. /\ node = "verify" /\ node' \in {"gate", "no_new_work"} /\ cur' = cur
        /\ sandbox' = sandbox /\ st' = Passed(cur)
    BY <1>12, KilledEnds DEF verify_pass
  <2>2. ClarifyLeft' = ClarifyLeft /\ NodesLeft' < NodesLeft
    BY <2>1 DEF ClarifyLeft, NodesLeft
  <2>3. QED
    BY <2>1, <2>2, NextNode, CountersAfter
<1>13. CASE verify_fail
  <2> DEFINE lap == st[cur].vcycle + 1
  <2>1. /\ node = "verify" /\ cur' = cur /\ st' = Failed(lap) /\ sandbox' = sandbox
        /\ \/ node' \in {"escalate", "gate", "no_new_work"}
           \/ node' \in {"verify_fix", "draft"} /\ lap < MaxVerifyCycles[cur]
    BY <1>13, Counters DEF verify_fail, VerifyUnchanged, Failed, Retry
  <2>2. st'[cur].vcycle = lap /\ st'[cur].infra = st[cur].infra
    BY <2>1, Counters, CountersAfter
  <2>3. Place' = Place
    BY <2>1 DEF Place
  <2>4. CASE node' \in {"verify_fix", "draft"} /\ lap < MaxVerifyCycles[cur]
    <3>1. VerifyLeft' < VerifyLeft
      <4>a. lap \in Nat
        BY Counters
      <4>1. Spent(lap, MaxVerifyCycles[cur]) \in Nat
        <5> HIDE DEF lap
        <5>1. QED
          BY <4>a, Counters, SpentCounts
      <4>2. Spent(lap, MaxVerifyCycles[cur]) < Spent(st[cur].vcycle, MaxVerifyCycles[cur])
        BY <2>4, Counters, SpentCounts
      <4>3. QED
        BY <2>1, <2>2, <4>1, <4>2, Counters DEF VerifyLeft
    <3>2. QED
      BY <2>3, <3>1 DEF Lower
  <2>5. CASE node' \in {"escalate", "gate", "no_new_work"}
    <3>1. VerifyLeft' <= VerifyLeft
      BY <2>1, <2>2, Counters DEF VerifyLeft, Spent
    <3>2. ClarifyLeft' = ClarifyLeft /\ NodesLeft' < NodesLeft
      BY <2>1, <2>5 DEF ClarifyLeft, NodesLeft
    <3>3. VerifyLeft \in Int /\ VerifyLeft' \in Int
      BY <2>1, <2>2, Counters DEF VerifyLeft, Spent
    <3>4. QED
      BY <2>3, <3>1, <3>2, <3>3 DEF Lower
  <2>6. QED
    BY <2>1, <2>4, <2>5
<1>14. CASE verify_infra
  <2> DEFINE tries == st[cur].infra + 1
  <2>1. /\ node = "verify" /\ cur' = cur /\ st' = NoVerdict(tries) /\ sandbox' = sandbox
        /\ \/ node' = "escalate"
           \/ node' \in {"verify_fix", "draft"} /\ tries < InfraCap
    BY <1>14, Counters DEF verify_infra, VerifyUnchanged, NoVerdict, Retry
  <2>2. st'[cur].infra = tries /\ st'[cur].vcycle = st[cur].vcycle
    BY <2>1, Counters, CountersAfter
  <2>3. Place' = Place
    BY <2>1 DEF Place
  <2>4. CASE node' \in {"verify_fix", "draft"} /\ tries < InfraCap
    <3>1. VerifyLeft' < VerifyLeft
      <4>a. tries \in Nat
        BY Counters
      <4>1. Spent(tries, InfraCap) \in Nat
        <5> HIDE DEF tries
        <5>1. QED
          BY <4>a, Counters, SpentCounts
      <4>2. Spent(tries, InfraCap) < Spent(st[cur].infra, InfraCap)
        BY <2>4, Counters, SpentCounts
      <4>3. QED
        BY <2>1, <2>2, <4>1, <4>2, Counters DEF VerifyLeft
    <3>2. QED
      BY <2>3, <3>1 DEF Lower
  <2>5. CASE node' = "escalate"
    <3>1. VerifyLeft' <= VerifyLeft
      BY <2>1, <2>2, Counters DEF VerifyLeft, Spent
    <3>2. ClarifyLeft' = ClarifyLeft /\ NodesLeft' < NodesLeft
      BY <2>1, <2>5 DEF ClarifyLeft, NodesLeft
    <3>3. VerifyLeft \in Int /\ VerifyLeft' \in Int
      BY <2>1, <2>2, Counters DEF VerifyLeft, Spent
    <3>4. QED
      BY <2>3, <3>1, <3>2, <3>3 DEF Lower
  <2>6. QED
    BY <2>1, <2>4, <2>5
<1>15. CASE verify_fix_node
  <2>1. node = "verify_fix" /\ node' = "draft" /\ UNCHANGED <<cur, st, sandbox>>
    BY <1>15 DEF verify_fix_node
  <2>2. ClarifyLeft' = ClarifyLeft /\ NodesLeft' < NodesLeft
    BY <2>1 DEF ClarifyLeft, NodesLeft
  <2>3. QED
    BY <2>1, <2>2, NextNode
<1>16. CASE auto_approve_node
  <2>1. /\ node = "auto_approve" /\ st' = Approved(cur) /\ sandbox' = sandbox
        /\ \/ node' = "verify" /\ cur' = cur
           \/ NextStage(cur)
    BY <1>16, KilledEnds DEF auto_approve_node
  <2>2. CASE NextStage(cur)
    BY <2>1, <2>2, MovesOn
  <2>3. CASE node' = "verify" /\ cur' = cur
    <3>1. ClarifyLeft' = ClarifyLeft /\ NodesLeft' < NodesLeft
      BY <2>1, <2>3 DEF ClarifyLeft, NodesLeft
    <3>2. QED
      BY <2>1, <2>3, <3>1, NextNode, CountersAfter
  <2>4. QED
    BY <2>1, <2>2, <2>3
<1>17. CASE ~Paused /\ gate_approve
  <2>1. node = "gate" /\ NextStage(cur)
    BY <1>17, KilledEnds DEF gate_approve
  <2>2. QED
    BY <2>1, MovesOn
<1>18. CASE escalate_node \/ draft_escalate_node \/ no_new_work_node
  BY <1>18, KilledEnds DEF escalate_node, draft_escalate_node, no_new_work_node, Active
<1>19. QED
  BY <1>1, <1>2, <1>3, <1>4, <1>5, <1>6, <1>7, <1>8, <1>9, <1>10, <1>11, <1>12,
     <1>13, <1>14, <1>15, <1>16, <1>17, <1>18 DEF Next, Fault, ProgramStep

\* A run that is going cannot go on for ever without reaching its end or its
\* reviewer: each step that leaves it going, whatever comes of drafts, verifies
\* and workspace writes, lowers a measure that has no infinite descent.
THEOREM StagesWindDown == Spec => []Finite /\ [][Active /\ Active' => Lower]_vars
<1> DEFINE Descends == Active /\ Active' => Lower
<1>1. TypeOK /\ [Next]_vars => [Descends]_vars
  BY LowerStep
<1>2. TypeOK => Finite
  BY Measured
<1>3. QED
  BY <1>1, <1>2, Typing, PTL DEF Spec
=============================================================================
