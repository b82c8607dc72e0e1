--------------------------- MODULE BackHalfProofs ---------------------------
(***************************************************************************)
(* The back half for any number of placements, laps, scans and runs, and   *)
(* however often the process dies or the sandbox is lost.                  *)
(*                                                                         *)
(* That a completed run got past every cluster is not inductive: Progress  *)
(* says of every node which clusters lie behind it, Open that no failure   *)
(* is on record before the exit report, and Fresh that the last placement  *)
(* has not passed in this run before it is reached.  That a run winds down *)
(* rests on LapsDue and a lexicographic measure, at the end.               *)
(***************************************************************************)
EXTENDS BackHalf, TLAPS

\* What the proofs use of the constants.
LEMMA Constants == P \in Nat /\ P >= 2 /\ MaxScans \in Nat /\ MaxScans > 0
BY BackHalfAssumption DEF BackHalfAssumption

-----------------------------------------------------------------------------
(* Types.                                                                  *)

\* The Boolean part of the type invariant, which the SMT backend is not told
\* apart from any other formula.
Flags == refused \in BOOLEAN /\ sandbox \in BOOLEAN /\ built \in BOOLEAN

\* Starting a run, by whichever lever, keeps the types of what it resets.
LEMMA EnterTyped ==
    ASSUME TypeOK, NEW new \in BOOLEAN, NEW resume \in BOOLEAN, NEW from \in Nat,
           Enter(new, resume, from)
    PROVE  /\ node' \in Nodes /\ at' \in Stage /\ at' \in Placement
           /\ runs' \in Nat /\ run_id' \in Nat
           /\ status' \in [Stage -> StageStatus]
           /\ hardening' \in TestHardeningState
           /\ failure' \in Failure /\ row' \in Row /\ passed' \subseteq Clusters
<1>1. node' \in Nodes /\ at' \in Stage /\ at' \in Placement
  BY Constants DEF Enter, Goto, StageNodes, Nodes, Stage, Last, Placement
<1>2. status' \in [Stage -> StageStatus] /\ hardening' \in TestHardeningState
  BY DEF Enter, TypeOK, StageStatus, TestHardeningState
<1>3. QED
  BY <1>1, <1>2 DEF Enter, TypeOK, Failure, Row

\* A fix lap is counted in the placement's own record.
LEMMA RebuildFixTyped ==
    ASSUME TypeOK, rebuild_fix
    PROVE  rebuild' \in [Placement -> RebuildState]
<1>1. at \in Placement
  BY DEF rebuild_fix, TypeOK, StageNodes
<1>2. rebuild[at] \in RebuildState /\ rebuild[at].laps + 1 \in Nat
  BY <1>1 DEF TypeOK, RebuildState
<1>3. [rebuild[at] EXCEPT !.laps = rebuild[at].laps + 1, !.status = "fixing"]
        \in RebuildState
  BY <1>2 DEF RebuildState
<1>4. QED
  BY <1>1, <1>3 DEF rebuild_fix, TypeOK

\* Every step keeps the types.
LEMMA TypingStep == TypeOK /\ [Next]_vars => TypeOK'
<1> SUFFICES ASSUME TypeOK, [Next]_vars PROVE TypeOK'
  OBVIOUS
<1> USE Constants DEF TypeOK
<1>0. Flags
  BY DEF Flags
<1>1. CASE UNCHANGED vars
  BY <1>1 DEF vars, clusters, outcome, ghosts
<1>2. CASE stage_skip
  <2>1. Flags'
    BY <1>0, <1>2, Zenon DEF stage_skip, Flags, clusters, outcome, ghosts
  <2>2. QED
    BY <1>2, <2>1 DEF stage_skip, Flags, Goto, StageNodes, TestNodes,
         E2eNodes, ExitNodes, Nodes, Stage, Last, Placement, Hardening, clusters,
         outcome, ghosts
<1>3. CASE stage_draft
  <2>1. Flags'
    BY <1>0, <1>3, Zenon DEF stage_draft, Flags, clusters, outcome, ghosts
  <2>2. QED
    BY <1>3, <2>1 DEF stage_draft, StageStatus, Flags, Goto, StageNodes,
         TestNodes, E2eNodes, ExitNodes, Nodes, Stage, Last, Placement,
         Hardening, clusters, outcome, ghosts
<1>4. CASE stage_approve
  <2>1. Flags'
    BY <1>0, <1>4, Zenon DEF stage_approve, Flags, clusters, outcome, ghosts
  <2>2. QED
    BY <1>4, <2>1 DEF stage_approve, StageStatus, Flags, Goto, StageNodes,
         TestNodes, E2eNodes, ExitNodes, Nodes, Stage, Last, Placement,
         Hardening, clusters, outcome, ghosts
<1>5. CASE stage_escalate
  <2>1. Flags'
    BY <1>0, <1>5, Zenon DEF stage_escalate, Flags, clusters, outcome,
         ghosts
  <2>2. QED
    BY <1>5, <2>1 DEF stage_escalate, Row, Failure, Verdict, StageStatus,
         Flags, Goto, StageNodes, TestNodes, E2eNodes, ExitNodes, Nodes, Stage,
         Last, Placement, Hardening, clusters, outcome, ghosts
<1>6. CASE rebuild_skip
  <2>1. Flags'
    BY <1>0, <1>6, Zenon DEF rebuild_skip, AfterRebuild, RebuildUnchanged,
         Flags, clusters, outcome, ghosts
  <2>2. rebuild' \in [Placement -> RebuildState]
    BY <1>6 DEF rebuild_skip, AfterRebuild, RebuildUnchanged, RebuildState,
         StageNodes
  <2>3. passed' \subseteq Clusters
    BY <1>6 DEF rebuild_skip, AfterRebuild, RebuildUnchanged, Tests, E2e,
         Scan, Clusters, StageNodes, Placement, ghosts
  <2>4. node' \in Nodes /\ at' \in Stage /\ (node' \in StageNodes => at' \in Placement)
    BY <1>6 DEF rebuild_skip, AfterRebuild, RebuildUnchanged, Goto,
         StageNodes, TestNodes, E2eNodes, ExitNodes, Nodes, Stage, Last,
         Placement, Hardening
  <2>5. QED
    BY <1>6, <2>1, <2>2, <2>3, <2>4 DEF rebuild_skip, AfterRebuild,
         RebuildUnchanged, Flags, clusters, outcome, ghosts
<1>7. CASE rebuild_clean
  <2>1. Flags'
    BY <1>0, <1>7, Zenon DEF rebuild_clean, AfterRebuild, RebuildUnchanged,
         Flags, clusters, outcome, ghosts
  <2>2. rebuild' \in [Placement -> RebuildState]
    BY <1>7 DEF rebuild_clean, AfterRebuild, RebuildUnchanged, RebuildState,
         StageNodes
  <2>3. passed' \subseteq Clusters
    BY <1>7 DEF rebuild_clean, AfterRebuild, RebuildUnchanged, Tests, E2e,
         Scan, Clusters, StageNodes, Placement, ghosts
  <2>4. node' \in Nodes /\ at' \in Stage /\ (node' \in StageNodes => at' \in Placement)
    BY <1>7 DEF rebuild_clean, AfterRebuild, RebuildUnchanged, Goto,
         StageNodes, TestNodes, E2eNodes, ExitNodes, Nodes, Stage, Last,
         Placement, Hardening
  <2>5. QED
    BY <1>7, <2>1, <2>2, <2>3, <2>4 DEF rebuild_clean, AfterRebuild,
         RebuildUnchanged, Flags, clusters, outcome, ghosts
<1>8. CASE rebuild_failed
  <2>1. Flags'
    BY <1>0, <1>8, Zenon DEF rebuild_failed, RebuildUnchanged, Flags,
         clusters, outcome, ghosts
  <2>2. QED
    BY <1>8, <2>1 DEF rebuild_failed, RebuildUnchanged, RebuildState, Flags,
         Goto, StageNodes, TestNodes, E2eNodes, ExitNodes, Nodes, Stage, Last,
         Placement, Hardening, clusters, outcome, ghosts
<1>9. CASE rebuild_cannot_verify
  <2>1. Flags'
    BY <1>0, <1>9, Zenon DEF rebuild_cannot_verify, RebuildUnchanged, Flags,
         clusters, outcome, ghosts
  <2>2. QED
    BY <1>9, <2>1 DEF rebuild_cannot_verify, RebuildUnchanged, RebuildState,
         Flags, Goto, StageNodes, TestNodes, E2eNodes, ExitNodes, Nodes, Stage,
         Last, Placement, Hardening, clusters, outcome, ghosts
<1>10. CASE rebuild_fix
  <2>1. Flags'
    BY <1>0, <1>10, Zenon DEF rebuild_fix, Flags, clusters, outcome, ghosts
  <2>2. rebuild' \in [Placement -> RebuildState]
    BY <1>10, RebuildFixTyped
  <2>3. node' \in Nodes /\ at' \in Stage /\ (node' \in StageNodes => at' \in Placement)
    BY <1>10 DEF rebuild_fix, Goto, StageNodes, TestNodes, E2eNodes,
         ExitNodes, Nodes, Stage, Last, Placement, Hardening
  <2>4. QED
    BY <1>10, <2>1, <2>2, <2>3 DEF rebuild_fix, Flags, clusters, outcome,
         ghosts
<1>11. CASE rebuild_escalate
  <2>1. Flags'
    BY <1>0, <1>11, Zenon DEF rebuild_escalate, record_run_failure, Flags,
         clusters, outcome, ghosts
  <2>2. rebuild' \in [Placement -> RebuildState]
    BY <1>11 DEF rebuild_escalate, record_run_failure, RebuildState,
         StageNodes
  <2>3. node' \in Nodes /\ at' \in Stage /\ (node' \in StageNodes => at' \in Placement)
    BY <1>11 DEF rebuild_escalate, record_run_failure, Goto, StageNodes,
         TestNodes, E2eNodes, ExitNodes, Nodes, Stage, Last, Placement, Hardening
  <2>4. failure' \in Failure /\ row' \in Row
    BY <1>11 DEF rebuild_escalate, record_run_failure, Failure, Row
  <2>5. QED
    BY <1>11, <2>1, <2>2, <2>3, <2>4 DEF rebuild_escalate,
         record_run_failure, Flags, clusters, outcome, ghosts
<1>12. CASE run_tests_measured
  <2>1. Flags'
    BY <1>0, <1>12, Zenon DEF run_tests_measured, RunTests,
         HardeningUnchanged, Flags, clusters, outcome, ghosts
  <2>2. QED
    BY <1>12, <2>1 DEF run_tests_measured, RunTests, HardeningUnchanged,
         TestHardeningState, Flags, Goto, StageNodes, TestNodes, E2eNodes,
         ExitNodes, Nodes, Stage, Last, Placement, Hardening, clusters, outcome,
         ghosts
<1>13. CASE run_tests_unusable
  <2>1. Flags'
    BY <1>0, <1>13, Zenon DEF run_tests_unusable, RunTests,
         HardeningUnchanged, Flags, clusters, outcome, ghosts
  <2>2. QED
    BY <1>13, <2>1 DEF run_tests_unusable, RunTests, HardeningUnchanged,
         TestHardeningState, Flags, Goto, StageNodes, TestNodes, E2eNodes,
         ExitNodes, Nodes, Stage, Last, Placement, Hardening, clusters, outcome,
         ghosts
<1>14. CASE run_tests_cannot_verify
  <2>1. Flags'
    BY <1>0, <1>14, Zenon DEF run_tests_cannot_verify, RunTests,
         HardeningUnchanged, Flags, clusters, outcome, ghosts
  <2>2. QED
    BY <1>14, <2>1 DEF run_tests_cannot_verify, RunTests,
         HardeningUnchanged, TestHardeningState, Flags, Goto, StageNodes,
         TestNodes, E2eNodes, ExitNodes, Nodes, Stage, Last, Placement,
         Hardening, clusters, outcome, ghosts
<1>15. CASE test_fix
  <2>1. Flags'
    BY <1>0, <1>15, Zenon DEF test_fix, HardeningUnchanged, Flags, clusters,
         outcome, ghosts
  <2>2. QED
    BY <1>15, <2>1 DEF test_fix, HardeningUnchanged, TestHardeningState,
         Flags, Goto, StageNodes, TestNodes, E2eNodes, ExitNodes, Nodes, Stage,
         Last, Placement, Hardening, clusters, outcome, ghosts
<1>16. CASE test_fix_no_sandbox
  <2>1. Flags'
    BY <1>0, <1>16, Zenon DEF test_fix_no_sandbox, HardeningUnchanged,
         Flags, clusters, outcome, ghosts
  <2>2. QED
    BY <1>16, <2>1 DEF test_fix_no_sandbox, HardeningUnchanged, Flags, Goto,
         StageNodes, TestNodes, E2eNodes, ExitNodes, Nodes, Stage, Last,
         Placement, Hardening, clusters, outcome, ghosts
<1>17. CASE regression_gate
  <2>1. Flags'
    BY <1>0, <1>17, Zenon DEF regression_gate, record_run_failure,
         HardeningUnchanged, Flags, clusters, outcome, ghosts
  <2>2. hardening' \in TestHardeningState
    BY <1>17 DEF regression_gate, record_run_failure, HardeningUnchanged,
         TestHardeningState
  <2>3. node' \in Nodes /\ at' \in Stage /\ (node' \in StageNodes => at' \in Placement)
    BY <1>17 DEF regression_gate, record_run_failure, HardeningUnchanged,
         Goto, StageNodes, TestNodes, E2eNodes, ExitNodes, Nodes, Stage, Last,
         Placement, Hardening
  <2>4. failure' \in Failure /\ row' \in Row
    BY <1>17 DEF regression_gate, record_run_failure, HardeningUnchanged,
         Failure, Row
  <2>5. QED
    BY <1>17, <2>1, <2>2, <2>3, <2>4 DEF regression_gate,
         record_run_failure, HardeningUnchanged, Flags, clusters, outcome, ghosts
<1>18. CASE flake_triage
  <2>1. Flags'
    BY <1>0, <1>18, Zenon DEF flake_triage, HardeningUnchanged, Flags,
         clusters, outcome, ghosts
  <2>2. QED
    BY <1>18, <2>1 DEF flake_triage, HardeningUnchanged, TestHardeningState,
         Flags, Goto, StageNodes, TestNodes, E2eNodes, ExitNodes, Nodes, Stage,
         Last, Placement, Hardening, clusters, outcome, ghosts
<1>19. CASE mint_tickets
  <2>1. Flags'
    BY <1>0, <1>19, Zenon DEF mint_tickets, HardeningUnchanged, Flags,
         clusters, outcome, ghosts
  <2>2. QED
    BY <1>19, <2>1 DEF mint_tickets, HardeningUnchanged, TestHardeningState,
         Flags, Goto, StageNodes, TestNodes, E2eNodes, ExitNodes, Nodes, Stage,
         Last, Placement, Hardening, clusters, outcome, ghosts
<1>20. CASE exit_check
  <2>1. Flags'
    BY <1>0, <1>20, Zenon DEF exit_check, HardeningUnchanged, Flags,
         clusters, outcome, ghosts
  <2>2. passed' \in {passed, passed \cup {Tests}}
    BY <1>20, Zenon DEF exit_check
  <2>3. passed' \subseteq Clusters
    BY <2>2 DEF Tests, Scan, Clusters
  <2>4. node' \in Nodes /\ at' \in Stage /\ (node' \in StageNodes => at' \in Placement)
    BY <1>20 DEF exit_check, HardeningUnchanged, Goto, StageNodes,
         TestNodes, E2eNodes, ExitNodes, Nodes, Stage, Last, Placement, Hardening
  <2>5. QED
    BY <1>20, <2>1, <2>3, <2>4 DEF exit_check, HardeningUnchanged, Flags,
         clusters, outcome, ghosts
<1>21. CASE exit_escalate
  <2>1. Flags'
    BY <1>0, <1>21, Zenon DEF exit_escalate, record_run_failure,
         HardeningUnchanged, Flags, clusters, outcome, ghosts
  <2>2. QED
    BY <1>21, <2>1 DEF exit_escalate, record_run_failure,
         HardeningUnchanged, Row, Failure, Verdict, Flags, Goto, StageNodes,
         TestNodes, E2eNodes, ExitNodes, Nodes, Stage, Last, Placement,
         Hardening, clusters, outcome, ghosts
<1>22. CASE e2e_skip
  <2>1. Flags'
    BY <1>0, <1>22, Zenon DEF e2e_skip, E2eUnchanged, Flags, clusters,
         outcome, ghosts
  <2>2. QED
    BY <1>22, <2>1 DEF e2e_skip, E2eUnchanged, Flags, Goto, StageNodes,
         TestNodes, E2eNodes, ExitNodes, Nodes, Stage, Last, Placement,
         Hardening, Tests, E2e, Scan, Clusters, clusters, outcome, ghosts
<1>23. CASE e2e_gate_check
  <2>1. Flags'
    BY <1>0, <1>23, Zenon DEF e2e_gate_check, E2eUnchanged, Flags, clusters,
         outcome, ghosts
  <2>2. QED
    BY <1>23, <2>1 DEF e2e_gate_check, E2eUnchanged, Flags, Goto,
         StageNodes, TestNodes, E2eNodes, ExitNodes, Nodes, Stage, Last,
         Placement, Hardening, clusters, outcome, ghosts
<1>24. CASE e2e_run_cannot_verify
  <2>1. Flags'
    BY <1>0, <1>24, Zenon DEF e2e_run_cannot_verify, E2eRun,
         e2e_route_after_run, E2eUnchanged, Flags, clusters, outcome, ghosts
  <2>2. QED
    BY <1>24, <2>1 DEF e2e_run_cannot_verify, E2eRun, e2e_route_after_run,
         E2eUnchanged, E2EState, Flags, Goto, StageNodes, TestNodes, E2eNodes,
         ExitNodes, Nodes, Stage, Last, Placement, Hardening, Tests, E2e, Scan,
         Clusters, clusters, outcome, ghosts
<1>25. CASE e2e_run_boot_failed
  <2>1. Flags'
    BY <1>0, <1>25, Zenon DEF e2e_run_boot_failed, E2eRun,
         e2e_route_after_run, E2eUnchanged, Flags, clusters, outcome, ghosts
  <2>2. QED
    BY <1>25, <2>1 DEF e2e_run_boot_failed, E2eRun, e2e_route_after_run,
         E2eUnchanged, E2EState, Flags, Goto, StageNodes, TestNodes, E2eNodes,
         ExitNodes, Nodes, Stage, Last, Placement, Hardening, Tests, E2e, Scan,
         Clusters, clusters, outcome, ghosts
<1>26. CASE e2e_run_suite
  <2>1. Flags'
    BY <1>0, <1>26, Zenon DEF e2e_run_suite, E2eRun, e2e_route_after_run,
         E2eUnchanged, Flags, clusters, outcome, ghosts
  <2>2. e2e' \in E2EState
    BY <1>26 DEF e2e_run_suite, E2eRun, e2e_route_after_run, E2eUnchanged,
         E2EState
  <2>3. passed' \subseteq Clusters
    BY <1>26 DEF e2e_run_suite, E2eRun, e2e_route_after_run, E2eUnchanged,
         Tests, E2e, Scan, Clusters, StageNodes, Placement, ghosts
  <2>4. node' \in Nodes /\ at' \in Stage /\ (node' \in StageNodes => at' \in Placement)
    BY <1>26 DEF e2e_run_suite, E2eRun, e2e_route_after_run, E2eUnchanged,
         Goto, StageNodes, TestNodes, E2eNodes, ExitNodes, Nodes, Stage, Last,
         Placement, Hardening
  <2>5. QED
    BY <1>26, <2>1, <2>2, <2>3, <2>4 DEF e2e_run_suite, E2eRun,
         e2e_route_after_run, E2eUnchanged, Flags, clusters, outcome, ghosts
<1>27. CASE e2e_fix
  <2>1. Flags'
    BY <1>0, <1>27, Zenon DEF e2e_fix, E2eUnchanged, Flags, clusters,
         outcome, ghosts
  <2>2. e2e' \in E2EState
    BY <1>27 DEF e2e_fix, E2eUnchanged, E2EState
  <2>3. node' \in Nodes /\ at' \in Stage /\ (node' \in StageNodes => at' \in Placement)
    BY <1>27 DEF e2e_fix, E2eUnchanged, Goto, StageNodes, TestNodes,
         E2eNodes, ExitNodes, Nodes, Stage, Last, Placement, Hardening
  <2>4. QED
    BY <1>27, <2>1, <2>2, <2>3 DEF e2e_fix, E2eUnchanged, Flags, clusters,
         outcome, ghosts
<1>28. CASE e2e_fix_no_sandbox
  <2>1. Flags'
    BY <1>0, <1>28, Zenon DEF e2e_fix_no_sandbox, E2eUnchanged, Flags,
         clusters, outcome, ghosts
  <2>2. QED
    BY <1>28, <2>1 DEF e2e_fix_no_sandbox, E2eUnchanged, Flags, Goto,
         StageNodes, TestNodes, E2eNodes, ExitNodes, Nodes, Stage, Last,
         Placement, Hardening, clusters, outcome, ghosts
<1>29. CASE e2e_escalate
  <2>1. Flags'
    BY <1>0, <1>29, Zenon DEF e2e_escalate, record_run_failure,
         E2eUnchanged, Flags, clusters, outcome, ghosts
  <2>2. e2e' \in E2EState
    BY <1>29 DEF e2e_escalate, record_run_failure, E2eUnchanged, E2EState
  <2>3. node' \in Nodes /\ at' \in Stage /\ (node' \in StageNodes => at' \in Placement)
    BY <1>29 DEF e2e_escalate, record_run_failure, E2eUnchanged, Goto,
         StageNodes, TestNodes, E2eNodes, ExitNodes, Nodes, Stage, Last,
         Placement, Hardening
  <2>4. failure' \in Failure /\ row' \in Row
    BY <1>29 DEF e2e_escalate, record_run_failure, E2eUnchanged, Failure,
         Row
  <2>5. QED
    BY <1>29, <2>1, <2>2, <2>3, <2>4 DEF e2e_escalate, record_run_failure,
         E2eUnchanged, Flags, clusters, outcome, ghosts
<1>30. CASE metrics_compute
  <2>1. Flags'
    BY <1>0, <1>30, Zenon DEF metrics_compute, MetricsCompute,
         ExitUnchanged, Flags, clusters, outcome, ghosts
  <2>2. QED
    BY <1>30, <2>1 DEF metrics_compute, MetricsCompute, ExitUnchanged, Gate,
         Flags, Goto, StageNodes, TestNodes, E2eNodes, ExitNodes, Nodes, Stage,
         Last, Placement, Hardening, Tests, E2e, Scan, Clusters, clusters,
         outcome, ghosts
<1>31. CASE metrics_compute_no_sandbox
  <2>1. Flags'
    BY <1>0, <1>31, Zenon DEF metrics_compute_no_sandbox, MetricsCompute,
         ExitUnchanged, Flags, clusters, outcome, ghosts
  <2>2. QED
    BY <1>31, <2>1 DEF metrics_compute_no_sandbox, MetricsCompute,
         ExitUnchanged, Gate, Flags, Goto, StageNodes, TestNodes, E2eNodes,
         ExitNodes, Nodes, Stage, Last, Placement, Hardening, Tests, E2e, Scan,
         Clusters, clusters, outcome, ghosts
<1>32. CASE metrics_regression_record
  <2>1. Flags'
    BY <1>0, <1>32, Zenon DEF metrics_regression_record, ExitUnchanged,
         Flags, clusters, outcome, ghosts
  <2>2. QED
    BY <1>32, <2>1 DEF metrics_regression_record, ExitUnchanged, Failure,
         Flags, Goto, StageNodes, TestNodes, E2eNodes, ExitNodes, Nodes, Stage,
         Last, Placement, Hardening, clusters, outcome, ghosts
<1>33. CASE exit_draft
  <2>1. Flags'
    BY <1>0, <1>33, Zenon DEF exit_draft, ExitUnchanged, Flags, clusters,
         outcome, ghosts
  <2>2. QED
    BY <1>33, <2>1 DEF exit_draft, ExitUnchanged, StageStatus, Flags, Goto,
         StageNodes, TestNodes, E2eNodes, ExitNodes, Nodes, Stage, Last,
         Placement, Hardening, clusters, outcome, ghosts
<1>34. CASE exit_escalate_stage
  <2>1. Flags'
    BY <1>0, <1>34, Zenon DEF exit_escalate_stage, ExitUnchanged, Flags,
         clusters, outcome, ghosts
  <2>2. QED
    BY <1>34, <2>1 DEF exit_escalate_stage, ExitUnchanged, Row, Failure,
         Verdict, StageStatus, Flags, Goto, StageNodes, TestNodes, E2eNodes,
         ExitNodes, Nodes, Stage, Last, Placement, Hardening, clusters, outcome,
         ghosts
<1>35. CASE exit_finalize
  <2>1. Flags'
    BY <1>0, <1>35, Zenon DEF exit_finalize, Finish, final_outcome,
         _final_merge_readiness, ExitUnchanged, Flags, clusters, outcome, ghosts
  <2>2. QED
    BY <1>35, <2>1 DEF exit_finalize, Finish, final_outcome,
         _final_merge_readiness, ExitUnchanged, Row, Failure, Verdict, Flags,
         Goto, StageNodes, TestNodes, E2eNodes, ExitNodes, Nodes, Stage, Last,
         Placement, Hardening, clusters, outcome, ghosts
<1>36. CASE exit_finalize_degraded
  <2>1. Flags'
    BY <1>0, <1>36, Zenon DEF exit_finalize_degraded, Finish, ExitUnchanged,
         Flags, clusters, outcome, ghosts
  <2>2. QED
    BY <1>36, <2>1 DEF exit_finalize_degraded, Finish, ExitUnchanged, Row,
         Failure, Verdict, Flags, Goto, StageNodes, TestNodes, E2eNodes,
         ExitNodes, Nodes, Stage, Last, Placement, Hardening, clusters, outcome,
         ghosts
<1>37. CASE exit_hook_skipped
  <2>1. Flags'
    BY <1>0, <1>37, Zenon DEF exit_hook_skipped, Finish, ExitUnchanged,
         Flags, clusters, outcome, ghosts
  <2>2. QED
    BY <1>37, <2>1 DEF exit_hook_skipped, Finish, ExitUnchanged, Row,
         Failure, Verdict, Flags, Goto, StageNodes, TestNodes, E2eNodes,
         ExitNodes, Nodes, Stage, Last, Placement, Hardening, clusters, outcome,
         ghosts
<1>38. CASE kill
  <2>1. Flags'
    BY <1>0, <1>38, Zenon DEF kill, Flags, clusters, outcome, ghosts
  <2>2. QED
    BY <1>38, <2>1 DEF kill, Flags, Goto, StageNodes, TestNodes, E2eNodes,
         ExitNodes, Nodes, Stage, Last, Placement, Hardening, Tests, E2e, Scan,
         Clusters, clusters, outcome, ghosts
<1>39. CASE sandbox_lost
  <2>1. Flags'
    BY <1>0, <1>39, Zenon DEF sandbox_lost, Flags, clusters, outcome, ghosts
  <2>2. QED
    BY <1>39, <2>1 DEF sandbox_lost, Flags, Goto, StageNodes, TestNodes,
         E2eNodes, ExitNodes, Nodes, Stage, Last, Placement, Hardening, clusters,
         outcome, ghosts
<1>40. CASE provision
  <2>1. Flags'
    BY <1>0, <1>40, Zenon DEF provision, Flags, clusters, outcome, ghosts
  <2>2. QED
    BY <1>40, <2>1 DEF provision, Flags, Goto, StageNodes, TestNodes,
         E2eNodes, ExitNodes, Nodes, Stage, Last, Placement, Hardening, clusters,
         outcome, ghosts
<1>41. ASSUME NEW new \in BOOLEAN, NEW resume \in BOOLEAN,
             intake_node(new, resume)
      PROVE  TypeOK'
  <2>1. Flags'
    BY <1>0, <1>41, Zenon DEF intake_node, Enter, Flags
  <2>2. Enter(new, resume, Last + 1)
    BY <1>41 DEF intake_node
  <2>3. rebuild' \in [Placement -> RebuildState] /\ e2e' \in E2EState
    BY <1>41 DEF intake_node, default_rebuild_state, default_e2e_state,
         RebuildState, E2EState
  <2>4. drafted' = drafted /\ gate' = gate /\ losses' = losses
    BY <1>41 DEF intake_node
  <2>5. QED
    BY <2>1, <2>2, <2>3, <2>4, EnterTyped DEF Flags, Last
<1>42. ASSUME NEW from \in Stage, NEW resume \in BOOLEAN,
             rewind_to_stage(from, resume)
      PROVE  TypeOK'
  <2>1. Flags'
    BY <1>0, <1>42, Zenon DEF rewind_to_stage, reset_rebuild_state, Enter,
         Flags
  <2>2. Enter(FALSE, resume, from)
    BY <1>42 DEF rewind_to_stage
  <2>3. rebuild' \in [Placement -> RebuildState] /\ e2e' \in E2EState
    BY <1>42 DEF rewind_to_stage, reset_rebuild_state,
         default_rebuild_state, default_e2e_state, RebuildState, E2EState
  <2>4. drafted' = drafted /\ gate' = gate /\ losses' = losses
    BY <1>42 DEF rewind_to_stage
  <2>5. from \in Nat
    BY DEF Stage, Last
  <2>6. QED
    BY <2>1, <2>2, <2>3, <2>4, <2>5, EnterTyped DEF Flags
<1>43. ASSUME NEW resume \in BOOLEAN,
             reset_e2e(resume)
      PROVE  TypeOK'
  <2>1. Flags'
    BY <1>0, <1>43, Zenon DEF reset_e2e, reset_rebuild_state, Enter, Flags
  <2>2. Enter(FALSE, resume, P)
    BY <1>43 DEF reset_e2e
  <2>3. rebuild' \in [Placement -> RebuildState] /\ e2e' \in E2EState
    BY <1>43 DEF reset_e2e, reset_rebuild_state, default_rebuild_state,
         default_e2e_state, RebuildState, E2EState
  <2>4. drafted' = drafted /\ gate' = gate /\ losses' = losses
    BY <1>43 DEF reset_e2e
  <2>5. QED
    BY <2>1, <2>2, <2>3, <2>4, EnterTyped DEF Flags, Last
<1>44. ASSUME NEW resume \in BOOLEAN,
             targeted_fix(resume)
      PROVE  TypeOK'
  <2>1. Flags'
    BY <1>0, <1>44, Zenon DEF targeted_fix, Enter, Flags
  <2>2. PICK from \in {Last, Last + 1} : Enter(FALSE, resume, from)
    BY <1>44, Zenon DEF targeted_fix
  <2>3. rebuild' \in [Placement -> RebuildState] /\ e2e' \in E2EState
    BY <1>44 DEF targeted_fix, default_rebuild_state, default_e2e_state,
         RebuildState, E2EState
  <2>4. drafted' = drafted /\ gate' = gate /\ losses' = losses
    BY <1>44 DEF targeted_fix
  <2>5. from \in Nat
    BY DEF Stage, Last
  <2>6. QED
    BY <2>1, <2>2, <2>3, <2>4, <2>5, EnterTyped DEF Flags
<1>45. QED
  BY <1>1, <1>2, <1>3, <1>4, <1>5, <1>6, <1>7, <1>8, <1>9, <1>10, <1>11,
       <1>12, <1>13, <1>14, <1>15, <1>16, <1>17, <1>18, <1>19, <1>20, <1>21,
       <1>22, <1>23, <1>24, <1>25, <1>26, <1>27, <1>28, <1>29, <1>30, <1>31,
       <1>32, <1>33, <1>34, <1>35, <1>36, <1>37, <1>38, <1>39, <1>40, <1>41,
       <1>42, <1>43, <1>44 DEF Next, Intake, ProgramStep, StageStep, RebuildStep,
       HardeningStep, E2eStep, ExitStep

-----------------------------------------------------------------------------
(* Safety.                                                                 *)

Hardened == ~hardening.stable_fail /\ hardening.quarantine \in {"none", "linked"}

\* Only the exit report follows a failure.
Open ==
    node \notin {"idle", "exit_draft", "exit_finalize"}
        => failure = "none" /\ row.status = "in_progress"

\* What lies behind each node.
Progress ==
    /\ node \in StageNodes =>
          /\ 1..(at - 1) \subseteq passed
          /\ at = P => Hardened /\ Tests \in passed /\ E2e \in passed
    /\ node \in TestNodes => at = P /\ 1..Hardening \subseteq passed
    /\ node \in E2eNodes =>
          at = P /\ 1..Hardening \subseteq passed /\ Tests \in passed /\ Hardened
    /\ (node \in ExitNodes /\ failure = "none") => 1..E2e \subseteq passed /\ Hardened
    /\ (node \in {"exit_draft", "exit_finalize"} /\ failure = "none")
          => Scan \in passed /\ ~gate.reasons

Earned ==
    row.status = "completed" =>
        /\ node = "idle" /\ passed = Clusters
        /\ failure = "none" /\ ~refused /\ Hardened /\ ~gate.reasons

Told ==
    (failure # "none" /\ row.status = "failed")
        => row.cause \in {failure, "exit_report_failed"}

\* In a run with an id of its own the last placement has not passed yet.
Fresh ==
    /\ run_id <= runs
    /\ \A k \in Placement : rebuild[k].passed_run <= runs
    /\ (run_id = runs /\ node \in StageNodes \cup TestNodes \cup E2eNodes)
          => rebuild[P].passed_run < runs
    /\ (run_id = runs /\ node = "metrics_compute") => built

IInv == TypeOK /\ Open /\ Progress /\ Earned /\ Told /\ Fresh

\* The clusters up to e2e and the scan are all there are.
LEMMA AllClusters ==
    ASSUME TypeOK, 1..E2e \subseteq passed, Scan \in passed
    PROVE  passed = Clusters
<1>1. \A c \in Clusters : c \in 1..E2e \/ c = Scan
  BY Constants DEF Clusters, Scan, E2e
<1>2. QED
  BY <1>1 DEF TypeOK

\* The next cluster after a placement has all of those before it behind it.
LEMMA AfterRebuildProgress ==
    ASSUME TypeOK, Open, Progress, node = "rebuild", AfterRebuild,
           UNCHANGED <<hardening, failure, gate>>
    PROVE  Progress'
<1> USE Constants DEF TypeOK, Open, Progress, Hardened, StageNodes, TestNodes, E2eNodes,
        ExitNodes, Placement, Hardening, Last, Tests, E2e, AfterRebuild, Goto
<1>1. at \in 1..P /\ 1..(at - 1) \subseteq passed /\ passed' = passed \cup {at}
  OBVIOUS
<1>2. CASE at = P
  <2>1. 1..E2e \subseteq passed'
    BY <1>1, <1>2
  <2>2. QED
    BY <1>2, <2>1
<1>3. CASE at = Hardening
  BY <1>1, <1>3
<1>4. CASE at # P /\ at # Hardening
  <2>1. node' = "draft" /\ at' = at + 1 /\ at' # P
    BY <1>1, <1>4
  <2>2. QED
    BY <1>1, <2>1
<1>5. QED
  BY <1>2, <1>3, <1>4

\* Every step keeps the inductive invariant.
LEMMA SafetyStep == IInv /\ [Next]_vars => IInv'
<1> SUFFICES ASSUME IInv, [Next]_vars PROVE (Open /\ Progress /\ Earned /\ Told /\ Fresh)'
  BY TypingStep DEF IInv
<1> USE Constants DEF IInv, TypeOK, Open, Progress, Earned, Told, Fresh, Hardened,
        Nodes, StageNodes, TestNodes, E2eNodes, ExitNodes, Placement, Hardening,
        Stage, Last, Tests, E2e, Scan, Clusters, RebuildState, Goto
<1>1. CASE UNCHANGED vars
  BY <1>1 DEF vars, clusters, outcome, ghosts
<1>2. CASE stage_skip
  BY <1>2 DEF stage_skip, clusters, outcome, ghosts
<1>3. CASE stage_draft
  BY <1>3 DEF stage_draft, clusters, outcome, ghosts
<1>4. CASE stage_approve
  BY <1>4 DEF stage_approve, clusters, outcome, ghosts
<1>5. CASE stage_escalate
  BY <1>5 DEF stage_escalate, clusters, outcome, ghosts
<1>6. CASE rebuild_skip
  <2>1. (Open /\ Told)'
    BY <1>6 DEF rebuild_skip, AfterRebuild, RebuildUnchanged,
         should_skip_rebuild, clusters, outcome, ghosts
  <2>2. Progress'
    BY <1>6, AfterRebuildProgress DEF rebuild_skip, RebuildUnchanged,
         outcome
  <2>3. Earned'
    BY <1>6 DEF rebuild_skip, AfterRebuild, RebuildUnchanged,
         should_skip_rebuild, clusters, outcome, ghosts
  <2>4. Fresh'
    BY <1>6 DEF rebuild_skip, AfterRebuild, RebuildUnchanged,
         should_skip_rebuild, clusters, outcome, ghosts
  <2>5. QED
    BY <2>1, <2>2, <2>3, <2>4
<1>7. CASE rebuild_clean
  <2>1. (Open /\ Told)'
    BY <1>7 DEF rebuild_clean, AfterRebuild, RebuildUnchanged,
         should_skip_rebuild, clusters, outcome, ghosts
  <2>2. Progress'
    BY <1>7, AfterRebuildProgress DEF rebuild_clean, RebuildUnchanged,
         outcome
  <2>3. Earned'
    BY <1>7 DEF rebuild_clean, AfterRebuild, RebuildUnchanged,
         should_skip_rebuild, clusters, outcome, ghosts
  <2>4. Fresh'
    BY <1>7 DEF rebuild_clean, AfterRebuild, RebuildUnchanged,
         should_skip_rebuild, clusters, outcome, ghosts
  <2>5. QED
    BY <2>1, <2>2, <2>3, <2>4
<1>8. CASE rebuild_failed
  BY <1>8 DEF rebuild_failed, RebuildUnchanged, clusters, outcome, ghosts
<1>9. CASE rebuild_cannot_verify
  BY <1>9 DEF rebuild_cannot_verify, RebuildUnchanged, clusters, outcome,
       ghosts
<1>10. CASE rebuild_fix
  BY <1>10 DEF rebuild_fix, clusters, outcome, ghosts
<1>11. CASE rebuild_escalate
  BY <1>11 DEF rebuild_escalate, record_run_failure, clusters, outcome,
       ghosts
<1>12. CASE run_tests_measured
  BY <1>12 DEF run_tests_measured, RunTests, HardeningUnchanged, clusters,
       outcome, ghosts
<1>13. CASE run_tests_unusable
  BY <1>13 DEF run_tests_unusable, RunTests, HardeningUnchanged, clusters,
       outcome, ghosts
<1>14. CASE run_tests_cannot_verify
  BY <1>14 DEF run_tests_cannot_verify, RunTests, HardeningUnchanged,
       clusters, outcome, ghosts
<1>15. CASE test_fix
  BY <1>15 DEF test_fix, HardeningUnchanged, clusters, outcome, ghosts
<1>16. CASE test_fix_no_sandbox
  BY <1>16 DEF test_fix_no_sandbox, HardeningUnchanged, clusters, outcome,
       ghosts
<1>17. CASE regression_gate
  BY <1>17 DEF regression_gate, record_run_failure, HardeningUnchanged,
       clusters, outcome, ghosts
<1>18. CASE flake_triage
  BY <1>18 DEF flake_triage, HardeningUnchanged, clusters, outcome, ghosts
<1>19. CASE mint_tickets
  BY <1>19 DEF mint_tickets, HardeningUnchanged, clusters, outcome, ghosts
<1>20. CASE exit_check
  BY <1>20 DEF exit_check, HardeningUnchanged, clusters, outcome, ghosts
<1>21. CASE exit_escalate
  BY <1>21 DEF exit_escalate, record_run_failure, HardeningUnchanged,
       clusters, outcome, ghosts
<1>22. CASE e2e_skip
  BY <1>22 DEF e2e_skip, E2eUnchanged, clusters, outcome, ghosts
<1>23. CASE e2e_gate_check
  BY <1>23 DEF e2e_gate_check, E2eUnchanged, clusters, outcome, ghosts
<1>24. CASE e2e_run_cannot_verify
  BY <1>24 DEF e2e_run_cannot_verify, E2eRun, e2e_route_after_run,
       E2eUnchanged, clusters, outcome, ghosts
<1>25. CASE e2e_run_boot_failed
  BY <1>25 DEF e2e_run_boot_failed, E2eRun, e2e_route_after_run,
       E2eUnchanged, clusters, outcome, ghosts
<1>26. CASE e2e_run_suite
  BY <1>26 DEF e2e_run_suite, E2eRun, e2e_route_after_run, E2eUnchanged,
       clusters, outcome, ghosts
<1>27. CASE e2e_fix
  BY <1>27 DEF e2e_fix, E2eUnchanged, clusters, outcome, ghosts
<1>28. CASE e2e_fix_no_sandbox
  BY <1>28 DEF e2e_fix_no_sandbox, E2eUnchanged, clusters, outcome, ghosts
<1>29. CASE e2e_escalate
  BY <1>29 DEF e2e_escalate, record_run_failure, E2eUnchanged, clusters,
       outcome, ghosts
<1>30. CASE metrics_compute
  BY <1>30 DEF metrics_compute, MetricsCompute, ExitUnchanged, clusters,
       outcome, ghosts
<1>31. CASE metrics_compute_no_sandbox
  BY <1>31 DEF metrics_compute_no_sandbox, MetricsCompute, ExitUnchanged,
       clusters, outcome, ghosts
<1>32. CASE metrics_regression_record
  BY <1>32 DEF metrics_regression_record, ExitUnchanged, clusters, outcome,
       ghosts
<1>33. CASE exit_draft
  BY <1>33 DEF exit_draft, ExitUnchanged, clusters, outcome, ghosts
<1>34. CASE exit_escalate_stage
  BY <1>34 DEF exit_escalate_stage, ExitUnchanged, clusters, outcome, ghosts
<1>35. CASE exit_finalize
  <2>1. (Open /\ Told)'
    BY <1>35 DEF exit_finalize, Finish, final_outcome,
         _final_merge_readiness, ExitUnchanged, clusters, outcome, ghosts
  <2>2. Progress'
    BY <1>35 DEF exit_finalize, Finish, final_outcome,
         _final_merge_readiness, ExitUnchanged, clusters, outcome, ghosts
  <2>3. Earned'
    <3>1. PICK ready \in BOOLEAN :
             row' = final_outcome(_final_merge_readiness(ready))
      BY <1>35 DEF exit_finalize, Finish
    <3>2. row'.status = "completed" => failure = "none" /\ ~refused
      BY <3>1 DEF final_outcome, _final_merge_readiness
    <3>3. /\ node' = "idle" /\ node = "exit_finalize"
          /\ UNCHANGED <<failure, refused, hardening, gate, passed>>
      BY <1>35 DEF exit_finalize, Finish, ExitUnchanged, ghosts
    <3>4. failure = "none" =>
             1..E2e \subseteq passed /\ Scan \in passed /\ Hardened /\ ~gate.reasons
      BY <3>3
    <3>5. failure = "none" => passed = Clusters
      BY <3>4, AllClusters
    <3>6. Hardened' = Hardened /\ refused' = refused /\ gate' = gate
      BY <3>3, Zenon DEF Hardened
    <3>7. QED
      BY <3>2, <3>3, <3>4, <3>5, <3>6
  <2>4. Fresh'
    BY <1>35 DEF exit_finalize, Finish, final_outcome,
         _final_merge_readiness, ExitUnchanged, clusters, outcome, ghosts
  <2>5. QED
    BY <2>1, <2>2, <2>3, <2>4
<1>36. CASE exit_finalize_degraded
  BY <1>36 DEF exit_finalize_degraded, Finish, ExitUnchanged, clusters,
       outcome, ghosts
<1>37. CASE exit_hook_skipped
  BY <1>37 DEF exit_hook_skipped, Finish, ExitUnchanged, clusters, outcome,
       ghosts
<1>38. CASE kill
  BY <1>38 DEF kill, clusters, outcome, ghosts
<1>39. CASE sandbox_lost
  BY <1>39 DEF sandbox_lost, clusters, outcome, ghosts
<1>40. CASE provision
  BY <1>40 DEF provision, clusters, outcome, ghosts
<1>41. ASSUME NEW new \in BOOLEAN, NEW resume \in BOOLEAN,
             intake_node(new, resume)
      PROVE  (Open /\ Progress /\ Earned /\ Told /\ Fresh)'
  BY <1>41 DEF intake_node, Enter, default_rebuild_state
<1>42. ASSUME NEW from \in Stage, NEW resume \in BOOLEAN,
             rewind_to_stage(from, resume)
      PROVE  (Open /\ Progress /\ Earned /\ Told /\ Fresh)'
  BY <1>42 DEF rewind_to_stage, reset_rebuild_state, Enter,
       default_rebuild_state
<1>43. ASSUME NEW resume \in BOOLEAN,
             reset_e2e(resume)
      PROVE  (Open /\ Progress /\ Earned /\ Told /\ Fresh)'
  BY <1>43 DEF reset_e2e, reset_rebuild_state, Enter, default_rebuild_state
<1>44. ASSUME NEW resume \in BOOLEAN,
             targeted_fix(resume)
      PROVE  (Open /\ Progress /\ Earned /\ Told /\ Fresh)'
  <2>1. PICK from \in {Last, Last + 1} : Enter(FALSE, resume, from)
    BY <1>44, Zenon DEF targeted_fix
  <2>2. rebuild' = rebuild
    BY <1>44 DEF targeted_fix
  <2>3. QED
    BY <2>1, <2>2 DEF Enter
<1>45. QED
  BY <1>1, <1>2, <1>3, <1>4, <1>5, <1>6, <1>7, <1>8, <1>9, <1>10, <1>11,
       <1>12, <1>13, <1>14, <1>15, <1>16, <1>17, <1>18, <1>19, <1>20, <1>21,
       <1>22, <1>23, <1>24, <1>25, <1>26, <1>27, <1>28, <1>29, <1>30, <1>31,
       <1>32, <1>33, <1>34, <1>35, <1>36, <1>37, <1>38, <1>39, <1>40, <1>41,
       <1>42, <1>43, <1>44 DEF Next, Intake, ProgramStep, StageStep, RebuildStep,
       HardeningStep, E2eStep, ExitStep

\* The inductive invariant holds in every reachable state.
LEMMA Inductive == Spec => []IInv
<1>1. Init => IInv
  <2>1. Init => Flags
    BY Zenon DEF Init, Flags
  <2>2. Init => TypeOK
    BY <2>1, Constants DEF Flags, Init, TypeOK, Nodes, StageNodes, Stage, Last,
       StageStatus, Placement, RebuildState, default_rebuild_state,
       TestHardeningState, default_test_hardening_state, E2EState,
       default_e2e_state, Gate, Failure, Row
  <2>3. Init => Open /\ Progress /\ Earned /\ Told /\ Fresh
    BY Constants DEF Init, Open, Progress, Earned, Told, Fresh, StageNodes,
       TestNodes, E2eNodes, ExitNodes, Placement, default_rebuild_state
  <2>4. QED
    BY <2>2, <2>3 DEF IInv
<1>2. QED
  BY <1>1, SafetyStep, PTL DEF Spec

\* The checkpoint, the row and the position in the graph keep their types.
THEOREM BackHalfTyping == Spec => []TypeOK
<1>1. IInv => TypeOK
  BY DEF IInv
<1>2. QED
  BY <1>1, Inductive, PTL

\* No session is completed by a run that did not itself get past every
\* placement, the tests, e2e and the scan, or that owes a failure.
THEOREM CompletionIsEarned == Spec => []CompletedIsEarned
<1>1. IInv => CompletedIsEarned
  BY DEF IInv, Earned, Hardened, CompletedIsEarned
<1>2. QED
  BY <1>1, Inductive, PTL

\* A run that is not a resume is measured on a tree built after its last change.
THEOREM FreshRunsBuildLast == Spec => []FreshRunBuiltLast
<1>1. IInv => FreshRunBuiltLast
  BY DEF IInv, Fresh, FreshRunBuiltLast
<1>2. QED
  BY <1>1, Inductive, PTL

\* The row of a failed run names its first failure.
THEOREM FirstCauseIsTold == Spec => []FirstCauseTold
<1>1. IInv => FirstCauseTold
  BY DEF IInv, Told, FirstCauseTold
<1>2. QED
  BY <1>1, Inductive, PTL

\* Once a failure is on record no step of the run replaces it.
THEOREM FirstCauseIsKept == Spec => FirstCauseKept
<1> DEFINE Keeps == (failure # "none" /\ runs' = runs) => failure' = failure
<1>1. IInv /\ [Next]_vars => Keeps
  <2> SUFFICES ASSUME IInv, [Next]_vars, failure # "none", runs' = runs
               PROVE  failure' = failure
    OBVIOUS
  <2>1. node \in {"idle", "exit_draft", "exit_finalize"}
    BY DEF IInv, Open
  <2>2. runs \in Nat
    BY DEF IInv, TypeOK
  <2> HIDE DEF Keeps
  <2>3. CASE UNCHANGED vars
    BY <2>1, <2>2, <2>3 DEF vars, outcome
  <2>4. CASE Intake
    <3>1. runs' = runs + 1
      BY <2>4, Zenon DEF Intake, intake_node, rewind_to_stage, reset_e2e,
         targeted_fix, Enter
    <3>2. QED
      BY <2>2, <3>1
  <2>5. CASE StageStep
    BY <2>1, <2>2, <2>5 DEF StageStep, stage_skip, stage_draft,
         stage_approve, stage_escalate, outcome
  <2>6. CASE RebuildStep
    BY <2>1, <2>2, <2>6 DEF RebuildStep, rebuild_skip, rebuild_clean,
         rebuild_failed, rebuild_cannot_verify, rebuild_fix, rebuild_escalate
  <2>7. CASE HardeningStep
    BY <2>1, <2>2, <2>7 DEF HardeningStep, run_tests_measured,
         run_tests_unusable, run_tests_cannot_verify, test_fix,
         test_fix_no_sandbox, regression_gate, flake_triage, mint_tickets,
         exit_check, exit_escalate, RunTests
  <2>8. CASE E2eStep
    BY <2>1, <2>2, <2>8 DEF E2eStep, e2e_skip, e2e_gate_check,
         e2e_run_cannot_verify, e2e_run_boot_failed, e2e_run_suite, e2e_fix,
         e2e_fix_no_sandbox, e2e_escalate, E2eRun
  <2>9. CASE ExitStep
    BY <2>1, <2>2, <2>9 DEF ExitStep, metrics_compute,
         metrics_compute_no_sandbox, metrics_regression_record, exit_draft,
         exit_escalate_stage, exit_finalize, exit_finalize_degraded,
         exit_hook_skipped, MetricsCompute, Finish
  <2>10. CASE kill \/ sandbox_lost \/ provision
    BY <2>1, <2>2, <2>10 DEF kill, sandbox_lost, provision, outcome
  <2>11. QED
    BY <2>3, <2>4, <2>5, <2>6, <2>7, <2>8, <2>9, <2>10 DEF Next, ProgramStep
<1>2. IInv /\ [Next]_vars => [Keeps]_vars
  BY <1>1
<1>3. QED
  BY <1>2, Inductive, PTL DEF Spec, FirstCauseKept

-----------------------------------------------------------------------------
(* Why a run ends.  RunEnds itself needs fairness.  What is proved is that *)
(* every step of a run under way, and every fault, lowers a lexicographic  *)
(* measure of natural numbers: place in the run, steps before the stage's  *)
(* placement, faults to come, laps left, nodes left in the lap.            *)

\* Stages and clusters in the order a run passes them.
Here ==
    CASE node \in StageNodes                              -> IF at = P THEN P + 2 ELSE at
      [] node \in TestNodes                               -> P
      [] node \in E2eNodes                                -> P + 1
      [] node \in {"metrics_compute", "metrics_record"}   -> P + 3
      [] node \in {"exit_draft", "exit_finalize"}         -> P + 4
      [] OTHER                                            -> P + 5

\* Steps of a stage before its placement.
Ahead == CASE node = "draft" -> 2 [] node = "gate" -> 1 [] OTHER -> 0

\* Sandboxes that may still be lost, and provisioned again.
Faults == 2 * (MaxLosses - losses) + (IF sandbox THEN 0 ELSE 1)

Spent(n, cap) == IF n < cap THEN cap - n ELSE 0

\* Laps the cluster of this node has left.
LapsLeft ==
    CASE node \in {"rebuild", "rebuild_fix"}               -> Spent(rebuild[at].laps, MaxFix)
      [] node \in {"run_tests", "test_fix"}                -> Spent(hardening.laps, MaxTestFix)
      [] node \in {"e2e_gate_check", "e2e_run", "e2e_fix"} -> Spent(e2e.laps, MaxE2eFix)
      [] node = "metrics_compute"                          -> Spent(gate.attempt, MaxScans)
      [] OTHER                                             -> 0

\* Nodes of a cluster within one lap.  A fixer without a sandbox goes back
\* uncounted, to a node that will then give up.
Rank ==
    CASE node = "e2e_gate_check"                           -> 7
      [] node \in {"test_fix", "e2e_fix"} /\ ~sandbox      -> 6
      [] node \in {"rebuild", "run_tests", "e2e_run"}      -> 5
      [] node \in {"rebuild_fix", "flake_triage"}          -> 4
      [] node \in {"test_fix", "e2e_fix"} /\ sandbox       -> 4
      [] node = "mint_tickets"                             -> 3
      [] node \in {"exit_check", "metrics_compute"}        -> 2
      [] node = "exit_draft"                               -> 1
      [] OTHER                                             -> 0

Nearer ==
    \/ Here' > Here
    \/ Here' = Here /\ Ahead' < Ahead
    \/ Here' = Here /\ Ahead' = Ahead /\ Faults' < Faults
    \/ Here' = Here /\ Ahead' = Ahead /\ Faults' = Faults /\ LapsLeft' < LapsLeft
    \/ /\ Here' = Here /\ Ahead' = Ahead /\ Faults' = Faults /\ LapsLeft' = LapsLeft
       /\ Rank' < Rank

\* A fixer is only entered with a lap to spend.
LapsDue ==
    /\ losses <= MaxLosses
    /\ node = "rebuild_fix" => rebuild[at].laps < MaxFix
    /\ node = "test_fix" => hardening.laps < MaxTestFix
    /\ node = "e2e_fix" => e2e.laps < MaxE2eFix

\* What is compared is bounded on the side it moves to.
Grounded ==
    /\ Here \in 1..(P + 5) /\ Ahead \in Nat /\ Faults \in Nat
    /\ LapsLeft \in Nat /\ Rank \in Nat

\* The caps are natural numbers.
LEMMA Caps ==
    MaxFix \in Nat /\ MaxTestFix \in Nat /\ MaxE2eFix \in Nat /\ MaxLosses \in Nat
BY BackHalfAssumption DEF BackHalfAssumption

\* A fixer is reached by a route that has just compared the laps with their cap,
\* and between the two nothing counts a lap.
LEMMA LapsDueStep == IInv /\ LapsDue /\ [Next]_vars => LapsDue'
<1> SUFFICES ASSUME IInv, LapsDue, [Next]_vars PROVE LapsDue'
  OBVIOUS
<1> losses \in Nat
  BY DEF IInv, TypeOK
<1> USE Constants, Caps DEF LapsDue, Goto
<1>1. CASE UNCHANGED vars
  BY <1>1 DEF vars, clusters, outcome, ghosts
<1>2. CASE Intake
  <2>1. node' = "draft" /\ losses' = losses
    BY <1>2, Zenon DEF Intake, intake_node, rewind_to_stage, reset_e2e,
       targeted_fix, Enter
  <2>2. QED
    BY <2>1
<1>3. CASE stage_skip
  BY <1>3 DEF stage_skip, clusters, outcome, ghosts
<1>4. CASE stage_draft
  BY <1>4 DEF stage_draft, clusters, outcome, ghosts
<1>5. CASE stage_approve
  BY <1>5 DEF stage_approve, clusters, outcome, ghosts
<1>6. CASE stage_escalate
  BY <1>6 DEF stage_escalate, clusters, outcome, ghosts
<1>7. CASE rebuild_skip
  BY <1>7 DEF rebuild_skip, AfterRebuild, RebuildUnchanged, ghosts, outcome
<1>8. CASE rebuild_clean
  BY <1>8 DEF rebuild_clean, AfterRebuild, RebuildUnchanged, ghosts, outcome
<1>9. CASE rebuild_failed
  BY <1>9 DEF rebuild_failed, RebuildUnchanged, ghosts, outcome
<1>10. CASE rebuild_cannot_verify
  BY <1>10 DEF rebuild_cannot_verify, RebuildUnchanged, ghosts, outcome
<1>11. CASE rebuild_fix
  BY <1>11 DEF rebuild_fix, ghosts, outcome
<1>12. CASE rebuild_escalate
  BY <1>12 DEF rebuild_escalate, record_run_failure, ghosts
<1>13. CASE run_tests_measured
  BY <1>13 DEF run_tests_measured, RunTests, HardeningUnchanged
<1>14. CASE run_tests_unusable
  BY <1>14 DEF run_tests_unusable, RunTests, HardeningUnchanged
<1>15. CASE run_tests_cannot_verify
  BY <1>15 DEF run_tests_cannot_verify, RunTests, HardeningUnchanged
<1>16. CASE test_fix
  BY <1>16 DEF test_fix, HardeningUnchanged
<1>17. CASE test_fix_no_sandbox
  BY <1>17 DEF test_fix_no_sandbox, HardeningUnchanged
<1>18. CASE regression_gate
  BY <1>18 DEF regression_gate, record_run_failure, HardeningUnchanged
<1>19. CASE flake_triage
  BY <1>19 DEF flake_triage, HardeningUnchanged
<1>20. CASE mint_tickets
  BY <1>20 DEF mint_tickets, HardeningUnchanged
<1>21. CASE exit_check
  BY <1>21 DEF exit_check, HardeningUnchanged
<1>22. CASE exit_escalate
  BY <1>22 DEF exit_escalate, record_run_failure, HardeningUnchanged
<1>23. CASE e2e_skip
  BY <1>23 DEF e2e_skip, E2eUnchanged
<1>24. CASE e2e_gate_check
  BY <1>24 DEF e2e_gate_check, E2eUnchanged
<1>25. CASE e2e_run_cannot_verify
  BY <1>25 DEF e2e_run_cannot_verify, E2eRun, e2e_route_after_run, E2eUnchanged
<1>26. CASE e2e_run_boot_failed
  BY <1>26 DEF e2e_run_boot_failed, E2eRun, e2e_route_after_run, E2eUnchanged
<1>27. CASE e2e_run_suite
  BY <1>27 DEF e2e_run_suite, E2eRun, e2e_route_after_run, E2eUnchanged
<1>28. CASE e2e_fix
  BY <1>28 DEF e2e_fix, E2eUnchanged
<1>29. CASE e2e_fix_no_sandbox
  BY <1>29 DEF e2e_fix_no_sandbox, E2eUnchanged
<1>30. CASE e2e_escalate
  BY <1>30 DEF e2e_escalate, record_run_failure, E2eUnchanged
<1>31. CASE metrics_compute
  BY <1>31 DEF metrics_compute, MetricsCompute, ExitUnchanged
<1>32. CASE metrics_compute_no_sandbox
  BY <1>32 DEF metrics_compute_no_sandbox, MetricsCompute, ExitUnchanged
<1>33. CASE metrics_regression_record
  BY <1>33 DEF metrics_regression_record, ExitUnchanged
<1>34. CASE exit_draft
  BY <1>34 DEF exit_draft, ExitUnchanged
<1>35. CASE exit_escalate_stage
  BY <1>35 DEF exit_escalate_stage, ExitUnchanged
<1>36. CASE exit_finalize
  BY <1>36 DEF exit_finalize, Finish, ExitUnchanged
<1>37. CASE exit_finalize_degraded
  BY <1>37 DEF exit_finalize_degraded, Finish, ExitUnchanged
<1>38. CASE exit_hook_skipped
  BY <1>38 DEF exit_hook_skipped, Finish, ExitUnchanged
<1>39. CASE kill
  BY <1>39 DEF kill, clusters, outcome
<1>40. CASE sandbox_lost
  BY <1>40 DEF sandbox_lost, clusters, outcome, ghosts
<1>41. CASE provision
  BY <1>41 DEF provision, clusters, outcome, ghosts
<1>42. QED
  BY <1>1, <1>2, <1>3, <1>4, <1>5, <1>6, <1>7, <1>8, <1>9, <1>10, <1>11, <1>12,
     <1>13, <1>14, <1>15, <1>16, <1>17, <1>18, <1>19, <1>20, <1>21, <1>22,
     <1>23, <1>24, <1>25, <1>26, <1>27, <1>28, <1>29, <1>30, <1>31, <1>32,
     <1>33, <1>34, <1>35, <1>36, <1>37, <1>38, <1>39, <1>40, <1>41 DEF Next,
     ProgramStep, StageStep, RebuildStep, HardeningStep, E2eStep, ExitStep

\* The measure is made of natural numbers, and the place in the run is bounded.
LEMMA Measured == IInv /\ LapsDue => Grounded
<1> SUFFICES ASSUME IInv, LapsDue PROVE Grounded
  OBVIOUS
<1> USE Constants, Caps DEF IInv, TypeOK
<1>1. Here \in 1..(P + 5)
  <2>1. node \in StageNodes => at \in Placement
    OBVIOUS
  <2> HIDE DEF IInv, TypeOK
  <2>2. QED
    BY <2>1 DEF Here, Placement, StageNodes
<1>2. Ahead \in Nat /\ Rank \in Nat
  BY DEF Ahead, Rank
<1>3. Faults \in Nat
  BY DEF Faults, LapsDue
<1>4. \A n, cap \in Nat : Spent(n, cap) \in Nat
  BY DEF Spent
<1>5. LapsLeft \in Nat
  <2>1. hardening.laps \in Nat /\ e2e.laps \in Nat /\ gate.attempt \in Nat
    BY DEF TestHardeningState, E2EState, Gate
  <2>2. node \in StageNodes => rebuild[at].laps \in Nat
    BY DEF RebuildState
  <2> HIDE DEF IInv, TypeOK
  <2>3. QED
    BY <1>4, <2>1, <2>2 DEF LapsLeft, StageNodes
<1>6. QED
  BY <1>1, <1>2, <1>3, <1>5 DEF Grounded

\* Every placement leads on in the order of the run.
LEMMA AfterRebuildNearer ==
    ASSUME TypeOK, node \in StageNodes, AfterRebuild
    PROVE  Here' > Here
<1>1. at \in Placement
  BY DEF TypeOK
<1>2. CASE at = P
  BY <1>1, <1>2, Constants DEF AfterRebuild, Goto, Here, StageNodes, TestNodes,
     E2eNodes, Hardening, Placement
<1>3. CASE at = Hardening
  BY <1>1, <1>3, Constants DEF AfterRebuild, Goto, Here, StageNodes, TestNodes,
     E2eNodes, Hardening, Placement
<1>4. CASE at # P /\ at # Hardening
  <2>1. node' = "draft" /\ at' = at + 1 /\ at' # P /\ Here = at
    BY <1>1, <1>4, Constants DEF AfterRebuild, Goto, Hardening, Placement,
       Here, StageNodes, TestNodes, E2eNodes
  <2>2. QED
    BY <1>1, <2>1, Constants DEF Here, StageNodes, TestNodes, E2eNodes, Placement
<1>5. QED
  BY <1>2, <1>3, <1>4

\* Every step of a run under way, kills and lost sandboxes among them, brings it
\* nearer.
LEMMA NearerStep == IInv /\ LapsDue /\ node # "idle" /\ Next => Nearer
<1> SUFFICES ASSUME IInv, LapsDue, node # "idle", Next PROVE Nearer
  OBVIOUS
<1> USE Constants, Caps DEF IInv, TypeOK, LapsDue, Goto, Nearer, Here, Ahead,
        Faults, LapsLeft, Spent, Rank, Nodes, StageNodes, TestNodes, E2eNodes,
        ExitNodes, Placement, Progress, Hardening, Last
<1>1. ~Intake
  BY Zenon DEF Intake, intake_node, rewind_to_stage, reset_e2e, targeted_fix, Enter
<1>2. CASE stage_skip
  BY <1>2 DEF stage_skip, clusters, outcome, ghosts, RebuildState,
     TestHardeningState, E2EState, Gate
<1>3. CASE stage_draft
  BY <1>3 DEF stage_draft, clusters, outcome, ghosts, RebuildState,
     TestHardeningState, E2EState, Gate
<1>4. CASE stage_approve
  BY <1>4 DEF stage_approve, clusters, outcome, ghosts, RebuildState,
     TestHardeningState, E2EState, Gate
<1>5. CASE stage_escalate
  BY <1>5 DEF stage_escalate, clusters, outcome, ghosts, RebuildState,
     TestHardeningState, E2EState, Gate
<1>6. CASE rebuild_skip
  <2>1. Here' > Here
    BY <1>6, AfterRebuildNearer DEF rebuild_skip
  <2>2. QED
    BY <2>1 DEF Nearer
<1>7. CASE rebuild_clean
  <2>1. Here' > Here
    BY <1>7, AfterRebuildNearer DEF rebuild_clean
  <2>2. QED
    BY <2>1 DEF Nearer
<1>8. CASE rebuild_failed
  BY <1>8 DEF rebuild_failed, RebuildUnchanged, ghosts, outcome, RebuildState,
     TestHardeningState, E2EState, Gate
<1>9. CASE rebuild_cannot_verify
  BY <1>9 DEF rebuild_cannot_verify, RebuildUnchanged, ghosts, outcome,
     RebuildState, TestHardeningState, E2EState, Gate
<1>10. CASE rebuild_fix
  <2>1. at \in Placement /\ at' = at /\ node = "rebuild_fix" /\ node' = "rebuild"
    BY <1>10 DEF rebuild_fix
  <2>2. rebuild[at].laps \in Nat /\ rebuild[at].laps < MaxFix
    BY <2>1 DEF RebuildState
  <2>3. rebuild'[at].laps = rebuild[at].laps + 1
    BY <1>10, <2>1 DEF rebuild_fix, RebuildState
  <2> HIDE DEF IInv, TypeOK, LapsDue, Progress
  <2>4. LapsLeft' < LapsLeft
    BY <2>1, <2>2, <2>3
  <2>5. Here' = Here /\ Ahead' = Ahead /\ Faults' = Faults
    BY <1>10, <2>1 DEF rebuild_fix
  <2>6. QED
    BY <2>4, <2>5 DEF Nearer
<1>11. CASE rebuild_escalate
  <2>1. node = "rebuild_escalate" /\ node' \in {"idle", "exit_draft"}
    BY <1>11, Zenon DEF rebuild_escalate
  <2>2. at \in 1..P
    BY <2>1
  <2> HIDE DEF IInv, TypeOK, LapsDue, Progress
  <2>3. Here \in 1..(P + 2) /\ Here' \in {P + 4, P + 5}
    BY <2>1, <2>2
  <2>4. Here' > Here
    BY <2>3
  <2>5. QED
    BY <2>4, Zenon DEF Nearer
<1>12. CASE run_tests_measured
  BY <1>12 DEF run_tests_measured, RunTests, HardeningUnchanged, RebuildState,
     TestHardeningState, E2EState, Gate
<1>13. CASE run_tests_unusable
  BY <1>13 DEF run_tests_unusable, RunTests, HardeningUnchanged, RebuildState,
     TestHardeningState, E2EState, Gate
<1>14. CASE run_tests_cannot_verify
  <2>1. node = "run_tests" /\ node' = "regression_gate"
    <3> DEFINE after == [hardening EXCEPT !.cannot_verify = TRUE]
    <3>1. after.cannot_verify
      BY DEF TestHardeningState
    <3>2. RunTests(after)
      BY <1>14, Zenon DEF run_tests_cannot_verify
    <3> HIDE DEF after, IInv, TypeOK, LapsDue, Progress
    <3>3. QED
      BY <3>1, <3>2 DEF RunTests
  <2>2. UNCHANGED <<sandbox, losses>>
    BY <1>14 DEF run_tests_cannot_verify, RunTests, HardeningUnchanged
  <2>3. hardening.laps \in Nat
    BY DEF TestHardeningState
  <2>4. Here' = Here /\ Ahead' = Ahead /\ Faults' = Faults
    BY <2>1, <2>2 DEF Here, Ahead, Faults
  <2>5. LapsLeft' = 0 /\ LapsLeft \in Nat /\ Rank' < Rank
    BY <2>1, <2>3 DEF LapsLeft, Spent, Rank
  <2> HIDE DEF IInv, TypeOK, LapsDue, Progress, Here, Ahead, Faults, LapsLeft, Rank
  <2>6. QED
    BY <2>4, <2>5 DEF Nearer
<1>15. CASE test_fix
  BY <1>15 DEF test_fix, HardeningUnchanged, RebuildState, TestHardeningState,
     E2EState, Gate
<1>16. CASE test_fix_no_sandbox
  BY <1>16 DEF test_fix_no_sandbox, HardeningUnchanged, RebuildState,
     TestHardeningState, E2EState, Gate
<1>17. CASE regression_gate
  BY <1>17 DEF regression_gate, record_run_failure, HardeningUnchanged,
     RebuildState, TestHardeningState, E2EState, Gate
<1>18. CASE flake_triage
  BY <1>18 DEF flake_triage, HardeningUnchanged, RebuildState,
     TestHardeningState, E2EState, Gate
<1>19. CASE mint_tickets
  BY <1>19 DEF mint_tickets, HardeningUnchanged, RebuildState,
     TestHardeningState, E2EState, Gate
<1>20. CASE exit_check
  <2>1. node = "exit_check" /\ node' \in {"e2e_gate_check", "exit_escalate"}
    BY <1>20, Zenon DEF exit_check
  <2>2. UNCHANGED <<sandbox, losses>>
    BY <1>20 DEF exit_check, HardeningUnchanged
  <2>3. CASE node' = "e2e_gate_check"
    BY <2>1, <2>3
  <2>4. CASE node' = "exit_escalate"
    BY <2>1, <2>2, <2>4
  <2>5. QED
    BY <2>1, <2>3, <2>4
<1>21. CASE exit_escalate
  BY <1>21 DEF exit_escalate, record_run_failure, HardeningUnchanged,
     RebuildState, TestHardeningState, E2EState, Gate
<1>22. CASE e2e_skip
  BY <1>22 DEF e2e_skip, E2eUnchanged, RebuildState, TestHardeningState,
     E2EState, Gate
<1>23. CASE e2e_gate_check
  BY <1>23 DEF e2e_gate_check, E2eUnchanged, RebuildState, TestHardeningState,
     E2EState, Gate
<1>24. CASE e2e_run_cannot_verify
  BY <1>24 DEF e2e_run_cannot_verify, E2eRun, e2e_route_after_run, E2eUnchanged,
     RebuildState, TestHardeningState, E2EState, Gate
<1>25. CASE e2e_run_boot_failed
  BY <1>25 DEF e2e_run_boot_failed, E2eRun, e2e_route_after_run, E2eUnchanged,
     RebuildState, TestHardeningState, E2EState, Gate
<1>26. CASE e2e_run_suite
  BY <1>26 DEF e2e_run_suite, E2eRun, e2e_route_after_run, E2eUnchanged,
     RebuildState, TestHardeningState, E2EState, Gate
<1>27. CASE e2e_fix
  BY <1>27 DEF e2e_fix, E2eUnchanged, RebuildState, TestHardeningState,
     E2EState, Gate
<1>28. CASE e2e_fix_no_sandbox
  BY <1>28 DEF e2e_fix_no_sandbox, E2eUnchanged, RebuildState,
     TestHardeningState, E2EState, Gate
<1>29. CASE e2e_escalate
  BY <1>29 DEF e2e_escalate, record_run_failure, E2eUnchanged, RebuildState,
     TestHardeningState, E2EState, Gate
<1>30. CASE metrics_compute
  <2>1. PICK reasons \in BOOLEAN : MetricsCompute(reasons, gate.attempt + 1)
    BY <1>30 DEF metrics_compute
  <2>2. /\ node = "metrics_compute" /\ gate.attempt \in Nat
        /\ gate'.attempt = gate.attempt + 1 /\ UNCHANGED <<sandbox, losses>>
    BY <2>1 DEF MetricsCompute, ExitUnchanged, Gate
  <2>3. \/ node' = "exit_draft" \/ node' = "metrics_record"
        \/ node' = "metrics_compute" /\ gate.attempt + 1 < MaxScans
    BY <2>1 DEF MetricsCompute
  <2>4. CASE node' = "exit_draft"
    BY <2>2, <2>4
  <2>5. CASE node' = "metrics_record"
    BY <2>2, <2>5
  <2>6. CASE node' = "metrics_compute" /\ gate.attempt + 1 < MaxScans
    <3> HIDE DEF IInv, TypeOK, LapsDue, Progress
    <3>1. Spent(gate.attempt + 1, MaxScans) < Spent(gate.attempt, MaxScans)
      BY <2>2, <2>6 DEF Spent
    <3>2. LapsLeft' < LapsLeft
      BY <2>2, <2>6, <3>1 DEF LapsLeft
    <3>3. Here' = Here /\ Ahead' = Ahead /\ Faults' = Faults
      BY <2>2, <2>6 DEF Here, Ahead, Faults
    <3>4. QED
      BY <3>2, <3>3, Zenon DEF Nearer
  <2>7. QED
    BY <2>3, <2>4, <2>5, <2>6
<1>31. CASE metrics_compute_no_sandbox
  BY <1>31 DEF metrics_compute_no_sandbox, MetricsCompute, ExitUnchanged,
     RebuildState, TestHardeningState, E2EState, Gate
<1>32. CASE metrics_regression_record
  BY <1>32 DEF metrics_regression_record, ExitUnchanged, RebuildState,
     TestHardeningState, E2EState, Gate
<1>33. CASE exit_draft
  BY <1>33 DEF exit_draft, ExitUnchanged, RebuildState, TestHardeningState,
     E2EState, Gate
<1>34. CASE exit_escalate_stage
  BY <1>34 DEF exit_escalate_stage, ExitUnchanged, RebuildState,
     TestHardeningState, E2EState, Gate
<1>35. CASE exit_finalize
  BY <1>35 DEF exit_finalize, Finish, ExitUnchanged, RebuildState,
     TestHardeningState, E2EState, Gate
<1>36. CASE exit_finalize_degraded
  BY <1>36 DEF exit_finalize_degraded, Finish, ExitUnchanged, RebuildState,
     TestHardeningState, E2EState, Gate
<1>37. CASE exit_hook_skipped
  BY <1>37 DEF exit_hook_skipped, Finish, ExitUnchanged, RebuildState,
     TestHardeningState, E2EState, Gate
<1>38. CASE kill
  <2>1. node' = "idle" /\ Here' = P + 5
    BY <1>38 DEF kill
  <2>2. Here \in 1..(P + 4)
    <3>1. node \in StageNodes => at \in Placement
      OBVIOUS
    <3>2. node \in Nodes /\ node # "idle"
      OBVIOUS
    <3> HIDE DEF IInv, TypeOK, Progress
    <3>3. QED
      BY <3>1, <3>2
  <2>3. QED
    BY <2>1, <2>2 DEF Nearer
<1>39. CASE sandbox_lost
  BY <1>39 DEF sandbox_lost, clusters, outcome, ghosts, RebuildState,
     TestHardeningState, E2EState, Gate
<1>40. CASE provision
  BY <1>40 DEF provision, clusters, outcome, ghosts, RebuildState,
     TestHardeningState, E2EState, Gate
<1>41. QED
  BY <1>1, <1>2, <1>3, <1>4, <1>5, <1>6, <1>7, <1>8, <1>9, <1>10, <1>11, <1>12,
     <1>13, <1>14, <1>15, <1>16, <1>17, <1>18, <1>19, <1>20, <1>21, <1>22,
     <1>23, <1>24, <1>25, <1>26, <1>27, <1>28, <1>29, <1>30, <1>31, <1>32,
     <1>33, <1>34, <1>35, <1>36, <1>37, <1>38, <1>39, <1>40 DEF Next,
     ProgramStep, StageStep, RebuildStep, HardeningStep, E2eStep, ExitStep
\* A run that has started winds down: whatever the tests, builds and scans find,
\* and wherever it is killed or loses its sandbox, each step lowers a measure
\* that has no infinite descent, so a run under way takes finitely many steps.
THEOREM RunsWindDown == Spec => []Grounded /\ [][node # "idle" => Nearer]_vars
<1> DEFINE Due == IInv /\ LapsDue
           Closer == node # "idle" => Nearer
<1>1. Init => LapsDue
  BY Caps DEF Init, LapsDue
<1>2. Spec => []LapsDue
  BY <1>1, LapsDueStep, Inductive, PTL DEF Spec
<1>3. IInv /\ LapsDue /\ [Next]_vars => [Closer]_vars
  BY NearerStep
<1>4. QED
  BY <1>2, <1>3, Measured, Inductive, PTL DEF Spec

=============================================================================
