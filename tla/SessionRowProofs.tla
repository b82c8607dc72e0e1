--------------------------- MODULE SessionRowProofs ---------------------------
(***************************************************************************)
(* The reopen guard for any number of confirmations and runs.  That a      *)
(* confirmation is spent once is not inductive: the proof follows it from  *)
(* the meta flag to the run that took it, and shows that only such a run   *)
(* can come to write over a verdict.                                       *)
(***************************************************************************)
EXTENDS SessionRow, TLAPS

\* Every confirmation is in the flag, in a run, or spent.
Accounted ==
    /\ reopens <= confirms
    /\ confirm_reopen \/ took => reopens + 1 <= confirms
    /\ confirm_reopen /\ took => reopens + 2 <= confirms

\* A run past the guard of a finished row has its confirmation with it.
PastGuard ==
    is_finished_with_verdict =>
        /\ pc \in {"scaffold", "stage", "gate", "close"} => took
        /\ pc = "route" => took \/ reopen_blocked

\* The Boolean part of the type invariant, which the SMT backend is not told
\* apart from any other formula.
Flags ==
    /\ awaiting \in BOOLEAN /\ registered \in BOOLEAN
    /\ confirm_reopen \in BOOLEAN /\ teardown \in BOOLEAN
    /\ reopen_blocked \in BOOLEAN /\ touched \in BOOLEAN
    /\ took \in BOOLEAN /\ selected \in BOOLEAN

IInv == TypeOK /\ Accounted /\ PastGuard /\ NoVerdictWhileRunning

\* Every step keeps the inductive invariant: nothing but a run past the guard
\* takes a verdict off the row.
LEMMA NextIInv == IInv /\ [Next]_vars => IInv'
<1> SUFFICES ASSUME IInv, [Next]_vars PROVE IInv'
  OBVIOUS
<1> USE DEF IInv, TypeOK, Accounted, PastGuard, NoVerdictWhileRunning,
            is_finished_with_verdict, Nodes, Statuses, Terminal,
            row, meta, ghost
<1>1. CASE UNCHANGED vars
  BY <1>1 DEF vars
<1>2. CASE provision_session
  BY <1>2 DEF provision_session
<1>20. CASE provision_ready
  <2>1. Flags'
    BY <1>20, Zenon DEF provision_ready, Flags
  <2>2. QED
    BY <1>20, <2>1 DEF provision_ready, Flags
<1>21. CASE provision_failed
  <2>1. Flags'
    BY <1>21, Zenon DEF provision_failed, Flags
  <2>2. QED
    BY <1>21, <2>1 DEF provision_failed, Flags
<1>3. CASE start_run
  <2>1. Flags'
    BY <1>3, Zenon DEF start_run, Flags
  <2>2. QED
    BY <1>3, <2>1 DEF start_run, Flags
<1>4. ASSUME NEW lever, run_session_action(lever) PROVE IInv'
  BY <1>4, SessionRowAssumption DEF run_session_action, SessionRowAssumption
<1>5. CASE intake_node
  <2>1. Flags'
    BY <1>5, Zenon DEF intake_node, Flags
  <2>2. QED
    BY <1>5, <2>1 DEF intake_node, Flags
<1>6. CASE intake_set_aside_failed
  BY <1>6 DEF intake_set_aside_failed
<1>7. CASE _route_after_intake
  BY <1>7 DEF _route_after_intake
<1>8. CASE scaffold_node
  <2>1. CASE registered
    <3>1. Flags'
      BY <1>8, <2>1, Zenon DEF scaffold_node, touch_run, WriteStatus, Flags
    <3>2. QED
      BY <1>8, <2>1, <3>1 DEF scaffold_node, touch_run, WriteStatus, Flags
  <2>2. CASE ~registered
    BY <1>8, <2>2 DEF scaffold_node
  <2>3. QED
    BY <2>1, <2>2
<1>9. CASE gate_pause
  BY <1>9 DEF gate_pause
<1>10. ASSUME NEW approved \in BOOLEAN, gate_resume(approved) PROVE IInv'
  BY <1>10 DEF gate_resume
<1>11. ASSUME NEW s \in Terminal, close_session(s) PROVE IInv'
  BY <1>11 DEF close_session
<1>12. CASE close_session_update
  \* a run that reaches its close has a status to write
  <2>1. CASE closing \in Terminal
    <3>1. Flags'
      BY <1>12, <2>1, Zenon DEF close_session_update, WriteStatus, Flags
    <3>2. QED
      BY <1>12, <2>1, <3>1 DEF close_session_update, WriteStatus, Flags
  <2>2. CASE closing = "none"
    <3>1. Flags'
      BY <1>12, <2>2, Zenon DEF close_session_update, WriteStatus, Flags
    <3>2. QED
      BY <1>12, <2>2, <3>1 DEF close_session_update, WriteStatus, Flags
  <2>3. QED
    BY <2>1, <2>2
<1>13. CASE escalate_and_go_on
  BY <1>13 DEF escalate_and_go_on, WriteStatus
<1>14. CASE end_session_container
  <2>1. Flags'
    BY <1>14, Zenon DEF end_session_container, Flags
  <2>2. QED
    BY <1>14, <2>1 DEF end_session_container, Flags
<1>15. CASE sandbox_terminated
  <2>1. Flags'
    BY <1>15, Zenon DEF sandbox_terminated, Flags
  <2>2. QED
    BY <1>15, <2>1 DEF sandbox_terminated, Flags
<1>16. CASE _list_drainable_sessions
  BY <1>16 DEF _list_drainable_sessions
<1>17. CASE drain
  <2>1. Flags'
    BY <1>17, Zenon DEF drain, Flags
  <2>2. QED
    BY <1>17, <2>1 DEF drain, Flags
<1>18. CASE restart
  BY <1>18 DEF restart
<1>19. QED
  BY <1>1, <1>2, <1>3, <1>4, <1>5, <1>6, <1>7, <1>8, <1>9, <1>10, <1>11,
     <1>12, <1>13, <1>14, <1>15, <1>16, <1>17, <1>18, <1>20, <1>21
     DEF Next, RunStep

\* The inductive invariant holds in every reachable state.
LEMMA Inductive == Spec => []IInv
<1>1. Init => IInv
  <2>1. Init => Flags
    BY Zenon DEF Init, Flags
  <2>2. QED
    BY <2>1 DEF Flags, Init, IInv, TypeOK, Accounted, PastGuard, NoVerdictWhileRunning,
         is_finished_with_verdict, Nodes, Statuses, Terminal
<1>2. QED
  BY <1>1, NextIInv, PTL DEF Spec

\* The row, the flags and the run keep their types: the status stays within
\* the vocabulary of the table's CHECK constraint.
THEOREM RowTyping == Spec => []TypeOK
<1>1. IInv => TypeOK
  BY DEF IInv
<1>2. QED
  BY <1>1, Inductive, PTL

\* Runs replace at most as many verdicts as confirmations were given.
THEOREM OneShotConfirmation == Spec => []OneReopenPerConfirmation
<1>1. IInv => OneReopenPerConfirmation
  BY DEF IInv, TypeOK, Accounted, OneReopenPerConfirmation
<1>2. QED
  BY <1>1, Inductive, PTL

\* No verdict of an earlier attempt stands on the row of a run that touched it.
THEOREM RunningRowIsOpen == Spec => []NoVerdictWhileRunning
<1>1. IInv => NoVerdictWhileRunning
  BY DEF IInv
<1>2. QED
  BY <1>1, Inductive, PTL
=============================================================================
