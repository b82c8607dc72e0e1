------------------------------ MODULE SessionRow ------------------------------
(***************************************************************************)
(* The durable row of a session (dbo.sessions) and the guard that keeps a  *)
(* finished session closed: who writes the row, and how a confirmation     *)
(* reaches the intake of the run it was given for.                         *)
(*                                                                         *)
(* The row is shared by the graph run of the agent process, the HTTP       *)
(* actions of sessions_api.py and the deploy_drain.py of a CI runner.      *)
(* The confirmation is process memory (sandbox/registry.py): it goes when  *)
(* the sandbox is popped and when the agent restarts.  reopen_blocked is a *)
(* channel of the durable checkpoint.                                      *)
(***************************************************************************)
EXTENDS Integers

CONSTANTS
    MaxConfirms,   \* bound: confirmations given
    MaxRuns        \* bound: runs started

SessionRowAssumption == MaxConfirms \in Nat /\ MaxRuns \in Nat
ASSUME SessionRowAssumption

VARIABLES
    pc,              \* the node the run is at; "idle" when there is none
    status,          \* the row's status and failure_stage
    awaiting,        \* the row's awaiting_gate
    existing,        \* what the provision under way read of the row
    registered,      \* a sandbox is registered for the thread
    confirm_reopen,  \* the meta flag
    reopen_blocked,  \* the checkpoint channel
    touched,         \* ghost: this run's scaffold has touched the row
    took,            \* ghost: this run took a confirmation not used up yet
    closing,         \* the status close_session is about to write
    teardown,        \* end_session_container is scheduled
    selected,        \* the drain has this row in its list
    confirms,        \* ghost: confirmations given
    reopens,         \* ghost: verdicts that runs have replaced
    runs             \* runs started

row   == <<status, awaiting>>
meta  == <<registered, confirm_reopen, teardown>>
ghost == <<confirms, reopens, runs>>
vars  == <<pc, row, existing, meta, reopen_blocked, touched, took, closing, selected, ghost>>

\* "not_ready" is status "failed" with failure_stage "exit", "failed" a failure
\* anywhere else; "none" is no row.
Terminal == {"completed", "not_ready", "failed", "rejected"}
Statuses == {"none", "in_progress"} \cup Terminal

Nodes == {"idle", "intake", "route", "scaffold", "stage", "gate", "close"}

is_finished_with_verdict == status \in {"completed", "not_ready"}

Init ==
    /\ pc = "idle" /\ status = "none" /\ awaiting = FALSE
    /\ existing = "off"
    /\ registered = FALSE /\ confirm_reopen = FALSE /\ teardown = FALSE
    /\ reopen_blocked = FALSE /\ touched = FALSE /\ took = FALSE
    /\ closing = "none" /\ selected = FALSE
    /\ confirms = 0 /\ reopens = 0 /\ runs = 0

-----------------------------------------------------------------------------
(* sessions_api.py                                                         *)

\* The row is read before the container is provisioned, which takes minutes.
provision_session ==
    /\ existing = "off"
    /\ existing' = IF status \in {"none", "in_progress"} THEN "open" ELSE "closed"
    /\ UNCHANGED <<pc, row, meta, reopen_blocked, touched, took, closing,
                   selected, ghost>>

provision_ready ==
    /\ existing # "off" /\ existing' = "off"
    /\ registered' = TRUE
    /\ status' = IF status = "none" THEN "in_progress" ELSE status
    /\ UNCHANGED <<pc, awaiting, confirm_reopen, teardown, reopen_blocked,
                   touched, took, closing, selected, ghost>>

\* The half-made container is torn down, and the row closed -- unless it was
\* over already when it was read.
provision_failed ==
    /\ existing # "off" /\ existing' = "off"
    /\ registered' = FALSE /\ confirm_reopen' = FALSE
    /\ status' = IF existing = "open" THEN "failed" ELSE status
    /\ UNCHANGED <<pc, awaiting, teardown, reopen_blocked, touched, took,
                   closing, selected, ghost>>

\* confirm-reopen, whatever the row says; the levers of a run that is over
\* (rewind-to-stage, targeted-fix, reset-e2e) set the same flag.
run_session_action(lever) ==
    /\ confirms < MaxConfirms
    /\ \/ lever = "confirm-reopen"
       \/ lever = "rewind-to-stage" /\ status \in {"failed", "not_ready"}
       \/ lever = "targeted-fix" /\ status = "not_ready"
       \/ lever = "reset-e2e" /\ is_finished_with_verdict
    /\ confirm_reopen' = TRUE /\ confirms' = confirms + 1
    /\ UNCHANGED <<pc, row, existing, registered, teardown, reopen_blocked, touched,
                   took, closing, selected, reopens, runs>>

\* A message, a Resume click, or the blank run of a tab that reattaches: none of
\* them looks at the row.
start_run ==
    /\ pc = "idle" /\ status # "none" /\ runs < MaxRuns
    /\ pc' = "intake" /\ touched' = FALSE /\ took' = FALSE /\ runs' = runs + 1
    /\ UNCHANGED <<row, existing, meta, reopen_blocked, closing, selected, confirms, reopens>>

-----------------------------------------------------------------------------
(* The graph run.                                                          *)

\* (mutant) the flag is read without being taken
intake_peeks ==
    /\ pc = "intake" /\ pc' = "route"
    /\ took' = (is_finished_with_verdict /\ confirm_reopen)
    /\ reopen_blocked' =
         (reopen_blocked \/ (is_finished_with_verdict /\ ~confirm_reopen))
    /\ UNCHANGED <<row, existing, meta, touched, closing, selected, ghost>>

\* A finished row needs the flag, which is popped; reopen_blocked is only ever
\* set.
intake_node ==
    /\ pc = "intake" /\ pc' = "route"
    /\ IF is_finished_with_verdict
       THEN /\ confirm_reopen' = FALSE /\ took' = confirm_reopen
            /\ reopen_blocked' = (reopen_blocked \/ ~confirm_reopen)
       ELSE UNCHANGED <<confirm_reopen, took, reopen_blocked>>
    /\ UNCHANGED <<row, existing, registered, teardown, touched, closing, selected, ghost>>

\* Writes what the run closes the row with; a verdict that is not one any more
\* counts as replaced.
WriteStatus(s) ==
    /\ status' = s
    /\ LET replaced == is_finished_with_verdict /\ s \notin {"completed", "not_ready"}
       IN  /\ reopens' = IF replaced THEN reopens + 1 ELSE reopens
           /\ took' = (took /\ ~replaced)

\* Interrupted work that cannot be set aside closes the row and ends the run,
\* past the guard; the sandbox stays.
intake_set_aside_failed ==
    /\ pc = "intake" /\ registered
    /\ ~is_finished_with_verdict \/ confirm_reopen
    /\ pc' = "close" /\ closing' = "failed"
    /\ took' = (is_finished_with_verdict /\ confirm_reopen)
    /\ confirm_reopen' = (confirm_reopen /\ ~is_finished_with_verdict)
    /\ UNCHANGED <<row, existing, registered, teardown, reopen_blocked, touched, selected, ghost>>

_route_after_intake ==
    /\ pc = "route"
    /\ pc' = IF reopen_blocked THEN "idle" ELSE "scaffold"
    /\ UNCHANGED <<row, existing, meta, reopen_blocked, touched, took, closing, selected, ghost>>

\* (mutant) touch_run leaves the outcome of the previous attempt in the row
touch_run_keeps_outcome ==
    /\ WriteStatus(IF status \in Terminal THEN status ELSE "in_progress")
    /\ awaiting' = FALSE

touch_run == WriteStatus("in_progress") /\ awaiting' = FALSE

\* Without a sandbox scaffold touches nothing, and the run goes on.
scaffold_node ==
    /\ pc = "scaffold" /\ pc' = "stage"
    /\ touched' = registered
    /\ IF registered THEN touch_run ELSE UNCHANGED <<row, existing, took, reopens>>
    /\ UNCHANGED <<existing, meta, reopen_blocked, closing, selected, confirms, runs>>

gate_pause ==
    /\ pc = "stage" /\ pc' = "gate"
    /\ awaiting' = (awaiting \/ registered)
    /\ UNCHANGED <<status, existing, meta, reopen_blocked, touched, took, closing, selected, ghost>>

\* Approval clears awaiting_gate in any case, a rejection only in a sandbox.
gate_resume(approved) ==
    /\ pc = "gate" /\ pc' = "stage"
    /\ awaiting' = (awaiting /\ ~approved /\ ~registered)
    /\ UNCHANGED <<status, existing, meta, reopen_blocked, touched, took, closing, selected, ghost>>

\* exit_finalize_node, an escalation, or no_new_work: close_session schedules the
\* teardown, then waits for the database.
close_session(s) ==
    /\ pc = "stage" /\ pc' = "close" /\ closing' = s
    /\ teardown' = TRUE
    /\ UNCHANGED <<row, existing, registered, confirm_reopen, reopen_blocked, touched,
                   took, selected, ghost>>

close_session_update ==
    /\ pc = "close" /\ pc' = "idle"
    /\ WriteStatus(closing) /\ closing' = "none"
    /\ touched' = FALSE
    /\ UNCHANGED <<awaiting, existing, meta, reopen_blocked, selected, confirms, runs>>

\* A rebuild, e2e or test-hardening escalation closes the row but keeps the
\* sandbox: its run goes on into metrics-exit.
escalate_and_go_on ==
    /\ pc = "stage"
    /\ WriteStatus("failed")
    /\ UNCHANGED <<pc, awaiting, existing, meta, reopen_blocked, touched, closing,
                   selected, confirms, runs>>

-----------------------------------------------------------------------------
(* The sandbox registry, the drain, and the process.                       *)

\* registry.pop takes every meta flag of the thread along.
end_session_container ==
    /\ teardown /\ teardown' = FALSE
    /\ registered' = FALSE
    /\ confirm_reopen' = (confirm_reopen /\ ~registered)
    /\ UNCHANGED <<pc, row, existing, reopen_blocked, touched, took, closing, selected, ghost>>

\* The idle reaper, a phantom's eviction, "Stop container".
sandbox_terminated ==
    /\ registered
    /\ registered' = FALSE /\ confirm_reopen' = FALSE
    /\ UNCHANGED <<pc, row, existing, teardown, reopen_blocked, touched, took, closing,
                   selected, ghost>>

\* (mutant) the drain writes its reason where the status belongs
drain_with_reason ==
    /\ selected /\ selected' = FALSE
    /\ status' = "interrupted_by_deploy"
    /\ UNCHANGED <<pc, awaiting, existing, meta, reopen_blocked, touched, took, closing, ghost>>

_list_drainable_sessions ==
    /\ status = "in_progress" /\ ~awaiting /\ ~selected
    /\ selected' = TRUE
    /\ UNCHANGED <<pc, row, existing, meta, reopen_blocked, touched, took, closing, ghost>>

\* Closes what the list named, whatever the row says by then.
drain ==
    /\ selected /\ selected' = FALSE
    /\ status' = "failed"
    /\ UNCHANGED <<pc, awaiting, existing, meta, reopen_blocked, touched, took, closing, ghost>>

\* The agent restarts.  A pending gate survives in the checkpoint, and its node
\* runs again from the top when the reviewer answers.
restart ==
    /\ pc # "idle" \/ registered \/ confirm_reopen \/ teardown
    /\ pc' = IF pc = "gate" THEN "gate" ELSE "idle"
    /\ registered' = FALSE /\ confirm_reopen' = FALSE /\ teardown' = FALSE
    /\ closing' = "none" /\ existing' = "off"
    /\ UNCHANGED <<row, reopen_blocked, touched, took, selected, ghost>>

-----------------------------------------------------------------------------
RunStep ==
    \/ intake_node \/ intake_set_aside_failed \/ _route_after_intake
    \/ scaffold_node \/ gate_pause
    \/ \E s \in Terminal : close_session(s)
    \/ close_session_update \/ escalate_and_go_on

Next ==
    \/ provision_session \/ provision_ready \/ provision_failed
    \/ start_run \/ RunStep
    \/ \E lever \in {"confirm-reopen", "rewind-to-stage", "targeted-fix", "reset-e2e"} :
          run_session_action(lever)
    \/ \E approved \in BOOLEAN : gate_resume(approved)
    \/ end_session_container \/ sandbox_terminated
    \/ _list_drainable_sessions \/ drain \/ restart

Spec == Init /\ [][Next]_vars

-----------------------------------------------------------------------------
TypeOK ==
    /\ pc \in Nodes /\ status \in Statuses /\ awaiting \in BOOLEAN
    /\ existing \in {"off", "open", "closed"}
    /\ registered \in BOOLEAN /\ confirm_reopen \in BOOLEAN
    /\ teardown \in BOOLEAN /\ reopen_blocked \in BOOLEAN
    /\ touched \in BOOLEAN /\ took \in BOOLEAN
    /\ closing \in {"none"} \cup Terminal /\ selected \in BOOLEAN
    /\ confirms \in Nat /\ reopens \in Nat /\ runs \in Nat

\* A confirmation reopens a finished session at most once: what intake pops is
\* never there for a second run, whatever order confirmations, runs, restarts
\* and teardowns come in.
OneReopenPerConfirmation == reopens <= confirms

\* A run that touched its row never works under a verdict of an earlier attempt,
\* and nothing else writes one while it works.
NoVerdictWhileRunning ==
    pc \in {"stage", "gate"} /\ touched => ~is_finished_with_verdict

\* A run that was given its confirmation is not turned away by the refusal of an
\* earlier one.
ConfirmedNotTurnedAway == pc = "route" /\ took => ~reopen_blocked
=============================================================================
