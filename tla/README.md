# ai-dev-workflow: TLA+ verification project

ai-dev-workflow turns a requirements document into a pull request. A Python
agent (`agent/src`) drives a LangGraph state graph: each *stage* drafts an
artefact with a coding model, has it audited, verifies it with a deterministic
check, and approves it, at two stages by a person. The graph runs against a
container ("sandbox") that holds a clone of the repository; what a stage
produced is written to `.ai-dev-workflow/` there and pushed. A session lasts
days and many processes: browser tabs come and go, the agent restarts, the
container is reaped, CI deploys a new version.

The modules here model the part of the agent that has to be right when those
things happen between two steps. Paths below are relative to the repository;
`graph.py` stands for `agent/src/graph.py`, and so on.

## 1. Inventory

### State and where it lives

| State | Kept by | Survives an agent restart | Survives the container |
|---|---|---|---|
| stages, feedback, run_failure, restart and reopen channels | LangGraph checkpoint (`checkpoint.py`) | yes, unless the fail-soft in-memory saver is in use | yes |
| `.ai-dev-workflow/` (state.json, one file per stage), drafting commits | the workspace, pushed to the work branch | yes | what was pushed, or the workspace volume |
| uncommitted edits of a draft's CLI | the workspace | yes | on the volume only |
| sandbox registration, one-shot flags (resume, confirm_reopen, rewind) | `sandbox/registry.py` | no | no |
| session row: status, failure_stage, awaiting_gate | SQL, `session_store.py` | yes | yes |
| run lock | `data/run_locks/<thread>.lock` | yes | yes |

### Components

* **Stage pipeline** (`graph.py`). Nodes per stage: draft, audit, verify,
  verify_fix, auto_approve, gate, escalate, draft_escalate, no_new_work, wired
  by `_wire_stage`; every run enters through intake, scaffold and
  record_raw_requirements. *Hard*: a node's update reaches the checkpoint only
  when it returns, its workspace writes before that; runs are resumed, rewound,
  corrected at a gate, killed; four counters bound the laps. *Correct if*:
  nothing is built on what is unapproved, unverified, or approved for
  requirements that have been replaced; no approval is lost by reattaching; a
  run ends.
* **Run lock** (`run_lock.py`), used by `run_headless.py --thread`. *Hard*:
  every system call can interleave with another process's; the holder is
  usually killed, not stopped. *Correct if*: one process per thread works, the
  holder's file stays, nobody spins.
* **Session row and reopen guard** (`session_store.py`, intake's first block,
  `sessions_api.py` actions, `deploy_drain.py`). *Hard*: four writers in two
  processes and on a CI runner; a one-shot flag in memory against a durable
  row. *Correct if*: a finished session is reopened once per confirmation and
  never without one.
* **Sandbox registry and providers** (`sandbox/`). The local provider keeps one
  entry per session (`_sandboxes`), the registry another, docker the container;
  provision, teardown, the idle reaper, the `docker events` watcher and the
  liveness poll write them under or outside one asyncio.Lock. *Hard*: each
  provision awaits a dozen docker commands, any of which may time out; the
  container outlives the agent, and dies on its own; a CLI turn outlives the call
  that waits for it. *Correct if*: entry,
  registry and container stay accounted for, a dead container is found out, one
  CLI turn edits the workspace at a time.
* **Workspace persistence** (`workflow_persistence.py`, `git_ops.py`). *Hard*:
  many files, one snapshot; a run after a lost checkpoint trusts them.
* **Back half** (`rebuild.py`, `test_hardening_nodes.py`, `e2e_nodes.py`,
  `metrics_nodes.py`, `exit_nodes.py`). Fix-lap loops that escalate and still
  go on to the exit report. *Correct if*: laps are bounded, the first failure
  is the one reported, a failed run is never completed.
* **Run activity** (`run_activity.py`, `main.py`, POST /review in
  `sessions_api.py`). Detached run tasks, reference-counted drivers, bounded
  event queues. *Hard*: page loads, answers, Stop, shutdown and the end of a run
  meet between two awaits. *Correct if*: one task drives a graph, every stream
  ends, an answer reaches the review it was meant for.
* **Specification ledger** (`spec_ledger.py`, `gates/ledger_sync_checks.py`).
  Entries that drafts change before anybody has approved them and that later
  stages stamp as coded, tested, resolved. *Hard*: a draft is merged lap by lap
  and run by run, and a lap may never be approved; the file is read and written
  whole, and one that cannot be read counts as empty. *Correct if*: ids are not
  reused while the file can be read, an unapproved draft costs nothing, stamps
  belong to the wording they stand next to.
* **Requirements PRD** (`requirements_prd.py`). A merge of two texts. *Correct
  if*: it loses no requirement that was not declared removed.
* **Checks, scans, surfaces, settings, model sessions, frontend.** Pure
  functions, I/O around external tools, rendering, CRUD. Listed in
  `PROJECT.json` with the reason each is left out.

The hazards in this code that are hard to test are listed, each at its line,
in `PROJECT.json`.

## 2. Modules

| Module | Models |
|---|---|
| `StageGraph` | the stage pipeline with its checkpoint, its workspace and the faults between them |
| `MCStageGraph` | values for its function-valued constants |
| `StageGraphProofs` | theorems about `StageGraph`, the last of them that it implements `ApprovalChain` |
| `ApprovalChain` | what the pipeline promises of its approvals, without nodes, verdicts or faults |
| `ApprovalChainProofs` | what follows from that promise |
| `BackHalf`, `BackHalfProofs` | the clusters behind the build stages up to the exit report, and their theorems |
| `RunLock`, `RunLockProofs` | the lock file, one action per system call, and its theorems |
| `SessionRow`, `SessionRowProofs` | the row, the guard, the one-shot flag, the drain, provisioning's effect on the row, and its theorems |
| `RunActivity`, `MCRunActivity`, `RunActivityProofs` | drivers, watchers and reviewers of one thread; the symmetry of its runs; its theorems |
| `Sandbox`, `SandboxProofs` | the local docker provider, the registry and their callers, and its theorems |
| `SpecLedger`, `SpecLedgerProofs` | the ledger over runs and tickets, and its theorems |

The components are specified separately; each treats the others as inputs. They
meet in intake, where `StageGraph` takes a run that got past the guard
`SessionRow` models, `RunLock` decides which process may start it and
`RunActivity` which task; at the end of a build stage, where `BackHalf` takes
over with a stage reduced to "drafted, then approved or given up"; in
`registry.pop`, which `SessionRow` models for the flags and `Sandbox` for the
container; and in the specification stage, whose verify is one verdict in
`StageGraph` and a merge in `SpecLedger`.

### StageGraph

One action per LangGraph node, or per way out of it. The variables fall in
three groups: the checkpoint (`st`, `work`, `restart`, `failure`, `known`,
`req`, `owed`), the workspace (`disk`, `lastDrafting`, `marked`, `leftover`)
and the run (`sandbox`, `touched`, `headless`, `runs`); `node` and `cur` are
the control point. Every node that writes the workspace before it returns has
two outcomes: it returns (checkpoint and workspace move), or the process dies
first (`Killed`: the workspace has moved, the checkpoint has not). `kill` is
death between nodes or inside a model call, where the CLI leaves uncommitted
work behind.

Data is reduced to what the properties tell apart. An approved content is
`"raw"` (never passed its stage's deterministic verify) or `"checked"`, and
carries the revision of the requirements it was drafted from. `owed` is a ghost:
the oldest revision an approval may still stand for. A submission or a
correction at a gate raises it; an explicit `AIDW_RESUME`, which asks for
approvals to be kept, does not. A verify ends passed, failed, infra or
cannot-verify; a model call ends ready, not ready or infra-exhausted.

Simplifications, all towards one chain of stages:

* tech-stack is settled before the chain starts; `requirements-prd`,
  `specification`, `plan`, and the build stages follow in the order
  `build_graph` wires them. The clusters between the build stages (rebuild,
  end-to-end, metrics) are `BackHalf`'s.
* `infra_exhausted` and `readiness` are folded into the route and the status,
  which is where the code reads them. A model answer always has content.
* a workspace snapshot (`persist_state`) is written at once. Failures of the
  write as a whole are modelled (`PersistFails`).
* every run is preceded by a provision, as the browser and the headless driver
  do it; the sandbox may be lost at any time after (`sandbox_lost`), and the
  uncommitted work with it or not (`LeftInWorkspace`). No other process drives
  the thread (`driven_elsewhere` is false).
* `targeted-fix` and `reset-e2e` change fields of the back half and are
  modelled with it.

### ApprovalChain and the refinement

`ApprovalChain` has three variables: the stage worked on (`at`), and the sets of
stages whose approval *stands* in the checkpoint (`done`) and on the branch
(`saved`). An approval stands when it has content, of the requirements in force,
and, where verify blocks, content that passed. The promise: both sets are a
prefix of the chain; an approval is won by work on that stage, at the end of the
prefix; a correction takes all away; a run enters with a prefix of what stood or
of what was saved; and a step that dies may have been saved but has not moved
the checkpoint. `StageGraph!Chain` is the instance with

    at <- cur while a stage node is next, else 0
    done <- Standing(st, owed)
    saved <- Standing(disk.stages, disk.owed)

and `KeepsApprovalChain == Chain!Spec` is what `stage_kill` checks and
`ImplementsApprovalChain` proves. It rules out what no invariant on one state can: an
approval that appears without work on its stage, or comes back from nowhere.

### BackHalf

Stage k is followed by rebuild placement k; test hardening and e2e come after
the last but one; the last stage is metrics-exit. One action per node and
outcome, together with the edge taken after it. The checkpoint's `rebuild`,
`hardening`, `e2e`, `gate`, `failure` and `refused` are the GraphState keys;
`row` is what close_session writes. Three ways a run is entered matter and are
all there: a new run, a resume that keeps `run_id` (and with it every
`passed_run`), and the levers rewind, reset-e2e and targeted-fix. `built` and
`passed` are ghosts: whether sources changed since the last green build, and
which clusters this run got past. Tests, builds, boots and scans end any way
they can; a process dies at any node (`kill`), a sandbox is lost (`sandbox_lost`).

### RunActivity

The asyncio loop runs one segment between two awaits; an action is a segment. A
run is a task (`at`, `cancelled`); `_tasks`, `_counts`, `_subscribers` and
`_REVIEW_RESOLVING` are variables of their names or near. A request owns a
bounded queue and is followed to what its client sees (`view`): "broken" is a
stream AG-UI's client rejects, a close without its open. `post` is a
POST /review between its check, the sandbox reconnect and start_resume. One
thread id; the heartbeat of a headless process is left out.

### Sandbox

The lock is a sequence, holder first, because asyncio.Lock is FIFO. `sandbox`
is the provider's entry, `container` and `running` are docker's truth, `deaths`
the die events in the stream and `unseen` those that fell between two streams.
Every docker command may fail in the way a timeout does, where the code can tell
neither. Actors: requests that provision (a page load, POST /review), the events
`watcher`, the idle `reaper`, the `closer` (DELETE, container stop), the `ender`
(the background teardown of a finished run), the `viewer` (the page's liveness
poll), and the `run` that starts CLI turns. An agent restart empties the memory
and leaves docker as it is, with a turn possibly still running in it.

A turn is a process group in the container that the run polls for. Its launch is
an exec that may have started it before it fails or times out (`LaunchGivenUp`),
or not (`ExecFails`); it may finish, outlive its time limit or be stopped with its
run (`TurnEnds`, `Abandon`), or answer no more (`PollFails`). In all but the first
of these the code sends a further exec that kills the group (`KillTurn`, `Signal`),
and that exec is swallowed when it fails (`KillFails`). The sweep of all turns
when the agent shuts down in good order is left out: the restart it precedes is
modelled as one that swept nothing.

### SpecLedger

`ledger` is ledger.json, `sketchpad` the draft file, `approved` and `base` the
approved specification and the snapshot a round is judged against. A lap
(`VerifySpecification`) takes any delta of at most one story with at most one
criterion and one mention (retired story, retired criterion, or broken
criterion), and does what `_verify_specification_ledger` does in its order:
checks, sweep, stories, criteria, parking, retirement, reopening, write-back of
the draft file, save of the ledger; then the decisions and the PRD changes, which
can still send the draft back. `mark` is `pending_reset_run_id`, as seen from the
run under way.

The load path is the code's: `load_ledger` gives an empty ledger for a read that
failed, for whatever reason, and for a file that does not parse. Each place that
saves after loading is an action that may have loaded nothing
(`VerifySpecification`, `MintTicket`, the plan's verify in `LoseLedger`); the
places that save only what they changed (resets, stamps) then save nothing. A save
cut short leaves a file that does not parse (`LapCutShort`, `LoseLedger`); a lap
cut between its two writes leaves a draft file that cites what the ledger was never
given (`LapCutShort`, with the ghost `apart`). Every such step counts in
`accidents`. A run may be rewound to the specification from anywhere past it, as
itself or as a new run, in the same round (`Rewind`).

Simplifications: narratives, `ui_related`, review stamps, change dates,
questions, plan steps and change badges are left out; the decisions a reviewer
is shown are one verdict; a failed sync changes nothing (an advisory policy
shows the draft as it is, which is left out, as is the brownfield baseline); the
file of the approved specification is written by the approval itself, the hook
that applies the resets may be lost; of the other files (draft, base, approved
specification) no read fails; one run works on the repository at a time.

### RunLock

`pc` says which line of `acquire_run_lock` each pid is at. The file is `lock`
(whose file is at the path) and `written` (its pid is in it): between
`os.open` and the write it exists and is empty, and unlinking works on the path,
whoever's file is there. A pid of a dead process may be taken by an unrelated
program (`Foreign`). Release and the end of the process are one step.
`Overlap = FALSE` restricts when processes start: not while another one is
between `os.open` and its write or in the reclaim loop.

### SessionRow

`pc` is the node of the run as far as it touches the row. `status` joins the
columns status and failure_stage, which `is_finished_with_verdict` reads
together. `close_session` is two steps, because it schedules the teardown and
then waits for the database; the drain is two steps, because it selects and then
closes; provisioning is two steps, because it reads the row and then takes
minutes. `registry.pop` takes the flags of the thread along wherever the code
calls it. A failing `get_session` (the guard is then skipped, as the code says)
is left out.

## 3. Runs

All bounds are constants or in the guards named by them. The lap caps are the
code's own, set small. Deadlock checking is off where a session may simply stay
idle (all but the lock and the sandbox).

| Run | Instance | Shows |
|---|---|---|
| `stage_kill` | 4 stages, one per verify policy (two blocking, one advisory, one without), 2 runs, 2 revisions, kills everywhere, a lost checkpoint, no forced drafts | types, upstream approval, checked content consumed and stored, current approvals, first drafts set aside, approvals kept on reattaching; every step is a step of `ApprovalChain` |
| `stage_auto` | 4 stages, 2 runs, 2 revisions, drafts forced through at the clarification cap, failing persists, fix laps, a lost checkpoint, no kills | a run that keeps stepping ends or waits for its reviewer |
| `stage_unverified` | the same with kills | *violation*, finding 1 |
| `back_half` | 2 placements, one fix lap of each kind, 2 scans, 2 runs, 1 lost sandbox, kills | a completed session earned it; a fresh run measures what was built last; the row tells the first cause; every run ends |
| `spec_ledger` | 1 story title, 2 criterion wordings (symmetric), 2 stories, 2 criteria each, 2 runs or a run and its rewind, 3 saved laps, one of them replaced by a failed read or a write cut short | but for that accident, ids are for good and an unapproved draft destroys no delivered work; parking and retirement take criteria along, resolved means measured, a lap can be repeated |
| `run_lock` | 3 pids, no overlapping acquisitions | exclusion, the holder's file, no spinning |
| `run_lock_race` | 3 pids, overlap allowed | *violation*, finding 2 |
| `session_row` | 3 confirmations, 4 runs | one reopening per confirmation; no old verdict under a run that touched its row |
| `session_sticky` | 1 confirmation, 3 runs | *violation*, finding 3 |
| `run_activity` | 2 requests, 2 POSTs (symmetric), queues of 2, 3 events a run, 3 runs, 2 reviews | one driver; nobody waits for nothing; streams are whole and end with their own run; answers reach their stage; quiet shutdown |
| `sandbox` | 1 caller, watcher, closer, ender, run; 2 attempts, 2 containers | phantoms are announced, the registry is backed by an entry, one turn at a time |
| `sandbox_page` | 1 caller, reaper, watcher, viewer; 2 attempts, 2 containers | phantoms go away; the lock is given back |

Why these bounds are enough. The pipeline's rules relate a stage to the stages
before it, and four stages give the PRD, both human gates and a build stage with
one before, between and after; two runs are what a resume, a rewind, a
resubmission or a hydration need, and the second revision is the one that makes
an approval stale. Two placements give one that test hardening follows and one
that is the last. In the ledger, two runs separate a marker from the run that
set it, and three laps are a delivered wording, a rewording and its repetition.
A lock scenario involves a dead holder, a live one and a newcomer. The reopen
guard needs one verdict, one refusal and one confirmation; the other
confirmations are there to be taken by the wrong run. A queue of two overflows
on the third event. A second container is the one a stale entry or a late die
event is confused with.

`sandbox` has 1.2 million states and `sandbox_page` 0.2; all six kinds of actors
with one caller exceed fifteen million, so the runs take two subsets, chosen so
that the actors a property is about meet. The proofs are for all of them and any
number of callers. `spec_ledger` has 0.93 million states: a rewind takes up one
of the two runs and an accident one of the three laps, because nothing else keeps
the run within minutes.

What single runs leave to others, or to nobody:

* `stage_kill` has neither forced drafts nor a failing persist, since
  `ConsumedWasChecked` is false with kills and forced drafts together (finding 1);
  forced drafts and failing persists are in `stage_auto`, which checks liveness.
  The theorems `UpstreamFirst` and `ApprovalsAreCurrent` hold with both.
* `run_lock` has no overlapping acquisitions: that one process reads or removes
  another's new file happens in `run_lock_race` only.
* `sandbox` and `sandbox_page` set `SweepFails` and `KillFails` to FALSE; what
  happens otherwise is under "Observed". `sandbox_page` has no `run`, so the
  premise of `PhantomsGoAway` holds from the start in it. Two callers, hence two
  provisions of one session, are covered by the theorems alone.

### Fairness

Safety runs assume none. `StageGraph` and `BackHalf` have weak fairness of the
program's own steps (`ProgramStep`): the agent's driver task keeps calling the
graph, and every model or script call, build, test run and scan has a time limit
after which the node returns. Nothing is assumed of reviewers, users, kills or
new runs: a run that waits for its reviewer may wait for ever, which
`RunTerminates` allows. In `run_lock` each process that is acquiring keeps
taking its next step; how long a run holds the lock is open. In `Sandbox` every
actor that is on its way goes on, because each docker command has a timeout and
the loop runs what is ready; the passing of time is what makes a session idle.
Requests, deaths and restarts are never owed. `PhantomsGoAway` has a premise of
its own: that no run is using the session any more (`<>[]RunOver`). A run that
polls a dead container keeps `last_active` fresh, and the stream that would tell
of its death may be down for as long.

### Findings

1. **An unverified approval in the checkpoint** (`stage_unverified`).
   `auto_approve` marks the stage approved; the verify it still has to face is
   the next node. If the process dies in between, the next intake clears
   `last_verification` and `should_skip_draft` skips the stage. `_wire_stage`
   says of that edge that auto-approve must still face the verify.
2. **Two holders of the run lock** (`run_lock_race`). The file is created
   empty; a process that reads it before the pid is written removes it as
   stale.
3. **A refusal that stays** (`session_sticky`). `reopen_blocked` is set and
   never reset, so a confirmed run after a refused one is refused as well.

### Observed, not run

Met while modelling, and kept out of the runs: the model contains the behaviour,
and no property that passes may deny it.

* **A reset that a second lap forgets** (`spec_ledger.py:757-760`). The marker
  that makes an approval clear a reworded criterion's stamps is removed by any
  later lap of the same run whose wording equals the ledger's, as "reverted". But
  the ledger already holds the lap before, not what was approved. Delivered with
  wording a; a new ticket's first lap rewords to b and is saved, then fails its
  story decisions or is rejected; the second lap submits b again; the marker
  goes, b is approved, and the criterion keeps the stamps of a. Conversely a real
  reversal to a on a second lap sets the marker. `wireframe_linkage_checks.py:386`
  says of the stamps that they are "cleared on spec approval when the
  requirement's wording really changed". `RewordedIsRedone` states it; adding it
  to `spec_ledger.cfg` under PROPERTIES gives the trace, eleven states long.
* A reset hook that is lost with the sandbox is not made up for by the "next
  healthy sync" (`spec_ledger.py:1336-1338`), which compares with the ledger.
* `no_new_work` compares titles and criteria (`graph.py:1347-1350`), so a
  ticket that changes a narrative only ends as no new work, with the narrative
  saved.
* The first round's base is written as `{}`, which
  `read_round_base_specification` reads as absent, so a correction at the plan's
  gate is judged against the ticket's own approval (`spec_ledger.py:304-313`).
* **A ledger that cannot be read starts again** (`spec_ledger.py:210-219`).
  `load_ledger` returns no entries for a file that does not parse and for any read
  that failed (`repo_files.py:110-116`), a timed-out exec among them. On an empty
  ledger a citation means "new", so the next passing lap numbers its entries from
  US-0001 and saves over everything, stamps included, where `spec_ledger.py:3` says
  that "ids are never reused". A draft with decisions only saves an empty ledger;
  so does the plan's verify beside its steps (`gates/diagram_gate.py:952`,
  `:1038`), and the node that mints tickets, which saves even with nothing to mint
  (`test_hardening_nodes.py:338-357`). Where only changes are saved
  (resets, stamps) a failed read loses the change. `RetiredForGood` and
  `StampsOutliveRejection` except exactly the steps that count an accident; without
  that premise TLC refutes both.
* **A lap cut between its writes** (`graph.py:1601`, `:1614`) leaves a draft file
  that cites ids the ledger was never given. Resubmitted unedited it fails its
  citations, or, when the ledger is empty, passes as new. `LapCanBeRepeated` is
  about a file and a ledger of one lap (`~apart`).
* **A forced draft that ends as no new work** (`graph.py:5102`). The route after a
  verify reads the report's `no_new_work` before `passed`; findings of the audit
  or a skipped skill turn the verdict to failed and keep the report
  (`graph.py:4868`, `:4891`). A specification approved at the clarification cap then
  ends its run without having been checked and keeps the approval, since
  `make_no_new_work_node` revokes nothing on the ground that the content "genuinely
  passed" (`graph.py:5496-5504`); the next intake clears `last_verification` and
  the stage is skipped as approved. No kill is needed. With
  `MayBeNotReady = TRUE` and the specification blocking, `ConsumedWasChecked` fails
  after eighteen states.
* **A turn whose kill fails** (`cli_agent_exec.py:806-811`). After a timeout, a Stop
  or a launch that gave no answer the turn is killed by one more exec, whose failure
  is swallowed; the retry then starts a second turn next to the first. With
  `KillFails = TRUE`, `OneTurn` fails after sixteen states.
* A resolved story stays resolved when a new criterion joins it.
* A tab that still shows an earlier review of a stage answers the redraft it has
  not shown: POST /review compares stages only (`sessions_api.py:1112`), while
  its docstring speaks of a review that has moved on. `AnswersWhatWasSeen` in
  `RunActivity` states the stronger property.
* A run cancelled before its `try` is never popped by its own `finally` and
  publishes no DONE (`main.py:167`); `NobodyWaitsForNothing` excepts exactly it.
* A redraft that is killed on a later lap is not set aside, because the
  checkpoint's status is that of the lap before (`graph.py:3229`).
* A resumed run keeps its `run_id` and may skip the last rebuild on the word of
  the pass before its fixers ran (`rebuild.py:140`); `FreshRunBuiltLast` is
  about runs with an id of their own.
* A failed provision may overwrite a verdict (`sessions_api.py:445`): the guard
  reads a copy of the row from before the container was made.
* The watcher evicts by name (`local_docker.py:639`) and the reaper tears down
  what it listed (`local_docker.py:574`): either may hit a container that has
  become live since. The properties allow it, as the next request provisions
  again.
* A rejection without a registered sandbox leaves `awaiting_gate` set
  (`graph.py:5825`).

## 4. Proofs

All theorems hold for every value of the constants that the modules' ASSUMEs
allow: any number of stages, any caps and policies, any number of processes,
any number of runs and revisions.

**StageGraphProofs.** `Typing` is inductive as it stands. `UpstreamApproved` and
`ApprovalsCurrent` are not: that a stage may be skipped over depends on what was
persisted for it runs ago and hydrated since. They follow from `OrderInv`, whose
parts are

* `SoundApprovals`: in the checkpoint and in the snapshot alike, the approved
  stages form a prefix of the chain, each has content, and none was approved
  for requirements older than `owed`;
* `Revisions`: `owed` never exceeds the current revision, and the work that is
  audited, verified or gated is no older than `owed`;
* `Frontier`: while a stage is worked on, the stages before it are approved and,
  once its draft node has looked at it, none after it is;
* `Verdicts`: a recorded verdict that forbids the skip of its stage belongs to
  this run: no later stage is approved, or a gate has let the stage through
  since.

`CheckedInv` strengthens it for `OnlyCheckedIsConsumed` and
`OnlyCheckedIsStored`: an approval of a blocking stage is checked, except for
the auto-approved draft in hand that is on its way into or out of a verify it
has not passed (`Unverified`). It is an invariant only if the process
does not die in that window, so both theorems assume `Kills => ~MayBeNotReady`.
They also assume that where drafts can be forced through the specification's verify
does not block (`MayBeNotReady => LedgerVerifyAdvises`), because one that fails it
may leave by the no-new-work node with its approval. Neither assumption is a
convenience: without the first the property is false, as `stage_unverified` shows,
without the second as "Observed" tells. `SetAsideInv` ties the work a first draft left behind
to the drafting commit and to the status by which intake will recognise it.
`ReattachKeepsApprovals` is an action property of intake.

`StagesWindDown` is the part of `RunTerminates` that needs no fairness: every
step that leaves a run going, a lost sandbox among them, lowers a lexicographic
measure of natural numbers (the stages to come, the verify laps and infra
retries the stage has left, the clarification laps, the nodes left in the lap).
The order of the second and third is the point: an auto-approval gives the
clarification laps back, which the loop through a failing verify may only do
because each of its rounds costs a verify lap. `TypeOK` is all it needs; that
the graph is never stuck in between, and so gets there, is left to the run.

**RunLockProofs.** `Exclusive` and `HolderKeepsItsFile`
under `Overlap = FALSE`, which `run_lock_race` shows to be needed. The
invariant says that the file belongs to the process that holds or writes it, or
to nobody alive in the protocol, and that at most one process is acquiring.

**SessionRowProofs.** "Once per confirmation" is followed from the flag
(`confirm_reopen`) to the run that took it (`took`): `Accounted` says that every
confirmation is in the flag, in a run or spent, `PastGuard` that only a run that
took one gets past the guard of a finished row.

**The refinement**, a part of `StageGraphProofs`. `ImplementsApprovalChain` shows each node to be one of the
promise's decisions: approve the stage in hand, reopen it, correct, pass, or
decide nothing. What stands has to be known exactly before and after the step,
so it uses `OrderInv` (the approved stages are a prefix, current, and the work
is right behind them) and `CheckedInv` (they are checked), and inherits the
latter's two assumptions. Between a node that writes and one
that dies the only difference is the checkpoint, which `Decide` has as its two
outcomes. `ApprovalChainProofs` shows what a reader gets from the promise alone.

**BackHalfProofs.** That a completed run got past every cluster is not
inductive: nothing in the state of the exit report says which road led there.
`Progress` says of every node which clusters lie behind it, `Open` that no failure is
on record before the exit report, `Earned` that the row keeps what completed it,
`Fresh` that in a run with its own id the last placement has not passed before
it is reached. `FirstCauseIsKept` is proved and not run.

`RunsWindDown` is the part of `RunEnds` that needs no fairness. The graph has
five loops (a rebuild's fix laps, the tests', e2e's, the repeated scan, the node
that a sandbox lost and provisioned again leaves where it was), and a stage after
e2e that comes back to the drafting node; the measure orders a run's place
(`Here`), the steps before a stage's placement (`Ahead`), the faults to come, the
laps left and the nodes left in the lap, and every step lowers it. What it rests
on is `LapsDue`: a fixer is entered only with a lap to spend, so a counted lap
brings the cap nearer. A fixer that finds no sandbox counts nothing, and
terminates only because the tests then find none either, or someone has
provisioned one, which `Faults` pays for. `MaxLosses` is a bound of the model: a
sandbox lost again after every provisioning would keep such a run going. The
invariant and the step were run on the `back_half` instance first.

**RunActivityProofs.** `Drivers`: tasks are created in order and by whoever
found none alive, so the live one is the registered one. `Answers`: what a POST
carries across the sandbox reconnect is a review of the stage that is still
pending when it resumes. `Streams`: a request watches a task whose end will
reach its queue, and the DONE in its queue is of that task or later. `Down`: the
closing of the checkpointer comes after the last live task.

`StreamAccepted` is about the order of what is in a queue, where the module's
other invariants only ask what is in it. `Hearing` states it without recursion:
for a request that has lost nothing there is a sequence of *phases* of its
client (blank, led, idle, open, over), one before the first item of the queue
and one after each, every one what the filter and the verifier make of the one
before (`Through`), and the last of them has to go with the number of events
the run has sent (`Fits`). "led" is the phase that makes joining safe: a client
that was given a RUN_STARTED of its own and has not seen a step open goes with a
run at any point, because `joined_stream_filter` withholds the closing halves
until one has opened. Publishing adds a phase at the end (`PutFollows`), reading
takes one off the front (`ReadFollows`), an end leads to "over", which goes with
everything. It was checked with queues of two and of three.

**SandboxProofs.** `LockInv` makes the lock a queue without repetitions in which
exactly those actors stand that are at a place behind `async with`, and every
place inside it is the head's; so what one segment of a provision saw still
holds at the next. `DockerInv` relates the entry, the container and the events,
`PlaceInv` says what each actor relies on where it is, and `TurnInv` that a turn
nobody serves is in no container the process knows, and that the run that may have
left one running is on its way to kill it. `TurnsAreAlone` assumes `~SweepFails`
and `~KillFails`: both execs, the sweep on reattaching and the kill after a timeout,
a Stop or a launch given up, are fail-soft in the code, and when one fails an old
turn does run beside a new one.

**SpecLedgerProofs.** The ledger's passes are functions from ledgers to ledgers,
so most of the work is in lemmas that say of each pass what it does to every
entry: `MergedEntries`, `RetiredEntries`, `ResetEntries`, `ResolutionEntries`,
and above them `SyncEntries` for the whole of `sync_ledger`. A number `Max`
allots is new (`NewStoryNumber`, `NewCriterionNumber`), and what one pass makes
of an entry depends on no other, but for the two passes that settle stories and
their criteria. The invariant `LedgerInv` is, beside the types of the
rest (`Bookkeeping`):

* `WellFormed`: ids are positive, every criterion's story is in the ledger, and
  every entry has its shape;
* `Together` and `Measured`, which are `ParkedTogether` and `ResolvedIsMeasured`
  of any ledger: both are inductive given what the passes do, the second only
  because a reset takes the story's stamp back along with its criterion's;
* `Redraftable`: unless the two are apart, the draft in the sketchpad cites ids
  that the ledger has, live, under their own story (`Cited`), which is what
  `LapCanBeRepeated` needs. It is kept in every phase, since a rewind may submit
  the file again from any: tickets and stamps withdraw nothing a draft cites;
* `Marked`: a criterion that bears this run's marker was reworded by this run
  (`reworked`). With it, a stamp that is lost is lost by a criterion of that set
  after the approval, and a rejection loses none.

The ledger a step loads is a variable of the lemmas about laps and tickets, and
`EmptyIsWellFormed` says that all of the invariant but the citations holds of a
ledger that was lost; so the four theorems on states hold across any number of
accidents, and of a ledger rebuilt from nothing. `IdsAreForGood` and
`RejectionsDestroyNothing` are action properties, of the steps that are no accident
(`NoAccident` says what those may do to the ledger): a story or criterion that is
retired is one no draft may cite, and what a pass takes it takes of what is marked.
What they leave out, a lost ledger, is a failure of the code that the model has and
they do not deny.

The invariants were model-checked on the instances of section 3 before they were
proved.

Only model-checked: the liveness properties `RunTerminates`, `RunEnds`,
`AcquireEnds`, `PhantomsGoAway` and `LockIsGivenBack` (TLAPS proves nothing about
fairness here; the well-founded descent behind the first two is `StagesWindDown` and
`RunsWindDown`) and the three violations, which are counterexamples. Every
invariant and every action property the passing runs check is a theorem.

## 5. Not modelled, and plan

Not modelled:

* *requirements PRD, gates and checks, repository scan, health reports*: pure
  functions of files, or external tools whose output is normalised. Their
  verdicts are nondeterministic in the modules, which covers every outcome. They
  are most of the lines of the agent, and keep no protocol state.
* *the tech-stack stage with its after_submit gate, and the brownfield baseline*:
  they run before the chain and would need a second kind of gate.
* *torn snapshots*: `persist_state` is one step in `StageGraph`. Its file-by-file
  order matters only when the checkpoint is lost in the same crash.
* *the Azure provider, volumes, credentials, the container cap and several
  sessions*: `Sandbox` follows one session; the cap is enforced by a query over
  all of them.
* *the heartbeat file and headless processes in `RunActivity`*: `RunLock` is what
  excludes them.
* *model sessions, approval signatures, review surfaces, settings, vaults and
  the frontend*: caches, append-only records, rendering and CRUD.

Next, most important first:

1. The container cap and the registry over several sessions of one repository.
2. `persist_state` file by file and hydration from what a crash left of it, as a
   refinement of the atomic snapshot of `StageGraph`.
3. A ledger whose marker compares with the approved wording, for which
   `RewordedIsRedone` should then hold, and the proof of it.
4. The requirements PRD's merge, as a function over small documents checked
   against a reference definition.
5. The tech-stack stage.
