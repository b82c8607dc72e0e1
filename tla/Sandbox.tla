------------------------------ MODULE Sandbox ------------------------------
(***************************************************************************)
(* One session's container and the two records an agent process keeps of   *)
(* it: LocalDockerProvider._sandboxes and the registry.  From              *)
(* src/agent/src/sandbox/local_docker.py, registry.py, factory.py and the  *)
(* handlers of sessions_api.py that call them.                             *)
(*                                                                         *)
(* The provider's asyncio.Lock is FIFO, so it is the queue of those who    *)
(* hold or await it.  An action is one segment between two awaits; docker  *)
(* is another process, and every docker command may also time out, which   *)
(* _run_docker reports as a failed command.  The branch of a session never *)
(* changes (sessions_api.py:412), so a branch other than the one asked for *)
(* means that inspect found no container or got no answer.                 *)
(***************************************************************************)
EXTENDS Naturals, Sequences

CONSTANTS
    Callers,        \* requests that provision: page loads, POST /review
    Others,         \* which of the other actors there are
    Attempts,       \* SANDBOX_PROVISION_RETRY_ATTEMPTS
    MaxContainers,  \* bound: containers ever created
    SweepFails,     \* whether the exec that stops leftover turns may fail
    KillFails       \* whether the exec that kills an abandoned turn may fail

Actors   == Callers \cup Others
Services == {"reaper", "watcher", "closer", "ender", "viewer", "run"}

SandboxAssumption ==
    /\ Others \subseteq Services /\ Callers \cap Services = {}
    /\ Attempts \in Nat \ {0} /\ MaxContainers \in Nat
    /\ SweepFails \in BOOLEAN /\ KillFails \in BOOLEAN
ASSUME SandboxAssumption

VARIABLES
    pc,             \* where each actor is; "home" between two requests
    lock,           \* LocalDockerProvider._lock: its holder, then the waiters
    target,         \* the container an actor looked up, and later acts on
    attempt,        \* the attempt of the provision that holds the lock
    had,            \* had_entry of the open _verified_container_alive
    sandbox,        \* the container in _sandboxes, 0 when there is no entry
    registered,     \* registry.get(id) is not None
    idle,           \* last_active is older than the idle window
    started,        \* the reaper and the events task exist
    container,      \* docker: the container with the session's name, 0 for none
    running,        \* docker: it runs
    outdated,       \* docker: its image is no longer the tag's
    made,           \* docker: containers created so far
    turns,          \* CLI turns running in the container
    watching,       \* the `docker events` stream is up
    deaths,         \* die events not yet handled; the id is for the properties
    unseen          \* containers that died while no stream was up

local   == <<target, attempt, had>>
memory  == <<sandbox, registered, idle, started>>
docker  == <<container, running, outdated, made, turns>>
events  == <<watching, deaths, unseen>>
vars    == <<pc, lock, local, memory, docker, events>>

At(a, where) == a \in Actors /\ pc[a] = where
Go(a, where) == pc' = [pc EXCEPT ![a] = where]
LooksUp(a, c) == target' = [target EXCEPT ![a] = c]
Forgets(a)    == target' = [target EXCEPT ![a] = 0]

\* async with self._lock: it is passed on in the order of the requests
Holds(a)     == lock # << >> /\ Head(lock) = a
Ask(a)       == lock' = Append(lock, a)
Release      == lock' = Tail(lock)
AskAgain(a)  == lock' = Append(Tail(lock), a)

-----------------------------------------------------------------------------
(* Docker.                                                                 *)

\* The container is removed; if it ran, it dies first and the stream says so.
Removed ==
    /\ container' = 0 /\ running' = FALSE /\ outdated' = FALSE /\ turns' = 0
    /\ deaths' = IF running /\ watching THEN Append(deaths, container) ELSE deaths
    /\ unseen' = IF running /\ ~watching THEN unseen \cup {container} ELSE unseen
    /\ UNCHANGED <<made, watching>>

\* `docker rm -f <name>`, and `docker stop <id>` of a --rm container
rm == Removed \/ UNCHANGED <<docker, events>>
stop(c) ==
    \/ container = c /\ running /\ Removed
    \/ UNCHANGED <<docker, events>>

ContainerDies ==
    /\ running /\ Removed
    /\ UNCHANGED <<pc, lock, local, memory>>

ImageRebuilt ==
    /\ container # 0 /\ outdated' = TRUE
    /\ UNCHANGED <<pc, lock, local, memory, container, running, made, turns, events>>

TimePasses ==
    /\ sandbox # 0 /\ idle' = TRUE
    /\ ~At("run", "turn") /\ ~At("run", "poll")   \* polled every few seconds
    /\ UNCHANGED <<pc, lock, local, sandbox, registered, started, docker, events>>

\* The process dies with its memory; containers and their turns outlive it.
AgentRestarts ==
    /\ pc' = [a \in Actors |-> "home"] /\ lock' = << >>
    /\ target' = [a \in Actors |-> 0] /\ attempt' = 0 /\ had' = FALSE
    /\ sandbox' = 0 /\ registered' = FALSE /\ idle' = FALSE /\ started' = FALSE
    /\ watching' = FALSE /\ deaths' = << >> /\ unseen' = {}
    /\ UNCHANGED docker

-----------------------------------------------------------------------------
(* Provisioning, which keeps the lock over all its docker commands.        *)

Provision(p) ==
    /\ At(p, "home") /\ Ask(p) /\ Go(p, "enter")
    /\ UNCHANGED <<local, memory, docker, events>>

EnterProvision(p) ==
    /\ At(p, "enter") /\ Holds(p)
    /\ Go(p, IF sandbox # 0 THEN "branch" ELSE "inspect")
    /\ UNCHANGED <<lock, local, memory, docker, events>>

\* provision() returns and sessions_api registers the session
SameBranch(p) ==
    /\ At(p, "branch") /\ container # 0
    /\ idle' = FALSE /\ registered' = TRUE
    /\ Release /\ Go(p, "home")
    /\ UNCHANGED <<local, sandbox, started, docker, events>>

OtherBranch(p) ==
    /\ At(p, "branch") /\ Go(p, "replace")
    /\ UNCHANGED <<lock, local, memory, docker, events>>

Replace(p) ==
    /\ At(p, "replace") /\ stop(sandbox)
    /\ sandbox' = 0 /\ idle' = FALSE /\ Go(p, "inspect")
    /\ UNCHANGED <<lock, local, registered, started>>

\* Mutant: the reaper and the watcher are not started.
Settle_without_tasks(p, c) ==
    /\ sandbox' = c /\ registered' = TRUE /\ idle' = FALSE /\ UNCHANGED started
    /\ Release /\ Go(p, "home") /\ attempt' = 0 /\ Forgets(p)

\* The new entry, the two tasks and, back in sessions_api, the registry
Settle(p, c) ==
    /\ sandbox' = c /\ registered' = TRUE /\ idle' = FALSE /\ started' = TRUE
    /\ Release /\ Go(p, "home") /\ attempt' = 0 /\ Forgets(p)

\* _try_reattach declines: not running, another image, no answer, probe failed
Declined(p) ==
    /\ pc[p] \in {"inspect", "probe"}
    /\ attempt' = 1 /\ Forgets(p) /\ Go(p, "clear")
    /\ UNCHANGED <<lock, had, memory, docker, events>>

Reattachable(p) ==
    /\ At(p, "inspect") /\ running /\ ~outdated
    /\ LooksUp(p, container) /\ Go(p, "probe")
    /\ UNCHANGED <<lock, attempt, had, memory, docker, events>>

Probed(p) ==
    /\ At(p, "probe") /\ running /\ container = target[p] /\ Go(p, "sweep")
    /\ UNCHANGED <<lock, local, memory, docker, events>>

\* Mutant: a surviving container is taken over with what runs in it.
SweepOrphans_skipped(p) == UNCHANGED docker

\* _stop_orphaned_turns; it is fail-soft
SweepOrphans(p) ==
    /\ turns' \in IF SweepFails THEN {0, turns} ELSE {0}
    /\ UNCHANGED <<container, running, outdated, made>>

Reattach(p) ==
    /\ At(p, "sweep") /\ SweepOrphans(p) /\ Settle(p, target[p])
    /\ UNCHANGED <<had, events>>

Clear(p) ==
    /\ At(p, "clear") /\ rm /\ Go(p, "create")
    /\ UNCHANGED <<lock, local, memory>>

Create(p) ==
    /\ At(p, "create") /\ container = 0 /\ made < MaxContainers
    /\ made' = made + 1 /\ container' = made + 1
    /\ LooksUp(p, made + 1) /\ Go(p, "start")
    /\ UNCHANGED <<lock, attempt, had, memory, running, outdated, turns, events>>

Start(p) ==
    /\ At(p, "start") /\ container = target[p]
    /\ running' = TRUE /\ Go(p, "ready")
    /\ UNCHANGED <<lock, local, memory, container, outdated, made, turns, events>>

Ready(p) ==
    /\ At(p, "ready") /\ running /\ container = target[p]
    /\ Settle(p, target[p])
    /\ UNCHANGED <<had, docker, events>>

AttemptFails(p) ==
    /\ pc[p] \in {"start", "ready"} /\ Forgets(p) /\ Go(p, "drop")
    /\ UNCHANGED <<lock, attempt, had, memory, docker, events>>

\* Mutant: terminate() is called while the lock is still held.
Raise_inside_lock(p) == Ask(p) /\ Go(p, "terminate") /\ attempt' = 0

\* The exception leaves the lock; sessions_api then calls terminate().
Raise(p) == AskAgain(p) /\ Go(p, "terminate") /\ attempt' = 0

CreateFails(p) ==
    /\ At(p, "create") /\ Raise(p)
    /\ UNCHANGED <<target, had, memory, docker, events>>

\* Mutant: one attempt too many.
Drop_off_by_one(p) ==
    /\ At(p, "drop") /\ rm
    /\ \/ attempt <= Attempts /\ attempt' = attempt + 1 /\ Go(p, "clear") /\ UNCHANGED lock
       \/ attempt > Attempts /\ Raise(p)
    /\ UNCHANGED <<target, had, memory>>

Drop(p) ==
    /\ At(p, "drop") /\ rm
    /\ \/ attempt < Attempts /\ attempt' = attempt + 1 /\ Go(p, "clear") /\ UNCHANGED lock
       \/ attempt = Attempts /\ Raise(p)
    /\ UNCHANGED <<target, had, memory>>

-----------------------------------------------------------------------------
(* Teardown.                                                               *)

After(a) == CASE a = "watcher" -> "read" [] a = "closer" -> "discard" [] OTHER -> "home"

\* Mutant: the registration is left behind.
Terminate_keeps_registration(a) ==
    /\ At(a, "terminate") /\ Holds(a) /\ Release
    /\ sandbox' = 0 /\ idle' = FALSE
    /\ LooksUp(a, sandbox)
    /\ deaths' = IF a = "watcher" THEN Tail(deaths) ELSE deaths
    /\ Go(a, IF sandbox # 0 THEN "stop" ELSE After(a))
    /\ UNCHANGED <<attempt, had, registered, started, docker, watching, unseen>>

\* terminate(): the entry and the registration go before docker is told.
Terminate(a) ==
    /\ At(a, "terminate") /\ Holds(a) /\ Release
    /\ sandbox' = 0 /\ registered' = FALSE /\ idle' = FALSE
    /\ LooksUp(a, sandbox)
    /\ deaths' = IF a = "watcher" THEN Tail(deaths) ELSE deaths
    /\ Go(a, IF sandbox # 0 THEN "stop" ELSE After(a))
    /\ UNCHANGED <<attempt, had, started, docker, watching, unseen>>

Stop(a) ==
    /\ At(a, "stop") /\ stop(target[a]) /\ Forgets(a) /\ Go(a, After(a))
    /\ UNCHANGED <<lock, attempt, had, memory>>

\* DELETE /sessions/{id}: terminate(), discard_workspace(), registry.pop()
Close ==
    /\ At("closer", "home") /\ Ask("closer") /\ Go("closer", "terminate")
    /\ UNCHANGED <<local, memory, docker, events>>

DiscardWorkspace ==
    /\ At("closer", "discard") /\ rm /\ Go("closer", "forget")
    /\ UNCHANGED <<lock, local, memory>>

Forget ==
    /\ At("closer", "forget") /\ registered' = FALSE /\ Go("closer", "home")
    /\ UNCHANGED <<lock, local, sandbox, idle, started, docker, events>>

\* end_session_container, when a run closes its row
EndSession ==
    /\ At("ender", "home") /\ registered
    /\ Ask("ender") /\ Go("ender", "terminate")
    /\ UNCHANGED <<local, memory, docker, events>>

-----------------------------------------------------------------------------
(* The idle reaper.                                                        *)

ReaperWakes ==
    /\ started /\ At("reaper", "home") /\ Ask("reaper") /\ Go("reaper", "list")
    /\ UNCHANGED <<local, memory, docker, events>>

ListIdle ==
    /\ At("reaper", "list") /\ Holds("reaper") /\ Release
    /\ Go("reaper", IF sandbox # 0 /\ idle THEN "listed" ELSE "home")
    /\ UNCHANGED <<local, memory, docker, events>>

\* after the sessions listed before this one have been torn down
Reap ==
    /\ At("reaper", "listed") /\ Ask("reaper") /\ Go("reaper", "terminate")
    /\ UNCHANGED <<local, memory, docker, events>>

-----------------------------------------------------------------------------
(* The docker events watcher.                                              *)

Subscribe ==
    /\ started /\ At("watcher", "home")
    /\ watching' = TRUE /\ Go("watcher", "read")
    /\ UNCHANGED <<lock, local, memory, docker, deaths, unseen>>

ReadDeath ==
    /\ At("watcher", "read") /\ deaths # << >>
    /\ Ask("watcher") /\ Go("watcher", "check")
    /\ UNCHANGED <<local, memory, docker, events>>

\* Mutant: an unknown name is skipped without asking for the lock.
CheckKnown_unlocked ==
    /\ At("watcher", "read") /\ deaths # << >> /\ sandbox = 0
    /\ deaths' = Tail(deaths)
    /\ UNCHANGED <<pc, lock, local, memory, docker, watching, unseen>>

\* The event carries a name only: is a sandbox of that name known?
CheckKnown ==
    /\ At("watcher", "check") /\ Holds("watcher")
    /\ \/ sandbox # 0 /\ AskAgain("watcher") /\ Go("watcher", "terminate") /\ UNCHANGED deaths
       \/ sandbox = 0 /\ Release /\ Go("watcher", "read") /\ deaths' = Tail(deaths)
    /\ UNCHANGED <<local, memory, docker, watching, unseen>>

StreamBreaks ==
    /\ watching /\ watching' = FALSE
    /\ UNCHANGED <<pc, lock, local, memory, docker, deaths, unseen>>

EndOfStream ==
    /\ At("watcher", "read") /\ ~watching /\ deaths = << >> /\ Go("watcher", "home")
    /\ UNCHANGED <<lock, local, memory, docker, events>>

-----------------------------------------------------------------------------
(* A page that shows whether the container is alive, and a run's execs.    *)

View ==
    /\ At("viewer", "home") /\ had' = registered
    /\ Ask("viewer") /\ Go("viewer", "look")
    /\ UNCHANGED <<target, attempt, memory, docker, events>>

Look ==
    /\ At("viewer", "look") /\ Holds("viewer") /\ Release
    /\ LooksUp("viewer", sandbox) /\ Go("viewer", "judge")
    /\ UNCHANGED <<attempt, had, memory, docker, events>>

FoundAlive ==
    /\ At("viewer", "judge") /\ running /\ target["viewer"] \in {0, container}
    /\ had' = FALSE /\ Forgets("viewer") /\ Go("viewer", "home")
    /\ UNCHANGED <<lock, attempt, memory, docker, events>>

\* not running, gone, or no answer
FoundDead ==
    /\ At("viewer", "judge")
    /\ registered' = (registered /\ ~had)
    /\ had' = FALSE /\ Forgets("viewer") /\ Go("viewer", "home")
    /\ UNCHANGED <<lock, attempt, sandbox, idle, started, docker, events>>

\* exec_in_sandbox: look up and touch under the lock, then `docker exec`
StartTurn ==
    /\ At("run", "home") /\ Ask("run") /\ Go("run", "exec")
    /\ UNCHANGED <<local, memory, docker, events>>

EnterExec(then) ==
    /\ Holds("run") /\ Release
    /\ idle' = FALSE
    /\ Go("run", IF sandbox # 0 THEN then ELSE "home")
    /\ UNCHANGED <<attempt, had, sandbox, registered, started, docker, events>>

ExecTurn == At("run", "exec") /\ LooksUp("run", sandbox) /\ EnterExec("launch")
PollTurn == At("run", "poll") /\ sandbox # 0 /\ UNCHANGED target /\ EnterExec("turn")

Launches ==
    /\ At("run", "launch") /\ running /\ container = target["run"]
    /\ turns' = turns + 1 /\ Forgets("run")
    /\ UNCHANGED <<attempt, had, memory, container, running, outdated, made, events>>

LaunchTurn == Launches /\ Go("run", "turn") /\ UNCHANGED lock

\* The exec times out or reports an error, with the turn under way all the same.
LaunchGivenUp == Launches /\ Go("run", "kill") /\ Ask("run")

ExecFails ==
    /\ At("run", "launch") /\ Forgets("run") /\ Go("run", "home")
    /\ UNCHANGED <<lock, attempt, had, memory, docker, events>>

Poll ==
    /\ At("run", "turn") /\ Ask("run") /\ Go("run", "poll")
    /\ UNCHANGED <<local, memory, docker, events>>

Fewer == IF turns > 0 THEN turns - 1 ELSE 0

\* it has finished, or its process is found dead
TurnEnds ==
    /\ At("run", "turn") /\ turns' = Fewer /\ Go("run", "home")
    /\ UNCHANGED <<lock, local, memory, container, running, outdated, made, events>>

\* A timeout, the Stop button or an error mid-poll: the kill is one exec more.
Abandon ==
    /\ At("run", "turn") /\ Ask("run") /\ Go("run", "kill")
    /\ UNCHANGED <<local, memory, docker, events>>

\* exec_in_sandbox does not know the session any more
PollFails ==
    /\ At("run", "poll") /\ Holds("run") /\ sandbox = 0
    /\ AskAgain("run") /\ Go("run", "kill")
    /\ UNCHANGED <<local, memory, docker, events>>

\* Nor may it know the session now: then nothing is killed.
KillTurn == At("run", "kill") /\ LooksUp("run", sandbox) /\ EnterExec("signal")

\* The pid file names a turn of that container only.
Signal ==
    /\ At("run", "signal") /\ Forgets("run") /\ Go("run", "home")
    /\ turns' \in IF container # target["run"] THEN {turns}
                   ELSE {Fewer} \cup (IF KillFails THEN {turns} ELSE {})
    /\ UNCHANGED <<lock, attempt, had, memory, container, running, outdated, made, events>>

-----------------------------------------------------------------------------
Init ==
    /\ pc = [a \in Actors |-> "home"] /\ lock = << >>
    /\ target = [a \in Actors |-> 0] /\ attempt = 0 /\ had = FALSE
    /\ sandbox = 0 /\ registered = FALSE /\ idle = FALSE /\ started = FALSE
    /\ container = 0 /\ running = FALSE /\ outdated = FALSE /\ made = 0 /\ turns = 0
    /\ watching = FALSE /\ deaths = << >> /\ unseen = {}

ProvisionStep(p) ==
    \/ EnterProvision(p) \/ SameBranch(p) \/ OtherBranch(p) \/ Replace(p)
    \/ Declined(p) \/ Reattachable(p) \/ Probed(p) \/ Reattach(p)
    \/ Clear(p) \/ Create(p) \/ CreateFails(p) \/ Start(p) \/ Ready(p)
    \/ AttemptFails(p) \/ Drop(p)

TeardownStep(a) == Terminate(a) \/ Stop(a)
ReaperStep      == ReaperWakes \/ ListIdle \/ Reap
WatcherStep     == Subscribe \/ ReadDeath \/ CheckKnown \/ EndOfStream
ViewerStep      == Look \/ FoundAlive \/ FoundDead
RunStep ==
    \/ ExecTurn \/ LaunchTurn \/ LaunchGivenUp \/ ExecFails \/ Poll \/ PollTurn
    \/ TurnEnds \/ Abandon \/ PollFails \/ KillTurn \/ Signal

Next ==
    \/ \E p \in Callers : Provision(p) \/ ProvisionStep(p)
    \/ \E a \in Actors : TeardownStep(a)
    \/ Close \/ DiscardWorkspace \/ Forget \/ EndSession
    \/ ReaperStep \/ WatcherStep \/ StreamBreaks
    \/ View \/ ViewerStep \/ StartTurn \/ RunStep
    \/ ContainerDies \/ ImageRebuilt \/ TimePasses \/ AgentRestarts

\* Whoever is on its way goes on: no docker command lasts for ever, and the
\* loop runs every segment that is ready.
Fairness ==
    /\ \A p \in Callers : WF_vars(ProvisionStep(p))
    /\ \A a \in Actors : WF_vars(TeardownStep(a))
    /\ WF_vars(DiscardWorkspace) /\ WF_vars(Forget)
    /\ WF_vars(ReaperStep) /\ WF_vars(WatcherStep) /\ WF_vars(ViewerStep)
    /\ WF_vars(RunStep) /\ WF_vars(TimePasses)

Spec == Init /\ [][Next]_vars /\ Fairness
-----------------------------------------------------------------------------
(* Properties.                                                             *)

Places ==
    {"home", "enter", "branch", "replace", "inspect", "probe", "sweep", "clear",
     "create", "start", "ready", "drop", "terminate", "stop", "discard", "forget",
     "list", "listed", "read", "check", "look", "judge", "exec", "launch",
     "turn", "poll", "kill", "signal"}

\* Every variable has its type; a provision makes no more attempts than it may.
TypeOK ==
    /\ pc \in [Actors -> Places] /\ lock \in Seq(Actors)
    /\ target \in [Actors -> 0..MaxContainers] /\ attempt \in 0..Attempts
    /\ had \in BOOLEAN
    /\ sandbox \in 0..MaxContainers /\ registered \in BOOLEAN
    /\ idle \in BOOLEAN /\ started \in BOOLEAN
    /\ container \in 0..MaxContainers /\ running \in BOOLEAN
    /\ outdated \in BOOLEAN /\ made \in 0..MaxContainers /\ turns \in Nat
    /\ watching \in BOOLEAN
    /\ deaths \in Seq(1..MaxContainers) /\ unseen \in SUBSET (1..MaxContainers)

Announced(c) == c \in unseen \/ \E i \in 1..Len(deaths) : deaths[i] = c

\* An entry whose container is gone does not stay unnoticed: unless it died
\* while no stream was up, its death is still to be handled.  The watcher may
\* drop the event of an unknown session only because it asks under the lock,
\* so never while a provision is about to enter that very container.
PhantomAnnounced == sandbox # 0 /\ container # sandbox => Announced(sandbox)

Rebuilding == {"inspect", "probe", "sweep", "clear", "create", "start", "ready", "drop"}

\* The registry and _sandboxes are written apart, by four kinds of actors.  A
\* registered session has an entry to exec in, or a provision has just dropped
\* it and is on the way to a new one or to terminate().
RegisteredIsKnown ==
    registered /\ sandbox = 0 =>
        \E p \in Callers : pc[p] \in Rebuilding \cup {"terminate"}

\* Two CLI turns never edit one workspace at a time.  A turn outlives whoever
\* waits for it: the agent that restarts, the wait that times out or is
\* cancelled, the launch that is given up; and the entry that the kill would
\* go by may be gone by then.  Each time the turn is stopped before another
\* starts in its container, where the execs that stop it do not fail.
OneTurn == turns <= 1

RunOver == "run" \in Others => pc["run"] = "home"

\* Once the session's run is over, a session registered for a container that
\* no longer runs is found out, even if no page looks and the stream is down.
PhantomsGoAway ==
    <>[]RunOver =>
        ((registered /\ ~running) ~> (~registered \/ running))

\* The provider's lock comes round to everybody who asked and is given back,
\* whatever fails while provision() has it: nothing done under the lock may
\* ask for it again.
LockIsGivenBack ==
    \A a \in Actors : []<>(\A i \in 1..Len(lock) : lock[i] # a)
=============================================================================
