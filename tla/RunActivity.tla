---------------------------- MODULE RunActivity ----------------------------
(***************************************************************************)
(* Who drives a session's graph and who watches it, in one agent process:  *)
(* src/agent/src/run_activity.py with main.py's _drive_graph and run() and *)
(* sessions_api.py's POST /review.  The asyncio loop runs one segment      *)
(* between two awaits at a time; every action below is such a segment.     *)
(*                                                                         *)
(* One thread id.  A run is a detached task; the HTTP requests that watch  *)
(* it each own a bounded queue.  The heartbeat of a headless process on    *)
(* the same thread is not modelled: is_active is the reference count.      *)
(***************************************************************************)
EXTENDS Integers, Sequences, FiniteSets, Functions

CONSTANTS
    Request,        \* connections to main.py's run(), one request at a time
    Post,           \* clients of POST /sessions/{id}/review
    Cap,            \* RUN_SUBSCRIBER_QUEUE_MAXSIZE
    Last,           \* bound: events a run emits
    MaxRuns,        \* bound: tasks created
    MaxReviews      \* bound: reviews opened

RunActivityAssumption ==
    /\ Cap \in Nat \ {0} /\ Last \in Nat /\ MaxRuns \in Nat /\ MaxReviews \in Nat
ASSUME RunActivityAssumption

VARIABLES
    serving,        \* "up", "stopping" (cancel_all_tasks), "down"
    at,             \* where each task is; "new" before it is created
    cancelled,      \* a CancelledError awaits its next step
    sent,           \* events it has emitted
    resume,         \* the review whose answer it carries, or None
    resolved,       \* the review that answer was applied to, or None
    task,           \* _tasks: the registered task, 0 when none is
    count,          \* _counts
    review,         \* the review pending in the checkpoint, or None
    shown,          \* reviews a tab may still show
    resolving,      \* the thread is in _REVIEW_RESOLVING
    post,           \* the POSTs
    req,            \* the requests, their queues and what they have yielded
    subscribers     \* _subscribers

runVars  == <<at, cancelled, sent, resume, resolved, task, count>>
gateVars == <<review, shown, resolving, post>>
reqVars  == <<req, subscribers>>
vars     == <<serving, runVars, gateVars, reqVars>>

Task   == 1..MaxRuns
None   == [id |-> 0, stage |-> 0]
Review == [id : 1..MaxReviews, stage : 1..MaxReviews]

Live(t)    == at[t] \in {"created", "pinning", "snapshot", "graph"}
InGraph(t) == at[t] \in {"snapshot", "graph"}

\* get_task, and what its callers make of .done()
Driven == task # 0 /\ Live(task)

\* is_driving, without another process's heartbeat
is_driving == Driven \/ count > 0

-----------------------------------------------------------------------------
(* Events.  A run opens with RUN_STARTED and then starts and finishes      *)
(* steps; messages and tool calls pair up the same way.                    *)

DONE == "done"
Event(n) == IF n = 0 THEN "run_started" ELSE IF n % 2 = 1 THEN "open" ELSE "close"

\* (mutant) the queue has no bound
put_unbounded(q, item) == [q EXCEPT !.queue = Append(@, item)]

\* (mutant) a full queue keeps what it has
put_drop_newest(q, item) ==
    IF Len(q.queue) < Cap THEN [q EXCEPT !.queue = Append(@, item)]
                          ELSE [q EXCEPT !.lost = TRUE]

\* A full queue loses its oldest item.
put(q, item) ==
    IF Len(q.queue) < Cap
    THEN [q EXCEPT !.queue = Append(@, item)]
    ELSE [q EXCEPT !.queue = Append(Tail(@), item), !.lost = TRUE]

publish(item) ==
    /\ req' = [r \in Request |-> IF r \in subscribers THEN put(req[r], item) ELSE req[r]]
    /\ UNCHANGED subscribers

\* (mutant) the orphan closing half is passed on
keep_all(q, e) == (q.joined /\ e = "run_started") => ~q.led

\* joined_stream_filter; the request that created the task keeps everything.
keep(q, e) ==
    q.joined => CASE e = "run_started" -> ~q.led
                  [] e = "close"       -> q.seen
                  [] OTHER             -> TRUE

\* The client's verifier: RUN_STARTED leads, once, and steps pair up.
Verified(view, e) ==
    CASE e = "run_started" /\ view = "blank" -> "idle"
      [] e = "open" /\ view = "idle"         -> "open"
      [] e = "close" /\ view = "open"        -> "idle"
      [] e = "snapshot" /\ view # "blank"    -> view
      [] OTHER                               -> "broken"

Yield(q, e) ==
    IF keep(q, e)
    THEN [q EXCEPT !.queue = Tail(@), !.view = Verified(@, e),
                   !.led = @ \/ e = "run_started", !.seen = @ \/ e = "open"]
    ELSE [q EXCEPT !.queue = Tail(@)]

Item == {DONE, "run_started", "open", "close", "snapshot"}

RequestState ==
    [at : {"new", "joining", "reading", "failed"}, run : 0..MaxRuns, joined : BOOLEAN,
     queue : Seq(Item), led : BOOLEAN, seen : BOOLEAN,
     view : {"blank", "idle", "open", "broken"}, lost : BOOLEAN]

NewRequest == [at |-> "new", run |-> 0, joined |-> FALSE, queue |-> <<>>, led |-> FALSE,
               seen |-> FALSE, view |-> "blank", lost |-> FALSE]

Init ==
    /\ serving = "up"
    /\ at = [t \in Task |-> "new"] /\ cancelled = [t \in Task |-> FALSE]
    /\ sent = [t \in Task |-> 0]
    /\ resume = [t \in Task |-> None] /\ resolved = [t \in Task |-> None]
    /\ task = 0 /\ count = 0
    /\ review = None /\ shown = {} /\ resolving = FALSE
    /\ post = [p \in Post |-> [at |-> "new", saw |-> None]]
    /\ req = [r \in Request |-> NewRequest] /\ subscribers = {}

-----------------------------------------------------------------------------
(* The driver: _drive_graph.                                               *)

\* create_task and register_task, in one segment with the check before them
Create(t, answer) ==
    /\ at[t] = "new" /\ (t > 1 => at[t - 1] # "new")
    /\ at' = [at EXCEPT ![t] = "created"]
    /\ resume' = [resume EXCEPT ![t] = answer]
    /\ task' = t
    /\ UNCHANGED <<cancelled, sent, resolved, count>>

\* A task that is over keeps nothing but that it is.
Over(t, how) ==
    /\ at' = [at EXCEPT ![t] = how]
    /\ cancelled' = [cancelled EXCEPT ![t] = FALSE] /\ sent' = [sent EXCEPT ![t] = 0]
    /\ resume' = [resume EXCEPT ![t] = None] /\ resolved' = [resolved EXCEPT ![t] = None]

\* A task cancelled before its first step never enters _drive_graph; one
\* cancelled in pin_for_session leaves it before the try.
dropped(t) ==
    /\ at[t] \in {"created", "pinning"} /\ cancelled[t] /\ Over(t, "dropped")
    /\ UNCHANGED <<serving, task, count, gateVars, reqVars>>

pin_for_session(t) ==
    /\ at[t] = "created" /\ ~cancelled[t]
    /\ at' = [at EXCEPT ![t] = "pinning"]
    /\ UNCHANGED <<serving, cancelled, sent, resume, resolved, task, count, gateVars, reqVars>>

incr(t) ==
    /\ at[t] = "pinning" /\ ~cancelled[t]
    /\ at' = [at EXCEPT ![t] = "graph"]
    /\ count' = count + 1
    /\ UNCHANGED <<serving, cancelled, sent, resume, resolved, task, gateVars, reqVars>>

\* What the first event out of the graph itself does to the pending review: a
\* resume is applied to whatever is pending then, a plain run re-emits it.
Applies(t) == sent[t] = 1 /\ resume[t] # None /\ review # None

event(t) ==
    /\ at[t] = "graph" /\ ~cancelled[t] /\ sent[t] < Last
    /\ sent[t] >= 1 => (review = None \/ Applies(t))
    /\ publish(Event(sent[t]))
    /\ sent' = [sent EXCEPT ![t] = @ + 1]
    /\ at' = [at EXCEPT ![t] = IF sent[t] = 0 THEN "snapshot" ELSE "graph"]
    /\ IF Applies(t)
       THEN resolved' = [resolved EXCEPT ![t] = review] /\ review' = None
       ELSE UNCHANGED <<resolved, review>>
    /\ UNCHANGED <<serving, cancelled, resume, task, count, shown, resolving, post>>

\* _reattach_snapshot_if_stale, after the first event; it never raises
snapshot(t) ==
    /\ at[t] = "snapshot" /\ ~cancelled[t]
    /\ at' = [at EXCEPT ![t] = "graph"]
    /\ publish("snapshot") \/ UNCHANGED reqVars
    /\ UNCHANGED <<serving, cancelled, sent, resume, resolved, task, count, gateVars>>

\* A run that got into the graph pauses at a review: of any stage, as a rejection
\* repeats one and a correction goes back.
Pauses(t) ==
    /\ sent[t] > 1 /\ ~cancelled[t] /\ review = None
    /\ \E v \in Review : /\ v.id = 1 + Cardinality(shown)
                         /\ review' = v /\ shown' = shown \cup {v}

\* The run pauses, finishes, crashes or is cancelled: the finally.
finish(t) ==
    /\ at[t] = "graph" \/ (at[t] = "snapshot" /\ cancelled[t])
    /\ Over(t, "ended") /\ count' = count - 1 /\ task' = 0
    /\ publish(DONE)
    /\ Pauses(t) \/ UNCHANGED <<review, shown>>
    /\ UNCHANGED <<serving, resolving, post>>

-----------------------------------------------------------------------------
(* The requests: run().                                                    *)

subscribe(r, q) ==
    /\ req[r].at = "new" /\ serving = "up"
    /\ req' = [req EXCEPT ![r] = q]
    /\ subscribers' = subscribers \cup {r}

\* Nothing drives the thread: the request starts a run and watches it.  (One that
\* may only attach is answered from the checkpoint and changes nothing.)
run_start(r) ==
    /\ ~Driven
    /\ \E t \in Task :
           /\ Create(t, None)
           /\ subscribe(r, [NewRequest EXCEPT !.at = "reading", !.run = t])
    /\ UNCHANGED <<serving, gateVars>>

\* A run is under way: a RUN_STARTED of its own, then a read of the checkpoint.
run_join(r) ==
    /\ Driven
    /\ subscribe(r, [NewRequest EXCEPT !.at = "joining", !.run = task, !.joined = TRUE,
                                       !.queue = <<"run_started">>])
    /\ UNCHANGED <<serving, runVars, gateVars>>

\* put_nowait raises on a queue that has filled up meanwhile, before the try.
run_joined(r) ==
    /\ req[r].at = "joining"
    /\ \/ req' = [req EXCEPT ![r].at = "reading"]
       \/ IF Len(req[r].queue) < Cap
          THEN req' = [req EXCEPT ![r] = [put(@, "snapshot") EXCEPT !.at = "reading"]]
          ELSE req' = [req EXCEPT ![r].at = "failed"]
    /\ UNCHANGED <<serving, runVars, gateVars, subscribers>>

read(r) ==
    /\ req[r].at = "reading" /\ req[r].queue # <<>>
    /\ IF Head(req[r].queue) = DONE
       THEN /\ req' = [req EXCEPT ![r] = NewRequest]
            /\ subscribers' = subscribers \ {r}
       ELSE /\ req' = [req EXCEPT ![r] = Yield(@, Head(@.queue))]
            /\ UNCHANGED subscribers
    /\ UNCHANGED <<serving, runVars, gateVars>>

\* A tab is closed; its queue goes with it, but not out of the join.
disconnect(r) ==
    /\ req[r].at \in {"joining", "reading"}
    /\ IF req[r].at = "reading"
       THEN /\ req' = [req EXCEPT ![r] = NewRequest]
            /\ subscribers' = subscribers \ {r}
       ELSE req' = [req EXCEPT ![r].at = "failed"] /\ UNCHANGED subscribers
    /\ UNCHANGED <<serving, runVars, gateVars>>

-----------------------------------------------------------------------------
(* POST /review.                                                           *)

\* 202, 409 or 503 is the caller's business.
Answered(p) == post' = [post EXCEPT ![p] = [at |-> "new", saw |-> None]]

\* (mutant) a second POST is let in while one is under way
post_review_again(p) ==
    /\ post[p].at = "new" /\ serving = "up"
    /\ \E saw \in shown : post' = [post EXCEPT ![p] = [at |-> "open", saw |-> saw]]
    /\ ~is_driving /\ resolving' = TRUE
    /\ UNCHANGED <<serving, runVars, review, shown, reqVars>>

\* A tab answers a review it shows.  One POST at a time, and none while a run
\* is under way: the others get a 409.
post_review(p) ==
    /\ post[p].at = "new" /\ serving = "up"
    /\ ~resolving /\ ~is_driving
    /\ \E saw \in shown : post' = [post EXCEPT ![p] = [at |-> "open", saw |-> saw]]
    /\ resolving' = TRUE
    /\ UNCHANGED <<serving, runVars, review, shown, reqVars>>

Refuse(p) == Answered(p) /\ resolving' = FALSE

\* _open_review: the review in the checkpoint has to be of the stage posted.
open_review(p) ==
    /\ post[p].at = "open"
    /\ IF review # None /\ review.stage = post[p].saw.stage
       THEN post' = [post EXCEPT ![p].at = "sandbox"] /\ UNCHANGED resolving
       ELSE Refuse(p)
    /\ UNCHANGED <<serving, runVars, review, shown, reqVars>>

\* _ensure_sandbox failed, seconds to minutes later.
sandbox_failed(p) ==
    /\ post[p].at = "sandbox" /\ Refuse(p)
    /\ UNCHANGED <<serving, runVars, review, shown, reqVars>>

start_resume(p) ==
    /\ post[p].at = "sandbox"
    /\ IF is_driving
       THEN Refuse(p) /\ UNCHANGED runVars
       ELSE /\ \E t \in Task : Create(t, post[p].saw)
            /\ Answered(p) /\ resolving' = FALSE
    /\ UNCHANGED <<serving, review, shown, reqVars>>

-----------------------------------------------------------------------------
(* Stop container, and the end of the process.                             *)

\* (mutant) the entry goes with the cancellation
cancel_run_pops ==
    /\ serving = "up" /\ Driven
    /\ cancelled' = [cancelled EXCEPT ![task] = TRUE]
    /\ task' = 0
    /\ UNCHANGED <<serving, at, sent, resume, resolved, count, gateVars, reqVars>>

cancel_run ==
    /\ serving = "up" /\ Driven
    /\ cancelled' = [cancelled EXCEPT ![task] = TRUE]
    /\ UNCHANGED <<serving, at, sent, resume, resolved, task, count, gateVars, reqVars>>

\* Uvicorn has drained its requests before the lifespan ends.
Drained ==
    /\ \A r \in Request : req[r].at \notin {"joining", "reading"}
    /\ \A p \in Post : post[p].at \notin {"open", "sandbox"}

\* cancel_all_tasks reads the registry: one task per thread.
cancel_all_tasks ==
    /\ serving = "up" /\ Drained
    /\ serving' = "stopping"
    /\ cancelled' = IF Driven THEN [cancelled EXCEPT ![task] = TRUE] ELSE cancelled
    /\ UNCHANGED <<at, sent, resume, resolved, task, count, gateVars, reqVars>>

\* The tasks it cancelled have ended; the checkpointer is closed.
close_checkpointer ==
    /\ serving = "stopping" /\ ~Driven
    /\ serving' = "down"
    /\ UNCHANGED <<runVars, gateVars, reqVars>>

-----------------------------------------------------------------------------
Drive(t)  == dropped(t) \/ pin_for_session(t) \/ incr(t) \/ event(t) \/ snapshot(t) \/ finish(t)
Serve(r)  == run_start(r) \/ run_join(r) \/ run_joined(r) \/ read(r) \/ disconnect(r)
Answer(p) == post_review(p) \/ open_review(p) \/ sandbox_failed(p) \/ start_resume(p)

Next ==
    \/ \E t \in Task : Drive(t)
    \/ \E r \in Request : Serve(r)
    \/ \E p \in Post : Answer(p)
    \/ cancel_run \/ cancel_all_tasks \/ close_checkpointer

Spec == Init /\ [][Next]_vars

-----------------------------------------------------------------------------
(* Properties.                                                             *)

\* Every variable stays in its type, and no queue outgrows its bound.
TypeOK ==
    /\ serving \in {"up", "stopping", "down"}
    /\ at \in [Task -> {"new", "created", "pinning", "graph", "snapshot", "ended", "dropped"}]
    /\ cancelled \in [Task -> BOOLEAN] /\ sent \in [Task -> 0..Last]
    /\ resume \in [Task -> Review \cup {None}] /\ resolved \in [Task -> Review \cup {None}]
    /\ task \in Task \cup {0} /\ count \in Int
    /\ review \in Review \cup {None} /\ shown \subseteq Review /\ resolving \in BOOLEAN
    /\ post \in [Post -> [at : {"new", "open", "sandbox"}, saw : Review \cup {None}]]
    /\ req \in [Request -> RequestState] /\ subscribers \subseteq Request
    /\ \A r \in Request : Len(req[r].queue) <= Cap

\* However requests, resumes, Stop and the ends of runs fall together,
\* one task at a time drives the graph, it is the registered one, and run_active
\* is true exactly while it is in the graph.
OneDriver ==
    /\ \A t \in Task : Live(t) => t = task
    /\ count = IF task # 0 /\ InGraph(task) THEN 1 ELSE 0

\* A request that waits has a run that will yet end its stream, unless
\* that run, or the one that fed it since, was stopped before it got to its try.
NobodyWaitsForNothing ==
    \A r \in Request :
        req[r].at = "reading" /\ DONE \notin Range(req[r].queue) =>
            \/ Driven
            \/ \E t \in Task : t >= req[r].run /\ at[t] = "dropped"

\* A stream nothing was dropped from is one the client accepts,
\* wherever in a run it was joined.
StreamAccepted ==
    \A r \in Request : ~req[r].lost => req[r].view # "broken"

\* A request is ended by the run it watches, never by an earlier one
\* that is still winding up.
EndedByItsRun ==
    \A r \in Request :
        req[r].at = "reading" /\ DONE \in Range(req[r].queue) => ~Live(req[r].run)

\* An answer is applied to a review of the stage it was given for, also
\* when two tabs answer while the sandbox is being reconnected.
AnswersTheStage ==
    \A t \in Task : resolved[t] # None => resolved[t].stage = resume[t].stage

\* Once the checkpointer is closed nothing drives the graph.
NothingRunsWhenDown == serving = "down" => \A t \in Task : ~Live(t)

\* Not so: a tab that answers a review which has moved on is turned
\* away, says the request's docstring; it is when the stage is another one.
\* No run checks it.
AnswersWhatWasSeen ==
    \A t \in Task : resolved[t] # None => resolved[t] = resume[t]
=============================================================================
