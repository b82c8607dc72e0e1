------------------------- MODULE RunActivityProofs -------------------------
(***************************************************************************)
(* RunActivity for every number of tabs, reviewers, runs and reviews, and  *)
(* every capacity of the queues.                                           *)
(***************************************************************************)
EXTENDS RunActivity, SequenceTheorems, TLAPS

USE RunActivityAssumption DEF RunActivityAssumption

\* What is left of a queue, and what was in it.
LEMMA TailOfQueue ==
    ASSUME NEW q \in Seq(Item), q # <<>>
    PROVE  /\ Tail(q) \in Seq(Item) /\ Len(Tail(q)) = Len(q) - 1 /\ Len(q) \in Nat
           /\ Head(q) \in Item
           /\ Range(Tail(q)) \subseteq Range(q)
           /\ Range(q) \subseteq Range(Tail(q)) \cup {Head(q)}
<1>1. /\ Tail(q) \in Seq(Item) /\ Len(Tail(q)) = Len(q) - 1 /\ Head(q) \in Item
      /\ \A i \in 1..Len(Tail(q)) : Tail(q)[i] = q[i + 1]
  BY HeadTailProperties
<1>2. Len(q) \in Nat /\ DOMAIN q = 1..Len(q) /\ DOMAIN Tail(q) = 1..Len(Tail(q))
  BY <1>1, LenProperties
<1>3. ASSUME NEW x \in Range(Tail(q)) PROVE x \in Range(q)
  <2>1. PICK i \in 1..Len(Tail(q)) : x = Tail(q)[i]
    BY <1>2, <1>3 DEF Range
  <2>2. i + 1 \in 1..Len(q) /\ x = q[i + 1]
    BY <1>1, <1>2, <2>1
  <2> QED BY <1>2, <2>2 DEF Range
<1>4. ASSUME NEW x \in Range(q), x # Head(q) PROVE x \in Range(Tail(q))
  <2>1. PICK i \in 1..Len(q) : x = q[i]
    BY <1>2, <1>4 DEF Range
  <2>2. i # 1
    BY <1>4, <2>1
  <2>3. i - 1 \in 1..Len(Tail(q)) /\ x = Tail(q)[i - 1]
    BY <1>1, <1>2, <2>1, <2>2
  <2> QED BY <1>2, <2>3 DEF Range
<1> QED BY <1>1, <1>2, <1>3, <1>4

\* What is in a queue after an item is put.
LEMMA AppendToQueue ==
    ASSUME NEW q \in Seq(Item), NEW e \in Item
    PROVE  /\ Append(q, e) \in Seq(Item) /\ Len(Append(q, e)) = Len(q) + 1
           /\ Range(Append(q, e)) = Range(q) \cup {e}
<1>1. /\ Append(q, e) \in Seq(Item) /\ Len(Append(q, e)) = Len(q) + 1
      /\ \A i \in 1..Len(q) : Append(q, e)[i] = q[i]
      /\ Append(q, e)[Len(q) + 1] = e
  BY AppendProperties
<1>2. Len(q) \in Nat /\ DOMAIN q = 1..Len(q) /\ DOMAIN Append(q, e) = 1..(Len(q) + 1)
  BY <1>1, LenProperties
<1>3. ASSUME NEW x PROVE x \in Range(Append(q, e)) <=> x \in Range(q) \cup {e}
  BY <1>1, <1>2 DEF Range
<1> QED BY <1>1, <1>3

\* What publishing does to a queue: its reader stays, its bound holds, the event
\* is in, and no other event has come in.
LEMMA Put ==
    ASSUME NEW q \in RequestState, NEW e \in Item, Len(q.queue) <= Cap
    PROVE  /\ put(q, e) \in RequestState /\ Len(put(q, e).queue) <= Cap
           /\ put(q, e).at = q.at /\ put(q, e).run = q.run
           /\ e \in Range(put(q, e).queue)
           /\ Range(put(q, e).queue) \subseteq Range(q.queue) \cup {e}
<1>1. q.queue \in Seq(Item) /\ Len(q.queue) \in Nat
  BY LenProperties DEF RequestState
<1>2. CASE Len(q.queue) < Cap
  <2>1. put(q, e) = [q EXCEPT !.queue = Append(@, e)]
    BY <1>2 DEF put
  <2>2. /\ Append(q.queue, e) \in Seq(Item) /\ Len(Append(q.queue, e)) = Len(q.queue) + 1
        /\ Range(Append(q.queue, e)) = Range(q.queue) \cup {e}
    BY <1>1, AppendToQueue, Zenon
  <2>3. put(q, e).queue = Append(q.queue, e) /\ Len(put(q, e).queue) <= Cap
    BY <1>1, <1>2, <2>1, <2>2 DEF RequestState
  <2>4. /\ put(q, e) \in RequestState
        /\ put(q, e).at = q.at /\ put(q, e).run = q.run
    BY <2>1, <2>2 DEF RequestState
  <2> QED BY <2>2, <2>3, <2>4
<1>3. CASE ~(Len(q.queue) < Cap)
  <2>1. q.queue # <<>>
    BY <1>1, <1>3
  <2>2. /\ Tail(q.queue) \in Seq(Item) /\ Len(Tail(q.queue)) = Len(q.queue) - 1
        /\ Range(Tail(q.queue)) \subseteq Range(q.queue)
    BY <1>1, <2>1, TailOfQueue
  <2>3. put(q, e) = [q EXCEPT !.queue = Append(Tail(@), e), !.lost = TRUE]
    BY <1>3 DEF put
  <2>4. /\ Append(Tail(q.queue), e) \in Seq(Item)
        /\ Len(Append(Tail(q.queue), e)) = Len(Tail(q.queue)) + 1
        /\ Range(Append(Tail(q.queue), e)) = Range(Tail(q.queue)) \cup {e}
    BY <2>2, AppendToQueue, Zenon
  <2>5. put(q, e).queue = Append(Tail(q.queue), e) /\ Len(put(q, e).queue) <= Cap
    BY <1>1, <2>2, <2>3, <2>4 DEF RequestState
  <2>6. /\ put(q, e) \in RequestState
        /\ put(q, e).at = q.at /\ put(q, e).run = q.run
    BY <2>3, <2>4 DEF RequestState
  <2> QED BY <2>2, <2>4, <2>5, <2>6
<1> QED BY <1>2, <1>3

\* Reading takes the head, and nothing else of the queue.
LEMMA Read ==
    ASSUME NEW q \in RequestState, q.queue # <<>>, Len(q.queue) <= Cap,
           NEW s, s = Yield(q, Head(q.queue))
    PROVE  /\ s \in RequestState /\ Len(s.queue) <= Cap
           /\ s.at = q.at /\ s.run = q.run /\ s.queue = Tail(q.queue)
           /\ Range(s.queue) \subseteq Range(q.queue)
<1>1. /\ q.queue \in Seq(Item) /\ Tail(q.queue) \in Seq(Item) /\ Len(q.queue) \in Nat
      /\ Len(Tail(q.queue)) = Len(q.queue) - 1
      /\ Range(Tail(q.queue)) \subseteq Range(q.queue)
  BY TailOfQueue DEF RequestState
<1>2. Verified(q.view, Head(q.queue)) \in {"blank", "idle", "open", "broken"}
  BY DEF Verified, RequestState
<1>3. CASE keep(q, Head(q.queue))
  <2>1. PICK v \in {"blank", "idle", "open", "broken"}, l, o \in BOOLEAN :
          s = [q EXCEPT !.queue = Tail(@), !.view = v, !.led = l, !.seen = o]
    BY <1>2, <1>3 DEF Yield, RequestState
  <2>2. s.queue = Tail(q.queue) /\ s.at = q.at /\ s.run = q.run
    BY <2>1 DEF RequestState
  <2>3. s \in RequestState
    BY <1>1, <2>1 DEF RequestState
  <2>4. Range(s.queue) \subseteq Range(q.queue) /\ Len(s.queue) = Len(q.queue) - 1
    BY <1>1, <2>2, Zenon
  <2> QED BY <1>1, <2>2, <2>3, <2>4
<1>4. CASE ~keep(q, Head(q.queue))
  BY <1>1, <1>4 DEF Yield, RequestState
<1> QED BY <1>3, <1>4

\* The request that waits for nothing.
LEMMA Empty ==
    /\ NewRequest \in RequestState /\ NewRequest.queue = <<>> /\ NewRequest.at = "new"
    /\ Len(NewRequest.queue) <= Cap /\ Range(<<>>) = {}
<1>1. <<>> \in Seq(Item) /\ Len(<<>>) = 0
  BY EmptySeq
<1>2. Range(<<>>) = {}
  BY <1>1 DEF Range
<1>3. NewRequest \in RequestState
  BY <1>1 DEF NewRequest, RequestState
<1>4. NewRequest.queue = <<>> /\ NewRequest.at = "new"
  BY DEF NewRequest
<1> QED BY <1>1, <1>2, <1>3, <1>4

\* The two states a request is subscribed in.
LEMMA Opened ==
    ASSUME NEW t \in Task
    PROVE  /\ LET q == [NewRequest EXCEPT !.at = "reading", !.run = t]
              IN  /\ q \in RequestState /\ Len(q.queue) <= Cap
                  /\ q.at = "reading" /\ q.run = t /\ DONE \notin Range(q.queue)
           /\ LET q == [NewRequest EXCEPT !.at = "joining", !.run = t, !.joined = TRUE,
                                          !.queue = <<"run_started">>]
              IN  /\ q \in RequestState /\ Len(q.queue) <= Cap
                  /\ q.at = "joining" /\ q.run = t /\ DONE \notin Range(q.queue)
<1>1. t \in 0..MaxRuns
  BY DEF Task
<1>2. LET q == [NewRequest EXCEPT !.at = "reading", !.run = t]
      IN  /\ q \in RequestState /\ q.queue = <<>> /\ q.at = "reading" /\ q.run = t
  <2>1. <<>> \in Seq(Item)
    BY EmptySeq
  <2> QED BY <1>1, <2>1 DEF NewRequest, RequestState
<1>3. /\ <<"run_started">> \in Seq(Item) /\ Len(<<"run_started">>) = 1
      /\ Range(<<"run_started">>) = {"run_started"}
  BY DEF Item, Range
<1>4. LET q == [NewRequest EXCEPT !.at = "joining", !.run = t, !.joined = TRUE,
                                  !.queue = <<"run_started">>]
      IN  /\ q \in RequestState /\ q.queue = <<"run_started">> /\ q.at = "joining" /\ q.run = t
  BY <1>1, <1>3 DEF NewRequest, RequestState
<1>5. Len(<<>>) = 0 /\ Range(<<>>) = {}
  BY Empty, EmptySeq
<1> QED BY <1>2, <1>3, <1>4, <1>5 DEF DONE

-----------------------------------------------------------------------------
(* Types.                                                                  *)

TaskType ==
    /\ serving \in {"up", "stopping", "down"}
    /\ at \in [Task -> {"new", "created", "pinning", "graph", "snapshot", "ended", "dropped"}]
    /\ cancelled \in [Task -> BOOLEAN] /\ sent \in [Task -> 0..Last]
    /\ resume \in [Task -> Review \cup {None}] /\ resolved \in [Task -> Review \cup {None}]
    /\ task \in Task \cup {0} /\ count \in Int
    /\ review \in Review \cup {None} /\ shown \subseteq Review /\ resolving \in BOOLEAN
    /\ post \in [Post -> [at : {"new", "open", "sandbox"}, saw : Review \cup {None}]]

RequestType ==
    /\ req \in [Request -> RequestState] /\ subscribers \subseteq Request
    /\ \A r \in Request : Len(req[r].queue) <= Cap

\* Publishing gives every subscriber the event, and nobody another.
LEMMA Published ==
    ASSUME RequestType, NEW e \in Item, publish(e)
    PROVE  /\ RequestType'
           /\ \A r \in Request : /\ req'[r].at = req[r].at /\ req'[r].run = req[r].run
                                 /\ Range(req'[r].queue) \subseteq Range(req[r].queue) \cup {e}
                                 /\ r \in subscribers => e \in Range(req'[r].queue)
<1>1. ASSUME NEW r \in Request
      PROVE  /\ req'[r] \in RequestState /\ Len(req'[r].queue) <= Cap
             /\ req'[r].at = req[r].at /\ req'[r].run = req[r].run
             /\ Range(req'[r].queue) \subseteq Range(req[r].queue) \cup {e}
             /\ r \in subscribers => e \in Range(req'[r].queue)
  <2>1. CASE r \in subscribers
    <3>1. req'[r] = put(req[r], e)
      BY <2>1 DEF publish
    <3>2. req[r] \in RequestState /\ Len(req[r].queue) <= Cap
      BY DEF RequestType
    <3>3. /\ put(req[r], e) \in RequestState /\ Len(put(req[r], e).queue) <= Cap
          /\ put(req[r], e).at = req[r].at /\ put(req[r], e).run = req[r].run
          /\ e \in Range(put(req[r], e).queue)
          /\ Range(put(req[r], e).queue) \subseteq Range(req[r].queue) \cup {e}
      BY <3>2, Put, Zenon
    <3> QED BY <3>1, <3>3, Zenon
  <2>2. CASE r \notin subscribers
    <3>1. req'[r] = req[r]
      BY <2>2 DEF publish
    <3> QED BY <2>2, <3>1 DEF RequestType
  <2> QED BY <2>1, <2>2
<1>2. req' \in [Request -> RequestState] /\ subscribers' = subscribers
  <2>1. req' = [r \in Request |-> req'[r]] /\ subscribers' = subscribers
    BY DEF publish
  <2> QED BY <1>1, <2>1
<1> QED BY <1>1, <1>2 DEF RequestType

\* Everything a run sends is an item, and only its end is DONE.
LEMMA EventsAreItems == DONE \in Item /\ "snapshot" \in Item /\ \A n \in Nat : Event(n) \in Item \ {DONE}
BY DEF Event, Item, DONE

\* What one request's step does, alone, to the requests.
LEMMA OneRequest ==
    ASSUME RequestType, NEW r \in Request, NEW q \in RequestState, Len(q.queue) <= Cap,
           req' = [req EXCEPT ![r] = q], subscribers' \subseteq Request
    PROVE  RequestType'
BY DEF RequestType

\* The POST that was answered is new again, and it alone.
LEMMA AnsweredType ==
    ASSUME TaskType, NEW p \in Post, Answered(p)
    PROVE  /\ post' \in [Post -> [at : {"new", "open", "sandbox"}, saw : Review \cup {None}]]
           /\ post'[p].at = "new" /\ \A q \in Post \ {p} : post'[q] = post[q]
<1>1. [at |-> "new", saw |-> None] \in [at : {"new", "open", "sandbox"}, saw : Review \cup {None}]
  OBVIOUS
<1> QED BY <1>1 DEF Answered, TaskType

\* Every step keeps the types of the runs, the reviews and the POSTs.
LEMMA TaskTyping ==
    ASSUME TaskType, [Next]_vars
    PROVE  TaskType'
<1>0. CASE UNCHANGED vars
  BY <1>0 DEF TaskType, vars, runVars, gateVars, reqVars
<1>1. ASSUME NEW t \in Task, dropped(t) \/ pin_for_session(t) \/ incr(t) PROVE TaskType'
  <2>1. CASE dropped(t)
    BY <2>1 DEF dropped, Over, TaskType, gateVars, reqVars
  <2>2. CASE pin_for_session(t)
    BY <2>2 DEF pin_for_session, TaskType, gateVars, reqVars
  <2>3. CASE incr(t)
    BY <2>3 DEF incr, TaskType, gateVars, reqVars
  <2> QED BY <1>1, <2>1, <2>2, <2>3
<1>2. ASSUME NEW t \in Task, event(t) PROVE TaskType'
  BY <1>2 DEF event, Applies, TaskType, gateVars, reqVars
<1>3. ASSUME NEW t \in Task, snapshot(t) PROVE TaskType'
  BY <1>3 DEF snapshot, TaskType, gateVars, reqVars
<1>4. ASSUME NEW t \in Task, finish(t) PROVE TaskType'
  BY <1>4 DEF finish, Over, Pauses, TaskType, gateVars, reqVars
<1>5. ASSUME NEW r \in Request, run_start(r) PROVE TaskType'
  BY <1>5 DEF run_start, Create, TaskType, gateVars, reqVars
<1>6. ASSUME NEW r \in Request, run_join(r) \/ run_joined(r) \/ read(r) \/ disconnect(r)
      PROVE  TaskType'
  BY <1>6 DEF run_join, run_joined, read, disconnect, TaskType, runVars, gateVars
<1>7. ASSUME NEW p \in Post, post_review(p) PROVE TaskType'
  BY <1>7 DEF post_review, TaskType, runVars, gateVars, reqVars
<1>8. ASSUME NEW p \in Post, open_review(p) \/ sandbox_failed(p) PROVE TaskType'
  <2>1. CASE post' = [post EXCEPT ![p].at = "sandbox"] /\ UNCHANGED resolving
    BY <1>8, <2>1 DEF open_review, sandbox_failed, TaskType, runVars
  <2>2. CASE Refuse(p)
    BY <1>8, <2>2, AnsweredType DEF Refuse, open_review, sandbox_failed, TaskType, runVars
  <2> QED BY <1>8, <2>1, <2>2 DEF open_review, sandbox_failed
<1>9. ASSUME NEW p \in Post, start_resume(p) PROVE TaskType'
  <2>1. CASE is_driving
    BY <1>9, <2>1, AnsweredType DEF start_resume, Refuse, TaskType, runVars
  <2>2. CASE ~is_driving
    <3>1. PICK t \in Task : Create(t, post[p].saw)
      BY <1>9, <2>2 DEF start_resume
    <3>2. post[p].saw \in Review \cup {None}
      BY DEF TaskType
    <3> QED BY <1>9, <2>2, <3>1, <3>2, AnsweredType DEF start_resume, Create, TaskType
  <2> QED BY <2>1, <2>2
<1>10. CASE cancel_run
  BY <1>10 DEF cancel_run, Driven, TaskType, gateVars, reqVars
<1>11. CASE cancel_all_tasks
  BY <1>11 DEF cancel_all_tasks, Driven, TaskType, gateVars, reqVars
<1>12. CASE close_checkpointer
  BY <1>12 DEF close_checkpointer, TaskType, runVars, gateVars, reqVars
<1> QED BY <1>0, <1>1, <1>2, <1>3, <1>4, <1>5, <1>6, <1>7, <1>8, <1>9, <1>10, <1>11, <1>12
        DEF Next, Drive, Serve, Answer

\* The steps that leave the requests alone.
LEMMA RequestsAlone ==
    ASSUME \/ \E t \in Task : dropped(t) \/ pin_for_session(t) \/ incr(t)
           \/ \E p \in Post : Answer(p)
           \/ cancel_run \/ cancel_all_tasks \/ close_checkpointer \/ UNCHANGED vars
    PROVE  UNCHANGED reqVars
BY DEF dropped, pin_for_session, incr, Answer, post_review, open_review, sandbox_failed,
       start_resume, cancel_run, cancel_all_tasks, close_checkpointer, vars

\* Every step keeps the types of the requests and the bound of their queues.
LEMMA RequestTyping ==
    ASSUME TaskType, RequestType, [Next]_vars
    PROVE  RequestType'
<1>1. CASE UNCHANGED reqVars
  BY <1>1 DEF RequestType, reqVars
<1>2. ASSUME NEW t \in Task, event(t) PROVE RequestType'
  <2>1. Event(sent[t]) \in Item
    BY EventsAreItems DEF TaskType
  <2> QED BY <1>2, <2>1, Published DEF event
<1>3. ASSUME NEW t \in Task, snapshot(t) PROVE RequestType'
  BY <1>1, <1>3, Published, EventsAreItems DEF snapshot
<1>4. ASSUME NEW t \in Task, finish(t) PROVE RequestType'
  BY <1>4, Published, EventsAreItems DEF finish
<1>5. ASSUME NEW r \in Request, run_start(r) PROVE RequestType'
  <2>1. PICK t \in Task : subscribe(r, [NewRequest EXCEPT !.at = "reading", !.run = t])
    BY <1>5 DEF run_start
  <2>2. [NewRequest EXCEPT !.at = "reading", !.run = t] \in RequestState
    BY <2>1, Opened
  <2>3. Len([NewRequest EXCEPT !.at = "reading", !.run = t].queue) <= Cap
    BY <2>1, Opened
  <2> QED BY <2>1, <2>2, <2>3, OneRequest DEF subscribe, RequestType
<1>6. ASSUME NEW r \in Request, run_join(r) PROVE RequestType'
  <2> DEFINE q == [NewRequest EXCEPT !.at = "joining", !.run = task, !.joined = TRUE,
                                     !.queue = <<"run_started">>]
  <2>1. subscribe(r, q)
    BY <1>6 DEF run_join
  <2>2. task \in Task
    BY <1>6 DEF run_join, Driven, TaskType
  <2>3. q \in RequestState /\ Len(q.queue) <= Cap
    BY <2>2, Opened, Zenon
  <2> HIDE DEF q
  <2> QED BY <2>1, <2>3, OneRequest DEF subscribe, RequestType
<1>7. ASSUME NEW r \in Request, run_joined(r) PROVE RequestType'
  <2>1. ASSUME NEW q \in RequestState, Len(q.queue) <= Cap, NEW s \in {"reading", "failed"}
        PROVE  [q EXCEPT !.at = s] \in RequestState /\ Len([q EXCEPT !.at = s].queue) <= Cap
    BY <2>1 DEF RequestState
  <2>2. req[r] \in RequestState /\ Len(req[r].queue) <= Cap /\ subscribers' \subseteq Request
    BY <1>7 DEF RequestType, run_joined
  <2>3. put(req[r], "snapshot") \in RequestState /\ Len(put(req[r], "snapshot").queue) <= Cap
    BY <2>2, Put, EventsAreItems
  <2>4. \/ req' = [req EXCEPT ![r] = [req[r] EXCEPT !.at = "reading"]]
        \/ req' = [req EXCEPT ![r] = [req[r] EXCEPT !.at = "failed"]]
        \/ req' = [req EXCEPT ![r] = [put(req[r], "snapshot") EXCEPT !.at = "reading"]]
    BY <1>7 DEF run_joined, RequestType
  <2> QED BY <2>1, <2>2, <2>3, <2>4, OneRequest
<1>8. ASSUME NEW r \in Request, read(r) PROVE RequestType'
  <2>1. req[r] \in RequestState /\ Len(req[r].queue) <= Cap /\ subscribers' \subseteq Request
    BY <1>8 DEF RequestType, read
  <2>2. CASE Head(req[r].queue) = DONE
    BY <1>8, <2>1, <2>2, OneRequest, Empty DEF read
  <2>3. CASE Head(req[r].queue) # DONE
    <3>1. /\ req' = [req EXCEPT ![r] = Yield(req[r], Head(req[r].queue))]
          /\ req[r].queue # <<>>
      BY <1>8, <2>3 DEF read
    <3>2. /\ Yield(req[r], Head(req[r].queue)) \in RequestState
          /\ Len(Yield(req[r], Head(req[r].queue)).queue) <= Cap
      BY <2>1, <3>1, Read
    <3> QED BY <2>1, <3>1, <3>2, OneRequest
  <2> QED BY <2>2, <2>3
<1>9. ASSUME NEW r \in Request, disconnect(r) PROVE RequestType'
  <2>1. [req[r] EXCEPT !.at = "failed"] \in RequestState
        /\ Len([req[r] EXCEPT !.at = "failed"].queue) <= Cap
    BY DEF RequestType, RequestState
  <2>2. subscribers' \subseteq Request
    BY <1>9 DEF disconnect, RequestType
  <2>3. \/ req' = [req EXCEPT ![r] = NewRequest]
        \/ req' = [req EXCEPT ![r] = [req[r] EXCEPT !.at = "failed"]]
    BY <1>9 DEF disconnect
  <2>4. NewRequest \in RequestState /\ Len(NewRequest.queue) <= Cap
    BY Empty
  <2>5. Len(req[r].queue) <= Cap
    BY DEF RequestType
  <2> QED BY <2>1, <2>2, <2>3, <2>4, OneRequest
<1> QED
  BY <1>1, <1>2, <1>3, <1>4, <1>5, <1>6, <1>7, <1>8, <1>9, RequestsAlone DEF Next, Drive, Serve

\* The types hold at the start.
LEMMA InitTypes == Init => TaskType /\ RequestType
<1> SUFFICES ASSUME Init PROVE TaskType /\ RequestType
  OBVIOUS
<1>1. TaskType
  <2>1. [at |-> "new", saw |-> None] \in [at : {"new", "open", "sandbox"}, saw : Review \cup {None}]
    OBVIOUS
  <2>2. 0 \in 0..Last
    OBVIOUS
  <2>3. post \in [Post -> [at : {"new", "open", "sandbox"}, saw : Review \cup {None}]]
    BY <2>1 DEF Init
  <2>4. /\ resume \in [Task -> Review \cup {None}] /\ resolved \in [Task -> Review \cup {None}]
        /\ review \in Review \cup {None}
    BY DEF Init
  <2>5. /\ at \in [Task -> {"new", "created", "pinning", "graph", "snapshot", "ended", "dropped"}]
        /\ cancelled \in [Task -> BOOLEAN] /\ sent \in [Task -> 0..Last]
    BY <2>2 DEF Init
  <2>6. /\ serving \in {"up", "stopping", "down"} /\ task \in Task \cup {0} /\ count \in Int
        /\ shown \subseteq Review /\ resolving \in BOOLEAN
    <3>1. serving = "up" /\ task = 0 /\ count = 0 /\ shown = {} /\ resolving = FALSE
      BY DEF Init
    <3>2. task \in Task \cup {0} /\ count \in Int
      BY <3>1
    <3>3. serving \in {"up", "stopping", "down"} /\ shown \subseteq Review /\ resolving \in BOOLEAN
      BY <3>1, Zenon
    <3> QED BY <3>2, <3>3
  <2> QED BY <2>3, <2>4, <2>5, <2>6, Zenon DEF TaskType
<1>2. RequestType
  BY Empty DEF Init, RequestType
<1> QED BY <1>1, <1>2

\* The two halves are TypeOK.
LEMMA TypesAreTypeOK == TypeOK <=> TaskType /\ RequestType
BY DEF TypeOK, TaskType, RequestType

-----------------------------------------------------------------------------
(* One driver.                                                             *)

Waiting(r) == req[r].at \in {"joining", "reading"}

Drivers ==
    /\ OneDriver
    /\ task # 0 => at[task] # "new"
    /\ \A t, u \in Task : u < t /\ at[t] # "new" => at[u] # "new"
    /\ \A t \in Task : at[t] = "new" => resolved[t] = None /\ sent[t] = 0

\* Tasks are created one after the other, by whoever found none driving.
LEMMA Created ==
    ASSUME TaskType, Drivers, ~Driven, NEW t \in Task, NEW v, Create(t, v)
    PROVE  Drivers' /\ Live(t)' /\ task' = t /\ (\A u \in Task : at'[u] # "new" => u <= t)
<1>1. /\ at' = [at EXCEPT ![t] = "created"] /\ task' = t /\ at[t] = "new"
      /\ (t > 1 => at[t - 1] # "new")
      /\ UNCHANGED <<cancelled, sent, resolved, count>>
  BY DEF Create
<1>2. \A u \in Task : ~Live(u)
  BY DEF Drivers, OneDriver, Driven, Live, Task
<1>3. \A u \in Task : Live(u)' => u = t
  BY <1>1, <1>2 DEF Live, TaskType
<1>4. count = 0
  BY <1>2 DEF Drivers, OneDriver, InGraph, Live, Driven, TaskType
<1>5. ~InGraph(t)' /\ Live(t)'
  BY <1>1 DEF InGraph, Live, TaskType
<1>6. \A u \in Task : at[u] # "new" => u < t
  BY <1>1 DEF Drivers, Task
<1>7. \A u \in Task : u < t => at[u] # "new"
  <2>1. CASE t = 1
    BY <2>1 DEF Task
  <2>2. CASE t > 1
    BY <1>1, <2>2 DEF Drivers, Task
  <2> QED BY <2>1, <2>2 DEF Task
<1>8. \A x, u \in Task : u < x /\ at'[x] # "new" => at'[u] # "new"
  BY <1>1, <1>6, <1>7 DEF TaskType, Task
<1>9. OneDriver'
  BY <1>1, <1>3, <1>4, <1>5 DEF OneDriver
<1>10. (task # 0 => at[task] # "new")' /\ (\A u \in Task : at[u] = "new" => resolved[u] = None /\ sent[u] = 0)'
  BY <1>1 DEF Drivers, TaskType
<1>11. \A u \in Task : at'[u] # "new" => u <= t
  BY <1>1, <1>6 DEF TaskType, Task
<1> QED BY <1>1, <1>5, <1>8, <1>9, <1>10, <1>11 DEF Drivers

\* The steps that create no task.
Same == UNCHANGED <<at, sent, resolved, task, count>>

\* Every step leaves one driver at most.
LEMMA DriversStep ==
    ASSUME TaskType, Drivers, [Next]_vars
    PROVE  Drivers'
<1>0. CASE Same
  BY <1>0 DEF Same, Drivers, OneDriver, Live, InGraph
<1>1. ASSUME NEW t \in Task, dropped(t) PROVE Drivers'
  BY <1>1 DEF dropped, Over, Drivers, OneDriver, Live, InGraph, TaskType, Task
<1>2. ASSUME NEW t \in Task, pin_for_session(t) PROVE Drivers'
  BY <1>2 DEF pin_for_session, Drivers, OneDriver, Live, InGraph, TaskType, Task
<1>3. ASSUME NEW t \in Task, incr(t) PROVE Drivers'
  BY <1>3 DEF incr, Drivers, OneDriver, Live, InGraph, TaskType, Task
<1>4. ASSUME NEW t \in Task, event(t) PROVE Drivers'
  <2>1. /\ at[t] = "graph" /\ at'[t] \in {"graph", "snapshot"} /\ UNCHANGED <<task, count>>
        /\ \A u \in Task \ {t} : at'[u] = at[u] /\ sent'[u] = sent[u] /\ resolved'[u] = resolved[u]
    BY <1>4 DEF event, TaskType
  <2> QED BY <2>1 DEF Drivers, OneDriver, Live, InGraph, TaskType, Task
<1>5. ASSUME NEW t \in Task, snapshot(t) PROVE Drivers'
  BY <1>5 DEF snapshot, Drivers, OneDriver, Live, InGraph, TaskType, Task
<1>6. ASSUME NEW t \in Task, finish(t) PROVE Drivers'
  <2>1. /\ InGraph(t) /\ Over(t, "ended") /\ count' = count - 1 /\ task' = 0
    BY <1>6 DEF finish, InGraph
  <2>2. t = task /\ count = 1 /\ \A u \in Task : Live(u) => u = t
    BY <2>1 DEF Drivers, OneDriver, InGraph, Live, Task
  <2> QED BY <2>1, <2>2 DEF Over, Drivers, OneDriver, Live, InGraph, TaskType, Task
<1>7. ASSUME NEW r \in Request, run_start(r) PROVE Drivers'
  BY <1>7, Created DEF run_start
<1>8. ASSUME NEW p \in Post, start_resume(p), ~is_driving PROVE Drivers'
  <2>1. ~Driven /\ \E t \in Task : Create(t, post[p].saw)
    BY <1>8 DEF start_resume, is_driving
  <2> QED BY <2>1, Created
<1>9. ASSUME NEW p \in Post, start_resume(p), is_driving PROVE Same
  BY <1>9 DEF start_resume, runVars, Same
<1>10. ASSUME NEW r \in Request, run_join(r) \/ run_joined(r) \/ read(r) \/ disconnect(r)
       PROVE  Same
  BY <1>10 DEF run_join, run_joined, read, disconnect, runVars, Same
<1>11. ASSUME NEW p \in Post, post_review(p) \/ open_review(p) \/ sandbox_failed(p) PROVE Same
  BY <1>11 DEF post_review, open_review, sandbox_failed, runVars, Same
<1>12. CASE cancel_run \/ cancel_all_tasks \/ close_checkpointer \/ UNCHANGED vars
  BY <1>0, <1>12 DEF cancel_run, cancel_all_tasks, close_checkpointer, vars, runVars, Same
<1> QED BY <1>0, <1>1, <1>2, <1>3, <1>4, <1>5, <1>6, <1>7, <1>8, <1>9, <1>10, <1>11, <1>12
        DEF Next, Drive, Serve, Answer

\* There is none at the start.
LEMMA DriversInit == TaskType /\ Init => Drivers
BY DEF Init, Drivers, OneDriver, Live, InGraph, Task, TaskType

-----------------------------------------------------------------------------
(* Answers and reviews.                                                    *)

\* One POST is under way at a time, and no resume runs meanwhile; past its check
\* the review it answers stays pending.
Posting ==
    \A p \in Post : post[p].at # "new" =>
        /\ resolving /\ \A q \in Post \ {p} : post[q].at = "new"
        /\ \A t \in Task : Live(t) => resume[t] = None
        /\ post[p].at = "sandbox" => review # None /\ review.stage = post[p].saw.stage

\* A resume that has not been applied yet meets the review it was accepted for.
Carrying ==
    \A t \in Task : Live(t) /\ resume[t] # None /\ sent[t] <= 1 =>
        resolved[t] = None /\ review # None /\ review.stage = resume[t].stage

Answers == Posting /\ Carrying /\ AnswersTheStage

\* Every step keeps the answers with their reviews.
LEMMA AnswersStep ==
    ASSUME TaskType, Drivers, Answers, [Next]_vars
    PROVE  Answers'
<1> DEFINE Still == UNCHANGED <<resolving, post, review, resolved>>
<1>0. ASSUME Still, UNCHANGED <<resume, at, sent>> PROVE Answers'
  BY <1>0 DEF Answers, Posting, Carrying, AnswersTheStage, Live
<1>1. ASSUME NEW t \in Task, Over(t, "dropped") \/ Over(t, "ended"),
             UNCHANGED <<resolving, post>>, review' = review \/ (review = None /\ Live(t))
      PROVE  Answers'
  <2>1. /\ ~Live(t)' /\ resume'[t] = None /\ resolved'[t] = None
        /\ \A u \in Task \ {t} : /\ at'[u] = at[u] /\ sent'[u] = sent[u]
                                 /\ resume'[u] = resume[u] /\ resolved'[u] = resolved[u]
    BY <1>1 DEF Over, Live, TaskType
  <2>2. CASE review' = review
    BY <1>1, <2>1, <2>2 DEF Answers, Posting, Carrying, AnswersTheStage, Live
  <2>3. CASE review = None /\ Live(t)
    <3>1. \A u \in Task : ~Live(u)'
      BY <2>1, <2>3 DEF Drivers, OneDriver, Live
    <3>2. \A p \in Post : post[p].at # "sandbox"
      BY <2>3 DEF Answers, Posting
    <3> QED BY <1>1, <2>1, <3>1, <3>2 DEF Answers, Posting, Carrying, AnswersTheStage
  <2> QED BY <1>1, <2>2, <2>3
<1>2. ASSUME NEW t \in Task, dropped(t) PROVE Answers'
  BY <1>1, <1>2 DEF dropped, gateVars
<1>3. ASSUME NEW t \in Task, pin_for_session(t) \/ incr(t) \/ snapshot(t) PROVE Answers'
  <2>1. /\ Live(t) /\ UNCHANGED <<resume, sent>> /\ Still
        /\ \A u \in Task : Live(u)' => Live(u)
    BY <1>3 DEF pin_for_session, incr, snapshot, Live, gateVars, TaskType
  <2> QED BY <2>1 DEF Answers, Posting, Carrying, AnswersTheStage
<1>4. ASSUME NEW t \in Task, event(t) PROVE Answers'
  <2>1. /\ Live(t) /\ UNCHANGED <<resume, resolving, post>> /\ sent'[t] = sent[t] + 1
        /\ \A u \in Task : Live(u)' => Live(u) /\ u = t
    BY <1>4 DEF event, Live, Drivers, OneDriver, TaskType
  <2>2. CASE Applies(t)
    <3>1. /\ resolved' = [resolved EXCEPT ![t] = review] /\ review' = None
          /\ sent[t] = 1 /\ resume[t] # None /\ review # None
      BY <1>4, <2>2 DEF event, Applies
    <3>2. review.stage = resume[t].stage
      BY <2>1, <3>1 DEF Answers, Carrying
    <3>3. \A p \in Post : post[p].at = "new"
      BY <2>1, <3>1 DEF Answers, Posting
    <3>4. Posting' /\ AnswersTheStage'
      BY <2>1, <3>1, <3>2, <3>3 DEF Answers, Posting, AnswersTheStage, TaskType
    <3>5. Carrying'
      BY <2>1, <3>1 DEF Carrying, TaskType
    <3> QED BY <3>4, <3>5 DEF Answers
  <2>3. CASE ~Applies(t)
    <3>1. UNCHANGED <<resolved, review>>
      BY <1>4, <2>3 DEF event
    <3>2. sent[t] \in Nat
      BY DEF TaskType
    <3> QED BY <2>1, <3>1, <3>2 DEF Answers, Posting, Carrying, AnswersTheStage
  <2> QED BY <2>2, <2>3
<1>5. ASSUME NEW t \in Task, finish(t) PROVE Answers'
  <2>1. Over(t, "ended") /\ UNCHANGED <<resolving, post>> /\ Live(t)
    BY <1>5 DEF finish, Live
  <2>2. review' = review \/ review = None
    BY <1>5 DEF finish, Pauses
  <2> QED BY <1>1, <2>1, <2>2
<1>6. ASSUME NEW r \in Request, run_start(r) PROVE Answers'
  <2>1. PICK t \in Task : Create(t, None)
    BY <1>6 DEF run_start
  <2>2. Still /\ UNCHANGED sent /\ ~Driven
    BY <1>6, <2>1 DEF run_start, Create, gateVars
  <2>3. /\ resume'[t] = None
        /\ resolved[t] = None
        /\ \A u \in Task \ {t} : resume'[u] = resume[u] /\ (Live(u)' => Live(u))
    BY <2>1 DEF Create, TaskType, Live, Drivers
  <2> QED BY <2>2, <2>3 DEF Answers, Posting, Carrying, AnswersTheStage
<1>7. ASSUME NEW r \in Request, run_join(r) \/ run_joined(r) \/ read(r) \/ disconnect(r)
      PROVE  Answers'
  BY <1>0, <1>7 DEF run_join, run_joined, read, disconnect, runVars, gateVars
<1>8. ASSUME NEW p \in Post, post_review(p) PROVE Answers'
  <2>1. /\ ~Driven /\ ~resolving /\ resolving' /\ UNCHANGED <<runVars, review>>
        /\ post'[p].at = "open"
        /\ \A q \in Post \ {p} : post'[q] = post[q]
    BY <1>8 DEF post_review, is_driving, TaskType
  <2>2. \A t \in Task : ~Live(t) /\ ~Live(t)'
    BY <2>1 DEF Drivers, OneDriver, Driven, Live, runVars, Task
  <2>3. \A q \in Post : post[q].at = "new"
    BY <2>1 DEF Answers, Posting
  <2> QED BY <2>1, <2>2, <2>3 DEF Answers, Posting, Carrying, AnswersTheStage, runVars
<1>9. ASSUME NEW p \in Post, UNCHANGED <<runVars, review>>, post[p].at # "new", Refuse(p)
      PROVE  Answers'
  <2>1. \A q \in Post : post'[q].at = "new"
    BY <1>9, AnsweredType DEF Refuse, Answers, Posting
  <2> QED BY <1>9, <2>1 DEF Answers, Posting, Carrying, AnswersTheStage, runVars, Live
<1>10. ASSUME NEW p \in Post, open_review(p) PROVE Answers'
  <2>1. post[p].at = "open" /\ UNCHANGED <<runVars, review>>
    BY <1>10 DEF open_review
  <2>2. CASE review # None /\ review.stage = post[p].saw.stage
    <3>1. /\ UNCHANGED resolving
          /\ post'[p].at = "sandbox" /\ post'[p].saw = post[p].saw
          /\ \A q \in Post \ {p} : post'[q] = post[q]
      BY <1>10, <2>2 DEF open_review, TaskType
    <3> QED BY <2>1, <2>2, <3>1 DEF Answers, Posting, Carrying, AnswersTheStage, runVars, Live
  <2>3. CASE ~(review # None /\ review.stage = post[p].saw.stage)
    BY <1>9, <1>10, <2>1, <2>3 DEF open_review
  <2> QED BY <2>2, <2>3
<1>11. ASSUME NEW p \in Post, sandbox_failed(p) PROVE Answers'
  BY <1>9, <1>11 DEF sandbox_failed
<1>12. ASSUME NEW p \in Post, start_resume(p) PROVE Answers'
  <2>1. CASE is_driving
    BY <1>9, <1>12, <2>1 DEF start_resume
  <2>2. CASE ~is_driving
    <3>1. PICK t \in Task : Create(t, post[p].saw)
      BY <1>12, <2>2 DEF start_resume
    <3>2. post[p].at = "sandbox" /\ Answered(p) /\ review' = review
      BY <1>12, <2>2 DEF start_resume
    <3>3. \A q \in Post : post'[q].at = "new"
      BY <3>2, AnsweredType DEF Answers, Posting
    <3>4. review # None /\ review.stage = post[p].saw.stage
      BY <3>2 DEF Answers, Posting
    <3>5. /\ resume'[t] = post[p].saw /\ resolved'[t] = None /\ UNCHANGED resolved
          /\ \A u \in Task \ {t} : resume'[u] = resume[u]
      BY <3>1 DEF Create, Drivers, TaskType
    <3>6. \A u \in Task : Live(u)' => u = t
      BY <2>2, <3>1, Created DEF is_driving, Drivers, OneDriver
    <3> QED BY <3>2, <3>3, <3>4, <3>5, <3>6 DEF Answers, Posting, Carrying, AnswersTheStage
  <2> QED BY <2>1, <2>2
<1>13. CASE cancel_run \/ cancel_all_tasks \/ close_checkpointer \/ UNCHANGED vars
  BY <1>0, <1>13 DEF cancel_run, cancel_all_tasks, close_checkpointer, vars, runVars, gateVars
<1> QED BY <1>2, <1>3, <1>4, <1>5, <1>6, <1>7, <1>8, <1>10, <1>11, <1>12, <1>13
        DEF Next, Drive, Serve, Answer

\* There are none at the start.
LEMMA AnswersInit == Init => Answers
BY DEF Init, Answers, Posting, Carrying, AnswersTheStage, Live

-----------------------------------------------------------------------------
(* Streams.                                                                *)

\* A request that waits is fed by the run it found or a later one.
Watched ==
    /\ \A r \in Request : Waiting(r) =>
           r \in subscribers /\ req[r].run \in Task /\ at[req[r].run] # "new"
    /\ task # 0 => \A t \in Task : t > task => at[t] = "new"

Ended(r) == DONE \in Range(req[r].queue)

Ending == \A r \in Request : Waiting(r) /\ Ended(r) => ~Live(req[r].run)

Fed ==
    \A r \in Request : Waiting(r) /\ ~Ended(r) =>
        Driven \/ \E t \in Task : t >= req[r].run /\ at[t] = "dropped"

Streams == Watched /\ Ending /\ Fed

\* Nobody waits at the start.
LEMMA StreamsInit == Init => Streams
BY Empty DEF Init, Streams, Watched, Ending, Fed, Waiting

\* A step of the runs that publishes nothing, or no end.
LEMMA StreamsKept ==
    ASSUME TaskType, Drivers, Streams, UNCHANGED subscribers, UNCHANGED task, Driven,
           \A r \in Request : /\ req'[r].at = req[r].at /\ req'[r].run = req[r].run
                              /\ Ended(r)' => Ended(r),
           \A t \in Task : (at[t] = "new" <=> at'[t] = "new") /\ (Live(t)' => Live(t)),
           Driven' \/ at'[task] = "dropped"
    PROVE  Streams'
<1>1. Watched'
  BY DEF Streams, Watched, Waiting
<1>2. Ending'
  BY DEF Streams, Ending, Watched, Waiting
<1>3. task \in Task /\ \A r \in Request : Waiting(r) => req[r].run <= task
  BY DEF Streams, Watched, Driven, TaskType, Task
<1>4. Fed'
  BY <1>3 DEF Fed, Waiting
<1> QED BY <1>1, <1>2, <1>4 DEF Streams

\* A step of one request: what it still waits for, it waited for.
LEMMA StreamsOfOne ==
    ASSUME RequestType, Streams, UNCHANGED <<at, task>>, NEW r \in Request, NEW q,
           req' = [req EXCEPT ![r] = q],
           \/ q.at \notin {"joining", "reading"}
           \/ Waiting(r) /\ q.run = req[r].run /\ (DONE \in Range(q.queue) <=> Ended(r)),
           subscribers' = subscribers \/ (subscribers' = subscribers \ {r} /\ q.at = "new")
    PROVE  Streams'
<1>1. req'[r] = q /\ \A s \in Request \ {r} : req'[s] = req[s]
  BY DEF RequestType
<1>2. Watched'
  BY <1>1 DEF Streams, Watched, Waiting
<1>3. Ending' /\ Fed'
  BY <1>1 DEF Streams, Ending, Fed, Waiting, Ended, Live, Driven
<1> QED BY <1>2, <1>3 DEF Streams

\* A run that starts is watched by the one request that started it, if any.
LEMMA StreamsOfNew ==
    ASSUME TaskType, RequestType, Drivers, Streams, ~Driven, NEW t \in Task, NEW v, Create(t, v),
           \A r \in Request : \/ req'[r] = req[r] /\ (r \in subscribers => r \in subscribers')
                              \/ req'[r].run = t /\ r \in subscribers' /\ ~Ended(r)'
    PROVE  Streams'
<1>1. Live(t)' /\ task' = t /\ \A u \in Task : at'[u] # "new" => u <= t
  BY Created, Zenon
<1>2. Driven'
  BY <1>1 DEF Driven, Task
<1>3. at[t] = "new" /\ \A u \in Task : u # t => at'[u] = at[u]
  BY DEF Create, TaskType
<1>4. at'[t] # "new"
  BY <1>1 DEF Live
<1>5. Watched'
  <2>1. \A u \in Task : u > t => at'[u] = "new"
    BY <1>1 DEF Task
  <2> QED BY <1>1, <1>3, <1>4, <2>1 DEF Streams, Watched, Waiting
<1>6. Ending'
  <2> SUFFICES ASSUME NEW r \in Request, Waiting(r)', Ended(r)' PROVE ~Live(req[r].run)'
    BY DEF Ending
  <2>1. req'[r] = req[r]
    BY Zenon
  <2>2. Waiting(r) /\ Ended(r)
    BY <2>1 DEF Waiting, Ended
  <2>3. req[r].run \in Task /\ at[req[r].run] # "new" /\ ~Live(req[r].run)
    BY <2>2 DEF Streams, Watched, Ending
  <2> QED BY <1>3, <2>1, <2>3 DEF Live
<1>7. Fed'
  BY <1>2 DEF Fed
<1> QED BY <1>5, <1>6, <1>7 DEF Streams

\* Every step keeps the requests fed.
LEMMA StreamsStep ==
    ASSUME TaskType, RequestType, Drivers, Streams, [Next]_vars
    PROVE  Streams'
<1>0. ASSUME UNCHANGED <<at, task>>, UNCHANGED reqVars PROVE Streams'
  BY <1>0 DEF reqVars, Streams, Watched, Ending, Fed, Waiting, Ended, Live, Driven
<1>1. ASSUME NEW t \in Task, Live(t) PROVE t = task /\ Driven
  BY <1>1 DEF Drivers, OneDriver, Driven, Task
<1>2. ASSUME NEW t \in Task, dropped(t) PROVE Streams'
  <2>1. /\ UNCHANGED reqVars /\ UNCHANGED task /\ Live(t)
        /\ at' = [at EXCEPT ![t] = "dropped"]
    BY <1>2 DEF dropped, Over, Live
  <2>2. t = task /\ Driven
    BY <1>1, <2>1
  <2>3. /\ at'[t] = "dropped" /\ \A u \in Task : u # t => at'[u] = at[u]
    BY <2>1 DEF TaskType
  <2>4. \A u \in Task : (at[u] = "new" <=> at'[u] = "new") /\ (Live(u)' => Live(u))
    BY <2>1, <2>3 DEF Live
  <2> QED BY <2>1, <2>2, <2>3, <2>4, StreamsKept DEF reqVars, Ended
<1>3. ASSUME NEW t \in Task, pin_for_session(t) \/ incr(t) PROVE Streams'
  <2>1. /\ UNCHANGED reqVars /\ UNCHANGED task /\ Live(t) /\ Live(t)'
        /\ \A u \in Task : u # t => at'[u] = at[u]
    BY <1>3 DEF pin_for_session, incr, Live, TaskType
  <2>2. t = task /\ Driven /\ Driven'
    BY <1>1, <2>1 DEF Driven
  <2>3. \A u \in Task : (at[u] = "new" <=> at'[u] = "new") /\ (Live(u)' => Live(u))
    BY <2>1 DEF Live
  <2> QED BY <2>1, <2>2, <2>3, StreamsKept DEF reqVars, Ended
<1>4. ASSUME NEW t \in Task, event(t) \/ snapshot(t) PROVE Streams'
  <2>1. /\ UNCHANGED <<task, subscribers>> /\ Live(t) /\ Live(t)'
        /\ \A u \in Task : u # t => at'[u] = at[u]
    BY <1>4 DEF event, snapshot, publish, Live, reqVars, TaskType
  <2>2. t = task /\ Driven /\ Driven'
    BY <1>1, <2>1 DEF Driven
  <2>3. \A u \in Task : (at[u] = "new" <=> at'[u] = "new") /\ (Live(u)' => Live(u))
    BY <2>1 DEF Live
  <2>4. (\E e \in Item \ {DONE} : publish(e)) \/ UNCHANGED reqVars
    <3>1. Event(sent[t]) \in Item \ {DONE} /\ "snapshot" \in Item \ {DONE}
      BY EventsAreItems DEF TaskType, DONE
    <3> QED BY <1>4, <3>1 DEF event, snapshot
  <2>5. \A r \in Request : /\ req'[r].at = req[r].at /\ req'[r].run = req[r].run
                           /\ Ended(r)' => Ended(r)
    <3>1. CASE UNCHANGED reqVars
      BY <3>1 DEF reqVars, Ended
    <3>2. ASSUME NEW e \in Item \ {DONE}, publish(e)
          PROVE  \A r \in Request : /\ req'[r].at = req[r].at /\ req'[r].run = req[r].run
                                    /\ Ended(r)' => Ended(r)
      BY <3>2, Published DEF Ended
    <3> QED BY <2>4, <3>1, <3>2
  <2> QED BY <2>1, <2>2, <2>3, <2>5, StreamsKept
<1>5. ASSUME NEW t \in Task, finish(t) PROVE Streams'
  <2>1. /\ Live(t) /\ publish(DONE) /\ task' = 0 /\ at' = [at EXCEPT ![t] = "ended"]
    BY <1>5 DEF finish, Over, Live
  <2>2. /\ subscribers' = subscribers
        /\ \A r \in Request : /\ req'[r].at = req[r].at /\ req'[r].run = req[r].run
                              /\ r \in subscribers => Ended(r)'
    BY <2>1, Published, EventsAreItems DEF Ended, publish
  <2>3. \A u \in Task : ~Live(u)' /\ (at'[u] = "new" => at[u] = "new")
    BY <1>1, <2>1 DEF Live, TaskType
  <2>4. ASSUME NEW r \in Request, Waiting(r)'
        PROVE  /\ r \in subscribers' /\ Ended(r)'
               /\ req'[r].run \in Task /\ at'[req'[r].run] # "new"
    <3>1. Waiting(r) /\ req'[r].run = req[r].run
      BY <2>2, <2>4 DEF Waiting
    <3>2. r \in subscribers /\ req[r].run \in Task /\ at[req[r].run] # "new"
      BY <3>1 DEF Streams, Watched
    <3> QED BY <2>2, <2>3, <3>1, <3>2
  <2>5. Watched'
    BY <2>1, <2>4 DEF Watched
  <2> QED BY <2>3, <2>4, <2>5 DEF Streams, Ending, Fed
<1>6. ASSUME NEW r \in Request, run_start(r) PROVE Streams'
  <2> DEFINE Q(t) == [NewRequest EXCEPT !.at = "reading", !.run = t]
  <2>1. PICK t \in Task : Create(t, None) /\ subscribe(r, Q(t))
    BY <1>6 DEF run_start
  <2>2. Q(t).run = t /\ DONE \notin Range(Q(t).queue)
    BY Opened
  <2>3. req' = [req EXCEPT ![r] = Q(t)] /\ subscribers' = subscribers \cup {r}
    BY <2>1 DEF subscribe
  <2> HIDE DEF Q
  <2>4. req'[r].run = t /\ r \in subscribers' /\ ~Ended(r)'
    BY <2>2, <2>3 DEF RequestType, Ended
  <2>5. \A s \in Request \ {r} : req'[s] = req[s] /\ (s \in subscribers => s \in subscribers')
    BY <2>3 DEF RequestType
  <2>6. ~Driven
    BY <1>6 DEF run_start
  <2> QED BY <2>1, <2>4, <2>5, <2>6, StreamsOfNew
<1>7. ASSUME NEW r \in Request, run_join(r) PROVE Streams'
  <2> DEFINE q == [NewRequest EXCEPT !.at = "joining", !.run = task, !.joined = TRUE,
                                     !.queue = <<"run_started">>]
  <2>1. Driven /\ subscribe(r, q) /\ UNCHANGED <<at, task>>
    BY <1>7 DEF run_join, runVars
  <2>2. task \in Task /\ at[task] # "new"
    BY <2>1 DEF Driven, Live, TaskType
  <2>3. q.run = task /\ DONE \notin Range(q.queue)
    BY <2>2, Opened
  <2> HIDE DEF q
  <2>4. req' = [req EXCEPT ![r] = q] /\ subscribers' = subscribers \cup {r}
    BY <2>1 DEF subscribe
  <2>5. req'[r] = q /\ \A s \in Request \ {r} : req'[s] = req[s]
    BY <2>4 DEF RequestType
  <2>6. Watched'
    BY <2>1, <2>2, <2>3, <2>4, <2>5 DEF Streams, Watched, Waiting
  <2>7. Ending' /\ Fed'
    BY <2>1, <2>3, <2>5 DEF Streams, Ending, Fed, Waiting, Ended, Live, Driven
  <2> QED BY <2>6, <2>7 DEF Streams
<1>8. ASSUME NEW r \in Request, run_joined(r) PROVE Streams'
  <2>1. req[r] \in RequestState /\ Waiting(r) /\ UNCHANGED <<at, task, subscribers>>
    BY <1>8 DEF run_joined, RequestType, Waiting, runVars
  <2>2. CASE req' = [req EXCEPT ![r].at = "reading"]
    <3>1. req' = [req EXCEPT ![r] = [req[r] EXCEPT !.at = "reading"]]
      BY <2>2 DEF RequestType
    <3>2. /\ [req[r] EXCEPT !.at = "reading"].run = req[r].run
          /\ [req[r] EXCEPT !.at = "reading"].queue = req[r].queue
      BY <2>1 DEF RequestState
    <3> QED BY <2>1, <3>1, <3>2, StreamsOfOne DEF Ended
  <2>3. CASE req' = [req EXCEPT ![r].at = "failed"]
    <3>1. req' = [req EXCEPT ![r] = [req[r] EXCEPT !.at = "failed"]]
      BY <2>3 DEF RequestType
    <3>2. [req[r] EXCEPT !.at = "failed"].at \notin {"joining", "reading"}
      BY <2>1 DEF RequestState
    <3> QED BY <2>1, <3>1, <3>2, StreamsOfOne
  <2>4. CASE /\ Len(req[r].queue) < Cap
             /\ req' = [req EXCEPT ![r] = [put(@, "snapshot") EXCEPT !.at = "reading"]]
    <3> DEFINE q == [put(req[r], "snapshot") EXCEPT !.at = "reading"]
    <3>1. put(req[r], "snapshot") = [req[r] EXCEPT !.queue = Append(@, "snapshot")]
      BY <2>4 DEF put
    <3>2. q.run = req[r].run /\ q.queue = Append(req[r].queue, "snapshot")
      BY <2>1, <3>1 DEF RequestState
    <3>3. Range(Append(req[r].queue, "snapshot")) = Range(req[r].queue) \cup {"snapshot"}
      BY <2>1, AppendToQueue, EventsAreItems DEF RequestState
    <3>4. DONE \in Range(q.queue) <=> Ended(r)
      <4>1. DONE # "snapshot" /\ (Ended(r) <=> DONE \in Range(req[r].queue))
        BY DEF DONE, Ended
      <4>2. Range(q.queue) = Range(req[r].queue) \cup {"snapshot"}
        BY <3>2, <3>3, Zenon
      <4> QED BY <4>1, <4>2, Zenon
    <3>5. req' = [req EXCEPT ![r] = q]
      BY <2>4 DEF RequestType
    <3> HIDE DEF q
    <3> QED BY <2>1, <3>2, <3>4, <3>5, StreamsOfOne
  <2> QED BY <1>8, <2>2, <2>3, <2>4 DEF run_joined
<1>9. ASSUME NEW r \in Request, read(r) PROVE Streams'
  <2>1. /\ req[r] \in RequestState /\ Len(req[r].queue) <= Cap /\ req[r].queue # <<>>
        /\ Waiting(r) /\ UNCHANGED <<at, task>>
    BY <1>9 DEF read, RequestType, Waiting, runVars
  <2>2. CASE Head(req[r].queue) = DONE
    <3>1. req' = [req EXCEPT ![r] = NewRequest] /\ subscribers' = subscribers \ {r}
      BY <1>9, <2>2 DEF read
    <3> QED BY <2>1, <3>1, Empty, StreamsOfOne
  <2>3. CASE Head(req[r].queue) # DONE
    <3> DEFINE q == Yield(req[r], Head(req[r].queue))
    <3>1. req' = [req EXCEPT ![r] = q] /\ UNCHANGED subscribers
      BY <1>9, <2>3 DEF read, RequestType
    <3>2. q.run = req[r].run /\ q.queue = Tail(req[r].queue)
      BY <2>1, Read
    <3>3. DONE \in Range(Tail(req[r].queue)) <=> Ended(r)
      BY <2>1, <2>3, TailOfQueue DEF RequestState, Ended
    <3> HIDE DEF q
    <3> QED BY <2>1, <3>1, <3>2, <3>3, StreamsOfOne
  <2> QED BY <2>2, <2>3
<1>10. ASSUME NEW r \in Request, disconnect(r) PROVE Streams'
  <2>1. UNCHANGED <<at, task>> /\ req[r] \in RequestState
    BY <1>10 DEF disconnect, runVars, RequestType
  <2>2. \/ req' = [req EXCEPT ![r] = NewRequest] /\ subscribers' = subscribers \ {r}
        \/ req' = [req EXCEPT ![r] = [req[r] EXCEPT !.at = "failed"]] /\ UNCHANGED subscribers
    BY <1>10 DEF disconnect, RequestType
  <2>3. [req[r] EXCEPT !.at = "failed"].at \notin {"joining", "reading"}
    BY <2>1 DEF RequestState
  <2> QED BY <2>1, <2>2, <2>3, Empty, StreamsOfOne
<1>11. ASSUME NEW p \in Post, start_resume(p) PROVE Streams'
  <2>1. UNCHANGED reqVars
    BY <1>11 DEF start_resume
  <2>2. CASE is_driving
    BY <1>0, <1>11, <2>1, <2>2 DEF start_resume, runVars
  <2>3. CASE ~is_driving
    <3>1. ~Driven /\ \E t \in Task : Create(t, post[p].saw)
      BY <1>11, <2>3 DEF start_resume, is_driving
    <3>2. PICK t \in Task : Create(t, post[p].saw)
      BY <3>1
    <3> QED BY <2>1, <3>1, <3>2, StreamsOfNew DEF reqVars
  <2> QED BY <2>2, <2>3
<1>12. ASSUME NEW p \in Post, post_review(p) \/ open_review(p) \/ sandbox_failed(p)
       PROVE  Streams'
  BY <1>0, <1>12 DEF post_review, open_review, sandbox_failed, runVars
<1>13. CASE cancel_run \/ cancel_all_tasks \/ close_checkpointer \/ UNCHANGED vars
  BY <1>0, <1>13 DEF cancel_run, cancel_all_tasks, close_checkpointer, vars, runVars
<1> QED BY <1>2, <1>3, <1>4, <1>5, <1>6, <1>7, <1>8, <1>9, <1>10, <1>11, <1>12, <1>13
        DEF Next, Drive, Serve, Answer

-----------------------------------------------------------------------------
(* What a client hears.  A stream is followed through the phases of its    *)
(* client: the one it is in, the one after each item its queue holds, and  *)
(* the last, which has to go with what the run sends next.                 *)

Phases == {"blank", "led", "idle", "open", "over"}

\* "led" is a client that joined a run and has not seen a step open; an end is final.
After(joined, c, e) ==
    CASE c = "over" \/ e = DONE                     -> "over"
      [] e = "snapshot" /\ c # "blank"              -> c
      [] e = "run_started" /\ c = "blank"           -> IF joined THEN "led" ELSE "idle"
      [] e = "run_started" /\ c # "blank" /\ joined -> c
      [] e = "open" /\ c \in {"led", "idle"}        -> "open"
      [] e = "close" /\ c = "led"                   -> c
      [] e = "close" /\ c = "open"                  -> "idle"
      [] OTHER                                      -> "broken"

PhaseOf(q) == IF q.joined /\ q.view = "idle" /\ ~q.seen THEN "led" ELSE q.view

\* The filter's two flags say what the client of a joined run has seen.
Coherent(q) ==
    /\ q.at = "joining" => q.joined
    /\ q.joined => /\ q.led <=> q.view # "blank"
                   /\ q.view = "open" => q.seen
                   /\ q.seen => q.led

\* The phases a stream may be left in by a run that has sent n events.
Fits(joined, c, n) ==
    \/ c = "over"
    \/ n = 0 /\ c = IF joined THEN "led" ELSE "blank"
    \/ n > 0 /\ n % 2 = 1 /\ (c = "idle" \/ (joined /\ c = "led"))
    \/ n > 0 /\ n % 2 = 0 /\ (c = "open" \/ (joined /\ c = "led"))

Through(q, n, ph) ==
    /\ ph \in [0..Len(q.queue) -> Phases]
    /\ ph[0] = PhaseOf(q)
    /\ \A i \in 1..Len(q.queue) : ph[i] = After(q.joined, ph[i - 1], q.queue[i])
    /\ Fits(q.joined, ph[Len(q.queue)], n)

Follows(q, n) == Coherent(q) /\ \E ph : Through(q, n, ph)

\* What the run under way has sent; one that is yet to start has sent nothing.
Told == IF Driven THEN sent[task] ELSE 0

Heard(r) ==
    ~req[r].lost => /\ req[r].view # "broken"
                    /\ Waiting(r) => Follows(req[r], Told)

\* A task sends from inside the graph only, and takes its snapshot after the first event.
Sending ==
    \A t \in Task : /\ ~InGraph(t) => sent[t] = 0
                    /\ at[t] = "snapshot" => sent[t] >= 1

Hearing == Sending /\ \A r \in Request : Heard(r)

\* The item an event is leaves every stream that fits the run where the run is next.
LEMMA EventFits ==
    ASSUME NEW j \in BOOLEAN, NEW c \in Phases, NEW n \in Nat, Fits(j, c, n)
    PROVE  After(j, c, Event(n)) \in Phases /\ Fits(j, After(j, c, Event(n)), n + 1)
<1>1. CASE n = 0
  BY <1>1 DEF Fits, After, Event, Phases, DONE
<1>2. CASE n > 0 /\ n % 2 = 1
  <2>1. (n + 1) % 2 = 0 /\ n + 1 > 0 /\ Event(n) = "open"
    BY <1>2 DEF Event
  <2>2. c \in {"over", "idle"} \/ (j /\ c = "led")
    BY <1>2 DEF Fits
  <2>3. After(j, c, "open") = IF c = "over" THEN "over" ELSE "open"
    BY <2>2 DEF After, DONE
  <2> QED BY <2>1, <2>2, <2>3 DEF Fits, Phases
<1>3. CASE n > 0 /\ n % 2 = 0
  <2>1. (n + 1) % 2 = 1 /\ n + 1 > 0 /\ Event(n) = "close"
    BY <1>3 DEF Event
  <2>2. c \in {"over", "open"} \/ (j /\ c = "led")
    BY <1>3 DEF Fits
  <2>3. After(j, c, "close") = IF c = "open" THEN "idle" ELSE c
    BY <2>2 DEF After, DONE
  <2> QED BY <2>1, <2>2, <2>3 DEF Fits, Phases
<1>4. n = 0 \/ (n > 0 /\ n % 2 = 1) \/ (n > 0 /\ n % 2 = 0)
  OBVIOUS
<1> QED BY <1>1, <1>2, <1>3, <1>4

\* A snapshot changes nothing once the stream is led; an end ends it.
LEMMA OthersFit ==
    ASSUME NEW j \in BOOLEAN, NEW c \in Phases, NEW n \in Nat, Fits(j, c, n)
    PROVE  /\ n >= 1 \/ j => /\ After(j, c, "snapshot") \in Phases
                             /\ Fits(j, After(j, c, "snapshot"), n)
           /\ After(j, c, DONE) \in Phases
           /\ \A m : Fits(j, After(j, c, DONE), m)
<1>1. c # "blank" => After(j, c, "snapshot") = c
  BY DEF After, DONE
<1>2. n >= 1 \/ j => c # "blank"
  BY DEF Fits
<1>3. After(j, c, DONE) = "over"
  BY DEF After, DONE
<1> QED BY <1>1, <1>2, <1>3 DEF Fits, Phases

\* An item that is put at the end of a queue and not lost is heard after the rest.
LEMMA PutFollows ==
    ASSUME NEW q \in RequestState, NEW e \in Item, NEW n, NEW m, Len(q.queue) <= Cap,
           ~put(q, e).lost, Follows(q, n),
           \A c \in Phases : Fits(q.joined, c, n) =>
               /\ After(q.joined, c, e) \in Phases
               /\ Fits(q.joined, After(q.joined, c, e), m)
    PROVE  Follows(put(q, e), m)
<1> DEFINE s == put(q, e)
           k == Len(q.queue)
<1>1. q.queue \in Seq(Item) /\ k \in Nat
  BY LenProperties DEF RequestState
<1>2. k < Cap
  BY DEF put, RequestState
<1>3. s = [q EXCEPT !.queue = Append(@, e)]
  BY <1>2 DEF put
<1>4. /\ s.queue = Append(q.queue, e) /\ s.joined = q.joined /\ s.view = q.view
      /\ s.led = q.led /\ s.seen = q.seen /\ s.at = q.at
  BY <1>3 DEF RequestState
<1>5. /\ Len(s.queue) = k + 1 /\ \A i \in 1..k : s.queue[i] = q.queue[i]
      /\ s.queue[k + 1] = e
  BY <1>1, <1>4, AppendProperties
<1>6. PICK ph : Through(q, n, ph)
  BY DEF Follows
<1> DEFINE ps == [i \in 0..(k + 1) |-> IF i <= k THEN ph[i] ELSE After(q.joined, ph[k], e)]
<1> HIDE DEF s, k
<1>7. /\ ph \in [0..k -> Phases] /\ ph[0] = PhaseOf(q) /\ Fits(q.joined, ph[k], n)
      /\ \A i \in 1..k : ph[i] = After(q.joined, ph[i - 1], q.queue[i])
  BY <1>6 DEF Through, k
<1>8. After(q.joined, ph[k], e) \in Phases /\ Fits(q.joined, After(q.joined, ph[k], e), m)
  BY <1>1, <1>7
<1>9. /\ ps \in [0..(k + 1) -> Phases] /\ ps[0] = ph[0]
      /\ ps[k + 1] = After(q.joined, ph[k], e)
  BY <1>1, <1>7, <1>8
<1>10. ASSUME NEW i \in 1..(k + 1)
       PROVE  ps[i] = After(s.joined, ps[i - 1], s.queue[i])
  <2>1. CASE i <= k
    <3>1. i \in 1..k /\ ps[i] = ph[i] /\ ps[i - 1] = ph[i - 1]
      BY <1>1, <2>1
    <3> HIDE DEF ps
    <3> QED BY <1>4, <1>5, <1>7, <3>1
  <2>2. CASE i = k + 1
    <3>1. ps[i - 1] = ph[k]
      BY <1>1, <2>2
    <3> HIDE DEF ps
    <3> QED BY <1>4, <1>5, <1>9, <2>2, <3>1
  <2> QED BY <1>1, <2>1, <2>2
<1> HIDE DEF ps
<1>11. PhaseOf(s) = PhaseOf(q) /\ Coherent(s)
  BY <1>4 DEF PhaseOf, Coherent, Follows
<1>12. Through(s, m, ps)
  BY <1>4, <1>5, <1>7, <1>8, <1>9, <1>10, <1>11 DEF Through
<1> QED BY <1>11, <1>12 DEF Follows, s

\* What is read leaves the client in the phase the stream said it would.
LEMMA YieldPhase ==
    ASSUME NEW q \in RequestState, Coherent(q), NEW e \in Item \ {DONE},
           PhaseOf(q) \in Phases, After(q.joined, PhaseOf(q), e) \in Phases
    PROVE  /\ PhaseOf(Yield(q, e)) = After(q.joined, PhaseOf(q), e)
           /\ Coherent(Yield(q, e)) /\ Yield(q, e).view # "broken"
<1> DEFINE s == Yield(q, e)
<1>1. /\ q.joined \in BOOLEAN /\ q.led \in BOOLEAN /\ q.seen \in BOOLEAN
      /\ q.view \in {"blank", "idle", "open", "broken"}
  BY DEF RequestState
<1>2. CASE keep(q, e)
  <2>1. s = [q EXCEPT !.queue = Tail(@), !.view = Verified(@, e),
                      !.led = @ \/ e = "run_started", !.seen = @ \/ e = "open"]
    BY <1>2 DEF Yield
  <2>2. /\ s.joined = q.joined /\ s.view = Verified(q.view, e)
        /\ s.led = (q.led \/ e = "run_started") /\ s.seen = (q.seen \/ e = "open")
        /\ s.at = q.at
    BY <2>1 DEF RequestState
  <2> HIDE DEF s
  <2>3. CASE e = "run_started"
    BY <1>1, <1>2, <2>2, <2>3
    DEF keep, Verified, After, PhaseOf, Coherent, Phases, DONE, s
  <2>4. CASE e = "open"
    BY <1>1, <1>2, <2>2, <2>4
    DEF keep, Verified, After, PhaseOf, Coherent, Phases, DONE, s
  <2>5. CASE e = "close"
    BY <1>1, <1>2, <2>2, <2>5
    DEF keep, Verified, After, PhaseOf, Coherent, Phases, DONE, s
  <2>6. CASE e = "snapshot"
    BY <1>1, <1>2, <2>2, <2>6
    DEF keep, Verified, After, PhaseOf, Coherent, Phases, DONE, s
  <2> QED BY <2>3, <2>4, <2>5, <2>6 DEF Item, s
<1>3. CASE ~keep(q, e)
  <2>1. s = [q EXCEPT !.queue = Tail(@)]
    BY <1>3 DEF Yield
  <2>2. /\ s.joined = q.joined /\ s.view = q.view /\ s.led = q.led /\ s.seen = q.seen
        /\ s.at = q.at
    BY <2>1 DEF RequestState
  <2> HIDE DEF s
  <2>3. /\ q.joined
        /\ (e = "run_started" /\ q.led) \/ (e = "close" /\ ~q.seen)
    BY <1>3 DEF keep
  <2> QED BY <1>1, <2>2, <2>3
          DEF After, PhaseOf, Coherent, Phases, DONE, s
<1> QED BY <1>2, <1>3

\* The rest of the stream is what it was.
LEMMA ReadFollows ==
    ASSUME NEW q \in RequestState, NEW n, Len(q.queue) <= Cap, q.queue # <<>>,
           Head(q.queue) # DONE, Follows(q, n)
    PROVE  LET s == Yield(q, Head(q.queue))
           IN  Follows(s, n) /\ s.view # "broken" /\ s.lost = q.lost
<1> DEFINE s == Yield(q, Head(q.queue))
           k == Len(q.queue)
<1>1. /\ q.queue \in Seq(Item) /\ k \in Nat \ {0} /\ Head(q.queue) = q.queue[1]
      /\ Head(q.queue) \in Item \ {DONE}
      /\ Len(Tail(q.queue)) = k - 1 /\ \A i \in 1..(k - 1) : Tail(q.queue)[i] = q.queue[i + 1]
  <2>1. q.queue \in Seq(Item)
    BY DEF RequestState
  <2> QED BY <2>1, HeadTailProperties, LenProperties, EmptySeq
<1>2. PICK ph : Through(q, n, ph)
  BY DEF Follows
<1>3. s.queue = Tail(q.queue) /\ s.joined = q.joined /\ s.lost = q.lost
  BY DEF Yield, RequestState
<1> DEFINE ps == [i \in 0..(k - 1) |-> ph[i + 1]]
<1> HIDE DEF k
<1>4. /\ ph \in [0..k -> Phases] /\ ph[0] = PhaseOf(q) /\ Fits(q.joined, ph[k], n)
      /\ \A i \in 1..k : ph[i] = After(q.joined, ph[i - 1], q.queue[i])
  BY <1>2 DEF Through, k
<1>5. /\ PhaseOf(q) \in Phases /\ ph[1] \in Phases
      /\ ph[1] = After(q.joined, PhaseOf(q), Head(q.queue))
  BY <1>1, <1>4
<1>6. PhaseOf(s) = ph[1] /\ Coherent(s) /\ s.view # "broken"
  BY <1>1, <1>5, YieldPhase DEF Follows
<1> HIDE DEF s
<1>7. ps \in [0..(k - 1) -> Phases] /\ ps[0] = ph[1] /\ ps[k - 1] = ph[k]
  BY <1>1, <1>4
<1>8. ASSUME NEW i \in 1..(k - 1)
      PROVE  ps[i] = After(s.joined, ps[i - 1], s.queue[i])
  <2>1. i + 1 \in 1..k /\ ps[i] = ph[i + 1] /\ ps[i - 1] = ph[i]
    BY <1>1
  <2>2. ph[i + 1] = After(q.joined, ph[i], q.queue[i + 1])
    <3>1. (i + 1) - 1 = i
      OBVIOUS
    <3> QED BY <1>4, <2>1, <3>1
  <2>3. s.queue[i] = q.queue[i + 1]
    BY <1>1, <1>3
  <2> QED BY <1>3, <2>1, <2>2, <2>3
<1>9. Len(s.queue) = k - 1
  BY <1>1, <1>3
<1> HIDE DEF ps
<1>10. Through(s, n, ps)
  BY <1>3, <1>4, <1>6, <1>7, <1>8, <1>9 DEF Through
<1> QED BY <1>3, <1>6, <1>10 DEF Follows, s

\* A client that opens a stream starts where the run will lead it, or was led by run().
LEMMA OpenedFollows ==
    ASSUME NEW t \in Task
    PROVE  /\ Follows([NewRequest EXCEPT !.at = "reading", !.run = t], 0)
           /\ \A n \in Nat :
                Follows([NewRequest EXCEPT !.at = "joining", !.run = t, !.joined = TRUE,
                                           !.queue = <<"run_started">>], n)
<1>1. Follows([NewRequest EXCEPT !.at = "reading", !.run = t], 0)
  <2> DEFINE q == [NewRequest EXCEPT !.at = "reading", !.run = t]
             ph == [i \in 0..0 |-> "blank"]
  <2>1. q.queue = <<>> /\ Len(q.queue) = 0 /\ ~q.joined /\ q.view = "blank" /\ q.at = "reading"
    BY EmptySeq DEF NewRequest
  <2>2. ph \in [0..0 -> Phases] /\ ph[0] = "blank"
    BY DEF Phases
  <2> HIDE DEF q, ph
  <2>3. Through(q, 0, ph)
    BY <2>1, <2>2 DEF Through, PhaseOf, Fits
  <2> QED BY <2>1, <2>3 DEF Follows, Coherent, q
<1>2. ASSUME NEW n \in Nat
      PROVE  Follows([NewRequest EXCEPT !.at = "joining", !.run = t, !.joined = TRUE,
                                        !.queue = <<"run_started">>], n)
  <2> DEFINE q == [NewRequest EXCEPT !.at = "joining", !.run = t, !.joined = TRUE,
                                     !.queue = <<"run_started">>]
             ph == [i \in 0..1 |-> IF i = 0 THEN "blank" ELSE "led"]
  <2>1. /\ Len(q.queue) = 1 /\ q.queue[1] = "run_started"
        /\ q.joined /\ q.view = "blank" /\ ~q.led /\ ~q.seen
    BY DEF NewRequest
  <2>2. ph \in [0..1 -> Phases] /\ ph[0] = "blank" /\ ph[1] = "led"
    BY DEF Phases
  <2>3. After(TRUE, "blank", "run_started") = "led" /\ Fits(TRUE, "led", n)
    BY DEF After, Fits, DONE
  <2>4. q.joined = TRUE
    BY DEF NewRequest
  <2> HIDE DEF q, ph
  <2>5. PhaseOf(q) = "blank"
    BY <2>1 DEF PhaseOf
  <2>6. \A i \in 1..1 : ph[i] = After(q.joined, ph[i - 1], q.queue[i])
    <3>1. ph[1 - 1] = "blank" /\ \A i \in 1..1 : i = 1
      BY <2>2
    <3> QED BY <2>1, <2>2, <2>3, <2>4, <3>1
  <2>7. Fits(q.joined, ph[1], n)
    BY <2>2, <2>3, <2>4
  <2>8. Through(q, n, ph)
    BY <2>1, <2>2, <2>5, <2>6, <2>7 DEF Through
  <2> QED BY <2>1, <2>8 DEF Follows, Coherent, q
<1> QED BY <1>1, <1>2

\* An item is published: every client that waits hears it after the rest, and the run
\* has sent m events by now.
LEMMA PublishedIsHeard ==
    ASSUME RequestType, Watched, \A r \in Request : Heard(r),
           NEW e \in Item, publish(e), NEW m, Told' = m,
           \A j \in BOOLEAN, c \in Phases : Fits(j, c, Told) =>
               /\ After(j, c, e) \in Phases
               /\ Fits(j, After(j, c, e), m)
    PROVE  \A r \in Request : Heard(r)'
<1> SUFFICES ASSUME NEW r \in Request, ~req'[r].lost
             PROVE  /\ req'[r].view # "broken"
                    /\ req'[r].at \in {"joining", "reading"} => Follows(req'[r], m)
  BY DEF Heard, Waiting
<1>1. req[r] \in RequestState /\ Len(req[r].queue) <= Cap /\ req[r].joined \in BOOLEAN
  BY DEF RequestType, RequestState
<1>2. CASE r \in subscribers
  <2>1. req'[r] = put(req[r], e)
    BY <1>2 DEF publish
  <2>2. /\ put(req[r], e).view = req[r].view /\ put(req[r], e).at = req[r].at
        /\ req[r].lost => put(req[r], e).lost
    BY <1>1 DEF put, RequestState
  <2>3. /\ ~req[r].lost /\ req[r].view # "broken"
        /\ req[r].at \in {"joining", "reading"} => Follows(req[r], Told)
    BY <2>1, <2>2 DEF Heard, Waiting
  <2>4. ASSUME Follows(req[r], Told) PROVE Follows(put(req[r], e), m)
    BY <1>1, <2>1, <2>4, PutFollows
  <2> QED BY <2>1, <2>2, <2>3, <2>4
<1>3. CASE r \notin subscribers
  <2>1. req'[r] = req[r]
    BY <1>3 DEF publish
  <2>2. ~Waiting(r)
    BY <1>3 DEF Watched
  <2> QED BY <2>1, <2>2 DEF Heard, Waiting
<1> QED BY <1>2, <1>3

\* A step of one request alone.
LEMMA OneHears ==
    ASSUME RequestType, \A s \in Request : Heard(s), NEW r \in Request, NEW q,
           req' = [req EXCEPT ![r] = q], Told' = Told,
           ~q.lost => /\ q.view # "broken"
                      /\ q.at \in {"joining", "reading"} => Follows(q, Told)
    PROVE  \A s \in Request : Heard(s)'
<1>1. req'[r] = q /\ \A s \in Request \ {r} : req'[s] = req[s]
  BY DEF RequestType
<1>2. Heard(r)'
  BY <1>1 DEF Heard, Waiting
<1>3. ASSUME NEW s \in Request \ {r} PROVE Heard(s)'
  BY <1>1 DEF Heard, Waiting
<1> QED BY <1>2, <1>3

\* A request that is new, or opens a stream, has lost and seen nothing.
LEMMA NewIsHeard ==
    /\ ~NewRequest.lost /\ NewRequest.view = "blank" /\ NewRequest.at = "new"
    /\ \A t : LET q == [NewRequest EXCEPT !.at = "reading", !.run = t]
              IN  ~q.lost /\ q.view = "blank" /\ q.at = "reading"
    /\ \A t : LET q == [NewRequest EXCEPT !.at = "joining", !.run = t, !.joined = TRUE,
                                          !.queue = <<"run_started">>]
              IN  ~q.lost /\ q.view = "blank" /\ q.at = "joining"
BY DEF NewRequest

\* Changing where a request is changes nothing of what it hears.
LEMMA MovedFollows ==
    ASSUME NEW q \in RequestState, NEW n, NEW a, a # "joining", Follows(q, n)
    PROVE  Follows([q EXCEPT !.at = a], n)
<1> DEFINE s == [q EXCEPT !.at = a]
<1>1. /\ s.queue = q.queue /\ s.joined = q.joined /\ s.view = q.view
      /\ s.led = q.led /\ s.seen = q.seen /\ s.at = a
  BY DEF RequestState
<1> HIDE DEF s
<1>2. PhaseOf(s) = PhaseOf(q) /\ Coherent(s)
  BY <1>1 DEF PhaseOf, Coherent, Follows
<1>3. \A ph : Through(q, n, ph) => Through(s, n, ph)
  BY <1>1, <1>2 DEF Through
<1> QED BY <1>2, <1>3 DEF Follows, s

\* The tasks keep to what they may have sent.
LEMMA SendingStep ==
    ASSUME TaskType, Drivers, Sending, [Next]_vars
    PROVE  Sending'
<1>0. ASSUME UNCHANGED <<at, sent>> PROVE Sending'
  BY <1>0 DEF Sending, InGraph
<1>1. ASSUME NEW t \in Task, Drive(t) PROVE Sending'
  <2>1. CASE dropped(t) \/ finish(t)
    BY <2>1 DEF dropped, finish, Over, Sending, InGraph, TaskType
  <2>2. CASE pin_for_session(t) \/ incr(t) \/ snapshot(t)
    BY <2>2 DEF pin_for_session, incr, snapshot, Sending, InGraph, TaskType
  <2>3. CASE event(t)
    <3>1. sent[t] \in Nat /\ sent'[t] = sent[t] + 1 /\ InGraph(t)'
          /\ \A u \in Task \ {t} : sent'[u] = sent[u] /\ at'[u] = at[u]
      BY <2>3 DEF event, InGraph, TaskType
    <3> QED BY <3>1 DEF Sending, InGraph
  <2> QED BY <1>1, <2>1, <2>2, <2>3 DEF Drive
<1>2. ASSUME NEW t \in Task, NEW v, Create(t, v) PROVE Sending'
  BY <1>2 DEF Create, Sending, InGraph, TaskType
<1>3. ASSUME NEW r \in Request, Serve(r) PROVE Sending'
  <2>1. (\E t \in Task : Create(t, None)) \/ UNCHANGED <<at, sent>>
    BY <1>3 DEF Serve, run_start, run_join, run_joined, read, disconnect, runVars
  <2> QED BY <1>0, <1>2, <2>1
<1>4. ASSUME NEW p \in Post, Answer(p) PROVE Sending'
  <2>1. (\E t \in Task : Create(t, post[p].saw)) \/ UNCHANGED <<at, sent>>
    BY <1>4 DEF Answer, post_review, open_review, sandbox_failed, start_resume, runVars
  <2> QED BY <1>0, <1>2, <2>1
<1>5. CASE cancel_run \/ cancel_all_tasks \/ close_checkpointer \/ UNCHANGED vars
  BY <1>0, <1>5 DEF cancel_run, cancel_all_tasks, close_checkpointer, vars, runVars
<1> QED BY <1>1, <1>3, <1>4, <1>5 DEF Next

\* The steps that say nothing of the run under way.
LEMMA ToldKept ==
    ASSUME TaskType, Drivers, Sending,
           \/ \E t \in Task : dropped(t) \/ pin_for_session(t) \/ incr(t) \/ snapshot(t)
           \/ ~Driven /\ \E t \in Task : \E v : Create(t, v)
           \/ UNCHANGED <<at, sent, task>>
    PROVE  Told' = Told
<1>1. CASE UNCHANGED <<at, sent, task>>
  BY <1>1 DEF Told, Driven, Live
<1>2. ASSUME NEW t \in Task, NEW v, ~Driven, Create(t, v) PROVE Told' = Told
  <2>1. task' = t /\ sent' = sent /\ sent[t] = 0 /\ t # 0
    BY <1>2 DEF Create, Drivers, Task
  <2> QED BY <1>2, <2>1 DEF Told
<1>3. ASSUME NEW t \in Task, dropped(t) PROVE Told' = Told
  <2>1. /\ t = task /\ t # 0 /\ ~Live(t)' /\ task' = task /\ sent[t] = 0
    BY <1>3 DEF dropped, Over, Drivers, OneDriver, Live, Sending, InGraph, TaskType, Task
  <2>2. Told = 0 /\ Told' = 0
    BY <2>1 DEF Told, Driven
  <2> QED BY <2>2
<1>4. ASSUME NEW t \in Task, pin_for_session(t) \/ incr(t) \/ snapshot(t) PROVE Told' = Told
  <2>1. /\ Live(t) /\ Live(t)' /\ task' = task /\ sent' = sent
    BY <1>4 DEF pin_for_session, incr, snapshot, Live, TaskType
  <2>2. t = task
    BY <2>1 DEF Drivers, OneDriver
  <2> QED BY <2>1, <2>2 DEF Told, Driven
<1> QED BY <1>1, <1>2, <1>3, <1>4

\* Every step keeps every stream in a phase that goes with its run.
LEMMA HearingStep ==
    ASSUME TaskType, RequestType, Drivers, Streams, Hearing, [Next]_vars
    PROVE  Hearing'
<1>0. Sending' /\ Sending /\ Watched /\ Told \in Nat /\ \A r \in Request : Heard(r)
  BY SendingStep DEF Hearing, Streams, Told, Driven, TaskType
<1> SUFFICES \A r \in Request : Heard(r)'
  BY <1>0 DEF Hearing
<1>1. ASSUME UNCHANGED req, Told' = Told PROVE \A r \in Request : Heard(r)'
  BY <1>0, <1>1 DEF Heard, Waiting
<1>2. ASSUME NEW t \in Task, dropped(t) \/ pin_for_session(t) \/ incr(t)
      PROVE  \A r \in Request : Heard(r)'
  <2>1. UNCHANGED req
    BY <1>2 DEF dropped, pin_for_session, incr, reqVars
  <2>2. Told' = Told
    BY <1>0, <1>2, ToldKept
  <2> QED BY <1>1, <2>1, <2>2
<1>3. ASSUME NEW t \in Task, event(t) PROVE \A r \in Request : Heard(r)'
  <2>1. /\ Live(t) /\ Live(t)' /\ task' = task /\ sent'[t] = sent[t] + 1
        /\ publish(Event(sent[t])) /\ sent[t] \in Nat
    BY <1>3 DEF event, Live, TaskType
  <2>2. t = task /\ task # 0
    BY <2>1 DEF Drivers, OneDriver, Task
  <2>3. Told = sent[t] /\ Told' = sent[t] + 1
    BY <2>1, <2>2 DEF Told, Driven
  <2>4. Event(sent[t]) \in Item
    BY <2>1, EventsAreItems
  <2>5. \A j \in BOOLEAN, c \in Phases : Fits(j, c, Told) =>
            /\ After(j, c, Event(sent[t])) \in Phases
            /\ Fits(j, After(j, c, Event(sent[t])), sent[t] + 1)
    BY <2>1, <2>3, EventFits
  <2> QED BY <1>0, <2>1, <2>3, <2>4, <2>5, PublishedIsHeard
<1>4. ASSUME NEW t \in Task, snapshot(t) PROVE \A r \in Request : Heard(r)'
  <2>1. Told' = Told
    BY <1>0, <1>4, ToldKept
  <2>2. CASE UNCHANGED reqVars
    BY <1>1, <2>1, <2>2 DEF reqVars
  <2>3. CASE publish("snapshot")
    <3>1. Live(t) /\ sent[t] >= 1
      BY <1>0, <1>4 DEF snapshot, Live, Sending
    <3>2. Told = sent[t]
      BY <3>1 DEF Told, Driven, Drivers, OneDriver, Task
    <3>3. \A j \in BOOLEAN, c \in Phases : Fits(j, c, Told) =>
              /\ After(j, c, "snapshot") \in Phases
              /\ Fits(j, After(j, c, "snapshot"), Told)
      BY <1>0, <3>1, <3>2, OthersFit
    <3> QED BY <1>0, <2>1, <2>3, <3>3, PublishedIsHeard, EventsAreItems
  <2> QED BY <1>4, <2>2, <2>3 DEF snapshot
<1>5. ASSUME NEW t \in Task, finish(t) PROVE \A r \in Request : Heard(r)'
  <2>1. publish(DONE) /\ Told' = 0
    BY <1>5 DEF finish, Told, Driven
  <2>2. \A j \in BOOLEAN, c \in Phases : Fits(j, c, Told) =>
            /\ After(j, c, DONE) \in Phases
            /\ Fits(j, After(j, c, DONE), 0)
    BY <1>0, OthersFit
  <2> QED BY <1>0, <2>1, <2>2, PublishedIsHeard, EventsAreItems
<1>6. ASSUME NEW r \in Request, run_start(r) PROVE \A s \in Request : Heard(s)'
  <2> DEFINE Q(t) == [NewRequest EXCEPT !.at = "reading", !.run = t]
  <2>1. PICK t \in Task : Create(t, None) /\ subscribe(r, Q(t))
    BY <1>6 DEF run_start
  <2>2. ~Driven /\ req' = [req EXCEPT ![r] = Q(t)]
    BY <1>6, <2>1 DEF run_start, subscribe
  <2>3. Told' = Told /\ Told = 0
    BY <1>0, <2>1, <2>2, ToldKept DEF Told
  <2>4. Follows(Q(t), 0) /\ Q(t).view = "blank"
    BY OpenedFollows, NewIsHeard
  <2> HIDE DEF Q
  <2> QED BY <1>0, <2>2, <2>3, <2>4, OneHears
<1>7. ASSUME NEW r \in Request, run_join(r) PROVE \A s \in Request : Heard(s)'
  <2> DEFINE q == [NewRequest EXCEPT !.at = "joining", !.run = task, !.joined = TRUE,
                                     !.queue = <<"run_started">>]
  <2>1. Driven /\ subscribe(r, q) /\ UNCHANGED <<at, sent, task>>
    BY <1>7 DEF run_join, runVars
  <2>2. task \in Task /\ Told' = Told
    BY <1>0, <2>1, ToldKept DEF Driven, TaskType
  <2>3. Follows(q, Told) /\ q.view = "blank"
    BY <1>0, <2>2, OpenedFollows, NewIsHeard
  <2>4. req' = [req EXCEPT ![r] = q]
    BY <2>1 DEF subscribe
  <2> HIDE DEF q
  <2> QED BY <1>0, <2>2, <2>3, <2>4, OneHears
<1>8. ASSUME NEW r \in Request, run_joined(r) PROVE \A s \in Request : Heard(s)'
  <2>1. /\ req[r] \in RequestState /\ Len(req[r].queue) <= Cap /\ Waiting(r)
        /\ UNCHANGED <<at, sent, task>> /\ req[r].joined \in BOOLEAN
    BY <1>8 DEF run_joined, Waiting, runVars, RequestType, RequestState
  <2>2. Told' = Told
    BY <1>0, <2>1, ToldKept
  <2>3. ~req[r].lost => req[r].view # "broken" /\ Follows(req[r], Told)
    BY <1>0, <2>1 DEF Heard
  <2>4. ASSUME NEW a, a # "joining", req' = [req EXCEPT ![r] = [req[r] EXCEPT !.at = a]]
        PROVE  \A s \in Request : Heard(s)'
    <3> DEFINE q == [req[r] EXCEPT !.at = a]
    <3>1. q.lost = req[r].lost /\ q.view = req[r].view
      BY <2>1 DEF RequestState
    <3>2. Follows(req[r], Told) => Follows(q, Told)
      BY <2>1, <2>4, MovedFollows
    <3>3. req' = [req EXCEPT ![r] = q]
      BY <2>4
    <3> HIDE DEF q
    <3> QED BY <1>0, <2>2, <2>3, <3>1, <3>2, <3>3, OneHears
  <2>5. CASE /\ Len(req[r].queue) < Cap
             /\ req' = [req EXCEPT ![r] = [put(req[r], "snapshot") EXCEPT !.at = "reading"]]
    <3> DEFINE u == put(req[r], "snapshot")
               q == [u EXCEPT !.at = "reading"]
    <3>1. u \in RequestState
      BY <2>1, Put, EventsAreItems
    <3>2. u.lost = req[r].lost /\ u.view = req[r].view
      BY <2>1, <2>5 DEF put, RequestState
    <3>3. ~u.lost => req[r].joined
      BY <1>8, <2>3, <3>2 DEF Follows, Coherent, run_joined
    <3>4. ~u.lost => Follows(u, Told)
      <4>1. ~u.lost => \A c \in Phases : Fits(req[r].joined, c, Told) =>
                /\ After(req[r].joined, c, "snapshot") \in Phases
                /\ Fits(req[r].joined, After(req[r].joined, c, "snapshot"), Told)
        BY <1>0, <2>1, <3>3, OthersFit
      <4> QED BY <2>1, <2>3, <3>2, <4>1, PutFollows, EventsAreItems
    <3> HIDE DEF u
    <3>5. q.lost = u.lost /\ q.view = u.view
      BY <3>1 DEF RequestState
    <3>6. ~u.lost => Follows(q, Told)
      BY <3>1, <3>4, MovedFollows
    <3>7. req' = [req EXCEPT ![r] = q]
      BY <2>5 DEF u
    <3> HIDE DEF q
    <3> QED BY <1>0, <2>2, <2>3, <3>2, <3>5, <3>6, <3>7, OneHears
  <2>6. \/ req' = [req EXCEPT ![r] = [req[r] EXCEPT !.at = "reading"]]
        \/ req' = [req EXCEPT ![r] = [req[r] EXCEPT !.at = "failed"]]
        \/ /\ Len(req[r].queue) < Cap
           /\ req' = [req EXCEPT ![r] = [put(req[r], "snapshot") EXCEPT !.at = "reading"]]
    BY <1>8 DEF run_joined, RequestType
  <2> QED BY <2>4, <2>5, <2>6
<1>9. ASSUME NEW r \in Request, read(r) PROVE \A s \in Request : Heard(s)'
  <2>1. /\ req[r] \in RequestState /\ Len(req[r].queue) <= Cap /\ Waiting(r)
        /\ req[r].queue # <<>> /\ UNCHANGED <<at, sent, task>>
    BY <1>9 DEF read, Waiting, runVars, RequestType
  <2>2. Told' = Told
    BY <1>0, <2>1, ToldKept
  <2>3. CASE Head(req[r].queue) = DONE
    <3>1. req' = [req EXCEPT ![r] = NewRequest]
      BY <1>9, <2>3 DEF read
    <3>2. NewRequest.view # "broken" /\ NewRequest.at \notin {"joining", "reading"}
      BY NewIsHeard
    <3> QED BY <1>0, <2>2, <3>1, <3>2, OneHears
  <2>4. CASE Head(req[r].queue) # DONE
    <3> DEFINE q == Yield(req[r], Head(req[r].queue))
    <3>1. req' = [req EXCEPT ![r] = q]
      BY <1>9, <2>4 DEF read, RequestType
    <3>2. q.lost = req[r].lost
      BY <2>1 DEF Yield, RequestState
    <3>3. ~req[r].lost => q.view # "broken" /\ Follows(q, Told)
      BY <1>0, <2>1, <2>4, ReadFollows DEF Heard
    <3> HIDE DEF q
    <3> QED BY <1>0, <2>2, <3>1, <3>2, <3>3, OneHears
  <2> QED BY <2>3, <2>4
<1>10. ASSUME NEW r \in Request, disconnect(r) PROVE \A s \in Request : Heard(s)'
  <2>1. UNCHANGED <<at, sent, task>> /\ req[r] \in RequestState
    BY <1>10 DEF disconnect, runVars, RequestType
  <2>2. Told' = Told
    BY <1>0, <2>1, ToldKept
  <2>3. CASE req' = [req EXCEPT ![r] = NewRequest]
    <3>1. NewRequest.view # "broken" /\ NewRequest.at \notin {"joining", "reading"}
      BY NewIsHeard
    <3> QED BY <1>0, <2>2, <2>3, <3>1, OneHears
  <2>4. CASE req' = [req EXCEPT ![r] = [req[r] EXCEPT !.at = "failed"]]
    <3> DEFINE q == [req[r] EXCEPT !.at = "failed"]
    <3>1. q.lost = req[r].lost /\ q.view = req[r].view /\ q.at = "failed"
      BY <2>1 DEF RequestState
    <3>2. ~q.lost => q.view # "broken"
      BY <1>0, <3>1 DEF Heard
    <3>3. req' = [req EXCEPT ![r] = q]
      BY <2>4
    <3> HIDE DEF q
    <3> QED BY <1>0, <2>2, <3>1, <3>2, <3>3, OneHears
  <2> QED BY <1>10, <2>3, <2>4 DEF disconnect, RequestType
<1>11. ASSUME NEW p \in Post, Answer(p) PROVE \A r \in Request : Heard(r)'
  <2>1. UNCHANGED req
    BY <1>11, RequestsAlone DEF reqVars
  <2>2. \/ ~Driven /\ \E t \in Task : Create(t, post[p].saw)
        \/ UNCHANGED <<at, sent, task>>
    BY <1>11 DEF Answer, post_review, open_review, sandbox_failed, start_resume, is_driving,
                 runVars
  <2>3. Told' = Told
    BY <1>0, <2>2, ToldKept
  <2> QED BY <1>1, <2>1, <2>3
<1>12. CASE cancel_run \/ cancel_all_tasks \/ close_checkpointer \/ UNCHANGED vars
  <2>1. UNCHANGED req /\ UNCHANGED <<at, sent, task>>
    BY <1>12 DEF cancel_run, cancel_all_tasks, close_checkpointer, vars, runVars, reqVars
  <2>2. Told' = Told
    BY <1>0, <2>1, ToldKept
  <2> QED BY <1>1, <2>1, <2>2
<1> QED BY <1>2, <1>3, <1>4, <1>5, <1>6, <1>7, <1>8, <1>9, <1>10, <1>11, <1>12
        DEF Next, Drive, Serve

\* Nobody has heard anything at the start.
LEMMA HearingInit == Init => Hearing
BY NewIsHeard DEF Init, Hearing, Sending, Heard, Waiting, InGraph

-----------------------------------------------------------------------------
(* The end of the process.                                                 *)

\* Runs are started for requests and POSTs, and the lifespan ends after those.
Down ==
    /\ serving # "up" => Drained
    /\ serving = "down" => ~Driven

\* The process is up at the start.
LEMMA DownInit == Init => Down
BY DEF Init, Down, Driven

\* Nothing is started once the requests have drained.
LEMMA DownStep ==
    ASSUME TaskType, RequestType, Drivers, Streams, Down, [Next]_vars
    PROVE  Down'
<1>0. ASSUME UNCHANGED <<serving, task, at, req, post>> PROVE Down'
  BY <1>0 DEF Down, Drained, Driven, Live
<1>1. ASSUME serving = "up", serving' = "up" PROVE Down'
  BY <1>1 DEF Down
<1>2. ASSUME NEW t \in Task, Drive(t) PROVE Down'
  <2>1. UNCHANGED <<serving, post>>
    BY <1>2 DEF Drive, dropped, pin_for_session, incr, event, snapshot, finish, gateVars
  <2>2. Driven' => Driven
    <3>1. Live(t) /\ (task' = task \/ task' = 0) /\ \A u \in Task : u # t => at'[u] = at[u]
      BY <1>2 DEF Drive, dropped, pin_for_session, incr, event, snapshot, finish, Over, Live, TaskType
    <3> QED BY <3>1 DEF Driven, Live, Drivers, OneDriver, TaskType
  <2>3. Drained => Drained'
    <3>1. UNCHANGED reqVars \/ \E e \in Item : publish(e)
      BY <1>2, EventsAreItems
      DEF Drive, dropped, pin_for_session, incr, event, snapshot, finish, TaskType
    <3>2. \A r \in Request : req'[r].at = req[r].at
      BY <3>1, Published DEF reqVars
    <3> QED BY <2>1, <3>2 DEF Drained
  <2> QED BY <2>1, <2>2, <2>3 DEF Down
<1>3. ASSUME NEW r \in Request, run_start(r) \/ run_join(r) PROVE Down'
  BY <1>1, <1>3 DEF run_start, run_join, subscribe
<1>4. ASSUME NEW r \in Request, run_joined(r) \/ read(r) \/ disconnect(r) PROVE Down'
  <2>1. UNCHANGED serving /\ Waiting(r) /\ UNCHANGED <<task, at>>
    BY <1>4 DEF run_joined, read, disconnect, Waiting, runVars
  <2>2. serving = "up"
    BY <2>1 DEF Down, Drained, Waiting
  <2> QED BY <1>1, <2>1, <2>2
<1>5. ASSUME NEW p \in Post, Answer(p) PROVE Down'
  <2>1. UNCHANGED serving /\ (serving = "up" \/ post[p].at \in {"open", "sandbox"})
    BY <1>5 DEF Answer, post_review, open_review, sandbox_failed, start_resume
  <2>2. serving = "up"
    BY <2>1 DEF Down, Drained
  <2> QED BY <1>1, <2>1, <2>2
<1>6. CASE cancel_run
  BY <1>1, <1>6 DEF cancel_run
<1>7. CASE cancel_all_tasks
  BY <1>7 DEF cancel_all_tasks, Down, Drained, gateVars, reqVars
<1>8. CASE close_checkpointer
  BY <1>8 DEF close_checkpointer, Down, Drained, Driven, Live, runVars, gateVars, reqVars
<1>9. CASE UNCHANGED vars
  BY <1>0, <1>9 DEF vars, runVars, gateVars, reqVars
<1> QED BY <1>2, <1>3, <1>4, <1>5, <1>6, <1>7, <1>8, <1>9 DEF Next, Serve

-----------------------------------------------------------------------------
(* The invariant and what follows from it.                                 *)

IInv == TaskType /\ RequestType /\ Drivers /\ Answers /\ Streams /\ Hearing /\ Down

\* The invariant is inductive, and so holds in every reachable state.
LEMMA Inductive == Spec => []IInv
<1>1. Init => IInv
  BY InitTypes, DriversInit, AnswersInit, StreamsInit, HearingInit, DownInit DEF IInv
<1>2. IInv /\ [Next]_vars => IInv'
  BY TaskTyping, RequestTyping, DriversStep, AnswersStep, StreamsStep, HearingStep, DownStep
  DEF IInv
<1> QED BY <1>1, <1>2, PTL DEF Spec

\* In every reachable state the variables are of their types, and no queue is longer
\* than RUN_SUBSCRIBER_QUEUE_MAXSIZE.
THEOREM TypeCorrect == Spec => []TypeOK
<1>1. IInv => TypeOK
  BY TypesAreTypeOK DEF IInv
<1> QED BY <1>1, Inductive, PTL

\* One task at a time drives the graph, it is the registered one, and the count
\* run_active is read from follows it, for any number of requests, POSTs and stops.
THEOREM AtMostOneDriver == Spec => []OneDriver
<1>1. IInv => OneDriver
  BY DEF IInv, Drivers
<1> QED BY <1>1, Inductive, PTL

\* An answer accepted for a review reaches a review of its stage, whatever
\* happens while its sandbox is being reconnected.
THEOREM AnswersReachTheirStage == Spec => []AnswersTheStage
<1>1. IInv => AnswersTheStage
  BY DEF IInv, Answers
<1> QED BY <1>1, Inductive, PTL

\* The end a request is sent is that of the run it watches, or comes after it.
THEOREM StreamsEndWithTheirRun == Spec => []EndedByItsRun
<1>1. IInv => EndedByItsRun
  BY DEF IInv, Streams, Ending, Ended, Waiting, EndedByItsRun
<1> QED BY <1>1, Inductive, PTL

\* A request never waits for a stream nobody will end, but for the run that
\* was cancelled before it got to its try.
THEOREM StreamsAreFed == Spec => []NobodyWaitsForNothing
<1>1. IInv => NobodyWaitsForNothing
  BY DEF IInv, Streams, Fed, Ended, Waiting, NobodyWaitsForNothing
<1> QED BY <1>1, Inductive, PTL

\* A stream no event was dropped from is one the client's verifier accepts, for any
\* number of tabs joining at any point of any run, and any capacity of the queues.
THEOREM StreamsAreWellFormed == Spec => []StreamAccepted
<1>1. IInv => StreamAccepted
  BY DEF IInv, Hearing, Heard, StreamAccepted
<1> QED BY <1>1, Inductive, PTL

\* When the lifespan has closed the checkpointer, no task is left to write to it.
THEOREM QuietShutdown == Spec => []NothingRunsWhenDown
<1>1. IInv => NothingRunsWhenDown
  BY DEF IInv, Down, Drivers, OneDriver, Driven, NothingRunsWhenDown, Task
<1> QED BY <1>1, Inductive, PTL
=============================================================================
