--------------------------- MODULE SandboxProofs ---------------------------
(***************************************************************************)
(* Theorems about Sandbox, for any set of callers, any number of attempts  *)
(* and any bound on the containers.                                        *)
(***************************************************************************)
EXTENDS Sandbox, TLAPS

-----------------------------------------------------------------------------
(* The invariant.                                                          *)

\* Where an actor has the lock over several awaits, and where it has asked.
Inside == {"branch", "replace"} \cup Rebuilding
Queued == {"enter", "terminate", "check", "list", "look", "exec", "poll", "kill"}

In(a, s) == \E i \in 1..Len(s) : s[i] = a
Once(s)  == \A i, j \in 1..Len(s) : s[i] = s[j] => i = j

LockInv ==
    /\ Once(lock)
    /\ \A a \in Actors : In(a, lock) <=> pc[a] \in Inside \cup Queued
    /\ \A a \in Actors : pc[a] \in Inside => Holds(a)

DockerInv ==
    /\ running => container # 0
    /\ container = 0 => turns = 0
    /\ container <= made /\ sandbox <= made
    /\ sandbox # 0 /\ container = sandbox => running
    /\ PhantomAnnounced

\* What an actor relies on where it is.
Place(a) ==
    /\ target[a] <= made
    /\ pc[a] \in {"branch", "replace"} => sandbox # 0
    /\ pc[a] \in Rebuilding => sandbox = 0
    /\ pc[a] = "sweep" => target[a] # 0
    /\ pc[a] = "sweep" /\ container = target[a] => running
    /\ pc[a] = "sweep" /\ container # target[a] => Announced(target[a])
    /\ pc[a] \in {"start", "ready"} => target[a] # 0
    /\ pc[a] \in Inside => a \in Callers
    /\ a = "watcher" /\ pc[a] \in {"check", "terminate"} => deaths # << >>

PlaceInv == \A a \in Actors : Place(a)

LockTyped == pc \in [Actors -> Places] /\ lock \in Seq(Actors)

\* The invariant that carries the theorems on the records and on docker.
SandboxInv == TypeOK /\ LockInv /\ DockerInv /\ PlaceInv

-----------------------------------------------------------------------------
(* The queue.                                                              *)

\* An actor that was not in the queue is in it once, at its end.
LEMMA AppendOnce ==
    ASSUME NEW S, NEW s \in Seq(S), NEW a \in S, Once(s), ~In(a, s)
    PROVE  /\ Append(s, a) \in Seq(S) /\ Once(Append(s, a))
           /\ \A b \in S : In(b, Append(s, a)) <=> In(b, s) \/ b = a
           /\ s # << >> => Head(Append(s, a)) = Head(s) /\ Append(s, a) # << >>
<1>1. /\ Append(s, a) \in Seq(S) /\ Len(Append(s, a)) = Len(s) + 1
      /\ \A i \in 1..Len(s) : Append(s, a)[i] = s[i]
      /\ Append(s, a)[Len(s) + 1] = a
  OBVIOUS
<1>2. Once(Append(s, a))  BY <1>1 DEF Once, In
<1>3. ASSUME NEW b \in S PROVE In(b, Append(s, a)) <=> In(b, s) \/ b = a
  BY <1>1 DEF In
<1>4. s # << >> => Head(Append(s, a)) = Head(s) /\ Append(s, a) # << >>
  BY <1>1
<1> QED  BY <1>1, <1>2, <1>3, <1>4

\* The head leaves the queue, and nobody else does.
LEMMA TailOnce ==
    ASSUME NEW S, NEW s \in Seq(S), s # << >>, Once(s)
    PROVE  /\ Tail(s) \in Seq(S) /\ Once(Tail(s)) /\ Head(s) \in S
           /\ \A b \in S : In(b, Tail(s)) <=> In(b, s) /\ b # Head(s)
<1>1. /\ Tail(s) \in Seq(S) /\ Len(Tail(s)) = Len(s) - 1 /\ Len(s) \in Nat \ {0}
      /\ \A i \in 1..(Len(s) - 1) : Tail(s)[i] = s[i + 1]
      /\ Head(s) = s[1] /\ Head(s) \in S
  OBVIOUS
<1>2. Once(Tail(s))
  <2> SUFFICES ASSUME NEW i \in 1..Len(Tail(s)), NEW j \in 1..Len(Tail(s)),
                      Tail(s)[i] = Tail(s)[j]
               PROVE  i = j
    BY DEF Once
  <2>1. i + 1 \in 1..Len(s) /\ j + 1 \in 1..Len(s)  BY <1>1
  <2>2. s[i + 1] = s[j + 1]  BY <1>1
  <2> QED  BY <2>1, <2>2 DEF Once
<1>3. ASSUME NEW b \in S PROVE In(b, Tail(s)) <=> In(b, s) /\ b # Head(s)
  <2>1. ASSUME In(b, Tail(s)) PROVE In(b, s) /\ b # Head(s)
    <3>1. PICK i \in 1..Len(Tail(s)) : Tail(s)[i] = b  BY <2>1 DEF In
    <3>2. i + 1 \in 1..Len(s) /\ s[i + 1] = b /\ 1 \in 1..Len(s) /\ i + 1 # 1
      BY <1>1, <3>1
    <3> QED  BY <1>1, <3>2 DEF In, Once
  <2>2. ASSUME In(b, s), b # Head(s) PROVE In(b, Tail(s))
    <3>1. PICK i \in 1..Len(s) : s[i] = b  BY <2>2 DEF In
    <3>2. i # 1  BY <1>1, <2>2, <3>1
    <3>3. i - 1 \in 1..Len(Tail(s)) /\ Tail(s)[i - 1] = s[(i - 1) + 1]  BY <1>1, <3>2
    <3>4. Tail(s)[i - 1] = b  BY <3>1, <3>3
    <3> QED  BY <3>3, <3>4 DEF In
  <2> QED  BY <2>1, <2>2
<1> QED  BY <1>1, <1>2, <1>3

\* Who holds the lock is alone inside.
LEMMA OnlyHolder ==
    ASSUME LockInv, NEW a \in Actors, Holds(a) \/ pc[a] \in Inside
    PROVE  /\ lock # << >> /\ Head(lock) = a
           /\ \A b \in Actors : pc[b] \in Inside => b = a
  BY DEF LockInv, Holds

\* The ways in which one step moves one actor and the queue.
LEMMA LockStays ==
    ASSUME LockTyped, LockInv, NEW a \in Actors, NEW w \in Places, Go(a, w), UNCHANGED lock,
           \/ pc[a] \in Inside /\ w \in Inside
           \/ pc[a] \notin Inside \cup Queued /\ w \notin Inside \cup Queued
           \/ pc[a] \in Queued /\ Holds(a) /\ w \in Inside
    PROVE  LockTyped' /\ LockInv'
<1>1. pc' = [pc EXCEPT ![a] = w] /\ pc \in [Actors -> Places]  BY DEF Go, LockTyped
<1>2. \A b \in Actors : pc'[b] = IF b = a THEN w ELSE pc[b]  BY <1>1
<1>3. Once(lock)'  BY DEF LockInv
<1>4. ASSUME NEW b \in Actors
      PROVE  In(b, lock)' <=> pc'[b] \in Inside \cup Queued
  <2>1. In(b, lock)' <=> In(b, lock)  BY DEF In
  <2>2. In(b, lock) <=> pc[b] \in Inside \cup Queued  BY DEF LockInv
  <2> QED  BY <1>2, <2>1, <2>2
<1>5. ASSUME NEW b \in Actors, pc'[b] \in Inside PROVE Holds(b)'
  <2>1. Holds(b)' <=> Holds(b)  BY DEF Holds
  <2>2. pc[b] \in Inside => Holds(b)  BY DEF LockInv
  <2> QED  BY <1>2, <1>5, <2>1, <2>2
<1>9. LockTyped'  BY <1>1 DEF LockTyped
<1> QED  BY <1>3, <1>4, <1>5, <1>9 DEF LockInv

\* An actor asks for the lock and queues.
LEMMA LockAsked ==
    ASSUME LockTyped, LockInv, NEW a \in Actors, NEW w \in Places, Go(a, w), Ask(a),
           pc[a] \notin Inside \cup Queued, w \in Queued
    PROVE  LockTyped' /\ LockInv'
<1>1. pc' = [pc EXCEPT ![a] = w] /\ pc \in [Actors -> Places] /\ lock' = Append(lock, a)
      /\ lock \in Seq(Actors)
  BY DEF Go, LockTyped, Ask
<1>2. \A b \in Actors : pc'[b] = IF b = a THEN w ELSE pc[b]  BY <1>1
<1>3. Once(lock) /\ ~In(a, lock)  BY DEF LockInv
<1>4. /\ Once(Append(lock, a))
      /\ \A b \in Actors : In(b, Append(lock, a)) <=> In(b, lock) \/ b = a
      /\ lock # << >> => Head(Append(lock, a)) = Head(lock) /\ Append(lock, a) # << >>
  BY <1>1, <1>3, AppendOnce
<1>5. Once(lock)'  BY <1>1, <1>4
<1>6. ASSUME NEW b \in Actors
      PROVE  In(b, lock)' <=> pc'[b] \in Inside \cup Queued
  <2>1. In(b, lock)' <=> In(b, lock) \/ b = a  BY <1>1, <1>4
  <2>2. In(b, lock) <=> pc[b] \in Inside \cup Queued  BY DEF LockInv
  <2> QED  BY <1>2, <2>1, <2>2
<1>7. ASSUME NEW b \in Actors, pc'[b] \in Inside PROVE Holds(b)'
  <2>1. b # a  BY <1>2, <1>7 DEF Inside, Queued, Rebuilding
  <2>2. pc[b] \in Inside  BY <1>2, <1>7, <2>1
  <2>3. lock # << >> /\ Head(lock) = b  BY <2>2 DEF LockInv, Holds
  <2> QED  BY <1>1, <1>4, <2>3 DEF Holds
<1>9. LockTyped'  BY <1>1, AppendOnce, <1>3 DEF LockTyped
<1> QED  BY <1>5, <1>6, <1>7, <1>9 DEF LockInv

\* The holder releases the lock and leaves.
LEMMA LockReleased ==
    ASSUME LockTyped, LockInv, NEW a \in Actors, NEW w \in Places, Go(a, w), Release,
           Holds(a), w \notin Inside \cup Queued
    PROVE  LockTyped' /\ LockInv'
<1>1. pc' = [pc EXCEPT ![a] = w] /\ pc \in [Actors -> Places] /\ lock' = Tail(lock)
      /\ lock \in Seq(Actors)
  BY DEF Go, LockTyped, Release
<1>2. \A b \in Actors : pc'[b] = IF b = a THEN w ELSE pc[b]  BY <1>1
<1>3. Once(lock) /\ lock # << >> /\ Head(lock) = a  BY DEF LockInv, Holds
<1>4. /\ Tail(lock) \in Seq(Actors) /\ Once(Tail(lock))
      /\ \A b \in Actors : In(b, Tail(lock)) <=> In(b, lock) /\ b # a
  BY <1>1, <1>3, TailOnce
<1>5. Once(lock)'  BY <1>1, <1>4
<1>6. ASSUME NEW b \in Actors
      PROVE  In(b, lock)' <=> pc'[b] \in Inside \cup Queued
  <2>1. In(b, lock)' <=> In(b, lock) /\ b # a  BY <1>1, <1>4
  <2>2. In(b, lock) <=> pc[b] \in Inside \cup Queued  BY DEF LockInv
  <2> QED  BY <1>2, <2>1, <2>2
<1>7. ASSUME NEW b \in Actors, pc'[b] \in Inside PROVE Holds(b)'
  <2>1. b # a  BY <1>2, <1>7
  <2>2. pc[b] \in Inside  BY <1>2, <1>7, <2>1
  <2> QED  BY <2>1, <2>2, OnlyHolder
<1>9. LockTyped'  BY <1>1, <1>4 DEF LockTyped
<1> QED  BY <1>1, <1>4, <1>5, <1>6, <1>7, <1>9 DEF LockInv

\* The holder releases the lock and queues again.
LEMMA LockAskedAgain ==
    ASSUME LockTyped, LockInv, NEW a \in Actors, NEW w \in Places, Go(a, w), AskAgain(a),
           Holds(a), w \in Queued
    PROVE  LockTyped' /\ LockInv'
<1>1. pc' = [pc EXCEPT ![a] = w] /\ pc \in [Actors -> Places]
      /\ lock' = Append(Tail(lock), a) /\ lock \in Seq(Actors)
  BY DEF Go, LockTyped, AskAgain
<1>2. \A b \in Actors : pc'[b] = IF b = a THEN w ELSE pc[b]  BY <1>1
<1>3. Once(lock) /\ lock # << >> /\ Head(lock) = a  BY DEF LockInv, Holds
<1>4. /\ Tail(lock) \in Seq(Actors) /\ Once(Tail(lock))
      /\ \A b \in Actors : In(b, Tail(lock)) <=> In(b, lock) /\ b # a
  BY <1>1, <1>3, TailOnce
<1>5. /\ lock' \in Seq(Actors) /\ Once(Append(Tail(lock), a))
      /\ \A b \in Actors : In(b, Append(Tail(lock), a)) <=> In(b, Tail(lock)) \/ b = a
  BY <1>1, <1>4, AppendOnce
<1>6. Once(lock)'  BY <1>1, <1>5
<1>7. ASSUME NEW b \in Actors
      PROVE  In(b, lock)' <=> pc'[b] \in Inside \cup Queued
  <2>1. In(b, lock)' <=> In(b, lock) \/ b = a  BY <1>1, <1>4, <1>5
  <2>2. In(b, lock) <=> pc[b] \in Inside \cup Queued  BY DEF LockInv
  <2> QED  BY <1>2, <2>1, <2>2
<1>8. ASSUME NEW b \in Actors, pc'[b] \in Inside PROVE Holds(b)'
  <2>1. b # a  BY <1>2, <1>8 DEF Inside, Queued, Rebuilding
  <2>2. pc[b] \in Inside  BY <1>2, <1>8, <2>1
  <2> QED  BY <2>1, <2>2, OnlyHolder
<1>9. LockTyped'  BY <1>1, <1>5 DEF LockTyped
<1> QED  BY <1>5, <1>6, <1>7, <1>8, <1>9 DEF LockInv

-----------------------------------------------------------------------------
(* Docker and the other actors' places.                                    *)

\* What is appended is in the queue, with what was there.
LEMMA AppendedIsThere ==
    ASSUME NEW S, NEW s \in Seq(S), NEW e \in S
    PROVE  /\ Append(s, e) \in Seq(S) /\ Append(s, e) # << >>
           /\ \E i \in 1..Len(Append(s, e)) : Append(s, e)[i] = e
           /\ \A c : In(c, s) => In(c, Append(s, e))
<1>1. /\ Append(s, e) \in Seq(S) /\ Len(Append(s, e)) = Len(s) + 1
      /\ \A i \in 1..Len(s) : Append(s, e)[i] = s[i]
      /\ Append(s, e)[Len(s) + 1] = e /\ Len(s) \in Nat
  OBVIOUS
<1>2. Len(s) + 1 \in 1..Len(Append(s, e))  BY <1>1
<1>3. ASSUME NEW c, In(c, s) PROVE In(c, Append(s, e))
  <2>1. PICK i \in 1..Len(s) : s[i] = c  BY <1>3 DEF In
  <2>2. i \in 1..Len(Append(s, e)) /\ Append(s, e)[i] = c  BY <1>1, <2>1
  <2> QED  BY <2>2 DEF In
<1>4. Append(s, e) # << >>  BY <1>1
<1> QED  BY <1>1, <1>2, <1>3, <1>4

\* A container that goes is announced, and nothing announced is forgotten.
LEMMA RemovedAnnounces ==
    ASSUME TypeOK, running => container # 0, Removed
    PROVE  /\ deaths' \in Seq(1..MaxContainers) /\ unseen' \in SUBSET (1..MaxContainers)
           /\ deaths # << >> => deaths' # << >>
           /\ \A c : Announced(c) \/ (running /\ c = container) => (Announced(c))'
<1>1. /\ deaths \in Seq(1..MaxContainers) /\ unseen \in SUBSET (1..MaxContainers)
      /\ container \in 0..MaxContainers /\ MaxContainers \in Nat
  BY SandboxAssumption DEF TypeOK, SandboxAssumption
<1>2. CASE running /\ watching
  <2>1. deaths' = Append(deaths, container) /\ unseen' = unseen /\ container \in 1..MaxContainers
    BY <1>1, <1>2 DEF Removed
  <2>2. /\ Append(deaths, container) \in Seq(1..MaxContainers)
        /\ Append(deaths, container) # << >>
        /\ \E i \in 1..Len(Append(deaths, container)) : Append(deaths, container)[i] = container
        /\ \A c : In(c, deaths) => In(c, Append(deaths, container))
    <3> DEFINE S == 1..MaxContainers
    <3>1. deaths \in Seq(S) /\ container \in S  BY <1>1, <2>1
    <3> HIDE DEF S
    <3>2. /\ Append(deaths, container) \in Seq(S) /\ Append(deaths, container) # << >>
          /\ \E i \in 1..Len(Append(deaths, container)) : Append(deaths, container)[i] = container
          /\ \A c : In(c, deaths) => In(c, Append(deaths, container))
      BY <3>1, AppendedIsThere
    <3> QED  BY <3>2 DEF S
  <2>3. ASSUME NEW c, Announced(c) \/ (running /\ c = container) PROVE (Announced(c))'
    <3>1. CASE Announced(c)  BY <2>1, <2>2, <3>1 DEF Announced, In
    <3>2. CASE c = container  BY <2>1, <2>2, <3>2 DEF Announced
    <3> QED  BY <2>3, <3>1, <3>2
  <2> QED  BY <1>1, <2>1, <2>2, <2>3
<1>3. CASE running /\ ~watching
  <2>1. deaths' = deaths /\ unseen' = unseen \cup {container} /\ container \in 1..MaxContainers
    BY <1>1, <1>3 DEF Removed
  <2>2. \A c : Announced(c) \/ (running /\ c = container) => (Announced(c))'
    BY <2>1 DEF Announced
  <2> QED  BY <1>1, <2>1, <2>2
<1>4. CASE ~running
  BY <1>1, <1>4 DEF Removed, Announced
<1> QED  BY <1>2, <1>3, <1>4

-----------------------------------------------------------------------------
(* One step.                                                              *)

MineTyped ==
    /\ target \in [Actors -> 0..MaxContainers] /\ attempt \in 0..Attempts
    /\ had \in BOOLEAN
    /\ sandbox \in 0..MaxContainers /\ registered \in BOOLEAN
    /\ idle \in BOOLEAN /\ started \in BOOLEAN

DockerTyped ==
    /\ container \in 0..MaxContainers /\ running \in BOOLEAN
    /\ outdated \in BOOLEAN /\ made \in 0..MaxContainers /\ turns \in Nat
    /\ watching \in BOOLEAN
    /\ deaths \in Seq(1..MaxContainers) /\ unseen \in SUBSET (1..MaxContainers)

RestTyped == MineTyped /\ DockerTyped

\* The two halves of TypeOK.
LEMMA Split == TypeOK <=> LockTyped /\ RestTyped
  BY DEF TypeOK, LockTyped, RestTyped, MineTyped, DockerTyped

\* The parts of the invariant, proved apart.
LEMMA Joined ==
    ASSUME LockTyped', RestTyped', LockInv', DockerInv', PlaceInv'
    PROVE  SandboxInv'
  BY DEF SandboxInv, TypeOK, LockTyped, RestTyped, MineTyped, DockerTyped

\* An actor that forgets its container keeps the type of the others'.
LEMMA ForgetsTyped ==
    ASSUME RestTyped, NEW a, Forgets(a)
    PROVE  target' \in [Actors -> 0..MaxContainers]
<1>1. target \in [Actors -> 0..MaxContainers]  BY DEF RestTyped, MineTyped
<1>2. 0 \in 0..MaxContainers  BY SandboxAssumption DEF SandboxAssumption
<1>3. target' = [target EXCEPT ![a] = 0]  BY DEF Forgets
<1> QED  BY <1>1, <1>2, <1>3

\* An actor that does not move keeps its place when the sandbox does not change.
LEMMA PlaceKept ==
    ASSUME NEW b, Place(b), pc'[b] = pc[b], target'[b] = target[b],
           UNCHANGED <<sandbox, container, running, made, deaths, unseen>>
    PROVE  Place(b)'
<1>1. \A c : (Announced(c))' <=> Announced(c)  BY DEF Announced
<1> QED  BY <1>1 DEF Place

\* It keeps its place, too, when Docker removes the container.
LEMMA PlaceKeptWhenRemoved ==
    ASSUME TypeOK, DockerInv, NEW b, Place(b), pc'[b] = pc[b], target'[b] = target[b],
           Removed, UNCHANGED sandbox
    PROVE  Place(b)'
<1>1. /\ deaths # << >> => deaths' # << >>
      /\ \A c : Announced(c) \/ (running /\ c = container) => (Announced(c))'
  BY RemovedAnnounces DEF DockerInv
<1>2. made' = made /\ container' = 0  BY DEF Removed
<1>3. pc[b] = "sweep" => target[b] # 0 /\ (Announced(target[b]) \/ (running /\ target[b] = container))
  BY DEF Place
<1>4. pc'[b] = "sweep" => Announced(target[b])'
  BY <1>1, <1>3 DEF Announced
<1> QED  BY <1>1, <1>2, <1>3, <1>4 DEF Place

\* Actor a moves to w, and docker, its events and the entry stay.
LEMMA Quiet ==
    ASSUME SandboxInv, NEW a \in Actors, NEW w, Go(a, w), (Place(a))',
           \A b \in Actors \ {a} : target'[b] = target[b],
           UNCHANGED <<sandbox, container, running, made, deaths, unseen>>,
           container = 0 => turns' = 0
    PROVE  DockerInv' /\ PlaceInv'
<1>1. DockerInv'
  <2>1. \A c : (Announced(c))' <=> Announced(c)  BY DEF Announced
  <2>2. PhantomAnnounced'
    BY <2>1 DEF SandboxInv, DockerInv, PhantomAnnounced, Announced
  <2> QED  BY <2>2 DEF SandboxInv, DockerInv
<1>2. ASSUME NEW b \in Actors, b # a PROVE (Place(b))'
  <2>1. pc'[b] = pc[b]  BY <1>2 DEF Go, SandboxInv, TypeOK
  <2>2. Place(b) /\ target'[b] = target[b]  BY <1>2 DEF SandboxInv, PlaceInv
  <2> QED  BY <2>1, <2>2, PlaceKept
<1> QED  BY <1>1, <1>2 DEF PlaceInv

\* A container Docker removes leaves the entry announced.
LEMMA GoneFromDocker ==
    ASSUME SandboxInv, Removed, UNCHANGED sandbox
    PROVE  DockerInv'
<1>1. sandbox # 0 => (sandbox = container /\ running) \/ Announced(sandbox)
  BY DEF SandboxInv, DockerInv, PhantomAnnounced
<1>2. \A c : Announced(c) \/ (running /\ c = container) => (Announced(c))'
  BY RemovedAnnounces DEF SandboxInv, DockerInv
<1>3. sandbox # 0 => Announced(sandbox)'  BY <1>1, <1>2 DEF Announced
<1>4. PhantomAnnounced'  BY <1>3 DEF PhantomAnnounced
<1>5. /\ container' = 0 /\ ~running' /\ turns' = 0 /\ made' = made
      /\ sandbox <= made /\ made \in Nat
  BY SandboxAssumption
  DEF Removed, SandboxInv, DockerInv, TypeOK, SandboxAssumption
<1> QED  BY <1>4, <1>5 DEF DockerInv

\* Actor a moves to w; the container may be removed, the entry stays.
LEMMA Gone ==
    ASSUME SandboxInv, NEW a \in Actors, NEW w, Go(a, w), (Place(a))',
           \A b \in Actors \ {a} : target'[b] = target[b],
           UNCHANGED sandbox, Removed \/ UNCHANGED <<docker, events>>
    PROVE  DockerInv' /\ PlaceInv'
<1>1. CASE UNCHANGED <<docker, events>>
  <2>1. container = 0 => turns' = 0
    BY <1>1 DEF SandboxInv, DockerInv, docker
  <2> QED  BY <1>1, <2>1, Quiet DEF docker, events
<1>2. CASE Removed
  <2>1. DockerInv'  BY <1>2, GoneFromDocker
  <2>2. ASSUME NEW b \in Actors, b # a PROVE (Place(b))'
    <3>1. pc'[b] = pc[b]  BY <2>2 DEF Go, SandboxInv, TypeOK
    <3>2. Place(b) /\ target'[b] = target[b]  BY <2>2 DEF SandboxInv, PlaceInv
    <3> QED  BY <1>2, <3>1, <3>2, PlaceKeptWhenRemoved DEF SandboxInv
  <2> QED  BY <2>1, <2>2 DEF PlaceInv
<1> QED  BY <1>1, <1>2

\* Nobody moves, and docker and its events stay.
LEMMA Still ==
    ASSUME SandboxInv,
           UNCHANGED <<pc, lock, target, sandbox, container, running, made, turns, deaths,
           unseen>>
    PROVE  LockTyped' /\ LockInv' /\ DockerInv' /\ PlaceInv'
<1>1. LockTyped' /\ LockInv'
  BY DEF SandboxInv, TypeOK, LockTyped, LockInv, Once, In, Holds
<1>2. DockerInv'
  BY DEF SandboxInv, DockerInv, PhantomAnnounced, Announced
<1>3. ASSUME NEW b \in Actors PROVE (Place(b))'
  <2>1. Place(b)  BY DEF SandboxInv, PlaceInv
  <2> QED  BY <2>1, PlaceKept
<1> QED  BY <1>1, <1>2, <1>3 DEF PlaceInv

\* Whoever holds the lock may change the entry: nobody else relies on it.
LEMMA OthersOutside ==
    ASSUME SandboxInv, NEW a \in Actors, NEW w, Go(a, w), Holds(a) \/ pc[a] \in Inside,
           \A b \in Actors \ {a} : target'[b] = target[b],
           made' \in Nat, made <= made',
           a = "watcher" \/ (deaths # << >> => deaths' # << >>)
    PROVE  \A b \in Actors \ {a} : (Place(b))'
<1> SUFFICES ASSUME NEW b \in Actors \ {a} PROVE (Place(b))'
  OBVIOUS
<1>1. pc'[b] = pc[b] /\ target'[b] = target[b] /\ Place(b)
  BY DEF Go, SandboxInv, TypeOK, PlaceInv
<1>2. pc[b] \notin Inside  BY OnlyHolder DEF SandboxInv
<1>3. target[b] \in Nat /\ made \in Nat /\ target[b] <= made
  BY <1>1, SandboxAssumption DEF SandboxInv, TypeOK, Place, SandboxAssumption
<1>4. target[b] <= made'  BY <1>3
<1>5. b = "watcher" /\ pc[b] \in {"check", "terminate"} => deaths' # << >>
  BY <1>1 DEF Place
<1> QED  BY <1>1, <1>2, <1>4, <1>5 DEF Place, Inside, Rebuilding

\* Its removal keeps the types.
LEMMA RemovedTyped ==
    ASSUME SandboxInv, Removed \/ UNCHANGED <<docker, events>>
    PROVE  DockerTyped' /\ made' = made /\ (deaths # << >> => deaths' # << >>)
<1>1. CASE UNCHANGED <<docker, events>>
  BY <1>1 DEF SandboxInv, TypeOK, DockerTyped, docker, events
<1>2. CASE Removed
  <2>1. /\ deaths' \in Seq(1..MaxContainers) /\ unseen' \in SUBSET (1..MaxContainers)
        /\ deaths # << >> => deaths' # << >>
    BY <1>2, RemovedAnnounces DEF SandboxInv, DockerInv
  <2>2. made \in 0..MaxContainers /\ MaxContainers \in Nat /\ watching \in BOOLEAN
    BY SandboxAssumption DEF SandboxInv, TypeOK, SandboxAssumption
  <2>3. /\ container' = 0 /\ running' = FALSE /\ outdated' = FALSE /\ turns' = 0
        /\ made' = made /\ watching' = watching
    BY <1>2 DEF Removed
  <2>4. running' \in BOOLEAN /\ outdated' \in BOOLEAN /\ watching' \in BOOLEAN
    BY <2>2, <2>3
  <2>5. container' \in 0..MaxContainers /\ turns' \in Nat /\ made' \in 0..MaxContainers
    BY <2>2, <2>3
  <2> QED  BY <2>1, <2>3, <2>4, <2>5 DEF DockerTyped
<1> QED  BY <1>1, <1>2

-----------------------------------------------------------------------------
(* Every step keeps the invariant.                                         *)

\* Provisioning, with its attempts and its sweep, keeps the invariant.
LEMMA ProvisionKeeps ==
    ASSUME SandboxInv, NEW p \in Callers, Provision(p) \/ ProvisionStep(p)
    PROVE  SandboxInv'
<1> USE DEF local, memory, docker, events, LooksUp, Forgets
<1>1. /\ LockTyped /\ RestTyped /\ LockInv /\ DockerInv /\ PlaceInv /\ SandboxInv
      /\ Attempts \in Nat \ {0} /\ MaxContainers \in Nat
  BY Split, SandboxAssumption DEF SandboxInv, SandboxAssumption
<1>2. p \in Actors /\ p # "watcher" /\ Place(p)
  BY <1>1, SandboxAssumption DEF SandboxAssumption, Actors, Services, PlaceInv
<1>3. CASE Provision(p)
  <2>1. /\ Go(p, "enter") /\ Ask(p) /\ "enter" \in Places
        /\ pc[p] \notin Inside \cup Queued /\ "enter" \in Queued
    BY <1>1, <1>2, <1>3 DEF Provision, At, Places, Inside, Queued, Rebuilding
  <2>2. LockTyped' /\ LockInv'  BY <1>1, <1>2, <2>1, LockAsked
  <2>3. RestTyped'  BY <1>1, <1>2, <1>3 DEF Provision, RestTyped, MineTyped, DockerTyped
  <2>4. (Place(p))'
    BY <1>1, <1>2, <1>3 DEF Provision, At, Go, Place, Inside, Rebuilding, Announced,
        LockTyped, RestTyped, MineTyped, DockerTyped
  <2>5. /\ UNCHANGED <<sandbox, container, running, made, deaths, unseen>>
        /\ \A b \in Actors \ {p} : target'[b] = target[b]
        /\ container = 0 => turns' = 0
    BY <1>1, <1>2, <1>3 DEF Provision, DockerInv, RestTyped
  <2>6. DockerInv' /\ PlaceInv'  BY <1>1, <1>2, <2>1, <2>4, <2>5, Quiet
  <2> QED  BY <2>2, <2>3, <2>6, Joined
<1>4. CASE EnterProvision(p)
  <2> DEFINE w == IF sandbox # 0 THEN "branch" ELSE "inspect"
  <2>1. /\ Go(p, w) /\ UNCHANGED lock /\ w \in Places
        /\ pc[p] \in Queued /\ Holds(p) /\ w \in Inside
    BY <1>1, <1>2, <1>4 DEF EnterProvision, At, Places, Inside, Queued, Rebuilding
  <2>2. LockTyped' /\ LockInv'  BY <1>1, <1>2, <2>1, LockStays
  <2>3. RestTyped'  BY <1>1, <1>2, <1>4 DEF EnterProvision, RestTyped, MineTyped, DockerTyped
  <2>4. (Place(p))'
    BY <1>1, <1>2, <1>4 DEF EnterProvision, At, Go, Place, Inside, Rebuilding, Announced,
        LockTyped, RestTyped, MineTyped, DockerTyped
  <2>5. /\ UNCHANGED <<sandbox, container, running, made, deaths, unseen>>
        /\ \A b \in Actors \ {p} : target'[b] = target[b]
        /\ container = 0 => turns' = 0
    BY <1>1, <1>2, <1>4 DEF EnterProvision, DockerInv, RestTyped
  <2>6. DockerInv' /\ PlaceInv'  BY <1>1, <1>2, <2>1, <2>4, <2>5, Quiet
  <2> QED  BY <2>2, <2>3, <2>6, Joined
<1>5. CASE SameBranch(p)
  <2>1. /\ Go(p, "home") /\ Release /\ "home" \in Places
        /\ pc[p] \in Inside /\ "home" \notin Inside \cup Queued
    BY <1>1, <1>2, <1>5 DEF SameBranch, At, Places, Inside, Queued, Rebuilding
  <2>2. LockTyped' /\ LockInv'  BY <1>1, <1>2, <2>1, LockReleased, OnlyHolder DEF Holds
  <2>3. RestTyped'  BY <1>1, <1>2, <1>5 DEF SameBranch, RestTyped, MineTyped, DockerTyped
  <2>4. (Place(p))'
    BY <1>1, <1>2, <1>5 DEF SameBranch, At, Go, Place, Inside, Rebuilding, Announced,
        LockTyped, RestTyped, MineTyped, DockerTyped
  <2>5. /\ UNCHANGED <<sandbox, container, running, made, deaths, unseen>>
        /\ \A b \in Actors \ {p} : target'[b] = target[b]
        /\ container = 0 => turns' = 0
    BY <1>1, <1>2, <1>5 DEF SameBranch, DockerInv, RestTyped
  <2>6. DockerInv' /\ PlaceInv'  BY <1>1, <1>2, <2>1, <2>4, <2>5, Quiet
  <2> QED  BY <2>2, <2>3, <2>6, Joined
<1>6. CASE OtherBranch(p)
  <2>1. /\ Go(p, "replace") /\ UNCHANGED lock /\ "replace" \in Places
        /\ pc[p] \in Inside /\ "replace" \in Inside
    BY <1>1, <1>2, <1>6 DEF OtherBranch, At, Places, Inside, Queued, Rebuilding
  <2>2. LockTyped' /\ LockInv'  BY <1>1, <1>2, <2>1, LockStays
  <2>3. RestTyped'  BY <1>1, <1>2, <1>6 DEF OtherBranch, RestTyped, MineTyped, DockerTyped
  <2>4. (Place(p))'
    BY <1>1, <1>2, <1>6 DEF OtherBranch, At, Go, Place, Inside, Rebuilding, Announced,
        LockTyped, RestTyped, MineTyped, DockerTyped
  <2>5. /\ UNCHANGED <<sandbox, container, running, made, deaths, unseen>>
        /\ \A b \in Actors \ {p} : target'[b] = target[b]
        /\ container = 0 => turns' = 0
    BY <1>1, <1>2, <1>6 DEF OtherBranch, DockerInv, RestTyped
  <2>6. DockerInv' /\ PlaceInv'  BY <1>1, <1>2, <2>1, <2>4, <2>5, Quiet
  <2> QED  BY <2>2, <2>3, <2>6, Joined
<1>7. CASE Replace(p)
  <2>1. /\ Go(p, "inspect") /\ UNCHANGED lock /\ "inspect" \in Places
        /\ pc[p] \in Inside /\ "inspect" \in Inside
    BY <1>1, <1>2, <1>7 DEF Replace, stop, At, Places, Inside, Queued, Rebuilding
  <2>2. LockTyped' /\ LockInv'  BY <1>1, <1>2, <2>1, LockStays
  <2>a. (Removed \/ UNCHANGED <<docker, events>>) /\ sandbox' = 0 /\ idle' = FALSE
        /\ UNCHANGED <<target, attempt, had, registered, started>>
    BY <1>7 DEF Replace, stop
  <2>b. made \in Nat /\ made' = made /\ (deaths # << >> => deaths' # << >>)
    BY <1>1, <2>a, RemovedTyped DEF RestTyped, DockerTyped
  <2>c. sandbox' \in 0..MaxContainers  BY <1>1, <2>a
  <2>3. RestTyped'  BY <1>1, <2>a, <2>c, RemovedTyped DEF RestTyped, MineTyped
  <2>4. (Place(p))'
    BY <1>1, <1>2, <1>7, RemovedTyped
    DEF Replace, stop, At, Go, Place, Inside, Rebuilding, Announced, LockTyped, RestTyped,
        MineTyped, DockerTyped
  <2>5. \A b \in Actors \ {p} : (Place(b))'
    BY <1>1, <1>2, <2>1, <2>a, <2>b, OthersOutside
  <2>6. DockerInv' /\ PlaceInv'
    <3>1. /\ running' => container' # 0
          /\ container' = 0 => turns' = 0
          /\ container' <= made'
      BY <1>1, <2>a, <2>b DEF Removed, DockerInv
    <3> QED  BY <1>1, <2>4, <2>5, <2>a, <2>b, <3>1
             DEF DockerInv, PlaceInv, PhantomAnnounced
  <2> QED  BY <2>2, <2>3, <2>6, Joined
<1>8. CASE Declined(p)
  <2>1. /\ Go(p, "clear") /\ UNCHANGED lock /\ "clear" \in Places
        /\ pc[p] \in Inside /\ "clear" \in Inside
    BY <1>1, <1>2, <1>8 DEF Declined, At, Places, Inside, Queued, Rebuilding
  <2>2. LockTyped' /\ LockInv'  BY <1>1, <1>2, <2>1, LockStays
  <2>3. RestTyped'  BY <1>1, <1>2, <1>8 DEF Declined, RestTyped, MineTyped, DockerTyped
  <2>4. (Place(p))'
    BY <1>1, <1>2, <1>8 DEF Declined, At, Go, Place, Inside, Rebuilding, Announced, LockTyped,
        RestTyped, MineTyped, DockerTyped
  <2>5. /\ UNCHANGED <<sandbox, container, running, made, deaths, unseen>>
        /\ \A b \in Actors \ {p} : target'[b] = target[b]
        /\ container = 0 => turns' = 0
    BY <1>1, <1>2, <1>8 DEF Declined, DockerInv, RestTyped
  <2>6. DockerInv' /\ PlaceInv'  BY <1>1, <1>2, <2>1, <2>4, <2>5, Quiet
  <2> QED  BY <2>2, <2>3, <2>6, Joined
<1>9. CASE Reattachable(p)
  <2>1. /\ Go(p, "probe") /\ UNCHANGED lock /\ "probe" \in Places
        /\ pc[p] \in Inside /\ "probe" \in Inside
    BY <1>1, <1>2, <1>9 DEF Reattachable, DockerInv, At, Places, Inside, Queued, Rebuilding
  <2>2. LockTyped' /\ LockInv'  BY <1>1, <1>2, <2>1, LockStays
  <2>3. RestTyped'
    BY <1>1, <1>2, <1>9 DEF Reattachable, DockerInv, RestTyped, MineTyped, DockerTyped
  <2>4. (Place(p))'
    BY <1>1, <1>2, <1>9  DEF Reattachable, DockerInv, At, Go, Place, Inside, Rebuilding,
        Announced, LockTyped, RestTyped, MineTyped, DockerTyped
  <2>5. /\ UNCHANGED <<sandbox, container, running, made, deaths, unseen>>
        /\ \A b \in Actors \ {p} : target'[b] = target[b]
        /\ container = 0 => turns' = 0
    BY <1>1, <1>2, <1>9 DEF Reattachable, DockerInv, DockerInv, RestTyped
  <2>6. DockerInv' /\ PlaceInv'  BY <1>1, <1>2, <2>1, <2>4, <2>5, Quiet
  <2> QED  BY <2>2, <2>3, <2>6, Joined
<1>10. CASE Probed(p)
  <2>1. /\ Go(p, "sweep") /\ UNCHANGED lock /\ "sweep" \in Places
        /\ pc[p] \in Inside /\ "sweep" \in Inside
    BY <1>1, <1>2, <1>10 DEF Probed, DockerInv, At, Places, Inside, Queued, Rebuilding
  <2>2. LockTyped' /\ LockInv'  BY <1>1, <1>2, <2>1, LockStays
  <2>3. RestTyped'
    BY <1>1, <1>2, <1>10 DEF Probed, DockerInv, RestTyped, MineTyped, DockerTyped
  <2>4. (Place(p))'
    BY <1>1, <1>2, <1>10 DEF Probed, DockerInv, At, Go, Place, Inside, Rebuilding, Announced,
        LockTyped, RestTyped, MineTyped, DockerTyped
  <2>5. /\ UNCHANGED <<sandbox, container, running, made, deaths, unseen>>
        /\ \A b \in Actors \ {p} : target'[b] = target[b]
        /\ container = 0 => turns' = 0
    BY <1>1, <1>2, <1>10 DEF Probed, DockerInv, DockerInv, RestTyped
  <2>6. DockerInv' /\ PlaceInv'  BY <1>1, <1>2, <2>1, <2>4, <2>5, Quiet
  <2> QED  BY <2>2, <2>3, <2>6, Joined
<1>11. CASE Reattach(p)
  <2>1. /\ Go(p, "home") /\ Release /\ "home" \in Places
        /\ pc[p] \in Inside /\ "home" \notin Inside \cup Queued
    BY <1>1, <1>2, <1>11 DEF Reattach, Settle, SweepOrphans, At, Places, Inside, Queued,
        Rebuilding
  <2>2. LockTyped' /\ LockInv'  BY <1>1, <1>2, <2>1, LockReleased, OnlyHolder DEF Holds
  <2>a. target[p] \in 0..MaxContainers  BY <1>1, <1>2 DEF RestTyped, MineTyped
  <2>b. turns' \in Nat  BY <1>1, <1>11 DEF Reattach, SweepOrphans, RestTyped, DockerTyped
  <2>3. RestTyped'
    <3>1. MineTyped'
      <4>1. attempt' \in 0..Attempts /\ sandbox' \in 0..MaxContainers
        BY <1>1, <1>11, <2>a DEF Reattach, Settle
      <4>2. target' \in [Actors -> 0..MaxContainers]
        BY <1>1, <1>11, ForgetsTyped DEF Reattach, Settle
      <4> QED  BY <1>1, <1>11, <4>1, <4>2 DEF Reattach, Settle, RestTyped, MineTyped
    <3>2. DockerTyped'
      BY <1>1, <1>11, <2>b DEF Reattach, SweepOrphans, RestTyped, DockerTyped
    <3> QED  BY <3>1, <3>2 DEF RestTyped
  <2>4. (Place(p))'
    BY <1>1, <1>2, <1>11 DEF Reattach, Settle, SweepOrphans, At, Go, Place, Inside,
        Rebuilding, Announced, LockTyped, RestTyped, MineTyped, DockerTyped
  <2>5. \A b \in Actors \ {p} : (Place(b))'
    BY <1>1, <1>2, <1>11, <2>1, OthersOutside
    DEF Reattach, Settle, SweepOrphans, RestTyped, MineTyped, DockerTyped
  <2>6. DockerInv' /\ PlaceInv'
    BY <1>1, <1>2, <1>11, <2>4, <2>5
    DEF Reattach, Settle, SweepOrphans, At, Place, DockerInv, PlaceInv, PhantomAnnounced,
        Announced, Rebuilding, RestTyped, MineTyped, DockerTyped
  <2> QED  BY <2>2, <2>3, <2>6, Joined
<1>12. CASE Clear(p)
  <2>1. /\ Go(p, "create") /\ UNCHANGED lock /\ "create" \in Places
        /\ pc[p] \in Inside /\ "create" \in Inside
    BY <1>1, <1>2, <1>12 DEF Clear, rm, At, Places, Inside, Queued, Rebuilding
  <2>2. LockTyped' /\ LockInv'  BY <1>1, <1>2, <2>1, LockStays
  <2>3. RestTyped'  BY <1>1, <1>2, <1>12, RemovedTyped DEF Clear, rm, RestTyped, MineTyped
  <2>4. (Place(p))'
    BY <1>1, <1>2, <1>12, RemovedTyped
    DEF Clear, rm, At, Go, Place, Inside, Rebuilding, Announced, LockTyped, RestTyped,
        MineTyped, DockerTyped
  <2>5. /\ UNCHANGED sandbox /\ (Removed \/ UNCHANGED <<docker, events>>)
        /\ \A b \in Actors \ {p} : target'[b] = target[b]
    BY <1>1, <1>2, <1>12 DEF Clear, rm, DockerInv, RestTyped
  <2>6. DockerInv' /\ PlaceInv'  BY <1>1, <1>2, <2>1, <2>4, <2>5, Gone
  <2> QED  BY <2>2, <2>3, <2>6, Joined
<1>13. CASE Create(p)
  <2>1. /\ Go(p, "start") /\ UNCHANGED lock /\ "start" \in Places
        /\ pc[p] \in Inside /\ "start" \in Inside
    BY <1>1, <1>2, <1>13 DEF Create, At, Places, Inside, Queued, Rebuilding
  <2>2. LockTyped' /\ LockInv'  BY <1>1, <1>2, <2>1, LockStays
  <2>3. RestTyped'  BY <1>1, <1>2, <1>13 DEF Create, RestTyped, MineTyped, DockerTyped
  <2>4. (Place(p))'
    BY <1>1, <1>2, <1>13 DEF Create, At, Go, Place, Inside, Rebuilding, Announced, LockTyped,
        RestTyped, MineTyped, DockerTyped
  <2>5. \A b \in Actors \ {p} : (Place(b))'
    BY <1>1, <1>2, <1>13, <2>1, OthersOutside DEF Create, RestTyped, MineTyped, DockerTyped
  <2>6. DockerInv' /\ PlaceInv'
    BY <1>1, <1>2, <1>13, <2>4, <2>5
    DEF Create, At, Place, DockerInv, PlaceInv, PhantomAnnounced, Announced, Rebuilding,
        RestTyped, MineTyped, DockerTyped
  <2> QED  BY <2>2, <2>3, <2>6, Joined
<1>14. CASE CreateFails(p)
  <2>1. /\ Go(p, "terminate") /\ AskAgain(p) /\ "terminate" \in Places
        /\ pc[p] \in Inside /\ "terminate" \in Queued
    BY <1>1, <1>2, <1>14 DEF CreateFails, Raise, At, Places, Inside, Queued, Rebuilding
  <2>2. LockTyped' /\ LockInv'  BY <1>1, <1>2, <2>1, LockAskedAgain, OnlyHolder DEF Holds
  <2>3. RestTyped'
    BY <1>1, <1>2, <1>14 DEF CreateFails, Raise, RestTyped, MineTyped, DockerTyped
  <2>4. (Place(p))'
    BY <1>1, <1>2, <1>14 DEF CreateFails, Raise, At, Go, Place, Inside, Rebuilding, Announced,
        LockTyped, RestTyped, MineTyped, DockerTyped
  <2>5. /\ UNCHANGED <<sandbox, container, running, made, deaths, unseen>>
        /\ \A b \in Actors \ {p} : target'[b] = target[b]
        /\ container = 0 => turns' = 0
    BY <1>1, <1>2, <1>14 DEF CreateFails, Raise, DockerInv, RestTyped
  <2>6. DockerInv' /\ PlaceInv'  BY <1>1, <1>2, <2>1, <2>4, <2>5, Quiet
  <2> QED  BY <2>2, <2>3, <2>6, Joined
<1>15. CASE Start(p)
  <2>1. /\ Go(p, "ready") /\ UNCHANGED lock /\ "ready" \in Places
        /\ pc[p] \in Inside /\ "ready" \in Inside
    BY <1>1, <1>2, <1>15 DEF Start, At, Places, Inside, Queued, Rebuilding
  <2>2. LockTyped' /\ LockInv'  BY <1>1, <1>2, <2>1, LockStays
  <2>3. RestTyped'  BY <1>1, <1>2, <1>15 DEF Start, RestTyped, MineTyped, DockerTyped
  <2>4. (Place(p))'
    BY <1>1, <1>2, <1>15 DEF Start, At, Go, Place, Inside, Rebuilding, Announced, LockTyped,
        RestTyped, MineTyped, DockerTyped
  <2>5. \A b \in Actors \ {p} : (Place(b))'
    BY <1>1, <1>2, <1>15, <2>1, OthersOutside DEF Start, RestTyped, MineTyped, DockerTyped
  <2>6. DockerInv' /\ PlaceInv'
    BY <1>1, <1>2, <1>15, <2>4, <2>5
    DEF Start, At, Place, DockerInv, PlaceInv, PhantomAnnounced, Announced, Rebuilding,
        RestTyped, MineTyped, DockerTyped
  <2> QED  BY <2>2, <2>3, <2>6, Joined
<1>16. CASE Ready(p)
  <2>1. /\ Go(p, "home") /\ Release /\ "home" \in Places
        /\ pc[p] \in Inside /\ "home" \notin Inside \cup Queued
    BY <1>1, <1>2, <1>16 DEF Ready, Settle, At, Places, Inside, Queued, Rebuilding
  <2>2. LockTyped' /\ LockInv'  BY <1>1, <1>2, <2>1, LockReleased, OnlyHolder DEF Holds
  <2>a. target[p] \in 0..MaxContainers  BY <1>1, <1>2 DEF RestTyped, MineTyped
  <2>3. RestTyped'
    <3>1. attempt' \in 0..Attempts /\ sandbox' \in 0..MaxContainers
      BY <1>1, <1>16, <2>a DEF Ready, Settle
    <3>2. target' \in [Actors -> 0..MaxContainers]
      BY <1>1, <1>16, ForgetsTyped DEF Ready, Settle
    <3> QED  BY <1>1, <1>16, <3>1, <3>2 DEF Ready, Settle, RestTyped, MineTyped, DockerTyped
  <2>4. (Place(p))'
    BY <1>1, <1>2, <1>16 DEF Ready, Settle, At, Go, Place, Inside, Rebuilding, Announced,
        LockTyped, RestTyped, MineTyped, DockerTyped
  <2>5. \A b \in Actors \ {p} : (Place(b))'
    BY <1>1, <1>2, <1>16, <2>1, OthersOutside
    DEF Ready, Settle, RestTyped, MineTyped, DockerTyped
  <2>6. DockerInv' /\ PlaceInv'
    BY <1>1, <1>2, <1>16, <2>4, <2>5
    DEF Ready, Settle, At, Place, DockerInv, PlaceInv, PhantomAnnounced, Announced,
        Rebuilding, RestTyped, MineTyped, DockerTyped
  <2> QED  BY <2>2, <2>3, <2>6, Joined
<1>17. CASE AttemptFails(p)
  <2>1. /\ Go(p, "drop") /\ UNCHANGED lock /\ "drop" \in Places
        /\ pc[p] \in Inside /\ "drop" \in Inside
    BY <1>1, <1>2, <1>17 DEF AttemptFails, At, Places, Inside, Queued, Rebuilding
  <2>2. LockTyped' /\ LockInv'  BY <1>1, <1>2, <2>1, LockStays
  <2>3. RestTyped'  BY <1>1, <1>2, <1>17 DEF AttemptFails, RestTyped, MineTyped, DockerTyped
  <2>4. (Place(p))'
    BY <1>1, <1>2, <1>17 DEF AttemptFails, At, Go, Place, Inside, Rebuilding, Announced,
        LockTyped, RestTyped, MineTyped, DockerTyped
  <2>5. /\ UNCHANGED <<sandbox, container, running, made, deaths, unseen>>
        /\ \A b \in Actors \ {p} : target'[b] = target[b]
        /\ container = 0 => turns' = 0
    BY <1>1, <1>2, <1>17 DEF AttemptFails, DockerInv, RestTyped
  <2>6. DockerInv' /\ PlaceInv'  BY <1>1, <1>2, <2>1, <2>4, <2>5, Quiet
  <2> QED  BY <2>2, <2>3, <2>6, Joined
<1>18. CASE Drop(p)
  <2>1. pc[p] \in Inside /\ (Removed \/ UNCHANGED <<docker, events>>) /\ UNCHANGED <<target, had, memory>>
    BY <1>18 DEF Drop, At, rm, Inside, Rebuilding
  <2>2. \A b \in Actors \ {p} : target'[b] = target[b]  BY <2>1
  <2>3. CASE attempt < Attempts /\ attempt' = attempt + 1 /\ Go(p, "clear") /\ UNCHANGED lock
    <3>1. LockTyped' /\ LockInv'
      BY <1>1, <1>2, <2>1, <2>3, LockStays DEF Inside, Rebuilding, Places
    <3>2. RestTyped'  BY <1>1, <2>1, <2>3, RemovedTyped DEF RestTyped, MineTyped
    <3>3. (Place(p))'
      BY <1>1, <1>2, <1>18, <2>1, <2>3, RemovedTyped
      DEF Drop, At, Go, Place, Inside, Rebuilding, LockTyped
    <3>4. DockerInv' /\ PlaceInv'  BY <1>1, <1>2, <2>1, <2>2, <2>3, <3>3, Gone
    <3> QED  BY <3>1, <3>2, <3>4, Joined
  <2>4. CASE Raise(p)
    <3>1. Go(p, "terminate") /\ AskAgain(p) /\ attempt' = 0  BY <2>4 DEF Raise
    <3>2. LockTyped' /\ LockInv'
      BY <1>1, <1>2, <2>1, <3>1, LockAskedAgain, OnlyHolder DEF Holds, Queued, Places
    <3>3. RestTyped'  BY <1>1, <2>1, <3>1, RemovedTyped DEF RestTyped, MineTyped
    <3>4. (Place(p))'
      BY <1>1, <1>2, <2>1, <3>1, RemovedTyped DEF Go, Place, Inside, Rebuilding, LockTyped
    <3>5. DockerInv' /\ PlaceInv'  BY <1>1, <1>2, <2>1, <2>2, <3>1, <3>4, Gone
    <3> QED  BY <3>2, <3>3, <3>5, Joined
  <2> QED  BY <1>18, <2>3, <2>4 DEF Drop
<1> QED
  BY <1>3, <1>4, <1>5, <1>6, <1>7, <1>8, <1>9, <1>10, <1>11, <1>12, <1>13, <1>14, <1>15,
      <1>16, <1>17, <1>18 DEF ProvisionStep

\* So does tearing down.
LEMMA TeardownKeeps ==
    ASSUME SandboxInv, NEW a \in Actors, TeardownStep(a)
    PROVE  SandboxInv'
<1> USE DEF local, memory, docker, events, LooksUp, Forgets
<1>1. /\ LockTyped /\ RestTyped /\ LockInv /\ DockerInv /\ PlaceInv /\ SandboxInv
      /\ Attempts \in Nat \ {0} /\ MaxContainers \in Nat
  BY Split, SandboxAssumption DEF SandboxInv, SandboxAssumption
<1>2. \A q \in Actors : Place(q)
  BY <1>1 DEF PlaceInv
<1>3. After(a) \in {"read", "discard", "home"}
  BY DEF After
<1>4. CASE Terminate(a)
  <2> DEFINE w == IF sandbox # 0 THEN "stop" ELSE After(a)
  <2>1. /\ Go(a, w) /\ Release /\ w \in Places
        /\ Holds(a) /\ w \notin Inside \cup Queued
    BY <1>1, <1>2, <1>3, <1>4 DEF Terminate, DockerInv, At, Places, Inside, Queued, Rebuilding
  <2>2. LockTyped' /\ LockInv'  BY <1>1, <1>2, <1>3, <2>1, LockReleased
  <2>a. a = "watcher" => deaths # << >>  BY <1>2, <1>4 DEF Terminate, At, Place
  <2>b. Tail(deaths) \in Seq(1..MaxContainers) \/ deaths = << >>
    <3> DEFINE S == 1..MaxContainers
    <3>1. deaths \in Seq(S)  BY <1>1 DEF RestTyped, DockerTyped
    <3> HIDE DEF S
    <3>2. deaths # << >> => Tail(deaths) \in Seq(S)  BY <3>1
    <3> QED  BY <3>2 DEF S
  <2>c. deaths' \in Seq(1..MaxContainers)
    BY <1>1, <1>4, <2>a, <2>b DEF Terminate, RestTyped, DockerTyped
  <2>d. 0 \in 0..MaxContainers /\ sandbox \in 0..MaxContainers /\ target' = [target EXCEPT ![a] = sandbox]
    BY <1>1, <1>4 DEF Terminate, RestTyped, MineTyped
  <2>e. target' \in [Actors -> 0..MaxContainers]
    BY <1>1, <2>d DEF RestTyped, MineTyped
  <2>f. MineTyped'  BY <1>1, <1>4, <2>d, <2>e DEF Terminate, RestTyped, MineTyped
  <2>3. RestTyped'  BY <1>1, <1>4, <2>c, <2>f DEF Terminate, RestTyped, DockerTyped
  <2>4. (Place(a))'
    BY <1>1, <1>2, <1>3, <1>4, <2>d
    DEF Terminate, DockerInv, At, Go, Place, Inside, Rebuilding, Announced, LockTyped,
        RestTyped, MineTyped, DockerTyped
  <2>5. \A b \in Actors \ {a} : (Place(b))'
    <3>1. \A b \in Actors \ {a} : target'[b] = target[b]  BY <1>1, <2>d DEF RestTyped, MineTyped
    <3>2. made' = made /\ made \in Nat  BY <1>1, <1>4 DEF Terminate, RestTyped, DockerTyped
    <3>3. a = "watcher" \/ deaths' = deaths  BY <1>4 DEF Terminate
    <3> QED  BY <1>1, <2>1, <3>1, <3>2, <3>3, OthersOutside
  <2>6. DockerInv' /\ PlaceInv'
    BY <1>1, <1>4, <2>4, <2>5
    DEF Terminate, DockerInv, PlaceInv, PhantomAnnounced, RestTyped, DockerTyped
  <2> QED  BY <2>2, <2>3, <2>6, Joined
<1>5. CASE Stop(a)
  <2>1. /\ Go(a, After(a)) /\ UNCHANGED lock /\ After(a) \in Places
        /\ pc[a] \notin Inside \cup Queued /\ After(a) \notin Inside \cup Queued
    BY <1>1, <1>2, <1>3, <1>5 DEF Stop, stop, At, Places, Inside, Queued, Rebuilding
  <2>2. LockTyped' /\ LockInv'  BY <1>1, <1>2, <1>3, <2>1, LockStays
  <2>3. RestTyped'  BY <1>1, <1>2, <1>3, <1>5, RemovedTyped DEF Stop, stop, RestTyped, MineTyped
  <2>4. (Place(a))'
    BY <1>1, <1>2, <1>3, <1>5, RemovedTyped
    DEF Stop, stop, At, Go, Place, Inside, Rebuilding, Announced, LockTyped, RestTyped,
        MineTyped, DockerTyped
  <2>5. /\ UNCHANGED sandbox /\ (Removed \/ UNCHANGED <<docker, events>>)
        /\ \A b \in Actors \ {a} : target'[b] = target[b]
    BY <1>1, <1>2, <1>3, <1>5 DEF Stop, stop, DockerInv, RestTyped
  <2>6. DockerInv' /\ PlaceInv'  BY <1>1, <1>2, <1>3, <2>1, <2>4, <2>5, Gone
  <2> QED  BY <2>2, <2>3, <2>6, Joined
<1> QED  BY <1>4, <1>5 DEF TeardownStep

\* So does closing a session, and the end of one.
LEMMA CloseKeeps ==
    ASSUME SandboxInv, Close \/ DiscardWorkspace \/ Forget \/ EndSession
    PROVE  SandboxInv'
<1> USE DEF local, memory, docker, events, LooksUp, Forgets
<1>1. /\ LockTyped /\ RestTyped /\ LockInv /\ DockerInv /\ PlaceInv /\ SandboxInv
      /\ Attempts \in Nat \ {0} /\ MaxContainers \in Nat
  BY Split, SandboxAssumption DEF SandboxInv, SandboxAssumption
<1>2. \A a \in Actors : Place(a)
  BY <1>1 DEF PlaceInv
<1>3. CASE Close
  <2>1. /\ Go("closer", "terminate") /\ Ask("closer") /\ "terminate" \in Places
        /\ pc["closer"] \notin Inside \cup Queued /\ "terminate" \in Queued /\ "closer" \in Actors
    BY <1>1, <1>2, <1>3 DEF Close, At, Places, Inside, Queued, Rebuilding
  <2>2. LockTyped' /\ LockInv'  BY <1>1, <1>2, <2>1, LockAsked
  <2>3. RestTyped'  BY <1>1, <1>2, <1>3 DEF Close, RestTyped, MineTyped, DockerTyped
  <2>4. (Place("closer"))'
    BY <1>1, <1>2, <1>3, <2>1
    DEF Close, At, Go, Place, Inside, Rebuilding, Announced, LockTyped, RestTyped, MineTyped,
        DockerTyped
  <2>5. /\ UNCHANGED <<sandbox, container, running, made, deaths, unseen>>
        /\ \A b \in Actors \ {"closer"} : target'[b] = target[b]
        /\ container = 0 => turns' = 0
    BY <1>1, <1>2, <1>3 DEF Close, DockerInv, RestTyped
  <2>6. DockerInv' /\ PlaceInv'  BY <1>1, <1>2, <2>1, <2>4, <2>5, Quiet
  <2> QED  BY <2>2, <2>3, <2>6, Joined
<1>4. CASE DiscardWorkspace
  <2>1. /\ Go("closer", "forget") /\ UNCHANGED lock /\ "forget" \in Places
        /\ pc["closer"] \notin Inside \cup Queued /\ "forget" \notin Inside \cup Queued /\ "closer" \in Actors
    BY <1>1, <1>2, <1>4 DEF DiscardWorkspace, rm, At, Places, Inside, Queued, Rebuilding
  <2>2. LockTyped' /\ LockInv'  BY <1>1, <1>2, <2>1, LockStays
  <2>3. RestTyped'
    BY <1>1, <1>2, <1>4, RemovedTyped DEF DiscardWorkspace, rm, RestTyped, MineTyped
  <2>4. (Place("closer"))'
    BY <1>1, <1>2, <1>4, <2>1, RemovedTyped
    DEF DiscardWorkspace, rm, At, Go, Place, Inside, Rebuilding, Announced, LockTyped,
        RestTyped, MineTyped, DockerTyped
  <2>5. /\ UNCHANGED sandbox /\ (Removed \/ UNCHANGED <<docker, events>>)
        /\ \A b \in Actors \ {"closer"} : target'[b] = target[b]
    BY <1>1, <1>2, <1>4 DEF DiscardWorkspace, rm, DockerInv, RestTyped
  <2>6. DockerInv' /\ PlaceInv'  BY <1>1, <1>2, <2>1, <2>4, <2>5, Gone
  <2> QED  BY <2>2, <2>3, <2>6, Joined
<1>5. CASE Forget
  <2>1. /\ Go("closer", "home") /\ UNCHANGED lock /\ "home" \in Places
        /\ pc["closer"] \notin Inside \cup Queued /\ "home" \notin Inside \cup Queued /\ "closer" \in Actors
    BY <1>1, <1>2, <1>5 DEF Forget, At, Places, Inside, Queued, Rebuilding
  <2>2. LockTyped' /\ LockInv'  BY <1>1, <1>2, <2>1, LockStays
  <2>3. RestTyped'  BY <1>1, <1>2, <1>5 DEF Forget, RestTyped, MineTyped, DockerTyped
  <2>4. (Place("closer"))'
    BY <1>1, <1>2, <1>5, <2>1
    DEF Forget, At, Go, Place, Inside, Rebuilding, Announced, LockTyped, RestTyped, MineTyped,
        DockerTyped
  <2>5. /\ UNCHANGED <<sandbox, container, running, made, deaths, unseen>>
        /\ \A b \in Actors \ {"closer"} : target'[b] = target[b]
        /\ container = 0 => turns' = 0
    BY <1>1, <1>2, <1>5 DEF Forget, DockerInv, RestTyped
  <2>6. DockerInv' /\ PlaceInv'  BY <1>1, <1>2, <2>1, <2>4, <2>5, Quiet
  <2> QED  BY <2>2, <2>3, <2>6, Joined
<1>6. CASE EndSession
  <2>1. /\ Go("ender", "terminate") /\ Ask("ender") /\ "terminate" \in Places
        /\ pc["ender"] \notin Inside \cup Queued /\ "terminate" \in Queued /\ "ender" \in Actors
    BY <1>1, <1>2, <1>6 DEF EndSession, At, Places, Inside, Queued, Rebuilding
  <2>2. LockTyped' /\ LockInv'  BY <1>1, <1>2, <2>1, LockAsked
  <2>3. RestTyped'  BY <1>1, <1>2, <1>6 DEF EndSession, RestTyped, MineTyped, DockerTyped
  <2>4. (Place("ender"))'
    BY <1>1, <1>2, <1>6, <2>1
    DEF EndSession, At, Go, Place, Inside, Rebuilding, Announced, LockTyped, RestTyped,
        MineTyped, DockerTyped
  <2>5. /\ UNCHANGED <<sandbox, container, running, made, deaths, unseen>>
        /\ \A b \in Actors \ {"ender"} : target'[b] = target[b]
        /\ container = 0 => turns' = 0
    BY <1>1, <1>2, <1>6 DEF EndSession, DockerInv, RestTyped
  <2>6. DockerInv' /\ PlaceInv'  BY <1>1, <1>2, <2>1, <2>4, <2>5, Quiet
  <2> QED  BY <2>2, <2>3, <2>6, Joined
<1> QED  BY <1>3, <1>4, <1>5, <1>6

\* So does the idle reaper.
LEMMA ReaperKeeps ==
    ASSUME SandboxInv, ReaperStep
    PROVE  SandboxInv'
<1> USE DEF local, memory, docker, events, LooksUp, Forgets
<1>1. /\ LockTyped /\ RestTyped /\ LockInv /\ DockerInv /\ PlaceInv /\ SandboxInv
      /\ Attempts \in Nat \ {0} /\ MaxContainers \in Nat
  BY Split, SandboxAssumption DEF SandboxInv, SandboxAssumption
<1>2. \A a \in Actors : Place(a)
  BY <1>1 DEF PlaceInv
<1>3. CASE ReaperWakes
  <2>1. /\ Go("reaper", "list") /\ Ask("reaper") /\ "list" \in Places
        /\ pc["reaper"] \notin Inside \cup Queued /\ "list" \in Queued /\ "reaper" \in Actors
    BY <1>1, <1>2, <1>3 DEF ReaperWakes, At, Places, Inside, Queued, Rebuilding
  <2>2. LockTyped' /\ LockInv'  BY <1>1, <1>2, <2>1, LockAsked
  <2>3. RestTyped'  BY <1>1, <1>2, <1>3 DEF ReaperWakes, RestTyped, MineTyped, DockerTyped
  <2>4. (Place("reaper"))'
    BY <1>1, <1>2, <1>3, <2>1
    DEF ReaperWakes, At, Go, Place, Inside, Rebuilding, Announced, LockTyped, RestTyped,
        MineTyped, DockerTyped
  <2>5. /\ UNCHANGED <<sandbox, container, running, made, deaths, unseen>>
        /\ \A b \in Actors \ {"reaper"} : target'[b] = target[b]
        /\ container = 0 => turns' = 0
    BY <1>1, <1>2, <1>3 DEF ReaperWakes, DockerInv, RestTyped
  <2>6. DockerInv' /\ PlaceInv'  BY <1>1, <1>2, <2>1, <2>4, <2>5, Quiet
  <2> QED  BY <2>2, <2>3, <2>6, Joined
<1>4. CASE ListIdle
  <2> DEFINE w == IF sandbox # 0 /\ idle THEN "listed" ELSE "home"
  <2>1. /\ Go("reaper", w) /\ Release /\ w \in Places
        /\ Holds("reaper") /\ w \notin Inside \cup Queued /\ "reaper" \in Actors
    BY <1>1, <1>2, <1>4 DEF ListIdle, At, Places, Inside, Queued, Rebuilding
  <2>2. LockTyped' /\ LockInv'  BY <1>1, <1>2, <2>1, LockReleased
  <2>3. RestTyped'  BY <1>1, <1>2, <1>4 DEF ListIdle, RestTyped, MineTyped, DockerTyped
  <2>4. (Place("reaper"))'
    BY <1>1, <1>2, <1>4, <2>1
    DEF ListIdle, At, Go, Place, Inside, Rebuilding, Announced, LockTyped, RestTyped,
        MineTyped, DockerTyped
  <2>5. /\ UNCHANGED <<sandbox, container, running, made, deaths, unseen>>
        /\ \A b \in Actors \ {"reaper"} : target'[b] = target[b]
        /\ container = 0 => turns' = 0
    BY <1>1, <1>2, <1>4 DEF ListIdle, DockerInv, RestTyped
  <2>6. DockerInv' /\ PlaceInv'  BY <1>1, <1>2, <2>1, <2>4, <2>5, Quiet
  <2> QED  BY <2>2, <2>3, <2>6, Joined
<1>5. CASE Reap
  <2>1. /\ Go("reaper", "terminate") /\ Ask("reaper") /\ "terminate" \in Places
        /\ pc["reaper"] \notin Inside \cup Queued /\ "terminate" \in Queued /\ "reaper" \in Actors
    BY <1>1, <1>2, <1>5 DEF Reap, At, Places, Inside, Queued, Rebuilding
  <2>2. LockTyped' /\ LockInv'  BY <1>1, <1>2, <2>1, LockAsked
  <2>3. RestTyped'  BY <1>1, <1>2, <1>5 DEF Reap, RestTyped, MineTyped, DockerTyped
  <2>4. (Place("reaper"))'
    BY <1>1, <1>2, <1>5, <2>1
    DEF Reap, At, Go, Place, Inside, Rebuilding, Announced, LockTyped, RestTyped, MineTyped,
        DockerTyped
  <2>5. /\ UNCHANGED <<sandbox, container, running, made, deaths, unseen>>
        /\ \A b \in Actors \ {"reaper"} : target'[b] = target[b]
        /\ container = 0 => turns' = 0
    BY <1>1, <1>2, <1>5 DEF Reap, DockerInv, RestTyped
  <2>6. DockerInv' /\ PlaceInv'  BY <1>1, <1>2, <2>1, <2>4, <2>5, Quiet
  <2> QED  BY <2>2, <2>3, <2>6, Joined
<1> QED  BY <1>3, <1>4, <1>5 DEF ReaperStep

\* So does a page that is viewed.
LEMMA ViewerKeeps ==
    ASSUME SandboxInv, View \/ ViewerStep
    PROVE  SandboxInv'
<1> USE DEF local, memory, docker, events, LooksUp, Forgets
<1>1. /\ LockTyped /\ RestTyped /\ LockInv /\ DockerInv /\ PlaceInv /\ SandboxInv
      /\ Attempts \in Nat \ {0} /\ MaxContainers \in Nat
  BY Split, SandboxAssumption DEF SandboxInv, SandboxAssumption
<1>2. \A a \in Actors : Place(a)
  BY <1>1 DEF PlaceInv
<1>3. CASE View
  <2>1. /\ Go("viewer", "look") /\ Ask("viewer") /\ "look" \in Places
        /\ pc["viewer"] \notin Inside \cup Queued /\ "look" \in Queued /\ "viewer" \in Actors
    BY <1>1, <1>2, <1>3 DEF View, At, Places, Inside, Queued, Rebuilding
  <2>2. LockTyped' /\ LockInv'  BY <1>1, <1>2, <2>1, LockAsked
  <2>3. RestTyped'  BY <1>1, <1>2, <1>3 DEF View, RestTyped, MineTyped, DockerTyped
  <2>4. (Place("viewer"))'
    BY <1>1, <1>2, <1>3, <2>1
    DEF View, At, Go, Place, Inside, Rebuilding, Announced, LockTyped, RestTyped, MineTyped,
        DockerTyped
  <2>5. /\ UNCHANGED <<sandbox, container, running, made, deaths, unseen>>
        /\ \A b \in Actors \ {"viewer"} : target'[b] = target[b]
        /\ container = 0 => turns' = 0
    BY <1>1, <1>2, <1>3 DEF View, DockerInv, RestTyped
  <2>6. DockerInv' /\ PlaceInv'  BY <1>1, <1>2, <2>1, <2>4, <2>5, Quiet
  <2> QED  BY <2>2, <2>3, <2>6, Joined
<1>4. CASE Look
  <2>1. /\ Go("viewer", "judge") /\ Release /\ "judge" \in Places
        /\ Holds("viewer") /\ "judge" \notin Inside \cup Queued /\ "viewer" \in Actors
    BY <1>1, <1>2, <1>4 DEF Look, DockerInv, At, Places, Inside, Queued, Rebuilding
  <2>2. LockTyped' /\ LockInv'  BY <1>1, <1>2, <2>1, LockReleased
  <2>3. RestTyped'  BY <1>1, <1>2, <1>4 DEF Look, DockerInv, RestTyped, MineTyped, DockerTyped
  <2>4. (Place("viewer"))'
    BY <1>1, <1>2, <1>4, <2>1 
    DEF Look, DockerInv, At, Go, Place, Inside, Rebuilding, Announced, LockTyped, RestTyped,
        MineTyped, DockerTyped
  <2>5. /\ UNCHANGED <<sandbox, container, running, made, deaths, unseen>>
        /\ \A b \in Actors \ {"viewer"} : target'[b] = target[b]
        /\ container = 0 => turns' = 0
    BY <1>1, <1>2, <1>4 DEF Look, DockerInv, DockerInv, RestTyped
  <2>6. DockerInv' /\ PlaceInv'  BY <1>1, <1>2, <2>1, <2>4, <2>5, Quiet
  <2> QED  BY <2>2, <2>3, <2>6, Joined
<1>5. CASE FoundAlive
  <2>1. /\ Go("viewer", "home") /\ UNCHANGED lock /\ "home" \in Places
        /\ pc["viewer"] \notin Inside \cup Queued /\ "home" \notin Inside \cup Queued /\ "viewer" \in Actors
    BY <1>1, <1>2, <1>5 DEF FoundAlive, At, Places, Inside, Queued, Rebuilding
  <2>2. LockTyped' /\ LockInv'  BY <1>1, <1>2, <2>1, LockStays
  <2>a. target' \in [Actors -> 0..MaxContainers]
    BY <1>1, <1>5, ForgetsTyped DEF FoundAlive
  <2>3. RestTyped'
    BY <1>1, <1>5, <2>a DEF FoundAlive, RestTyped, MineTyped, DockerTyped
  <2>4. (Place("viewer"))'
    BY <1>1, <1>2, <1>5, <2>1
    DEF FoundAlive, At, Go, Place, Inside, Rebuilding, Announced, LockTyped, RestTyped,
        MineTyped, DockerTyped
  <2>5. /\ UNCHANGED <<sandbox, container, running, made, deaths, unseen>>
        /\ \A b \in Actors \ {"viewer"} : target'[b] = target[b]
        /\ container = 0 => turns' = 0
    BY <1>1, <1>2, <1>5 DEF FoundAlive, DockerInv, RestTyped
  <2>6. DockerInv' /\ PlaceInv'  BY <1>1, <1>2, <2>1, <2>4, <2>5, Quiet
  <2> QED  BY <2>2, <2>3, <2>6, Joined
<1>6. CASE FoundDead
  <2>1. /\ Go("viewer", "home") /\ UNCHANGED lock /\ "home" \in Places
        /\ pc["viewer"] \notin Inside \cup Queued /\ "home" \notin Inside \cup Queued /\ "viewer" \in Actors
    BY <1>1, <1>2, <1>6 DEF FoundDead, At, Places, Inside, Queued, Rebuilding
  <2>2. LockTyped' /\ LockInv'  BY <1>1, <1>2, <2>1, LockStays
  <2>a. target' \in [Actors -> 0..MaxContainers]
    BY <1>1, <1>6, ForgetsTyped DEF FoundDead
  <2>3. RestTyped'
    BY <1>1, <1>6, <2>a DEF FoundDead, RestTyped, MineTyped, DockerTyped
  <2>4. (Place("viewer"))'
    BY <1>1, <1>2, <1>6, <2>1
    DEF FoundDead, At, Go, Place, Inside, Rebuilding, Announced, LockTyped, RestTyped,
        MineTyped, DockerTyped
  <2>5. /\ UNCHANGED <<sandbox, container, running, made, deaths, unseen>>
        /\ \A b \in Actors \ {"viewer"} : target'[b] = target[b]
        /\ container = 0 => turns' = 0
    BY <1>1, <1>2, <1>6 DEF FoundDead, DockerInv, RestTyped
  <2>6. DockerInv' /\ PlaceInv'  BY <1>1, <1>2, <2>1, <2>4, <2>5, Quiet
  <2> QED  BY <2>2, <2>3, <2>6, Joined
<1> QED  BY <1>3, <1>4, <1>5, <1>6 DEF ViewerStep

\* So does a turn of the run.
LEMMA RunKeeps ==
    ASSUME SandboxInv, StartTurn \/ RunStep
    PROVE  SandboxInv'
<1> USE DEF local, memory, docker, events, LooksUp, Forgets
<1>1. /\ LockTyped /\ RestTyped /\ LockInv /\ DockerInv /\ PlaceInv /\ SandboxInv
      /\ Attempts \in Nat \ {0} /\ MaxContainers \in Nat
  BY Split, SandboxAssumption DEF SandboxInv, SandboxAssumption
<1>2. \A a \in Actors : Place(a)
  BY <1>1 DEF PlaceInv
<1>3. CASE StartTurn
  <2>1. /\ Go("run", "exec") /\ Ask("run") /\ "exec" \in Places
        /\ pc["run"] \notin Inside \cup Queued /\ "exec" \in Queued /\ "run" \in Actors
    BY <1>1, <1>2, <1>3 DEF StartTurn, At, Places, Inside, Queued, Rebuilding
  <2>2. LockTyped' /\ LockInv'  BY <1>1, <1>2, <2>1, LockAsked
  <2>3. RestTyped'  BY <1>1, <1>2, <1>3 DEF StartTurn, RestTyped, MineTyped, DockerTyped
  <2>4. (Place("run"))'
    BY <1>1, <1>2, <1>3, <2>1
    DEF StartTurn, At, Go, Place, Inside, Rebuilding, Announced, LockTyped, RestTyped,
        MineTyped, DockerTyped
  <2>5. /\ UNCHANGED <<sandbox, container, running, made, deaths, unseen>>
        /\ \A b \in Actors \ {"run"} : target'[b] = target[b]
        /\ container = 0 => turns' = 0
    BY <1>1, <1>2, <1>3 DEF StartTurn, DockerInv, RestTyped
  <2>6. DockerInv' /\ PlaceInv'  BY <1>1, <1>2, <2>1, <2>4, <2>5, Quiet
  <2> QED  BY <2>2, <2>3, <2>6, Joined
<1>4. CASE ExecTurn
  <2> DEFINE w == IF sandbox # 0 THEN "launch" ELSE "home"
  <2>1. /\ Go("run", w) /\ Release /\ w \in Places
        /\ Holds("run") /\ w \notin Inside \cup Queued /\ "run" \in Actors
    BY <1>1, <1>2, <1>4 DEF ExecTurn, EnterExec, DockerInv, At, Places, Inside, Queued,
        Rebuilding
  <2>2. LockTyped' /\ LockInv'  BY <1>1, <1>2, <2>1, LockReleased
  <2>3. RestTyped'
    BY <1>1, <1>2, <1>4 DEF ExecTurn, EnterExec, DockerInv, RestTyped, MineTyped, DockerTyped
  <2>4. (Place("run"))'
    BY <1>1, <1>2, <1>4, <2>1 
    DEF ExecTurn, EnterExec, DockerInv, At, Go, Place, Inside, Rebuilding, Announced,
        LockTyped, RestTyped, MineTyped, DockerTyped
  <2>5. /\ UNCHANGED <<sandbox, container, running, made, deaths, unseen>>
        /\ \A b \in Actors \ {"run"} : target'[b] = target[b]
        /\ container = 0 => turns' = 0
    BY <1>1, <1>2, <1>4 DEF ExecTurn, EnterExec, DockerInv, DockerInv, RestTyped
  <2>6. DockerInv' /\ PlaceInv'  BY <1>1, <1>2, <2>1, <2>4, <2>5, Quiet
  <2> QED  BY <2>2, <2>3, <2>6, Joined
<1>5. CASE PollTurn
  <2>1. /\ Go("run", "turn") /\ Release /\ "turn" \in Places
        /\ Holds("run") /\ "turn" \notin Inside \cup Queued /\ "run" \in Actors
    BY <1>1, <1>2, <1>5 DEF PollTurn, EnterExec, At, Places, Inside, Queued, Rebuilding
  <2>2. LockTyped' /\ LockInv'  BY <1>1, <1>2, <2>1, LockReleased
  <2>3. RestTyped'
    BY <1>1, <1>2, <1>5 DEF PollTurn, EnterExec, RestTyped, MineTyped, DockerTyped
  <2>4. (Place("run"))'
    BY <1>1, <1>2, <1>5, <2>1
    DEF PollTurn, EnterExec, At, Go, Place, Inside, Rebuilding, Announced, LockTyped,
        RestTyped, MineTyped, DockerTyped
  <2>5. /\ UNCHANGED <<sandbox, container, running, made, deaths, unseen>>
        /\ \A b \in Actors \ {"run"} : target'[b] = target[b]
        /\ container = 0 => turns' = 0
    BY <1>1, <1>2, <1>5 DEF PollTurn, EnterExec, DockerInv, RestTyped
  <2>6. DockerInv' /\ PlaceInv'  BY <1>1, <1>2, <2>1, <2>4, <2>5, Quiet
  <2> QED  BY <2>2, <2>3, <2>6, Joined
<1>6. CASE LaunchTurn
  <2>1. /\ Go("run", "turn") /\ UNCHANGED lock /\ "turn" \in Places
        /\ pc["run"] \notin Inside \cup Queued /\ "turn" \notin Inside \cup Queued /\ "run" \in Actors
    BY <1>1, <1>2, <1>6 DEF LaunchTurn, Launches, At, Places, Inside, Queued, Rebuilding
  <2>2. LockTyped' /\ LockInv'  BY <1>1, <1>2, <2>1, LockStays
  <2>a. target' \in [Actors -> 0..MaxContainers]
    BY <1>1, <1>6, ForgetsTyped DEF LaunchTurn, Launches
  <2>3. RestTyped'
    BY <1>1, <1>2, <1>6, <2>a DEF LaunchTurn, Launches, RestTyped, MineTyped, DockerTyped
  <2>4. (Place("run"))'
    BY <1>1, <1>2, <1>6, <2>1
    DEF LaunchTurn, Launches, At, Go, Place, Inside, Rebuilding, Announced, LockTyped,
        RestTyped, MineTyped, DockerTyped
  <2>5. /\ UNCHANGED <<sandbox, container, running, made, deaths, unseen>>
        /\ \A b \in Actors \ {"run"} : target'[b] = target[b]
        /\ container = 0 => turns' = 0
    BY <1>1, <1>2, <1>6 DEF LaunchTurn, Launches, DockerInv, RestTyped
  <2>6. DockerInv' /\ PlaceInv'  BY <1>1, <1>2, <2>1, <2>4, <2>5, Quiet
  <2> QED  BY <2>2, <2>3, <2>6, Joined
<1>7. CASE LaunchGivenUp
  <2>1. /\ Go("run", "kill") /\ Ask("run") /\ "kill" \in Places
        /\ pc["run"] \notin Inside \cup Queued /\ "kill" \in Queued /\ "run" \in Actors
    BY <1>1, <1>2, <1>7 DEF LaunchGivenUp, Launches, At, Places, Inside, Queued, Rebuilding
  <2>2. LockTyped' /\ LockInv'  BY <1>1, <1>2, <2>1, LockAsked
  <2>a. target' \in [Actors -> 0..MaxContainers]
    BY <1>1, <1>7, ForgetsTyped DEF LaunchGivenUp, Launches
  <2>3. RestTyped'
    BY <1>1, <1>2, <1>7, <2>a DEF LaunchGivenUp, Launches, RestTyped, MineTyped, DockerTyped
  <2>4. (Place("run"))'
    BY <1>1, <1>2, <1>7, <2>1
    DEF LaunchGivenUp, Launches, At, Go, Place, Inside, Rebuilding, Announced, LockTyped,
        RestTyped, MineTyped, DockerTyped
  <2>5. /\ UNCHANGED <<sandbox, container, running, made, deaths, unseen>>
        /\ \A b \in Actors \ {"run"} : target'[b] = target[b]
        /\ container = 0 => turns' = 0
    BY <1>1, <1>2, <1>7 DEF LaunchGivenUp, Launches, DockerInv, RestTyped
  <2>6. DockerInv' /\ PlaceInv'  BY <1>1, <1>2, <2>1, <2>4, <2>5, Quiet
  <2> QED  BY <2>2, <2>3, <2>6, Joined
<1>8. CASE ExecFails
  <2>1. /\ Go("run", "home") /\ UNCHANGED lock /\ "home" \in Places
        /\ pc["run"] \notin Inside \cup Queued /\ "home" \notin Inside \cup Queued /\ "run" \in Actors
    BY <1>1, <1>2, <1>8 DEF ExecFails, At, Places, Inside, Queued, Rebuilding
  <2>2. LockTyped' /\ LockInv'  BY <1>1, <1>2, <2>1, LockStays
  <2>a. target' \in [Actors -> 0..MaxContainers]
    BY <1>1, <1>8, ForgetsTyped DEF ExecFails
  <2>3. RestTyped'
    BY <1>1, <1>2, <1>8, <2>a DEF ExecFails, RestTyped, MineTyped, DockerTyped
  <2>4. (Place("run"))'
    BY <1>1, <1>2, <1>8, <2>1
    DEF ExecFails, At, Go, Place, Inside, Rebuilding, Announced, LockTyped,
        RestTyped, MineTyped, DockerTyped
  <2>5. /\ UNCHANGED <<sandbox, container, running, made, deaths, unseen>>
        /\ \A b \in Actors \ {"run"} : target'[b] = target[b]
        /\ container = 0 => turns' = 0
    BY <1>1, <1>2, <1>8 DEF ExecFails, DockerInv, RestTyped
  <2>6. DockerInv' /\ PlaceInv'  BY <1>1, <1>2, <2>1, <2>4, <2>5, Quiet
  <2> QED  BY <2>2, <2>3, <2>6, Joined
<1>9. CASE Poll
  <2>1. /\ Go("run", "poll") /\ Ask("run") /\ "poll" \in Places
        /\ pc["run"] \notin Inside \cup Queued /\ "poll" \in Queued /\ "run" \in Actors
    BY <1>1, <1>2, <1>9 DEF Poll, At, Places, Inside, Queued, Rebuilding
  <2>2. LockTyped' /\ LockInv'  BY <1>1, <1>2, <2>1, LockAsked
  <2>3. RestTyped'
    BY <1>1, <1>2, <1>9 DEF Poll, RestTyped, MineTyped, DockerTyped
  <2>4. (Place("run"))'
    BY <1>1, <1>2, <1>9, <2>1
    DEF Poll, At, Go, Place, Inside, Rebuilding, Announced, LockTyped,
        RestTyped, MineTyped, DockerTyped
  <2>5. /\ UNCHANGED <<sandbox, container, running, made, deaths, unseen>>
        /\ \A b \in Actors \ {"run"} : target'[b] = target[b]
        /\ container = 0 => turns' = 0
    BY <1>1, <1>2, <1>9 DEF Poll, DockerInv, RestTyped
  <2>6. DockerInv' /\ PlaceInv'  BY <1>1, <1>2, <2>1, <2>4, <2>5, Quiet
  <2> QED  BY <2>2, <2>3, <2>6, Joined
<1>10. CASE TurnEnds
  <2>1. /\ Go("run", "home") /\ UNCHANGED lock /\ "home" \in Places
        /\ pc["run"] \notin Inside \cup Queued /\ "home" \notin Inside \cup Queued /\ "run" \in Actors
    BY <1>1, <1>2, <1>10 DEF TurnEnds, Fewer, At, Places, Inside, Queued, Rebuilding
  <2>2. LockTyped' /\ LockInv'  BY <1>1, <1>2, <2>1, LockStays
  <2>3. RestTyped'
    BY <1>1, <1>2, <1>10 DEF TurnEnds, Fewer, RestTyped, MineTyped, DockerTyped
  <2>4. (Place("run"))'
    BY <1>1, <1>2, <1>10, <2>1
    DEF TurnEnds, Fewer, At, Go, Place, Inside, Rebuilding, Announced, LockTyped,
        RestTyped, MineTyped, DockerTyped
  <2>5. /\ UNCHANGED <<sandbox, container, running, made, deaths, unseen>>
        /\ \A b \in Actors \ {"run"} : target'[b] = target[b]
        /\ container = 0 => turns' = 0
    BY <1>1, <1>2, <1>10 DEF TurnEnds, Fewer, DockerInv, RestTyped
  <2>6. DockerInv' /\ PlaceInv'  BY <1>1, <1>2, <2>1, <2>4, <2>5, Quiet
  <2> QED  BY <2>2, <2>3, <2>6, Joined
<1>11. CASE Abandon
  <2>1. /\ Go("run", "kill") /\ Ask("run") /\ "kill" \in Places
        /\ pc["run"] \notin Inside \cup Queued /\ "kill" \in Queued /\ "run" \in Actors
    BY <1>1, <1>2, <1>11 DEF Abandon, At, Places, Inside, Queued, Rebuilding
  <2>2. LockTyped' /\ LockInv'  BY <1>1, <1>2, <2>1, LockAsked
  <2>3. RestTyped'
    BY <1>1, <1>2, <1>11 DEF Abandon, RestTyped, MineTyped, DockerTyped
  <2>4. (Place("run"))'
    BY <1>1, <1>2, <1>11, <2>1
    DEF Abandon, At, Go, Place, Inside, Rebuilding, Announced, LockTyped,
        RestTyped, MineTyped, DockerTyped
  <2>5. /\ UNCHANGED <<sandbox, container, running, made, deaths, unseen>>
        /\ \A b \in Actors \ {"run"} : target'[b] = target[b]
        /\ container = 0 => turns' = 0
    BY <1>1, <1>2, <1>11 DEF Abandon, DockerInv, RestTyped
  <2>6. DockerInv' /\ PlaceInv'  BY <1>1, <1>2, <2>1, <2>4, <2>5, Quiet
  <2> QED  BY <2>2, <2>3, <2>6, Joined
<1>12. CASE PollFails
  <2>1. /\ Go("run", "kill") /\ AskAgain("run") /\ "kill" \in Places
        /\ Holds("run") /\ "kill" \in Queued /\ "run" \in Actors
    BY <1>1, <1>2, <1>12 DEF PollFails, At, Places, Inside, Queued, Rebuilding
  <2>2. LockTyped' /\ LockInv'  BY <1>1, <1>2, <2>1, LockAskedAgain
  <2>3. RestTyped'
    BY <1>1, <1>2, <1>12 DEF PollFails, RestTyped, MineTyped, DockerTyped
  <2>4. (Place("run"))'
    BY <1>1, <1>2, <1>12, <2>1
    DEF PollFails, At, Go, Place, Inside, Rebuilding, Announced, LockTyped,
        RestTyped, MineTyped, DockerTyped
  <2>5. /\ UNCHANGED <<sandbox, container, running, made, deaths, unseen>>
        /\ \A b \in Actors \ {"run"} : target'[b] = target[b]
        /\ container = 0 => turns' = 0
    BY <1>1, <1>2, <1>12 DEF PollFails, DockerInv, RestTyped
  <2>6. DockerInv' /\ PlaceInv'  BY <1>1, <1>2, <2>1, <2>4, <2>5, Quiet
  <2> QED  BY <2>2, <2>3, <2>6, Joined
<1>13. CASE KillTurn
  <2> DEFINE w == IF sandbox # 0 THEN "signal" ELSE "home"
  <2>1. /\ Go("run", w) /\ Release /\ w \in Places
        /\ Holds("run") /\ w \notin Inside \cup Queued /\ "run" \in Actors
    BY <1>1, <1>2, <1>13 DEF KillTurn, EnterExec, At, Places, Inside, Queued, Rebuilding
  <2>2. LockTyped' /\ LockInv'  BY <1>1, <1>2, <2>1, LockReleased
  <2>3. RestTyped'
    BY <1>1, <1>2, <1>13 DEF KillTurn, EnterExec, RestTyped, MineTyped, DockerTyped
  <2>4. (Place("run"))'
    BY <1>1, <1>2, <1>13, <2>1
    DEF KillTurn, EnterExec, DockerInv, At, Go, Place, Inside, Rebuilding, Announced, LockTyped,
        RestTyped, MineTyped, DockerTyped
  <2>5. /\ UNCHANGED <<sandbox, container, running, made, deaths, unseen>>
        /\ \A b \in Actors \ {"run"} : target'[b] = target[b]
        /\ container = 0 => turns' = 0
    BY <1>1, <1>2, <1>13 DEF KillTurn, EnterExec, DockerInv, RestTyped
  <2>6. DockerInv' /\ PlaceInv'  BY <1>1, <1>2, <2>1, <2>4, <2>5, Quiet
  <2> QED  BY <2>2, <2>3, <2>6, Joined
<1>14. CASE Signal
  <2>1. /\ Go("run", "home") /\ UNCHANGED lock /\ "home" \in Places
        /\ pc["run"] \notin Inside \cup Queued /\ "home" \notin Inside \cup Queued /\ "run" \in Actors
    BY <1>1, <1>2, <1>14 DEF Signal, Fewer, At, Places, Inside, Queued, Rebuilding
  <2>2. LockTyped' /\ LockInv'  BY <1>1, <1>2, <2>1, LockStays
  <2>a. target' \in [Actors -> 0..MaxContainers]
    BY <1>1, <1>14, ForgetsTyped DEF Signal, Fewer
  <2>3. RestTyped'
    BY <1>1, <1>2, <1>14, <2>a DEF Signal, Fewer, RestTyped, MineTyped, DockerTyped
  <2>4. (Place("run"))'
    BY <1>1, <1>2, <1>14, <2>1
    DEF Signal, Fewer, At, Go, Place, Inside, Rebuilding, Announced, LockTyped,
        RestTyped, MineTyped, DockerTyped
  <2>5. /\ UNCHANGED <<sandbox, container, running, made, deaths, unseen>>
        /\ \A b \in Actors \ {"run"} : target'[b] = target[b]
        /\ container = 0 => turns' = 0
    BY <1>1, <1>2, <1>14 DEF Signal, Fewer, DockerInv, RestTyped
  <2>6. DockerInv' /\ PlaceInv'  BY <1>1, <1>2, <2>1, <2>4, <2>5, Quiet
  <2> QED  BY <2>2, <2>3, <2>6, Joined
<1> QED
  BY <1>3, <1>4, <1>5, <1>6, <1>7, <1>8, <1>9, <1>10, <1>11, <1>12, <1>13, <1>14 DEF RunStep

\* So does the watcher of Docker's events.
LEMMA WatcherKeeps ==
    ASSUME SandboxInv, WatcherStep
    PROVE  SandboxInv'
<1> USE DEF local, memory, docker, events, LooksUp, Forgets
<1>1. /\ LockTyped /\ RestTyped /\ LockInv /\ DockerInv /\ PlaceInv /\ SandboxInv
      /\ Attempts \in Nat \ {0} /\ MaxContainers \in Nat
  BY Split, SandboxAssumption DEF SandboxInv, SandboxAssumption
<1>2. \A a \in Actors : Place(a)
  BY <1>1 DEF PlaceInv
<1>3. CASE Subscribe
  <2>1. /\ Go("watcher", "read") /\ UNCHANGED lock /\ "read" \in Places
        /\ pc["watcher"] \notin Inside \cup Queued /\ "read" \notin Inside \cup Queued /\ "watcher" \in Actors
    BY <1>1, <1>2, <1>3 DEF Subscribe, At, Places, Inside, Queued, Rebuilding
  <2>2. LockTyped' /\ LockInv'  BY <1>1, <1>2, <2>1, LockStays
  <2>3. RestTyped'  BY <1>1, <1>2, <1>3 DEF Subscribe, RestTyped, MineTyped, DockerTyped
  <2>4. (Place("watcher"))'
    BY <1>1, <1>2, <1>3, <2>1
    DEF Subscribe, At, Go, Place, Inside, Rebuilding, Announced, LockTyped, RestTyped,
        MineTyped, DockerTyped
  <2>5. /\ UNCHANGED <<sandbox, container, running, made, deaths, unseen>>
        /\ \A b \in Actors \ {"watcher"} : target'[b] = target[b]
        /\ container = 0 => turns' = 0
    BY <1>1, <1>2, <1>3 DEF Subscribe, DockerInv, RestTyped
  <2>6. DockerInv' /\ PlaceInv'  BY <1>1, <1>2, <2>1, <2>4, <2>5, Quiet
  <2> QED  BY <2>2, <2>3, <2>6, Joined
<1>4. CASE ReadDeath
  <2>1. /\ Go("watcher", "check") /\ Ask("watcher") /\ "check" \in Places
        /\ pc["watcher"] \notin Inside \cup Queued /\ "check" \in Queued /\ "watcher" \in Actors
    BY <1>1, <1>2, <1>4 DEF ReadDeath, At, Places, Inside, Queued, Rebuilding
  <2>2. LockTyped' /\ LockInv'  BY <1>1, <1>2, <2>1, LockAsked
  <2>3. RestTyped'  BY <1>1, <1>2, <1>4 DEF ReadDeath, RestTyped, MineTyped, DockerTyped
  <2>4. (Place("watcher"))'
    BY <1>1, <1>2, <1>4, <2>1
    DEF ReadDeath, At, Go, Place, Inside, Rebuilding, Announced, LockTyped, RestTyped,
        MineTyped, DockerTyped
  <2>5. /\ UNCHANGED <<sandbox, container, running, made, deaths, unseen>>
        /\ \A b \in Actors \ {"watcher"} : target'[b] = target[b]
        /\ container = 0 => turns' = 0
    BY <1>1, <1>2, <1>4 DEF ReadDeath, DockerInv, RestTyped
  <2>6. DockerInv' /\ PlaceInv'  BY <1>1, <1>2, <2>1, <2>4, <2>5, Quiet
  <2> QED  BY <2>2, <2>3, <2>6, Joined
<1>5. CASE CheckKnown
  <2>1. /\ "watcher" \in Actors /\ Holds("watcher") /\ pc["watcher"] = "check"
        /\ UNCHANGED <<target, memory, container, running, made, turns, unseen>>
    BY <1>5 DEF CheckKnown, At
  <2>2. deaths # << >> /\ Place("watcher") /\ target["watcher"] <= made
    BY <1>2, <2>1 DEF Place
  <2>3. CASE AskAgain("watcher") /\ Go("watcher", "terminate") /\ UNCHANGED deaths
    <3>1. LockTyped' /\ LockInv'
      BY <1>1, <2>1, <2>3, LockAskedAgain DEF Queued, Places
    <3>2. RestTyped'
      BY <1>1, <1>5, <2>3 DEF CheckKnown, RestTyped, MineTyped, DockerTyped
    <3>3. (Place("watcher"))'
      BY <1>1, <2>1, <2>2, <2>3 DEF Go, Place, Inside, Rebuilding, LockTyped
    <3>4. DockerInv' /\ PlaceInv'
      BY <1>1, <2>1, <2>3, <3>3, Quiet DEF DockerInv
    <3> QED  BY <3>1, <3>2, <3>4, Joined
  <2>4. CASE sandbox = 0 /\ Release /\ Go("watcher", "read") /\ deaths' = Tail(deaths)
    <3>1. LockTyped' /\ LockInv'
      BY <1>1, <2>1, <2>4, LockReleased DEF Inside, Queued, Rebuilding, Places
    <3>2. deaths' \in Seq(1..MaxContainers)
      <4> DEFINE S == 1..MaxContainers
      <4>1. deaths \in Seq(S)  BY <1>1 DEF RestTyped, DockerTyped
      <4> HIDE DEF S
      <4>2. Tail(deaths) \in Seq(S)  BY <2>2, <4>1
      <4> QED  BY <2>4, <4>2 DEF S
    <3>3. RestTyped'
      BY <1>1, <1>5, <3>2 DEF CheckKnown, RestTyped, MineTyped, DockerTyped
    <3>4. (Place("watcher"))'
      BY <1>1, <2>1, <2>2, <2>4 DEF Go, Place, Inside, Rebuilding, LockTyped
    <3>5. made \in Nat /\ made' = made  BY <1>1, <2>1 DEF RestTyped, DockerTyped
    <3>6. \A b \in Actors \ {"watcher"} : (Place(b))'
      BY <1>1, <2>1, <2>4, <3>5, OthersOutside
    <3>7. DockerInv' /\ PlaceInv'
      BY <1>1, <2>1, <2>4, <3>4, <3>6 DEF DockerInv, PlaceInv, PhantomAnnounced
    <3> QED  BY <3>1, <3>3, <3>7, Joined
  <2> QED  BY <1>5, <2>3, <2>4 DEF CheckKnown
<1>6. CASE EndOfStream
  <2>1. /\ Go("watcher", "home") /\ UNCHANGED lock /\ "home" \in Places
        /\ pc["watcher"] \notin Inside \cup Queued /\ "home" \notin Inside \cup Queued /\ "watcher" \in Actors
    BY <1>1, <1>2, <1>6 DEF EndOfStream, At, Places, Inside, Queued, Rebuilding
  <2>2. LockTyped' /\ LockInv'  BY <1>1, <1>2, <2>1, LockStays
  <2>3. RestTyped'  BY <1>1, <1>2, <1>6 DEF EndOfStream, RestTyped, MineTyped, DockerTyped
  <2>4. (Place("watcher"))'
    BY <1>1, <1>2, <1>6, <2>1
    DEF EndOfStream, At, Go, Place, Inside, Rebuilding, Announced, LockTyped, RestTyped,
        MineTyped, DockerTyped
  <2>5. /\ UNCHANGED <<sandbox, container, running, made, deaths, unseen>>
        /\ \A b \in Actors \ {"watcher"} : target'[b] = target[b]
        /\ container = 0 => turns' = 0
    BY <1>1, <1>2, <1>6 DEF EndOfStream, DockerInv, RestTyped
  <2>6. DockerInv' /\ PlaceInv'  BY <1>1, <1>2, <2>1, <2>4, <2>5, Quiet
  <2> QED  BY <2>2, <2>3, <2>6, Joined
<1> QED  BY <1>3, <1>4, <1>5, <1>6 DEF WatcherStep

\* So does what happens to the sandbox from outside.
LEMMA WorldKeeps ==
    ASSUME SandboxInv,
    StreamBreaks \/ ContainerDies \/ ImageRebuilt \/ TimePasses \/ AgentRestarts
    PROVE  SandboxInv'
<1> USE DEF local, memory, docker, events, LooksUp, Forgets
<1>1. /\ LockTyped /\ RestTyped /\ LockInv /\ DockerInv /\ PlaceInv /\ SandboxInv
      /\ Attempts \in Nat \ {0} /\ MaxContainers \in Nat
  BY Split, SandboxAssumption DEF SandboxInv, SandboxAssumption
<1>2. \A a \in Actors : Place(a)
  BY <1>1 DEF PlaceInv
<1>3. CASE StreamBreaks
  <2>1. LockTyped' /\ LockInv' /\ DockerInv' /\ PlaceInv'  BY <1>1, <1>3, Still DEF StreamBreaks
  <2>2. RestTyped'  BY <1>1, <1>3 DEF StreamBreaks, RestTyped, MineTyped, DockerTyped
  <2> QED  BY <2>1, <2>2, Joined
<1>4. CASE ImageRebuilt
  <2>1. LockTyped' /\ LockInv' /\ DockerInv' /\ PlaceInv'  BY <1>1, <1>4, Still DEF ImageRebuilt
  <2>2. RestTyped'  BY <1>1, <1>4 DEF ImageRebuilt, RestTyped, MineTyped, DockerTyped
  <2> QED  BY <2>1, <2>2, Joined
<1>5. CASE TimePasses
  <2>1. LockTyped' /\ LockInv' /\ DockerInv' /\ PlaceInv'  BY <1>1, <1>5, Still DEF TimePasses
  <2>2. RestTyped'  BY <1>1, <1>5 DEF TimePasses, RestTyped, MineTyped, DockerTyped
  <2> QED  BY <2>1, <2>2, Joined
<1>6. CASE ContainerDies
  <2>1. Removed /\ UNCHANGED <<pc, lock, target, memory, attempt, had>>
    BY <1>6 DEF ContainerDies
  <2>2. LockTyped' /\ LockInv'
    BY <1>1, <2>1 DEF LockTyped, LockInv, Once, In, Holds
  <2>3. RestTyped'  BY <1>1, <2>1, RemovedTyped DEF RestTyped, MineTyped
  <2>4. DockerInv'  BY <1>1, <2>1, GoneFromDocker
  <2>5. ASSUME NEW b \in Actors PROVE (Place(b))'
    BY <1>1, <1>2, <2>1, PlaceKeptWhenRemoved DEF SandboxInv
  <2> QED  BY <2>2, <2>3, <2>4, <2>5, Joined DEF PlaceInv
<1>7. CASE AgentRestarts
  <2>1. /\ pc' = [a \in Actors |-> "home"] /\ lock' = << >>
        /\ target' = [a \in Actors |-> 0] /\ sandbox' = 0 /\ deaths' = << >> /\ unseen' = {}
        /\ UNCHANGED docker
    BY <1>7 DEF AgentRestarts
  <2>2. LockTyped' /\ LockInv'
    BY <2>1 DEF LockTyped, LockInv, Once, In, Places, Inside, Queued, Rebuilding
  <2>3. MineTyped'
    <3>1. attempt' \in 0..Attempts /\ sandbox' \in 0..MaxContainers
      BY <1>1, <1>7 DEF AgentRestarts
    <3>2. target' \in [Actors -> 0..MaxContainers]  BY <1>1, <2>1
    <3> QED  BY <1>7, <3>1, <3>2 DEF AgentRestarts, MineTyped
  <2>4. DockerTyped'
    <3>1. deaths' \in Seq(1..MaxContainers) /\ unseen' \in SUBSET (1..MaxContainers)
      BY <2>1
    <3> QED  BY <1>1, <1>7, <3>1 DEF AgentRestarts, RestTyped, DockerTyped
  <2>5. made \in Nat /\ made' = made  BY <1>1, <2>1 DEF RestTyped, DockerTyped
  <2>6. DockerInv'
    BY <1>1, <2>1, <2>5 DEF DockerInv, PhantomAnnounced
  <2>7. PlaceInv'
    BY <2>1, <2>5 DEF PlaceInv, Place, Inside, Rebuilding
  <2> QED  BY <2>2, <2>3, <2>4, <2>6, <2>7, Joined DEF RestTyped
<1> QED  BY <1>3, <1>4, <1>5, <1>6, <1>7

\* Every step keeps the invariant.
LEMMA StepKeeps ==
    ASSUME SandboxInv, [Next]_vars
    PROVE  SandboxInv'
<1>1. CASE UNCHANGED vars
  <2>1. LockTyped' /\ LockInv' /\ DockerInv' /\ PlaceInv'
    BY <1>1, Still DEF vars, local, memory, docker, events
  <2>2. RestTyped'
    BY <1>1, Split DEF SandboxInv, vars, local, memory, docker, events, RestTyped, MineTyped,
        DockerTyped
  <2> QED  BY <2>1, <2>2, Joined
<1>2. CASE \E p \in Callers : Provision(p) \/ ProvisionStep(p)  BY <1>2, ProvisionKeeps
<1>3. CASE \E a \in Actors : TeardownStep(a)  BY <1>3, TeardownKeeps
<1>4. CASE Close \/ DiscardWorkspace \/ Forget \/ EndSession  BY <1>4, CloseKeeps
<1>5. CASE ReaperStep  BY <1>5, ReaperKeeps
<1>6. CASE WatcherStep  BY <1>6, WatcherKeeps
<1>7. CASE View \/ ViewerStep  BY <1>7, ViewerKeeps
<1>8. CASE StartTurn \/ RunStep  BY <1>8, RunKeeps
<1>9. CASE StreamBreaks \/ ContainerDies \/ ImageRebuilt \/ TimePasses \/ AgentRestarts
  BY <1>9, WorldKeeps
<1> QED  BY <1>1, <1>2, <1>3, <1>4, <1>5, <1>6, <1>7, <1>8, <1>9 DEF Next

\* It holds at the start.
LEMMA Initially == ASSUME Init PROVE SandboxInv
<1>1. Attempts \in Nat \ {0} /\ MaxContainers \in Nat
  BY SandboxAssumption DEF SandboxAssumption
<1>2. /\ pc = [a \in Actors |-> "home"] /\ lock = << >> /\ target = [a \in Actors |-> 0]
      /\ sandbox = 0 /\ container = 0 /\ ~running /\ made = 0 /\ turns = 0 /\ deaths = << >>
  BY DEF Init
<1>3. LockTyped /\ LockInv
  BY <1>2 DEF LockTyped, LockInv, Once, In, Places, Inside, Queued, Rebuilding
<1>4. MineTyped
  <2>1. attempt \in 0..Attempts /\ sandbox \in 0..MaxContainers  BY <1>1 DEF Init
  <2>2. target \in [Actors -> 0..MaxContainers]  BY <1>1, <1>2
  <2> QED  BY <2>1, <2>2 DEF Init, MineTyped
<1>5. DockerTyped
  <2>1. container \in 0..MaxContainers /\ made \in 0..MaxContainers /\ turns \in Nat
    BY <1>1, <1>2
  <2>2. deaths \in Seq(1..MaxContainers)  BY <1>2
  <2> QED  BY <2>1, <2>2 DEF Init, DockerTyped
<1>6. DockerInv  BY <1>2 DEF DockerInv, PhantomAnnounced
<1>7. PlaceInv  BY <1>2 DEF PlaceInv, Place, Inside, Rebuilding
<1> QED  BY <1>3, <1>4, <1>5, <1>6, <1>7, Split DEF SandboxInv, RestTyped

\* The entry, the container and the lock are accounted for at every step.
THEOREM SandboxIsAccounted == Spec => []SandboxInv
<1>1. Init => SandboxInv  BY Initially
<1>2. SandboxInv /\ [Next]_vars => SandboxInv'  BY StepKeeps
<1> QED  BY <1>1, <1>2, PTL DEF Spec

\* Every variable has its type: no provision makes an attempt too many, and
\* nothing is taken from an empty queue.
THEOREM SandboxTyping == Spec => []TypeOK
<1>1. SandboxInv => TypeOK  BY DEF SandboxInv
<1> QED  BY <1>1, SandboxIsAccounted, PTL

\* An entry whose container is gone does not stay unnoticed, however many
\* requests provision, tear down and restart at the same time.
THEOREM PhantomsAreAnnounced == Spec => []PhantomAnnounced
<1>1. SandboxInv => PhantomAnnounced  BY DEF SandboxInv, DockerInv
<1> QED  BY <1>1, SandboxIsAccounted, PTL

-----------------------------------------------------------------------------
(* The registry and _sandboxes.                                            *)

\* Provisioning registers only what is known.
LEMMA ProvisionKeepsRegistered ==
    ASSUME SandboxInv, RegisteredIsKnown, NEW p \in Callers, Provision(p) \/ ProvisionStep(p)
    PROVE  RegisteredIsKnown'
<1> USE DEF local, memory, docker, events
<1>1. p \in Actors /\ pc \in [Actors -> Places] /\ Place(p) /\ DockerInv
  BY DEF SandboxInv, TypeOK, PlaceInv, Actors
<1>2. CASE \/ Replace(p) \/ Declined(p) \/ Reattachable(p) \/ Probed(p) \/ Clear(p) \/ Create(p)
           \/ CreateFails(p) \/ Start(p) \/ AttemptFails(p) \/ Drop(p)
  <2>1. \E w \in Rebuilding \cup {"terminate"} : Go(p, w)
    BY <1>2 DEF Replace, Declined, Reattachable, Probed, Clear, Create, CreateFails, Start,
                AttemptFails, Drop, Raise, Rebuilding
  <2>2. pc'[p] \in Rebuilding \cup {"terminate"}  BY <1>1, <2>1 DEF Go
  <2> QED  BY <2>2 DEF RegisteredIsKnown
<1>3. CASE SameBranch(p)
  BY <1>1, <1>3 DEF SameBranch, At, Place, RegisteredIsKnown
<1>4. CASE Reattach(p)
  BY <1>1, <1>4 DEF Reattach, Settle, At, Place, RegisteredIsKnown
<1>5. CASE Ready(p)
  BY <1>1, <1>5 DEF Ready, Settle, DockerInv, RegisteredIsKnown
<1>6. CASE Provision(p) \/ EnterProvision(p) \/ OtherBranch(p)
  <2>1. pc[p] \notin Rebuilding \cup {"terminate"} /\ UNCHANGED <<registered, sandbox>>
    BY <1>6 DEF Provision, EnterProvision, OtherBranch, At, Rebuilding
  <2>2. \A q \in Callers \ {p} : pc'[q] = pc[q]
    BY <1>1, <1>6 DEF Provision, EnterProvision, OtherBranch, Go, Actors
  <2> QED  BY <2>1, <2>2 DEF RegisteredIsKnown
<1> QED  BY <1>2, <1>3, <1>4, <1>5, <1>6 DEF ProvisionStep

\* The others forget, and leave the callers where they are.
LEMMA OthersKeepRegistered ==
    ASSUME RegisteredIsKnown, \A q \in Callers : pc'[q] = pc[q],
           \/ ~registered'
           \/ registered' = registered /\ sandbox' = sandbox
    PROVE  RegisteredIsKnown'
  BY DEF RegisteredIsKnown

\* Every step keeps registrations known.
LEMMA StepKeepsRegistered ==
    ASSUME SandboxInv, RegisteredIsKnown, [Next]_vars
    PROVE  RegisteredIsKnown'
<1> USE DEF local, memory, docker, events
<1>1. /\ pc \in [Actors -> Places] /\ Callers \subseteq Actors /\ Callers \cap Services = {}
      /\ registered \in BOOLEAN
  BY SandboxAssumption DEF SandboxInv, TypeOK, Actors, SandboxAssumption
<1>2. CASE UNCHANGED vars
  BY <1>2 DEF vars, RegisteredIsKnown
<1>3. CASE \E p \in Callers : Provision(p) \/ ProvisionStep(p)
  BY <1>3, ProvisionKeepsRegistered
<1>4. CASE \E a \in Actors : Terminate(a)
  BY <1>4 DEF Terminate, RegisteredIsKnown
<1>5. CASE \E a \in Actors : Stop(a)
  <2>1. PICK a \in Actors : Stop(a)  BY <1>5
  <2>2. pc[a] = "stop" /\ UNCHANGED memory /\ \A q \in Callers \ {a} : pc'[q] = pc[q]
    BY <1>1, <2>1 DEF Stop, At, Go
  <2> QED  BY <2>2 DEF RegisteredIsKnown, Rebuilding
<1>6. CASE Close \/ DiscardWorkspace \/ Forget \/ EndSession
  <2>1. \A q \in Callers : pc'[q] = pc[q]
    BY <1>1, <1>6 DEF Close, DiscardWorkspace, Forget, EndSession, Go, Services
  <2>2. \/ ~registered'
        \/ registered' = registered /\ sandbox' = sandbox
    BY <1>6 DEF Close, DiscardWorkspace, Forget, EndSession
  <2> QED  BY <2>1, <2>2, OthersKeepRegistered
<1>7. CASE ReaperStep \/ WatcherStep
  <2>1. \A q \in Callers : pc'[q] = pc[q]
    BY <1>1, <1>7 DEF ReaperStep, ReaperWakes, ListIdle, Reap, WatcherStep, Subscribe,
                      ReadDeath, CheckKnown, EndOfStream, Go, Services
  <2>2. registered' = registered /\ sandbox' = sandbox
    BY <1>7 DEF ReaperStep, ReaperWakes, ListIdle, Reap, WatcherStep, Subscribe,
                ReadDeath, CheckKnown, EndOfStream
  <2> QED  BY <2>1, <2>2, OthersKeepRegistered
<1>8. CASE View \/ ViewerStep
  <2>1. \A q \in Callers : pc'[q] = pc[q]
    BY <1>1, <1>8 DEF View, ViewerStep, Look, FoundAlive, FoundDead, Go, Services
  <2>2. \/ ~registered'
        \/ registered' = registered /\ sandbox' = sandbox
    BY <1>1, <1>8 DEF View, ViewerStep, Look, FoundAlive, FoundDead
  <2> QED  BY <2>1, <2>2, OthersKeepRegistered
<1>9. CASE StartTurn \/ RunStep
  <2>1. \A q \in Callers : pc'[q] = pc[q]
    BY <1>1, <1>9 DEF StartTurn, RunStep, ExecTurn, PollTurn, EnterExec, LaunchTurn,
       LaunchGivenUp, Launches, ExecFails, Poll, TurnEnds, Abandon, PollFails, KillTurn, Signal, Go, Services
  <2>2. registered' = registered /\ sandbox' = sandbox
    BY <1>9 DEF StartTurn, RunStep, ExecTurn, PollTurn, EnterExec, LaunchTurn,
       LaunchGivenUp, Launches, ExecFails, Poll, TurnEnds, Abandon, PollFails, KillTurn, Signal
  <2> QED  BY <2>1, <2>2, OthersKeepRegistered
<1>10. CASE StreamBreaks \/ ContainerDies \/ ImageRebuilt \/ TimePasses
  BY <1>10 DEF StreamBreaks, ContainerDies, ImageRebuilt, TimePasses, RegisteredIsKnown
<1>11. CASE AgentRestarts
  BY <1>11 DEF AgentRestarts, RegisteredIsKnown
<1> QED
  BY <1>2, <1>3, <1>4, <1>5, <1>6, <1>7, <1>8, <1>9, <1>10, <1>11 DEF Next, TeardownStep

\* A registered session can be worked in, or a request is at it: the registry
\* and _sandboxes do not come apart, whoever writes them.
THEOREM RegistrationsAreKnown == Spec => []RegisteredIsKnown
<1>1. Init => RegisteredIsKnown  BY DEF Init, RegisteredIsKnown
<1>2. SandboxInv /\ RegisteredIsKnown /\ [Next]_vars => RegisteredIsKnown'
  BY StepKeepsRegistered
<1> QED  BY <1>1, <1>2, SandboxIsAccounted, PTL DEF Spec

-----------------------------------------------------------------------------
(* One turn at a time.                                                     *)

Serving == \E where \in {"turn", "poll", "kill", "signal"} : At("run", where)

\* A turn that no run of this process serves is in no container the process
\* knows, nor in one it is about to start a turn in; and a run that is about to
\* kill its turn has looked up the turn's container, or the process lost it.
TurnInv ==
    /\ OneTurn
    /\ turns = 1 /\ ~Serving => sandbox # container
    /\ turns = 1 /\ At("run", "launch") => target["run"] # container
    /\ turns = 1 /\ At("run", "signal") =>
           target["run"] = container \/ sandbox # container
    /\ \A p \in Callers : pc[p] \in {"start", "ready"} =>
           /\ container = target[p] => turns = 0
           /\ At("run", "launch") => target["run"] # target[p]

\* Callers only go on or leave; the run stays where it is.
OnTheWay ==
    /\ \A p \in Callers : pc'[p] \in {"start", "ready"} =>
           pc[p] \in {"start", "ready"} /\ target'[p] = target[p]
    /\ "run" \in Actors => pc'["run"] = pc["run"] /\ target'["run"] = target["run"]

\* Turns stay alone while the container stays and nobody comes nearer to starting one.
LEMMA TurnStays ==
    ASSUME SandboxInv, TurnInv, OnTheWay, UNCHANGED <<turns, container>>,
           sandbox' = sandbox \/ sandbox' = 0
    PROVE  TurnInv'
<1>1. turns = 1 => container # 0  BY DEF SandboxInv, DockerInv
<1> QED  BY <1>1 DEF TurnInv, OneTurn, Serving, OnTheWay, At

\* And when the container is removed under them.
LEMMA TurnGone ==
    ASSUME TurnInv, OnTheWay, Removed
    PROVE  TurnInv'
<1>1. turns' = 0  BY DEF Removed
<1> QED  BY <1>1 DEF TurnInv, OneTurn, OnTheWay, At

\* Provisioning, when its sweep cannot fail, starts no container beside a turn's.
LEMMA ProvisionKeepsTurn ==
    ASSUME SandboxInv, TurnInv, ~SweepFails, NEW p \in Callers,
           Provision(p) \/ ProvisionStep(p)
    PROVE  TurnInv'
<1> USE DEF local, memory, docker, events
<1>1. /\ p \in Actors /\ p # "run" /\ Place(p) /\ Callers \subseteq Actors
      /\ pc \in [Actors -> Places] /\ target \in [Actors -> 0..MaxContainers]
      /\ DockerInv /\ LockInv /\ turns \in Nat /\ made \in Nat /\ MaxContainers \in Nat
  BY SandboxAssumption
  DEF SandboxInv, TypeOK, PlaceInv, Actors, Services, SandboxAssumption
<1>2. pc[p] \in Inside => \A q \in Callers : pc[q] \in {"start", "ready"} => q = p
  BY <1>1, OnlyHolder DEF Inside, Rebuilding
<1>3. CASE \/ Provision(p) \/ EnterProvision(p) \/ SameBranch(p) \/ OtherBranch(p)
           \/ Declined(p) \/ Reattachable(p) \/ Probed(p) \/ CreateFails(p) \/ AttemptFails(p)
  <2>1. OnTheWay
    BY <1>1, <1>3 DEF OnTheWay, Provision, EnterProvision, SameBranch, OtherBranch, Declined,
       Reattachable, Probed, CreateFails, Raise, AttemptFails, Go, LooksUp, Forgets, At
  <2>2. UNCHANGED <<turns, container, sandbox>>
    BY <1>3 DEF Provision, EnterProvision, SameBranch, OtherBranch, Declined,
       Reattachable, Probed, CreateFails, AttemptFails
  <2> QED  BY <2>1, <2>2, TurnStays
<1>4. CASE Start(p)
  <2>1. OnTheWay /\ UNCHANGED <<turns, container, sandbox>>
    BY <1>1, <1>4 DEF OnTheWay, Start, Go, At
  <2> QED  BY <2>1, TurnStays
<1>5. CASE Replace(p) \/ Clear(p) \/ Drop(p)
  <2>1. OnTheWay
    BY <1>1, <1>5 DEF OnTheWay, Replace, Clear, Drop, Raise, Go, At
  <2>2. Removed \/ UNCHANGED <<docker, events>>
    BY <1>5 DEF Replace, Clear, Drop, rm, stop
  <2>3. sandbox' = sandbox \/ sandbox' = 0
    BY <1>5 DEF Replace, Clear, Drop
  <2> QED  BY <2>1, <2>2, <2>3, TurnStays, TurnGone
<1>6. CASE Create(p)
  <2>1. /\ pc[p] = "create" /\ container = 0 /\ turns' = turns /\ sandbox' = sandbox
        /\ container' = made + 1
        /\ pc' = [pc EXCEPT ![p] = "start"] /\ target' = [target EXCEPT ![p] = made + 1]
    BY <1>6 DEF Create, At, Go, LooksUp
  <2>2. turns' = 0  BY <1>1, <2>1 DEF DockerInv
  <2>3. \A q \in Callers : pc'[q] \in {"start", "ready"} => q = p
    BY <1>1, <1>2, <2>1 DEF Inside, Rebuilding
  <2>4. At("run", "launch")' => target'["run"] # target'[p]
    <3>1. "run" \in Actors => target["run"] <= made
      BY DEF SandboxInv, PlaceInv, Place
    <3>2. "run" \in Actors => target'["run"] = target["run"] /\ target'["run"] \in Nat
      BY <1>1, <2>1
    <3>3. target'[p] = made + 1  BY <1>1, <2>1
    <3> QED  BY <1>1, <3>1, <3>2, <3>3 DEF At
  <2> QED  BY <2>2, <2>3, <2>4 DEF TurnInv, OneTurn, At
<1>7. CASE Reattach(p)
  <2>1. turns' = 0 /\ pc[p] = "sweep" /\ pc' = [pc EXCEPT ![p] = "home"]
    BY <1>7 DEF Reattach, SweepOrphans, Settle, Go, At
  <2>2. \A q \in Callers : pc'[q] \notin {"start", "ready"}
    BY <1>1, <1>2, <2>1 DEF Inside, Rebuilding
  <2> QED  BY <2>1, <2>2 DEF TurnInv, OneTurn
<1>8. CASE Ready(p)
  <2>1. /\ turns' = turns /\ pc[p] = "ready" /\ pc' = [pc EXCEPT ![p] = "home"]
        /\ container = target[p]
    BY <1>8 DEF Ready, Settle, Go, At
  <2>2. turns' = 0  BY <2>1 DEF TurnInv
  <2>3. \A q \in Callers : pc'[q] \notin {"start", "ready"}
    BY <1>1, <1>2, <2>1 DEF Inside, Rebuilding
  <2> QED  BY <2>2, <2>3 DEF TurnInv, OneTurn
<1> QED  BY <1>3, <1>4, <1>5, <1>6, <1>7, <1>8 DEF ProvisionStep

\* A run has one turn under way, and kills the one it gives up.
LEMMA RunKeepsTurn ==
    ASSUME SandboxInv, TurnInv, ~KillFails, StartTurn \/ RunStep
    PROVE  TurnInv'
<1> USE DEF local, memory, docker, events
<1>1. /\ "run" \in Actors /\ "run" \notin Callers /\ Callers \subseteq Actors
      /\ pc \in [Actors -> Places] /\ target \in [Actors -> 0..MaxContainers]
      /\ turns \in Nat /\ LockInv /\ DockerInv
  BY SandboxAssumption
  DEF SandboxInv, TypeOK, Actors, Services, SandboxAssumption, StartTurn, RunStep, ExecTurn,
      PollTurn, LaunchTurn, LaunchGivenUp, Launches, ExecFails, Poll, TurnEnds, Abandon,
      PollFails, KillTurn, Signal, At, Holds, LockInv, In
<1>2. turns = 1 => container # 0  BY <1>1 DEF DockerInv
<1>3. \A q \in Callers : pc'[q] = pc[q] /\ target'[q] = target[q]
  BY <1>1 DEF StartTurn, RunStep, ExecTurn, PollTurn, EnterExec, LaunchTurn, LaunchGivenUp,
     Launches, ExecFails, Poll, TurnEnds, Abandon, PollFails, KillTurn, Signal, Go, LooksUp,
     Forgets
<1>4. CASE StartTurn
  BY <1>1, <1>3, <1>4 DEF StartTurn, Go, At, TurnInv, OneTurn, Serving
<1>5. CASE ExecTurn
  <2>1. /\ pc["run"] = "exec" /\ pc'["run"] \in {"launch", "home"} /\ target'["run"] = sandbox
        /\ UNCHANGED <<turns, container, sandbox>> /\ Holds("run")
    BY <1>1, <1>5 DEF ExecTurn, EnterExec, Go, At, LooksUp
  <2>2. \A q \in Callers : pc[q] \notin {"start", "ready"}
    BY <1>1, <2>1, OnlyHolder DEF Inside, Rebuilding
  <2> QED  BY <1>1, <1>3, <2>1, <2>2 DEF TurnInv, OneTurn, Serving, At
<1>6. CASE PollTurn
  <2>1. /\ pc["run"] = "poll" /\ pc'["run"] = "turn"
        /\ UNCHANGED <<turns, container, sandbox>>
    BY <1>1, <1>6 DEF PollTurn, EnterExec, Go, At
  <2> QED  BY <1>1, <1>2, <1>3, <2>1 DEF TurnInv, OneTurn, Serving, At
<1>7. CASE LaunchTurn \/ LaunchGivenUp
  <2>1. /\ pc["run"] = "launch" /\ pc'["run"] \in {"turn", "kill"} /\ turns' = turns + 1
        /\ container = target["run"] /\ UNCHANGED <<container, sandbox>>
    BY <1>1, <1>7 DEF LaunchTurn, LaunchGivenUp, Launches, Go, At
  <2>2. turns = 0  BY <1>1, <2>1 DEF TurnInv, OneTurn, At
  <2>3. \A q \in Callers : pc[q] \in {"start", "ready"} => container # target[q]
    BY <1>1, <2>1 DEF TurnInv, At
  <2> QED  BY <1>1, <1>3, <2>1, <2>2, <2>3 DEF TurnInv, OneTurn, Serving, At
<1>8. CASE ExecFails
  <2>1. pc["run"] = "launch" /\ pc'["run"] = "home" /\ UNCHANGED <<turns, container, sandbox>>
    BY <1>1, <1>8 DEF ExecFails, Go, At
  <2> QED  BY <1>1, <1>3, <2>1 DEF TurnInv, OneTurn, Serving, At
<1>9. CASE Poll \/ Abandon \/ PollFails
  <2>1. /\ pc["run"] \in {"turn", "poll"} /\ pc'["run"] \in {"poll", "kill"}
        /\ UNCHANGED <<turns, container, sandbox>>
    BY <1>1, <1>9 DEF Poll, Abandon, PollFails, Go, At
  <2> QED  BY <1>1, <1>3, <2>1 DEF TurnInv, OneTurn, Serving, At
<1>10. CASE TurnEnds
  <2>1. pc'["run"] = "home" /\ UNCHANGED <<container, sandbox>> /\ turns' = Fewer
    BY <1>1, <1>10 DEF TurnEnds, Go, At
  <2>2. turns' = 0  BY <1>1, <2>1 DEF TurnInv, OneTurn, Fewer
  <2> QED  BY <1>1, <1>3, <2>1, <2>2 DEF TurnInv, OneTurn, At
<1>11. CASE KillTurn
  <2>1. /\ pc["run"] = "kill" /\ target'["run"] = sandbox
        /\ pc'["run"] = (IF sandbox # 0 THEN "signal" ELSE "home")
        /\ UNCHANGED <<turns, container, sandbox>>
    BY <1>1, <1>11 DEF KillTurn, EnterExec, Go, At, LooksUp
  <2> QED  BY <1>1, <1>2, <1>3, <2>1 DEF TurnInv, OneTurn, Serving, At
<1>12. CASE Signal
  <2>1. /\ pc["run"] = "signal" /\ pc'["run"] = "home" /\ UNCHANGED <<container, sandbox>>
        /\ turns' = IF container # target["run"] THEN turns ELSE Fewer
    BY <1>1, <1>12 DEF Signal, Go, At
  <2>2. turns' = 0 \/ (turns' = turns /\ container # target["run"])
    BY <1>1, <2>1 DEF TurnInv, OneTurn, Fewer
  <2> QED  BY <1>1, <1>3, <2>1, <2>2 DEF TurnInv, OneTurn, Serving, At
<1> QED
  BY <1>4, <1>5, <1>6, <1>7, <1>8, <1>9, <1>10, <1>11, <1>12 DEF RunStep

\* Every step keeps turns alone.
LEMMA StepKeepsTurn ==
    ASSUME SandboxInv, TurnInv, ~SweepFails, ~KillFails, [Next]_vars
    PROVE  TurnInv'
<1> USE DEF local, memory, docker, events
<1>1. /\ pc \in [Actors -> Places] /\ target \in [Actors -> 0..MaxContainers]
      /\ Callers \subseteq Actors /\ Callers \cap Services = {}
  BY SandboxAssumption DEF SandboxInv, TypeOK, Actors, SandboxAssumption
<1>2. CASE UNCHANGED vars
  <2>1. OnTheWay /\ UNCHANGED <<turns, container, sandbox>>  BY <1>2 DEF vars, OnTheWay
  <2> QED  BY <2>1, TurnStays
<1>3. CASE \E p \in Callers : Provision(p) \/ ProvisionStep(p)
  BY <1>3, ProvisionKeepsTurn
<1>4. CASE \E a \in Actors : TeardownStep(a)
  <2>1. PICK a \in Actors : TeardownStep(a)  BY <1>4
  <2>2. pc[a] \in {"terminate", "stop"} /\ pc'[a] \in {"stop", "read", "discard", "home"}
    BY <1>1, <2>1 DEF TeardownStep, Terminate, Stop, At, Go, After
  <2>3. \A b \in Actors \ {a} : pc'[b] = pc[b] /\ target'[b] = target[b]
    BY <1>1, <2>1 DEF TeardownStep, Terminate, Stop, Go, LooksUp, Forgets
  <2>4. \A q \in Callers : pc'[q] \in {"start", "ready"} => q # a
    BY <2>2
  <2>5. CASE a # "run" \/ "run" \notin Actors
    <3>1. OnTheWay
      <4>1. "run" \in Actors => pc'["run"] = pc["run"] /\ target'["run"] = target["run"]
        BY <2>3, <2>5
      <4> QED  BY <1>1, <2>3, <2>4, <4>1 DEF OnTheWay
    <3>2. sandbox' = sandbox \/ sandbox' = 0
      BY <2>1 DEF TeardownStep, Terminate, Stop
    <3>3. Removed \/ UNCHANGED <<docker, events>> \/ UNCHANGED docker
      BY <2>1 DEF TeardownStep, Terminate, Stop, stop
    <3> QED  BY <3>1, <3>2, <3>3, TurnStays, TurnGone
  <2>6. CASE a = "run" /\ "run" \in Actors
    <3>1. /\ pc["run"] \notin {"turn", "poll", "kill", "signal"}
          /\ pc'["run"] \notin {"turn", "poll", "kill", "signal", "launch"}
      BY <2>2, <2>6
    <3>2. \A q \in Callers : pc'[q] = pc[q] /\ target'[q] = target[q]
      BY <1>1, <2>3, <2>6 DEF Services
    <3>3. CASE Removed
      <4>1. turns' = 0  BY <3>3 DEF Removed
      <4> QED  BY <3>1, <4>1 DEF TurnInv, OneTurn, At
    <3>4. CASE UNCHANGED docker /\ (sandbox' = sandbox \/ sandbox' = 0)
      <4>1. turns = 1 => container # 0  BY DEF SandboxInv, DockerInv
      <4> QED  BY <3>1, <3>2, <3>4, <4>1 DEF TurnInv, OneTurn, Serving, At
    <3> QED  BY <2>1, <3>3, <3>4 DEF TeardownStep, Terminate, Stop, stop
  <2> QED  BY <2>5, <2>6
<1>5. CASE Close \/ Forget \/ EndSession \/ ReaperStep \/ WatcherStep \/ View \/ ViewerStep
  <2>1. /\ \A q \in Callers : pc'[q] = pc[q] /\ target'[q] = target[q]
        /\ "run" \in Actors => pc'["run"] = pc["run"] /\ target'["run"] = target["run"]
    <3>1. CASE Close \/ Forget \/ EndSession
      BY <1>1, <3>1 DEF Close, Forget, EndSession, Go, Services
    <3>2. CASE ReaperStep \/ WatcherStep
      BY <1>1, <3>2 DEF ReaperStep, ReaperWakes, ListIdle, Reap, WatcherStep, Subscribe,
         ReadDeath, CheckKnown, EndOfStream, Go, Services
    <3>3. CASE View \/ ViewerStep
      BY <1>1, <3>3 DEF View, ViewerStep, Look, FoundAlive, FoundDead, Go, LooksUp, Forgets,
         Services
    <3> QED  BY <1>5, <3>1, <3>2, <3>3
  <2>2. UNCHANGED <<turns, container, sandbox>>
    BY <1>5 DEF Close, Forget, EndSession, ReaperStep, ReaperWakes, ListIdle, Reap,
       WatcherStep, Subscribe, ReadDeath, CheckKnown, EndOfStream, View, ViewerStep, Look,
       FoundAlive, FoundDead
  <2> QED  BY <2>1, <2>2, TurnStays DEF OnTheWay
<1>6. CASE DiscardWorkspace
  <2>1. OnTheWay
    BY <1>1, <1>6 DEF DiscardWorkspace, Go, Services, OnTheWay
  <2>2. UNCHANGED sandbox /\ (Removed \/ UNCHANGED <<docker, events>>)
    BY <1>6 DEF DiscardWorkspace, rm
  <2> QED  BY <2>1, <2>2, TurnStays, TurnGone
<1>7. CASE StartTurn \/ RunStep  BY <1>7, RunKeepsTurn
<1>8. CASE StreamBreaks \/ ImageRebuilt \/ TimePasses
  <2>1. OnTheWay /\ UNCHANGED <<turns, container, sandbox>>
    BY <1>8 DEF StreamBreaks, ImageRebuilt, TimePasses, OnTheWay
  <2> QED  BY <2>1, TurnStays
<1>9. CASE ContainerDies
  BY <1>9, TurnGone DEF ContainerDies, OnTheWay
<1>10. CASE AgentRestarts
  <2>1. /\ pc' = [a \in Actors |-> "home"] /\ sandbox' = 0 /\ turns' = turns
        /\ container' = container
    BY <1>10 DEF AgentRestarts
  <2>2. turns = 1 => container # 0  BY DEF SandboxInv, DockerInv
  <2> QED  BY <1>1, <2>1, <2>2 DEF TurnInv, OneTurn, At
<1> QED  BY <1>2, <1>3, <1>4, <1>5, <1>6, <1>7, <1>8, <1>9, <1>10 DEF Next

\* Where the execs that stop a turn do their work, no turn is under way beside
\* another: not one an earlier process left, nor one whose run gave up waiting.
THEOREM TurnsAreAlone == ~SweepFails /\ ~KillFails => (Spec => []OneTurn)
<1> SUFFICES ASSUME ~SweepFails, ~KillFails PROVE Spec => []OneTurn
  OBVIOUS
<1>1. Init => TurnInv
  BY DEF Init, TurnInv, OneTurn, At
<1>2. SandboxInv /\ TurnInv /\ [Next]_vars => TurnInv'  BY StepKeepsTurn
<1>3. TurnInv => OneTurn  BY DEF TurnInv
<1> QED  BY <1>1, <1>2, <1>3, SandboxIsAccounted, PTL DEF Spec
=============================================================================
