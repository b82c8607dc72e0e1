---------------------------- MODULE RunLockProofs ----------------------------
(***************************************************************************)
(* Mutual exclusion of the run lock for any set of pids, when acquisitions *)
(* do not overlap.  The invariants TLC checks are not inductive: that a    *)
(* holder's file stays in place depends on what every acquirer has read    *)
(* of it, which Reclaims states.                                           *)
(***************************************************************************)
EXTENDS RunLock, TLAPS

OneAcquirer ==
    \A p, q \in Pid : pc[p] \in Acquiring /\ pc[q] \in Acquiring => p = q

\* An acquirer that created the file still has it; one that has read the file
\* knows the holder, if there is one; one that unlinks it takes it from nobody.
Reclaims ==
    \A p \in Pid :
        /\ pc[p] = "write" => lock = p
        /\ pc[p] = "check" => \A q \in Pid : pc[q] = "held" => holder[p] = q
        /\ pc[p] = "unlink" => \A q \in Pid : pc[q] # "held"

WrittenByOwner == written => lock \in Pid

IInv == TypeOK /\ OneAcquirer /\ Reclaims /\ HolderOnDisk /\ WrittenByOwner

\* Every variable keeps its type, overlapping acquisitions or not: the file at
\* the lock path is nobody's or belongs to a pid.
THEOREM Typing == Spec => []TypeOK
<1>1. Init => TypeOK
  BY DEF Init, TypeOK, States, Acquiring
<1>2. TypeOK /\ [Next]_vars => TypeOK'
  <2> SUFFICES ASSUME TypeOK, [Next]_vars PROVE TypeOK'
    OBVIOUS
  <2> USE DEF TypeOK, States, Acquiring, Goto
  <2>1. CASE UNCHANGED vars
    BY <2>1 DEF vars
  <2>2. ASSUME NEW p \in Pid, Start(p) PROVE TypeOK'
    BY <2>2 DEF Start
  <2>3. ASSUME NEW p \in Pid, Open(p) PROVE TypeOK'
    BY <2>3 DEF Open
  <2>4. ASSUME NEW p \in Pid, Read(p) PROVE TypeOK'
    BY <2>4 DEF Read
  <2>5. ASSUME NEW p \in Pid, Check(p) PROVE TypeOK'
    BY <2>5 DEF Check
  <2>6. ASSUME NEW p \in Pid, Unlink(p) PROVE TypeOK'
    BY <2>6 DEF Unlink
  <2>7. ASSUME NEW p \in Pid, Write(p) PROVE TypeOK'
    BY <2>7 DEF Write
  <2>8. ASSUME NEW p \in Pid, Release(p) PROVE TypeOK'
    BY <2>8 DEF Release
  <2>9. ASSUME NEW p \in Pid, Kill(p) PROVE TypeOK'
    BY <2>9 DEF Kill
  <2>10. ASSUME NEW p \in Pid, Foreign(p) PROVE TypeOK'
    BY <2>10 DEF Foreign
  <2>11. QED
    BY <2>1, <2>2, <2>3, <2>4, <2>5, <2>6, <2>7, <2>8, <2>9, <2>10
       DEF Next, acquire_run_lock
<1>3. QED
  BY <1>1, <1>2, PTL DEF Spec

\* The initial state satisfies the inductive invariant.
LEMMA InitIInv == Init => IInv
BY RunLockAssumption
   DEF Init, IInv, TypeOK, OneAcquirer, Reclaims, HolderOnDisk,
       WrittenByOwner, States, Acquiring, RunLockAssumption

\* Without overlap every step keeps it.  The two steps that unlink are the
\* ones that could take a holder's file away.
LEMMA NextIInv ==
    ASSUME Overlap = FALSE, IInv, [Next]_vars
    PROVE  IInv'
<1> USE RunLockAssumption
    DEF IInv, TypeOK, OneAcquirer, Reclaims, HolderOnDisk, WrittenByOwner,
        States, Acquiring, Goto, RunLockAssumption
<1>1. CASE UNCHANGED vars
  BY <1>1 DEF vars
<1>2. ASSUME NEW p \in Pid, Start(p) PROVE IInv'
  BY <1>2, Overlap = FALSE DEF Start
<1>3. ASSUME NEW p \in Pid, Open(p) PROVE IInv'
  <2>1. CASE lock = NoPid
    BY <1>3, <2>1 DEF Open
  <2>2. CASE lock # NoPid
    BY <1>3, <2>2 DEF Open
  <2>3. QED
    BY <2>1, <2>2
<1>4. ASSUME NEW p \in Pid, Read(p) PROVE IInv'
  BY <1>4 DEF Read
<1>5. ASSUME NEW p \in Pid, Check(p) PROVE IInv'
  <2>1. CASE Refuses(p)
    BY <1>5, <2>1 DEF Check
  <2>2. CASE ~Refuses(p)
    \* a holder would be alive, and known to p
    <3>1. \A q \in Pid : pc[q] # "held"
      BY <1>5, <2>2 DEF Check, Refuses, _pid_alive
    <3>2. QED
      BY <1>5, <2>2, <3>1 DEF Check
  <2>3. QED
    BY <2>1, <2>2
<1>6. ASSUME NEW p \in Pid, Unlink(p) PROVE IInv'
  BY <1>6 DEF Unlink
<1>7. ASSUME NEW p \in Pid, Write(p) PROVE IInv'
  BY <1>7 DEF Write
<1>8. ASSUME NEW p \in Pid, Release(p) PROVE IInv'
  \* an acquirer in "write" owns the file, so p would not
  <2>1. \A q \in Pid : pc[q] # "write"
    BY <1>8 DEF Release
  <2>2. \A q \in Pid : pc[q] = "held" => q = p
    BY <1>8 DEF Release
  <2>3. QED
    BY <1>8, <2>1, <2>2 DEF Release
<1>9. ASSUME NEW p \in Pid, Kill(p) PROVE IInv'
  BY <1>9 DEF Kill
<1>10. ASSUME NEW p \in Pid, Foreign(p) PROVE IInv'
  BY <1>10 DEF Foreign
<1>11. QED
  BY <1>1, <1>2, <1>3, <1>4, <1>5, <1>6, <1>7, <1>8, <1>9, <1>10
     DEF Next, acquire_run_lock

\* The inductive invariant holds in every reachable state.
LEMMA Inductive ==
    ASSUME Overlap = FALSE
    PROVE  Spec => []IInv
<1>1. Init => IInv
  BY InitIInv
<1>2. IInv /\ [Next]_vars => IInv'
  BY NextIInv, Overlap = FALSE
<1>3. QED
  BY <1>1, <1>2, PTL DEF Spec

\* The file of the process that works on the thread is in place with its pid
\* in it, for any number of processes, kills and reused pids.
THEOREM HolderKeepsItsFile ==
    ASSUME Overlap = FALSE
    PROVE  Spec => []HolderOnDisk
<1>1. IInv => HolderOnDisk
  BY DEF IInv
<1>2. QED
  BY <1>1, Inductive, Overlap = FALSE, PTL

\* acquire_run_lock is exclusive as long as acquisitions do not overlap.
THEOREM Exclusive ==
    ASSUME Overlap = FALSE
    PROVE  Spec => []MutualExclusion
<1>1. IInv => MutualExclusion
  BY DEF IInv, HolderOnDisk, MutualExclusion
<1>2. QED
  BY <1>1, Inductive, Overlap = FALSE, PTL
=============================================================================
