------------------------------- MODULE RunLock -------------------------------
(***************************************************************************)
(* The per-thread lock file of src/agent/src/run_lock.py, taken by         *)
(* run_headless.py --thread: processes of one host that contend for        *)
(* <thread_id>.lock, created with O_EXCL and holding the pid of its owner. *)
(*                                                                         *)
(* Each system call of acquire_run_lock is a step of its own, so that two  *)
(* processes interleave between them.  A process may be killed at any      *)
(* step, and its pid may be given to an unrelated program later.           *)
(***************************************************************************)
EXTENDS Integers

CONSTANTS
    Pid,        \* process ids of the host
    NoPid,      \* no process id
    Overlap     \* acquisitions may overlap (launched by hand, at any moment)

RunLockAssumption == NoPid \notin Pid /\ Overlap \in BOOLEAN
ASSUME RunLockAssumption

VARIABLES
    pc,         \* where each pid is; "off" when no process has it
    holder,     \* the pid acquire_run_lock read from the file, or NoPid
    lock,       \* whose file is at lock_path, NoPid when there is none
    written     \* that file holds its owner's pid already

vars == <<pc, holder, lock, written>>

Acquiring == {"open", "read", "check", "unlink", "write"}
States    == {"off", "held", "foreign"} \cup Acquiring

Goto(p, s) == pc' = [pc EXCEPT ![p] = s]

Init ==
    /\ pc = [p \in Pid |-> "off"] /\ holder = [p \in Pid |-> NoPid]
    /\ lock = NoPid /\ written = FALSE

-----------------------------------------------------------------------------
Start(p) ==
    /\ pc[p] = "off"
    /\ Overlap \/ \A q \in Pid : pc[q] \notin Acquiring
    /\ Goto(p, "open")
    /\ UNCHANGED <<holder, lock, written>>

\* os.open with O_CREAT | O_EXCL: the file is there from here on, still empty.
Open(p) ==
    /\ pc[p] = "open"
    /\ IF lock = NoPid
       THEN Goto(p, "write") /\ lock' = p /\ written' = FALSE
       ELSE Goto(p, "read") /\ UNCHANGED <<lock, written>>
    /\ UNCHANGED holder

\* A file that is gone again, or has no number in it yet, names nobody.
Read(p) ==
    /\ pc[p] = "read"
    /\ holder' = [holder EXCEPT ![p] = IF written THEN lock ELSE NoPid]
    /\ Goto(p, "check")
    /\ UNCHANGED <<lock, written>>

_pid_alive(p) == p \in Pid /\ pc[p] # "off"

\* (mutant) any lock found is taken to be stale
Check_reclaims(p) ==
    /\ pc[p] = "check"
    /\ Goto(p, "unlink")
    /\ UNCHANGED <<holder, lock, written>>

Refuses(p) == holder[p] # NoPid /\ holder[p] # p /\ _pid_alive(holder[p])

\* RunAlreadyActive ends the process; otherwise the lock is stale.
Check(p) ==
    /\ pc[p] = "check"
    /\ Goto(p, IF Refuses(p) THEN "off" ELSE "unlink")
    /\ UNCHANGED <<holder, lock, written>>

\* (mutant) whatever unlink raises is suppressed
Unlink_suppressed(p) ==
    /\ pc[p] = "unlink"
    /\ Goto(p, "open")
    /\ UNCHANGED <<holder, lock, written>>

\* Unlinks what is at the path now, whoever put it there, and tries again.
Unlink(p) ==
    /\ pc[p] = "unlink"
    /\ lock' = NoPid /\ written' = FALSE
    /\ Goto(p, "open")
    /\ UNCHANGED holder

\* (mutant) the pid stays in the buffer of a handle that is not closed
Write_buffered(p) ==
    /\ pc[p] = "write"
    /\ Goto(p, "held")
    /\ UNCHANGED <<holder, lock, written>>

\* Writes through the descriptor: no effect on a path that is not its file.
Write(p) ==
    /\ pc[p] = "write"
    /\ written' = (written \/ lock = p)
    /\ Goto(p, "held")
    /\ UNCHANGED <<holder, lock>>

\* The finally clause unlinks the path, not the file this process created.
Release(p) ==
    /\ pc[p] = "held"
    /\ lock' = NoPid /\ written' = FALSE
    /\ Goto(p, "off")
    /\ UNCHANGED holder

\* taskkill, or a crash: the file stays.
Kill(p) ==
    /\ pc[p] \in Acquiring \cup {"held"}
    /\ Goto(p, "off")
    /\ UNCHANGED <<holder, lock, written>>

\* The host gives the pid to an unrelated program, which ends some time.
Foreign(p) ==
    /\ \/ pc[p] = "off" /\ Goto(p, "foreign")
       \/ pc[p] = "foreign" /\ Goto(p, "off")
    /\ UNCHANGED <<holder, lock, written>>

acquire_run_lock(p) == Open(p) \/ Read(p) \/ Check(p) \/ Unlink(p) \/ Write(p)

Next == \E p \in Pid : Start(p) \/ acquire_run_lock(p) \/ Release(p) \/ Kill(p) \/ Foreign(p)

Spec == Init /\ [][Next]_vars

\* A process that is acquiring keeps running; how long a run lasts is open.
FairSpec == Spec /\ \A p \in Pid : WF_vars(acquire_run_lock(p))

-----------------------------------------------------------------------------
TypeOK ==
    /\ pc \in [Pid -> States]
    /\ holder \in [Pid -> Pid \cup {NoPid}]
    /\ lock \in Pid \cup {NoPid} /\ written \in BOOLEAN

\* One process at a time works on the thread.
MutualExclusion ==
    \A p, q \in Pid : pc[p] = "held" /\ pc[q] = "held" => p = q

\* While a process works on the thread its file is in place with its pid in it:
\* no reclaim and no release of another process took it away.
HolderOnDisk == \A p \in Pid : pc[p] = "held" => lock = p /\ written

\* Nobody spins in the reclaim loop for good, whatever a dead holder left.
AcquireEnds == \A p \in Pid : pc[p] \in Acquiring ~> pc[p] \notin Acquiring
=============================================================================
