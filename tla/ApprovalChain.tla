---------------------------- MODULE ApprovalChain ----------------------------
(***************************************************************************)
(* What the stage pipeline promises of its approvals, without its nodes,   *)
(* verdicts, counters and drivers: the approvals that stand form a prefix  *)
(* of the chain, in the checkpoint and on the branch; the work is at most  *)
(* one stage past it; only the stage worked on is ever added to it; and a  *)
(* step that dies half-way has changed the checkpoint not at all.          *)
(*                                                                         *)
(* An approval stands when it has content, that content passed the verify  *)
(* of its stage where that verify blocks, and it was drafted from the      *)
(* requirements in force.  StageGraph implements this module (its instance *)
(* Chain), which is where "stands" is spelled out.                         *)
(***************************************************************************)
EXTENDS Integers

CONSTANT N          \* stages 1..N

VARIABLES
    at,             \* the stage worked on, 0 when none is
    done,           \* the stages whose approval stands in the checkpoint
    saved           \* the stages whose approval stands on the branch

vars == <<at, done, saved>>

Stage      == 1..N
Through(s) == 1..s
Onward(s)  == IF s < N THEN s + 1 ELSE 0

Init == at = 0 /\ done = {} /\ saved = {}

\* A step decides that the approvals in D stand and moves on to a stage of
\* next.  It may be saved or not; and it may die after that was done.
Decide(D, next) ==
    /\ saved' \in {saved, D}
    /\ \/ done' = D /\ at' \in next
       \/ done' = done /\ at' \in {0, at}

\* Work starts at the first stage.
Begin == at = 0 /\ Decide(done, {0, 1})

\* An approved stage is passed over.
Pass == at \in done /\ at' = Onward(at) /\ UNCHANGED <<done, saved>>

\* The stage worked on is approved, here or on the way to its last check.
Approve == at # 0 /\ Decide(Through(at), {at, Onward(at)})

\* It loses its approval, and is done again, left, or the chain restarted.
Reopen == at # 0 /\ Decide(Through(at - 1), {0, 1, at})

\* New requirements take every approval away.
Correct == at # 0 /\ Decide({}, {1})

\* Nothing is decided.
Continue == at # 0 /\ Decide(done, {0, at})

\* A run enters: with what stood, or what was saved, up to some stage.
Enter ==
    /\ at' = 0 /\ saved' = saved
    /\ \E s \in 0..N : done' \in {done \cap Through(s), saved \cap Through(s)}

Next == Begin \/ Pass \/ Approve \/ Reopen \/ Correct \/ Continue \/ Enter

Spec == Init /\ [][Next]_vars

-----------------------------------------------------------------------------
(* What follows from the promise alone.                                    *)

Prefix(D) == \E s \in 0..N : D = Through(s)

\* The approvals that stand have no gap, and the work is right behind them.
ChainInv ==
    /\ at \in 0..N /\ Prefix(done) /\ Prefix(saved)
    /\ at # 0 => Through(at - 1) \subseteq done

\* An approval is only ever won by the stage worked on, or brought back from the
\* branch between two runs.
OnlyWorkApproves ==
    [][\A s \in Stage : s \in done' \ done =>
          s = at \/ (at' = 0 /\ s \in saved)]_vars
=============================================================================
