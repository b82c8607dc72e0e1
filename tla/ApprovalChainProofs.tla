------------------------- MODULE ApprovalChainProofs -------------------------
(* What follows from the promise of ApprovalChain alone, for any chain.      *)
EXTENDS ApprovalChain, TLAPS

\* Every decision leaves a prefix, and the work right behind it.
LEMMA ChainInvStep ==
    ASSUME N \in Nat \ {0}, ChainInv, [Next]_vars
    PROVE  ChainInv'
<1> USE DEF ChainInv, Prefix, Through, Stage
<1>1. \A k \in 0..N : Prefix(Through(k)) /\ Prefix({})
  <2>1. {} = 1..0 /\ 0 \in 0..N
    OBVIOUS
  <2>2. QED
    BY <2>1
<1>a. at \in 0..N /\ Prefix(done) /\ Prefix(saved)
  OBVIOUS
<1>2. ASSUME NEW D, NEW next, Prefix(D), Decide(D, next), next \subseteq 0..N
      PROVE  at' \in 0..N /\ Prefix(done') /\ Prefix(saved')
  <2>1. at \in 0..N /\ Prefix(done) /\ Prefix(saved)
    BY <1>a
  <2> HIDE DEF Prefix
  <2>2. /\ saved' = saved \/ saved' = D
        /\ (done' = D /\ at' \in next) \/ (done' = done /\ at' \in {0, at})
    BY <1>2 DEF Decide
  <2>3. at' \in 0..N
    <3>1. 0 \in 0..N /\ (at' \in next \/ at' = 0 \/ at' = at)
      BY <2>2
    <3>2. QED
      BY <1>2, <2>1, <3>1
  <2>4. Prefix(done') /\ Prefix(saved')
    BY <1>2, <2>1, <2>2, Zenon
  <2>5. QED
    BY <2>3, <2>4
<1>3. CASE UNCHANGED vars
  BY <1>3 DEF vars
<1>4. CASE Begin
  <2>1. at' \in 0..N /\ Prefix(done') /\ Prefix(saved')
    BY <1>2, <1>4 DEF Begin
  <2>2. at' # 0 => Through(at' - 1) \subseteq done'
    BY <1>4 DEF Begin, Decide
  <2>3. QED
    BY <2>1, <2>2
<1>5. CASE Pass
  BY <1>5 DEF Pass, Onward, vars
<1>6. CASE Approve
  <2>1. at' \in 0..N /\ Prefix(done') /\ Prefix(saved')
    BY <1>1, <1>2, <1>6 DEF Approve, Onward
  <2>2. at' # 0 => Through(at' - 1) \subseteq done'
    BY <1>6 DEF Approve, Decide, Onward
  <2>3. QED
    BY <2>1, <2>2
<1>7. CASE Reopen
  <2>1. at' \in 0..N /\ Prefix(done') /\ Prefix(saved')
    <3>1. at - 1 \in 0..N /\ {0, 1, at} \subseteq 0..N
      BY <1>7 DEF Reopen
    <3>2. Prefix(Through(at - 1))
      BY <1>1, <3>1
    <3>3. QED
      BY <1>2, <1>7, <3>1, <3>2 DEF Reopen
  <2>2. at' # 0 => Through(at' - 1) \subseteq done'
    BY <1>7 DEF Reopen, Decide
  <2>3. QED
    BY <2>1, <2>2
<1>8. CASE Correct
  <2>1. at' \in 0..N /\ Prefix(done') /\ Prefix(saved')
    BY <1>1, <1>2, <1>8 DEF Correct
  <2>2. at' # 0 => Through(at' - 1) \subseteq done'
    BY <1>8 DEF Correct, Decide
  <2>3. QED
    BY <2>1, <2>2
<1>9. CASE Continue
  <2>1. at' \in 0..N /\ Prefix(done') /\ Prefix(saved')
    BY <1>2, <1>9 DEF Continue
  <2>2. at' # 0 => Through(at' - 1) \subseteq done'
    BY <1>9 DEF Continue, Decide
  <2>3. QED
    BY <2>1, <2>2
<1>10. CASE Enter
  <2>1. PICK s \in 0..N : done' \in {done \cap Through(s), saved \cap Through(s)}
    BY <1>10 DEF Enter
  <2>2. ASSUME NEW D, Prefix(D) PROVE Prefix(D \cap Through(s))
    <3>1. PICK k \in 0..N : D = 1..k
      BY <2>2
    <3>2. (1..k) \cap (1..s) = 1..(IF k < s THEN k ELSE s)
      OBVIOUS
    <3>3. QED
      BY <3>1, <3>2
  <2>3. at' = 0 /\ saved' = saved
    BY <1>10 DEF Enter
  <2>4. Prefix(done \cap Through(s)) /\ Prefix(saved \cap Through(s))
    BY <1>a, <2>2
  <2>5. Prefix(done') /\ Prefix(saved')
    <3> HIDE DEF Prefix, Through
    <3>1. QED
      BY <1>a, <2>1, <2>3, <2>4
  <2>6. QED
    BY <2>3, <2>5
<1>11. QED
  BY <1>3, <1>4, <1>5, <1>6, <1>7, <1>8, <1>9, <1>10 DEF Next

\* The promise keeps the approvals that stand free of gaps, here and on the
\* branch, and the work right behind them.
THEOREM NoGaps == ASSUME N \in Nat \ {0} PROVE Spec => []ChainInv
<1>1. Init => ChainInv
  <2>1. {} = 1..0
    OBVIOUS
  <2>2. QED
    BY <2>1 DEF Init, ChainInv, Prefix, Through
<1>2. QED
  BY <1>1, ChainInvStep, PTL DEF Spec

\* It lets no stage be approved but the one worked on, save when a run brings
\* back what was on the branch.
THEOREM OnlyWorkIsApproved == ASSUME N \in Nat \ {0} PROVE Spec => OnlyWorkApproves
<1>1. ASSUME ChainInv, [Next]_vars, NEW s \in Stage, s \in done' \ done
      PROVE  s = at \/ (at' = 0 /\ s \in saved)
  BY <1>1 DEF ChainInv, Next, vars, Begin, Pass, Approve, Reopen, Correct, Continue,
              Enter, Decide, Through, Stage
<1>2. ChainInv /\ [Next]_vars =>
        [\A s \in Stage : s \in done' \ done => s = at \/ (at' = 0 /\ s \in saved)]_vars
  BY <1>1
<1>3. QED
  BY <1>2, NoGaps, PTL DEF Spec, OnlyWorkApproves
=============================================================================
