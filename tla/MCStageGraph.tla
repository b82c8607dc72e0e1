----------------------------- MODULE MCStageGraph -----------------------------
(* Instances of StageGraph for TLC: requirements-prd, specification, plan and *)
(* one Build stage that stands for ac-to-tests, for the stages with a         *)
(* verify_fix node after it and for the last one, metrics-exit.               *)
EXTENDS StageGraph

\* draft_verify / mission_critical: verify blocks everywhere.
BlockingPolicy == [s \in Stage |-> "blocking"]

\* The checks of the first two stages and of the last one block, the plan has none to face.
LedgerPolicy == <<"blocking", "blocking", "none", "blocking">>

\* One stage of every kind.
MixedPolicy == <<"blocking", "blocking", "advisory", "none">>

\* requirements-prd: a draft that is not ready is forced through at once.
ShortCycles == <<0, 1, 1, 1>>
TwoCycles == <<0, 2, 1, 1>>

MixedVerify == <<1, 1, 1, 2>>
TwoVerify == [s \in Stage |-> 2]
=============================================================================
