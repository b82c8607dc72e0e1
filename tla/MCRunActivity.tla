---------------------------- MODULE MCRunActivity ----------------------------
(* Instances of RunActivity for TLC. *)
EXTENDS RunActivity, TLC

\* Tabs and reviewers are interchangeable.
Symmetry == Permutations(Request) \cup Permutations(Post)
=============================================================================
