----------------------------- MODULE MCProject -----------------------------
(* Small instances of Project for TLC. *)
EXTENDS Project, TLC

TwoKeys == <<"design", "final">>
ThreeKeys == <<"design", "infra", "final">>
GradedOrNot == {[gate |-> "BOTH", env |-> FALSE, rubric |-> TRUE],
                [gate |-> "ALL_VALIDATORS_PASS", env |-> TRUE, rubric |-> TRUE]}
WithoutRubric == GradedOrNot \cup {[gate |-> "RUBRIC_MIN_LEVEL", env |-> FALSE, rubric |-> FALSE]}
RequestSymmetry == Permutations(Requests) \cup Permutations(Envs)
=============================================================================
