----------------------------- MODULE MCContent -----------------------------
(* A small instance of ContentScripts for TLC. *)
EXTENDS ContentScripts, TLC

Requires(a, b) == [from |-> a, to |-> b, type |-> "REQUIRES"]
TwoSeeds ==
    <<[skills |-> <<"pods", "services">>, edges |-> <<Requires("pods", "services")>>, requery |-> FALSE],
      [skills |-> <<"slo">>, edges |-> <<Requires("services", "slo")>>, requery |-> TRUE]>>
OneFile == <<"lab">>
EditorSymmetry == Permutations(Editors)
=============================================================================
