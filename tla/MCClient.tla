------------------------------ MODULE MCClient ------------------------------
(* A small instance of Client for TLC. *)
EXTENDS Client

Few == [terminal |-> [moves |-> 4, lost |-> 1], buttons |-> [moves |-> 1, lost |-> 1],
        hints |-> [moves |-> 1, lost |-> 1], editor |-> [moves |-> 0, lost |-> 0]]
=============================================================================
