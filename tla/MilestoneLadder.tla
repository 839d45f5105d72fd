-------------------------- MODULE MilestoneLadder --------------------------
(***************************************************************************)
(* What the milestone gates promise, whoever submits what and when: the    *)
(* milestones open one by one and from the bottom, none is ever locked     *)
(* again, and a project is scored only when all of them are open.          *)
(***************************************************************************)
EXTENDS Naturals

CONSTANT Top            \* the number of milestones

VARIABLES
    open,               \* the milestones that are not LOCKED
    scored              \* has the project a score?

Init == open = {1} /\ scored = FALSE

Open(m) ==
    /\ open = 1 .. m - 1
    /\ open' = 1 .. m
    /\ UNCHANGED scored

Score ==
    /\ open = 1 .. Top
    /\ scored' = TRUE
    /\ UNCHANGED open

Next == (\E m \in 2 .. Top : Open(m)) \/ Score

Spec == Init /\ [][Next]_<<open, scored>>
=============================================================================
