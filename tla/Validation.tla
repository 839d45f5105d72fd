----------------------------- MODULE Validation -----------------------------
(***************************************************************************)
(* One environment and who judges what is in it: the validator runner at a *)
(* submission, the rubric grader on an artifact, or the content CI on a    *)
(* lab its author has written.  Environments are isolated from each other, *)
(* so `client` says whose this one is.                                     *)
(***************************************************************************)
EXTENDS ValidatorRunner, Grader, ContentCi

VARIABLE client     \* "runner", "grader" or "ci" (never changes)

vars == <<client, runnerVars, grade, ci>>

\* A part that is not the client's is not there.
Init ==
    \/ /\ client = "runner" /\ RunnerInit
       /\ grade = [pc |-> "absent"] /\ ci = [pc |-> "absent"]
    \/ /\ client = "grader" /\ GraderInit
       /\ Absent /\ ci = [pc |-> "absent"]
    \/ /\ client = "ci" /\ CiInit
       /\ Absent /\ grade = [pc |-> "absent"]

Next ==
    \/ client = "runner" /\ RunnerNext /\ UNCHANGED <<client, grade, ci>>
    \/ client = "grader" /\ GraderNext /\ UNCHANGED <<client, runnerVars, ci>>
    \/ client = "ci" /\ CiNext /\ UNCHANGED <<client, runnerVars, grade>>

Spec == Init /\ [][Next]_vars
=============================================================================
