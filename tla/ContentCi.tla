----------------------------- MODULE ContentCi -----------------------------
(***************************************************************************)
(* scripts/content-ci.ts on one lab: null path, golden path, flake and     *)
(* cost in an environment of its own.                                      *)
(***************************************************************************)
EXTENDS Integers

CONSTANT FLAKE_RUNS     \* runs of the golden path, 5 by default

ASSUME CiAssumption == FLAKE_RUNS \in Nat \ {0}

VARIABLE ci

\* What the author wrote: the state of the solution scripts, and how the lab's
\* validator behaves: it tells the work, passes without any, fails the
\* solution, or wavers.
Solutions == {"runnable", "none", "partial"}
Qualities == {"sound", "vacuous", "wrong", "flaky"}

CiInit ==
    \E solution \in Solutions, quality \in Qualities, explicit \in BOOLEAN :
        ci = [pc |-> "classify", solution |-> solution, quality |-> quality, explicit |-> explicit,
              ok |-> TRUE, statuses |-> {}, left |-> FLAKE_RUNS, hidden |-> FALSE,
              env |-> "none", stuck |-> FALSE]

At(pc) == ci.pc = pc
Set(pc, ok) == [ci EXCEPT !.pc = pc, !.ok = @ /\ ok]

\* A lab that has no runnable solution fails if it was named, and is skipped
\* in a run of the whole library.
classifySolution ==
    /\ At("classify")
    /\ ci' = IF ci.solution = "runnable" THEN Set("provision", TRUE)
             ELSE Set("done", ~ci.explicit)

\* Anything but READY returns, and what was provisioned stays.
Provision ==
    /\ At("provision")
    /\ \/ ci' = [Set("null", TRUE) EXCEPT !.env = "live"]
       \/ \E env \in {"none", "live"} : ci' = [Set("done", FALSE) EXCEPT !.env = env, !.stuck = TRUE]

\* What ExecValidator says of the untouched and of the solved environment; an
\* ERROR is the platform's.
Says(solved) ==
    {"ERROR"} \cup
    CASE ci.quality = "sound" -> IF solved THEN {"PASS"} ELSE {"FAIL"}
      [] ci.quality = "vacuous" -> {"PASS"}
      [] ci.quality = "wrong" -> {"FAIL"}
      [] OTHER -> {"PASS", "FAIL"}

\* A call that fails throws, through the finally, to main.
Throws == ci' = Set("destroy", FALSE)

NullPath_bug ==
    /\ At("null")
    /\ \/ \E status \in Says(FALSE) : ci' = [Set("apply", TRUE) EXCEPT !.hidden = (status = "ERROR")]
       \/ Throws

\* No validator may pass without work; an ERROR will do.
NullPath ==
    /\ At("null")
    /\ \/ \E status \in Says(FALSE) : ci' = [Set("apply", status # "PASS") EXCEPT !.hidden = (status = "ERROR")]
       \/ Throws

applySolutions ==
    /\ At("apply")
    /\ ci' = Set("golden", TRUE) \/ Throws

\* The first run must pass, and the repetitions must agree with it.
GoldenPath ==
    /\ At("golden")
    /\ \/ \E status \in Says(TRUE) :
            LET seen == ci.statuses \cup {status}
                ok == (ci.left = FLAKE_RUNS => status = "PASS") /\ seen = {status}
            IN ci' = [Set(IF ci.left = 1 THEN "cost" ELSE "golden", ok) EXCEPT !.statuses = seen, !.left = @ - 1]
       \/ Throws

Cost ==
    /\ At("cost")
    /\ \E cheap \in BOOLEAN : ci' = Set("destroy", cheap)

Destroy ==
    /\ At("destroy")
    /\ \/ ci' = [Set("done", TRUE) EXCEPT !.env = "gone"]
       \/ ci' = [Set("done", FALSE) EXCEPT !.stuck = TRUE]

\* The workflow cancels the run of a superseded push.
CancelInProgress ==
    /\ ci.pc \notin {"done", "cancelled"}
    /\ ci' = Set("cancelled", FALSE)

CiNext ==
    \/ classifySolution \/ Provision \/ NullPath \/ applySolutions
    \/ GoldenPath \/ Cost \/ Destroy \/ CancelInProgress

CiSpec == CiInit /\ [][CiNext]_ci

-----------------------------------------------------------------------------
(* Properties *)

\* content-ci.ts, checkActivity: a lab that was named and passes has a
\* solution that ran, and its validator does not pass without it, unless the
\* platform's ERROR hid that on the null path or the validator is a lucky
\* flake; and whichever stage throws or fails, a run that ends leaves no
\* environment behind, unless Provision never became READY or Destroy failed.
CiRunIsSound ==
    ci.pc = "done" =>
        /\ ci.explicit /\ ci.ok =>
             /\ ci.solution = "runnable" /\ ci.statuses = {"PASS"}
             /\ ci.quality \in {"sound", "flaky"} \/ ci.hidden
        /\ ~ci.stuck => ci.env # "live"
=============================================================================
