------------------------------ MODULE Scoring ------------------------------
(***************************************************************************)
(* The deterministic score of an attempt: the criterion functions          *)
(* (criteria.ts), the two scoring profiles (scoring-profile.ts) and the   *)
(* engine that combines them (scoring-engine.service.ts).                  *)
(*                                                                         *)
(* A criterion value is a number of Unit-ths, a score a number of          *)
(* Full-ths; the code computes the same quotients in floating point.  A    *)
(* task is [required, validators], a validator result [status, weight,     *)
(* blocking].  A command is the canonical step it starts with.             *)
(***************************************************************************)
EXTENDS Integers, Sequences, FiniteSets, FiniteSetsExt, Functions

Unit == 2520
Full == 100 * Unit
Percent(n) == n * Unit

AtMost(n, cap) == IF n < cap THEN n ELSE cap

-----------------------------------------------------------------------------
(* Criteria *)

Scorable(vs) == {i \in DOMAIN vs : vs[i].status # "ERROR"}

\* The blocking validators that answered decide, and there must be one.
taskPassed(vs) ==
    LET blocking == {i \in Scorable(vs) : vs[i].blocking}
    IN blocking # {} /\ \A i \in blocking : vs[i].status = "PASS"

\* All validators of an attempt as pairs <<task, index>>.
Results(tasks) == UNION {{<<t, i>> : i \in Scorable(tasks[t].validators)} : t \in DOMAIN tasks}

technicalCorrectnessV1(in) ==
    LET all == Results(in.tasks)
        weight(S) == SumFunction([r \in S |-> in.tasks[r[1]].validators[r[2]].weight])
        passing == {r \in all : in.tasks[r[1]].validators[r[2]].status = "PASS"}
    IN IF weight(all) = 0 THEN 0 ELSE (Unit * weight(passing)) \div weight(all)

taskCompletionV1(in) ==
    LET required == {t \in DOMAIN in.tasks : in.tasks[t].required}
        passed == {t \in required : taskPassed(in.tasks[t].validators)}
    IN IF required = {} THEN Unit ELSE (Unit * Cardinality(passed)) \div Cardinality(required)

\* Time in tenths of a minute; the floor for an attempt without any other
\* evidence is ten seconds.
efficiencyV1(in) ==
    LET evidence == \/ \E t \in DOMAIN in.tasks : taskPassed(in.tasks[t].validators)
                    \/ in.preSubmitRuns > 0
                    \/ in.active >= 2
        over == in.active - in.estimated
    IN CASE ~evidence -> 0
         [] evidence /\ (in.estimated <= 0 \/ over <= 0) -> Unit
         [] OTHER -> Max({0, Unit - (Unit * over) \div (2 * in.estimated)})

diagnosticEfficiencyV1(in) ==
    IF in.good + in.bad = 0 THEN Unit ELSE (Unit * in.good) \div (in.good + in.bad)

\* The pairs of canonical steps that were both run, and those in order.
orderingScoreForPath(path, commands) ==
    LET seen(s) == {k \in DOMAIN commands : commands[k] = s}
        pairs == {p \in (DOMAIN path) \X (DOMAIN path) :
                    p[1] < p[2] /\ seen(path[p[1]]) # {} /\ seen(path[p[2]]) # {}}
        ordered == {p \in pairs : Min(seen(path[p[1]])) < Min(seen(path[p[2]]))}
    IN [comparable |-> Cardinality(pairs), ordered |-> Cardinality(ordered)]

\* Paths with nothing to compare do not count.
hypothesisOrderingV1(in) ==
    LET result(path) == orderingScoreForPath(path, in.commands)
        scored == {p \in in.paths : result(p).comparable > 0}
        value(p) == (Unit * result(p).ordered) \div result(p).comparable
    IN IF scored = {} THEN Unit ELSE SumFunction([p \in scored |-> value(p)]) \div Cardinality(scored)

troubleshootingV1(in) == (diagnosticEfficiencyV1(in) + hypothesisOrderingV1(in)) \div 2

CRITERION_REGISTRY(in) ==
    [technical_correctness    |-> technicalCorrectnessV1(in),
     task_completion          |-> taskCompletionV1(in),
     efficiency               |-> efficiencyV1(in),
     troubleshooting          |-> troubleshootingV1(in),
     technical_implementation |-> technicalCorrectnessV1(in),
     reliability              |-> technicalCorrectnessV1(in)]

-----------------------------------------------------------------------------
(* Profiles.  A penalty the profile does not name has cap 0. *)

GUIDED_LAB_DEFAULT_PROFILE ==
    [weights |-> [technical_correctness |-> 70, task_completion |-> 20, efficiency |-> 10],
     pass |-> 70, guard |-> 30, firstTry |-> 2,
     hints |-> [per |-> 1, cap |-> 20], resets |-> [per |-> 2, cap |-> 6],
     retries |-> [per |-> 5, cap |-> 15], blast |-> [per |-> 0, cap |-> 0],
     overtime |-> [per |-> 0, cap |-> 0]]

PRODUCTION_SIM_DEFAULT_PROFILE ==
    [weights |-> [troubleshooting |-> 55, technical_implementation |-> 30, reliability |-> 15],
     pass |-> 70, guard |-> 30, firstTry |-> 2,
     hints |-> [per |-> 1, cap |-> 0], resets |-> [per |-> 2, cap |-> 6],
     retries |-> [per |-> 5, cap |-> 15], blast |-> [per |-> 15, cap |-> 30],
     overtime |-> [per |-> 2, cap |-> 10]]

\* Weights, caps and thresholds are percentages, and the floor is no more than
\* a full score.
IsProfile(p) ==
    /\ IsFiniteSet(DOMAIN p.weights) /\ \A c \in DOMAIN p.weights : p.weights[c] \in Nat
    /\ DOMAIN p.weights \subseteq {"technical_correctness", "task_completion", "efficiency", "troubleshooting",
                                  "technical_implementation", "reliability"}
    /\ {p.pass, p.guard, p.firstTry} \subseteq Nat /\ p.guard <= 100
    /\ \A d \in {p.hints, p.resets, p.retries, p.blast, p.overtime} : d.per \in Nat /\ d.cap \in Nat

SCORING_PROFILE_REGISTRY == {GUIDED_LAB_DEFAULT_PROFILE, PRODUCTION_SIM_DEFAULT_PROFILE}

-----------------------------------------------------------------------------
(* ScoringEngineService.score *)

weightedSum(in, profile) ==
    LET value == CRITERION_REGISTRY(in)
    IN SumFunction([c \in DOMAIN profile.weights |-> value[c] * profile.weights[c]])

\* in.hints is the accrued penalty in percent; overtime counts whole tens
\* of minutes.
totalPenalty(in, profile) ==
    LET Cost(n, p) == AtMost(n * p.per, p.cap)
    IN Percent(Cost(in.hints, profile.hints)
             + Cost(in.resets, profile.resets)
             + Cost(in.retries, profile.retries)
             + Cost(in.violations, profile.blast)
             + Cost(Max({0, in.active - in.estimated}) \div 100, profile.overtime))

score_bug(in, profile) ==
    LET raw == weightedSum(in, profile)
        bonus == IF in.retries = 0 THEN Percent(profile.firstTry) ELSE 0
    IN Max({0, AtMost(raw - totalPenalty(in, profile) + bonus, Full)})

\* The guard lifts a solution that works to the floor.
score(in, profile) ==
    LET raw == weightedSum(in, profile)
        bonus == IF in.retries = 0 THEN Percent(profile.firstTry) ELSE 0
        final == raw - totalPenalty(in, profile) + bonus
        guarded == raw >= Percent(profile.pass) /\ final < Percent(profile.guard)
        floored == IF guarded THEN Percent(profile.guard) ELSE final
    IN Max({0, AtMost(floored, Full)})

passes(in, profile) == score(in, profile) >= Percent(profile.pass)
=============================================================================
