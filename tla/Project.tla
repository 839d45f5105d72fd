------------------------------ MODULE Project ------------------------------
(***************************************************************************)
(* Project mode of practice-core: the milestone gates (project.service,    *)
(* project.repository), the roll-up of the project score (project-scoring) *)
(* and the defence viva (defence.service) of one attempt.                  *)
(*                                                                         *)
(* No handler holds a lock between two awaits; one action is the stretch   *)
(* of a handler between two of them.  What validators, the rubric grader   *)
(* and the question generator answer is chosen freely: they are commands   *)
(* in a cluster and calls to a model.  The MILESTONE_* and EVALUATED       *)
(* events that go with the writes are left out: nothing here reads them.   *)
(***************************************************************************)
EXTENDS Integers, Sequences, FiniteSets, FiniteSetsExt

CONSTANTS
    Keys,           \* the milestone keys of the activity, in order
    Requests,       \* HTTP handlers that may be in flight at once
    Envs,           \* environments the orchestrator may hand out
    NoEnv,
    TaskCount,      \* validator tasks of a milestone
    Levels,         \* levels the rubric grader may answer
    Questions,      \* how many questions the viva model may answer with
    Specs,          \* milestone specs an activity may have: gate, env, rubric
    MaxSubmits,     \* bound on submissions, all milestones together
    MaxTurns,       \* bound on defence messages
    MaxVivas,       \* bound on startViva
    MaxDeaths       \* bound on requests that die and on process restarts

\* `rubric` tells whether the rubric the spec names is found.
Gates == {"ALL_VALIDATORS_PASS", "RUBRIC_MIN_LEVEL", "BOTH"}

ASSUME ProjectAssumption ==
    /\ Len(Keys) \in Nat \ {0}
    /\ TaskCount \in Nat /\ MaxSubmits \in Nat /\ MaxTurns \in Nat /\ MaxVivas \in Nat /\ MaxDeaths \in Nat
    /\ NoEnv \notin Envs
    /\ Levels \subseteq 1 .. 4 /\ Questions \subseteq Nat
    /\ Specs \subseteq [gate : Gates, env : BOOLEAN, rubric : BOOLEAN]

VARIABLES
    spec,       \* the activity's milestones: gate, environment, rubric (never changes)
    seeded,     \* are there rows in project_milestone_state?
    ms,         \* project_milestone_state: status, score, count by ordinal
    subs,       \* project_submission: outcome by <<milestone, attempt_number>>
    scores,     \* attempt_score rows of the project
    envId,      \* attempt.environment_id
    live,       \* environments that run at the orchestrator
    turns,      \* how many DEFENCE_MESSAGE events there are
    marks,      \* those of kind 'score', in order
    viva,       \* DefenceService.state: the question queue, in memory only
    vivas,      \* how many times the queue was replaced
    req,        \* the handlers in flight
    deaths

vars == <<spec, seeded, ms, subs, scores, envId, live, turns, marks, viva, vivas, req, deaths>>

Ms == 1 .. Len(Keys)
Final == Len(Keys)
Outcomes == {"GATED_PASS", "GATED_FAIL"}
NoScore == -1
Pending == "PENDING"

\* The spec of an activity: a gate for each milestone.
loadMilestoneSpecs == [Ms -> Specs]

Idle == [pc |-> "idle", m |-> 0, n |-> 0, out |-> "GATED_FAIL", score |-> NoScore,
         level |-> NoScore, env |-> NoEnv, v |-> 0, comps |-> <<>>]
NoViva == [id |-> 0, questions |-> 0, asked |-> 0, closed |-> TRUE]

-----------------------------------------------------------------------------
(* Scores are integers in ten-thousandths, as round4 leaves them.          *)

Round4(p, q) == (20000 * p + q) \div (2 * q)

\* (level - 1) / 3, clamped to the unit interval, in thirds.
LevelThirds(l) == IF l < 1 THEN 0 ELSE IF l > 4 THEN 3 ELSE l - 1

computeMilestoneScore(gate, passing, total, level) ==
    LET num == IF total = 0 THEN 1 ELSE passing
        den == IF total = 0 THEN 1 ELSE total
    IN CASE gate = "ALL_VALIDATORS_PASS" -> Round4(num, den)
         [] gate = "RUBRIC_MIN_LEVEL"    -> Round4(LevelThirds(level), 3)
         [] gate = "BOTH"                -> Round4(3 * num + den * LevelThirds(level), 6 * den)

\* MILESTONE_WEIGHTS, in twentieths.
Weight == [design |-> 4, infra |-> 3, implementation |-> 4, hardening |-> 4, final |-> 2, defence |-> 3]
AI_COMPONENTS == {"design", "hardening", "defence"}
Components == DOMAIN Weight
PASS_THRESHOLD == 7000

aiDerived(c) ==
    \/ c \in AI_COMPONENTS
    \/ \E m \in Ms : Keys[m] = c /\ spec[m].gate # "ALL_VALIDATORS_PASS"

\* The sum over the six components, a loop over MILESTONE_WEIGHTS in the code.
OverComponents(f) ==
    f["design"] + f["infra"] + f["implementation"] + f["hardening"] + f["final"] + f["defence"]

SumWeights(S) == OverComponents([c \in Components |-> IF c \in S THEN Weight[c] ELSE 0])
AiParts == {c \in Components : aiDerived(c)}
OwnParts == Components \ AiParts

\* What the components in S add to a half of the score, times its weight.
Half(S, raw) == OverComponents([c \in Components |-> IF c \in S THEN raw[c] * Weight[c] ELSE 0])

\* ProjectScoringService.rollup: the model-graded half is scaled to two
\* fifths of the weight and the deterministic half to three fifths; a half
\* without components leaves everything to the other.
rollup(raw) ==
    LET ai == SumWeights(AiParts)
        own == SumWeights(OwnParts)
    IN IF own = 0 THEN (2 * Half(AiParts, raw) + ai) \div (2 * ai)
       ELSE LET p == 2 * own * Half(AiParts, raw) + 3 * ai * Half(OwnParts, raw)
                q == 5 * ai * own
            IN (2 * p + q) \div (2 * q)

-----------------------------------------------------------------------------
Init ==
    /\ spec \in loadMilestoneSpecs
    /\ seeded = FALSE
    /\ ms = [m \in Ms |-> [status |-> IF m = 1 THEN "OPEN" ELSE "LOCKED",
                           score |-> NoScore, count |-> 0]]
    /\ subs = [p \in {} |-> Pending]
    /\ scores = <<>>
    /\ envId = NoEnv
    /\ live = {}
    /\ turns = 0
    /\ marks = <<>>
    /\ viva = NoViva
    /\ vivas = 0
    /\ req = [h \in Requests |-> Idle]
    /\ deaths = 0

Goto(h, pc) == req' = [req EXCEPT ![h].pc = pc]
Done(h) == req' = [req EXCEPT ![h] = Idle]

milestoneVars == <<seeded, ms, subs, scores>>
envVars == <<envId, live>>
vivaVars == <<turns, marks, viva, vivas>>

(* Seeding: GET /milestones and submitMilestone seed on the first read.     *)
ListMilestones(h) ==
    /\ req[h].pc = "idle"
    /\ ~seeded
    /\ Goto(h, "seed")
    /\ UNCHANGED <<spec, milestoneVars, envVars, vivaVars, deaths>>

seedMilestones_bug(h) ==
    /\ req[h].pc = "seed"
    /\ seeded' = TRUE
    /\ ms' = [m \in Ms |-> [status |-> IF m = 1 THEN "OPEN" ELSE "LOCKED", score |-> NoScore, count |-> 0]]
    /\ IF req[h].m = 0 THEN Done(h) ELSE Goto(h, "check")
    /\ UNCHANGED <<spec, subs, scores, envVars, vivaVars, deaths>>

\* ON CONFLICT DO NOTHING: rows that are there stay as they are.
seedMilestones(h) ==
    /\ req[h].pc = "seed"
    /\ seeded' = TRUE
    /\ IF req[h].m = 0 THEN Done(h) ELSE Goto(h, "check")
    /\ UNCHANGED <<spec, ms, subs, scores, envVars, vivaVars, deaths>>

\* How many submissions the milestones have counted, for the bound on them.
Submissions == MapThenSumSet(LAMBDA k : ms[k].count, Ms)

(* submitMilestone *)
Submit(h, m) ==
    /\ req[h].pc = "idle"
    /\ Submissions < MaxSubmits
    /\ req' = [req EXCEPT ![h].pc = "check", ![h].m = m]
    /\ UNCHANGED <<spec, milestoneVars, envVars, vivaVars, deaths>>

SubmitCheck_bug(h) ==
    LET m == req[h].m IN
    /\ req[h].pc = "check"
    /\ \/ ~seeded /\ Goto(h, "seed")
       \/ seeded /\ ms[m].status = "GATED_PASS" /\ Done(h)
       \/ seeded /\ ms[m].status # "GATED_PASS" /\ Goto(h, "mark")
    /\ UNCHANGED <<spec, milestoneVars, envVars, vivaVars, deaths>>

SubmitCheck(h) ==
    LET m == req[h].m IN
    /\ req[h].pc = "check"
    /\ \/ ~seeded /\ Goto(h, "seed")
       \/ seeded /\ ms[m].status \in {"LOCKED", "GATED_PASS"} /\ Done(h)
       \/ seeded /\ ms[m].status \notin {"LOCKED", "GATED_PASS"} /\ Goto(h, "mark")
    /\ UNCHANGED <<spec, milestoneVars, envVars, vivaVars, deaths>>

recordSubmission(p) ==
    subs' = [q \in DOMAIN subs \cup {p} |-> IF q = p THEN Pending ELSE subs[q]]

\* An UPDATE without a guard on the status it replaces, then the submission
\* row under the number it returned.  Nothing in this code writes a repo_ref
\* other than 'none', so the branch through GitService is not taken.
markSubmitted(h) ==
    LET m == req[h].m
        n == ms[m].count + 1
    IN
    /\ req[h].pc = "mark"
    /\ ms' = [ms EXCEPT ![m].status = "SUBMITTED", ![m].count = n]
    /\ recordSubmission(<<m, n>>)
    /\ req' = [req EXCEPT ![h].pc = "gate", ![h].n = n]
    /\ UNCHANGED <<spec, seeded, scores, envVars, vivaVars, deaths>>

\* How many tasks pass, and the level of the rubric grade; a rubric that is
\* not found is level 0.
runMilestoneValidators == 0 .. TaskCount
gradeMilestoneRubric(s) == IF s.rubric THEN Levels ELSE {0}

\* min_level is its default, 3.
GatePasses(s, passing, level) ==
    /\ s.gate # "RUBRIC_MIN_LEVEL" => passing = TaskCount
    /\ s.gate # "ALL_VALIDATORS_PASS" => level >= 3

RunGate(h) ==
    LET s == spec[req[h].m]
        levels == IF s.gate = "ALL_VALIDATORS_PASS" THEN {NoScore} ELSE gradeMilestoneRubric(s)
    IN
    /\ req[h].pc = "gate"
    /\ \E passing \in runMilestoneValidators, level \in levels :
         req' = [req EXCEPT ![h].pc = "apply",
                   ![h].level = level,
                   ![h].out = IF GatePasses(s, passing, level) THEN "GATED_PASS" ELSE "GATED_FAIL",
                   ![h].score = computeMilestoneScore(s.gate, passing, TaskCount, level)]
    /\ UNCHANGED <<spec, milestoneVars, envVars, vivaVars, deaths>>

applyGateOutcome_bug(h) ==
    LET m == req[h].m IN
    /\ req[h].pc = "apply"
    /\ ms' = [k \in Ms |->
         IF k = m THEN [ms[k] EXCEPT !.status = req[h].out, !.score = req[h].score]
         ELSE IF k = m + 1 /\ ms[k].status = "LOCKED" THEN [ms[k] EXCEPT !.status = "OPEN"] ELSE ms[k]]
    /\ Goto(h, "stamp")
    /\ UNCHANGED <<spec, seeded, subs, scores, envVars, vivaVars, deaths>>

\* One transaction: the outcome on the milestone, and the next milestone
\* opened if it is LOCKED.  The column's CHECK refuses level 0, and the
\* request ends there.
applyGateOutcome(h) ==
    LET m == req[h].m IN
    /\ req[h].pc = "apply"
    /\ IF req[h].level = 0
       THEN /\ Done(h)
            /\ UNCHANGED ms
       ELSE /\ ms' = [k \in Ms |->
                 IF k = m THEN [ms[k] EXCEPT !.status = req[h].out, !.score = req[h].score]
                 ELSE IF k = m + 1 /\ req[h].out = "GATED_PASS" /\ ms[k].status = "LOCKED"
                      THEN [ms[k] EXCEPT !.status = "OPEN"]
                      ELSE ms[k]]
            /\ Goto(h, "stamp")
    /\ UNCHANGED <<spec, seeded, subs, scores, envVars, vivaVars, deaths>>

\* The last milestone's pass goes on to the roll-up; every other request is
\* answered here.
Gated(h) ==
    IF req[h].m = Final /\ req[h].out = "GATED_PASS"
    THEN [req[h] EXCEPT !.pc = "rollup"] ELSE Idle

stampSubmissionOutcome(h) ==
    LET p == <<req[h].m, req[h].n>> IN
    /\ req[h].pc = "stamp"
    /\ subs' = [q \in DOMAIN subs |-> IF q = p THEN req[h].out ELSE subs[q]]
    /\ req' = [req EXCEPT ![h] = IF spec[req[h].m].env THEN [@ EXCEPT !.pc = "env"] ELSE Gated(h)]
    /\ UNCHANGED <<spec, seeded, ms, scores, envVars, vivaVars, deaths>>

\* applyEnvLifecycle reads environment_id and decides.
EnvRead(h) ==
    /\ req[h].pc = "env"
    /\ req' = [req EXCEPT ![h] =
         CASE @.out = "GATED_PASS" /\ envId # NoEnv -> [@ EXCEPT !.pc = "suspend", !.env = envId]
           [] @.out = "GATED_FAIL" /\ envId = NoEnv -> [@ EXCEPT !.pc = "provision"]
           [] OTHER -> Gated(h)]
    /\ UNCHANGED <<spec, milestoneVars, envVars, vivaVars, deaths>>

\* Snapshot tears the compute down; it publishes nothing and nobody clears
\* environment_id.  A failed call is logged and ignored.
snapshotAndSuspend(h) ==
    /\ req[h].pc = "suspend"
    /\ live' \in {live, live \ {req[h].env}}
    /\ req' = [req EXCEPT ![h] = Gated(h)]
    /\ UNCHANGED <<spec, milestoneVars, envId, vivaVars, deaths>>

provisionForMilestone(h) ==
    /\ req[h].pc = "provision"
    /\ \/ \E e \in Envs \ live :
            /\ live' = live \cup {e}
            /\ req' = [req EXCEPT ![h].pc = "attach", ![h].env = e]
       \/ req' = [req EXCEPT ![h] = Gated(h)] /\ UNCHANGED live
    /\ UNCHANGED <<spec, milestoneVars, envId, vivaVars, deaths>>

AttachEnv(h) ==
    /\ req[h].pc = "attach"
    /\ envId' = req[h].env
    /\ req' = [req EXCEPT ![h] = Gated(h)]
    /\ UNCHANGED <<spec, milestoneVars, live, vivaVars, deaths>>

\* finalizeProjectScore: the milestone scores are read first ...
FinalizeRead(h) ==
    /\ req[h].pc = "rollup"
    /\ req' = [req EXCEPT ![h].pc = "defence", ![h].comps = [m \in Ms |-> ms[m].score]]
    /\ UNCHANGED <<spec, milestoneVars, envVars, vivaVars, deaths>>

\* The newest viva score; none counts as zero.
defenceComponentScore ==
    IF marks = <<>> THEN 0 ELSE Round4(LevelThirds(marks[Len(marks)].level), 3)

\* ... then the defence.  The row and the EVALUATED event follow.
FinalizeScore(h) ==
    LET At(c) == IF c = "defence" THEN defenceComponentScore
                 ELSE LET found == {m \in Ms : Keys[m] = c} IN
                      IF found = {} THEN 0 ELSE Max({0, req[h].comps[Max(found)]})
        raw == [c \in Components |-> At(c)]
    IN
    /\ req[h].pc = "defence"
    /\ scores' = Append(scores, [comps |-> req[h].comps, raw |-> raw, final |-> rollup(raw),
                                 passed |-> rollup(raw) >= PASS_THRESHOLD])
    /\ Done(h)
    /\ UNCHANGED <<spec, seeded, ms, subs, envVars, vivaVars, deaths>>

-----------------------------------------------------------------------------
(* The defence viva *)

assertFinalReached == seeded /\ ms[Final].status # "LOCKED"
emitTurn == turns' = turns + 1

\* What the model answers, and the one question asked when it fails.
generateQuestions == Questions \cup {1}

\* The queue is replaced; an empty one ends the request.
startViva(h, count) ==
    /\ req[h].pc = "idle"
    /\ assertFinalReached
    /\ turns < MaxTurns /\ vivas < MaxVivas
    /\ vivas' = vivas + 1
    /\ viva' = [id |-> vivas + 1, questions |-> count, asked |-> 0, closed |-> FALSE]
    /\ req' = [req EXCEPT ![h].pc = IF count = 0 THEN "idle" ELSE "first",
                          ![h].v = IF count = 0 THEN 0 ELSE vivas + 1]
    /\ UNCHANGED <<spec, milestoneVars, envVars, turns, marks, deaths>>

\* The first question, and asked = 1 on whatever queue is there by then.
FirstQuestion(h) ==
    /\ req[h].pc = "first"
    /\ emitTurn
    /\ viva' = [viva EXCEPT !.asked = 1]
    /\ Done(h)
    /\ UNCHANGED <<spec, milestoneVars, envVars, marks, vivas, deaths>>

postMessage_bug(h) ==
    /\ req[h].pc = "idle"
    /\ assertFinalReached
    /\ turns < MaxTurns
    /\ emitTurn
    /\ \/ viva.closed /\ UNCHANGED <<viva, req>>
       \/ /\ ~viva.closed /\ viva.asked < viva.questions
          /\ viva' = [viva EXCEPT !.asked = @ + 1]
          /\ req' = [req EXCEPT ![h].pc = "ask", ![h].v = viva.id, ![h].n = viva.asked + 1]
       \/ /\ ~viva.closed /\ viva.asked >= viva.questions
          /\ req' = [req EXCEPT ![h].pc = "score", ![h].v = viva.id]
          /\ UNCHANGED viva
    /\ UNCHANGED <<spec, milestoneVars, envVars, marks, vivas, deaths>>

\* postMessage appends the message; in the synchronous code after the append
\* the next question is taken from the queue, or the viva is closed and goes
\* to be scored.  Only a learner's turn moves the viva.
postMessage(h) ==
    /\ req[h].pc = "idle"
    /\ assertFinalReached
    /\ turns < MaxTurns
    /\ \/ /\ emitTurn
          /\ \/ viva.closed /\ UNCHANGED <<viva, req>>
             \/ /\ ~viva.closed /\ viva.asked < viva.questions
                /\ viva' = [viva EXCEPT !.asked = @ + 1]
                /\ req' = [req EXCEPT ![h].pc = "ask", ![h].v = viva.id, ![h].n = viva.asked + 1]
             \/ /\ ~viva.closed /\ viva.asked >= viva.questions
                /\ viva' = [viva EXCEPT !.closed = TRUE]
                /\ req' = [req EXCEPT ![h].pc = "score", ![h].v = viva.id]
       \/ /\ emitTurn
          /\ UNCHANGED <<viva, req>>
    /\ UNCHANGED <<spec, milestoneVars, envVars, marks, vivas, deaths>>

AskNext(h) ==
    /\ req[h].pc = "ask"
    /\ emitTurn
    /\ Done(h)
    /\ UNCHANGED <<spec, milestoneVars, envVars, marks, viva, vivas, deaths>>

scoreViva(h) ==
    /\ req[h].pc = "score"
    /\ emitTurn
    /\ \E level \in Levels : marks' = Append(marks, [viva |-> req[h].v, level |-> level])
    /\ Done(h)
    /\ UNCHANGED <<spec, milestoneVars, envVars, viva, vivas, deaths>>

-----------------------------------------------------------------------------
\* A request that throws or is cut off.
AbortRequest(h) ==
    /\ req[h].pc # "idle"
    /\ deaths < MaxDeaths
    /\ deaths' = deaths + 1
    /\ Done(h)
    /\ UNCHANGED <<spec, milestoneVars, envVars, vivaVars>>

\* A restart ends every request and forgets the question queue.
Restart ==
    /\ deaths < MaxDeaths
    /\ deaths' = deaths + 1
    /\ req' = [h \in Requests |-> Idle]
    /\ viva' = NoViva
    /\ UNCHANGED <<spec, milestoneVars, envVars, turns, marks, vivas>>

NewRequest(h) ==
    \/ ListMilestones(h)
    \/ \E m \in Ms : Submit(h, m)
    \/ \E count \in generateQuestions : startViva(h, count)
    \/ postMessage(h)

Continue(h) ==
    \/ seedMilestones(h)      \/ SubmitCheck(h)         \/ markSubmitted(h)
    \/ RunGate(h)             \/ applyGateOutcome(h)    \/ stampSubmissionOutcome(h)
    \/ EnvRead(h)             \/ snapshotAndSuspend(h)  \/ provisionForMilestone(h)
    \/ AttachEnv(h)
    \/ FinalizeRead(h)        \/ FinalizeScore(h)       \/ FirstQuestion(h)
    \/ AskNext(h)             \/ scoreViva(h)

Next ==
    \/ \E h \in Requests : NewRequest(h) \/ Continue(h) \/ AbortRequest(h)
    \/ Restart

Spec == Init /\ [][Next]_vars

-----------------------------------------------------------------------------
(* Properties *)

Statuses == {"LOCKED", "OPEN", "SUBMITTED", "GATED_PASS", "GATED_FAIL"}

\* The rows hold what the CHECKs of migration 0010 allow, and the handlers
\* what their TypeScript types say.
TypeOK ==
    /\ ms \in [Ms -> [status : Statuses, score : NoScore .. 10000, count : 0 .. MaxSubmits + Cardinality(Requests)]]
    /\ \A p \in DOMAIN subs : p[1] \in Ms /\ p[2] \in 1 .. ms[p[1]].count /\ subs[p] \in Outcomes \cup {Pending}
    /\ envId \in Envs \cup {NoEnv}
    /\ live \subseteq Envs
    /\ \A i \in 1 .. Len(scores) : scores[i].final \in 0 .. 10000
    /\ viva.asked \in 0 .. viva.questions \/ viva.asked = 1

\* project.service.ts, project.repository.ts: whatever concurrent submissions,
\* seedings and restarts do, the milestones open one at a time and in order,
\* none is locked again, and the roll-up comes after the last one opened.
Ladder == INSTANCE MilestoneLadder WITH
    Top <- Len(Keys),
    open <- {m \in Ms : ms[m].status # "LOCKED"},
    scored <- scores # <<>>
ClimbsTheLadder == Ladder!Spec

\* project.repository.ts, stampSubmissionOutcome: an open milestone is
\* explained by the submission history: a submission of the one before it has
\* passed, or is about to be stamped, or its request died before the stamp.
UnlockIsRecorded ==
    \A m \in Ms \ {1} : ms[m].status # "LOCKED" =>
        \/ \E p \in DOMAIN subs : p[1] = m - 1 /\ subs[p] = "GATED_PASS"
        \/ \E h \in Requests : req[h].pc = "stamp" /\ req[h].m = m - 1 /\ req[h].out = "GATED_PASS"
        \/ deaths > 0 /\ \E p \in DOMAIN subs : p[1] = m - 1 /\ subs[p] = Pending

\* project.service.ts, finalizeProjectScore, and rule R5 of project-scoring.ts:
\* the roll-up never meets a milestone without a score, so none counts as zero
\* for being absent; and unless every component is model-graded, the difference
\* between the best and the worst a model could have said of this project is two
\* fifths of the scale, also when the cap meets components that are missing.
FinalIsComplete ==
    \A i \in DOMAIN scores :
        LET Said(grade) == [c \in Components |-> IF c \in AiParts THEN grade ELSE scores[i].raw[c]]
        IN /\ \A m \in Ms : scores[i].comps[m] # NoScore
           /\ OwnParts # {} => rollup(Said(10000)) - rollup(Said(0)) <= 4000

\* defence.service.ts: two answers to the last question close the viva once;
\* it is scored at most once for each time it was started.
OneScorePerViva ==
    \A i, j \in 1 .. Len(marks) : marks[i].viva = marks[j].viva => i = j

\* project.service.ts, applyEnvLifecycle: "keep an environment available so
\* the learner can iterate".  A failed gate that provisions nothing finds the
\* attempt's environment alive.
LearnerCanIterate ==
    [][\A h \in Requests :
         req[h].pc = "env" /\ req[h].out = "GATED_FAIL" /\ req'[h] = Idle /\ deaths' = deaths
            => envId \in live]_vars
=============================================================================
