------------------------------ MODULE Mastery ------------------------------
(***************************************************************************)
(* One learner's mastery: attempts are started as far as the eligibility   *)
(* check allows, evaluated, and every evaluation plays an Elo match,       *)
(* records evidence for each skill of the activity and settles the         *)
(* cooldown (eligibility.service, evaluation.service, mastery.service).    *)
(*                                                                         *)
(* An action is one transaction, or what a handler does between two        *)
(* awaits.  Row locks of PostgreSQL are held until commit; a statement     *)
(* that needs a locked row waits.                                          *)
(***************************************************************************)
EXTENDS SkillModel, Sequences

CONSTANTS
    Skills, Edges,      \* the skill graph
    Activities,         \* activity |-> [primary, weights, level, status, topics]
    Handlers,           \* requests that may be in flight at once
    Outcomes,           \* results of an evaluation: score in percent, genuine or assisted
    SeededSkills,       \* sets of skills the learner may have a row for at first
    Waits, MaxTime,     \* hours that may pass at once and in all
    MaxAttempts,        \* bound on attempts
    MaxAborts           \* bound on evaluations that die half way

ASSUME MasteryAssumption ==
    /\ \A e \in Edges : e.from \in Skills /\ e.to \in Skills
    /\ \A a \in DOMAIN Activities : /\ Activities[a].primary \in DOMAIN Activities[a].weights
                                    /\ DOMAIN Activities[a].weights \subseteq Skills
    /\ Skills \cap DOMAIN Activities = {}     \* rows of different tables
    /\ SeededSkills \subseteq SUBSET Skills /\ Waits \cup {MaxTime, MaxAttempts, MaxAborts} \subseteq Nat
    /\ "unlocked" \notin Handlers

VARIABLES
    mastery,        \* skill_mastery: a row for some of the skills
    evidence,       \* mastery_evidence, oldest first
    difficulty,     \* activity_version.difficulty_elo
    activity,       \* learner_activity_state: a row for some of the activities
    attempts,       \* attempt rows, oldest first
    locks,          \* who holds the row lock of a skill or an activity
    run,            \* evaluations in flight
    now, aborts,
    played, seeded, remediated
        \* history: rating points won and lost in committed matches, the
        \* skills whose row existed at first, activities passed so far

vars == <<mastery, evidence, difficulty, activity, attempts, locks, run, now, aborts,
          played, seeded, remediated>>
tables == <<mastery, evidence, difficulty, activity, attempts>>
history == <<played, seeded, remediated>>

Unlocked == "unlocked"
NoCooldown == -1
DeclaredActivities == DOMAIN Activities
Closure == rebuildClosure(Edges, Skills)

NewRow == [p |-> BktParams.pInit, elo |-> defaultRating, count |-> 0, band |-> "Novice",
           last |-> NotDue, due |-> NotDue]
Idle == [pc |-> "idle", attempt |-> 0, score |-> 0, genuine |-> TRUE, fresh |-> FALSE, learner |-> 0,
         rating |-> 0, adjust |-> 0, todo |-> {}, skill |-> "", row |-> NewRow]

\* A row without evidence is what a match leaves that was not followed by any.
Init ==
    /\ seeded \in SeededSkills
    /\ mastery = [s \in seeded |-> NewRow]
    /\ evidence = <<>>
    /\ difficulty = [a \in DeclaredActivities |-> defaultRating]
    /\ activity = <<>>
    /\ attempts = <<>>
    /\ locks = [x \in Skills \cup DeclaredActivities |-> Unlocked]
    /\ run = [h \in Handlers |-> Idle]
    /\ now = 0 /\ aborts = 0
    /\ played = [x \in Skills \cup DeclaredActivities |-> 0]
    /\ remediated = {}

Put(f, x, v) == [y \in DOMAIN f \cup {x} |-> IF y = x THEN v ELSE f[y]]
Free(x, h) == locks[x] \in {Unlocked, h}
Release(h) == [x \in DOMAIN locks |-> IF locks[x] = h THEN Unlocked ELSE locks[x]]
Target(h) == attempts[run[h].attempt].activity
Anchor(h) == Activities[Target(h)].primary

-----------------------------------------------------------------------------
(* EligibilityService.check *)

meetsRequiresGate(ancestors) ==
    \A s \in ancestors : s \in DOMAIN mastery /\ mastery[s].p >= 550

Cooling(a) == a \in DOMAIN activity /\ activity[a].cooldown # NoCooldown /\ activity[a].cooldown > now

QuotaLeft == \A i \in DOMAIN attempts : attempts[i].status \notin {"ACTIVE", "SUBMITTED"}

check(a) ==
    /\ Activities[a].status \in {"PUBLISHED", "CANARY"}
    /\ meetsRequiresGate(getRequiresAncestors(Closure, Activities[a].primary))
    /\ ~Cooling(a)
    /\ QuotaLeft

createAttempt(h, a) ==
    /\ run[h].pc = "idle"
    /\ Len(attempts) + Cardinality({g \in Handlers : run[g].pc = "create"}) < MaxAttempts
    /\ check(a)
    /\ run' = [run EXCEPT ![h].pc = "create", ![h].skill = a]
    /\ UNCHANGED <<tables, locks, now, aborts, history>>

Completed(a) == {i \in DOMAIN attempts : attempts[i].activity = a /\ attempts[i].status \in {"PASSED", "FAILED"}}

\* The row comes after the check: another request may have inserted one.
InsertAttempt(h) ==
    LET prior == Completed(run[h].skill)
        retry == IF prior = {} THEN 0 ELSE attempts[Max(prior)].retry + 1
    IN
    /\ run[h].pc = "create"
    /\ attempts' = Append(attempts, [activity |-> run[h].skill, status |-> "ACTIVE", retry |-> retry, at |-> now])
    /\ run' = [run EXCEPT ![h] = [Idle EXCEPT !.pc = "work", !.attempt = Len(attempts) + 1]]
    /\ UNCHANGED <<mastery, evidence, difficulty, activity, locks, now, aborts, history>>

\* submit and the scoring part of evaluate().
evaluate(h) ==
    /\ run[h].pc = "work"
    /\ \E o \in Outcomes :
         run' = [run EXCEPT ![h].pc = "elo", ![h].score = o.score, ![h].genuine = o.genuine]
    /\ attempts' = [attempts EXCEPT ![run[h].attempt].status = "SUBMITTED"]
    /\ UNCHANGED <<mastery, evidence, difficulty, activity, locks, now, aborts, history>>

Passed(h) == run[h].score >= PassThreshold
-----------------------------------------------------------------------------
(* MasteryService.recordEloMatch: FOR UPDATE locks the rows there are *)

LockLearner_bug(h) ==
    LET s == Anchor(h)
    IN
    /\ run[h].pc = "elo"
    /\ run' = [run EXCEPT ![h].pc = "rival", ![h].fresh = s \notin DOMAIN mastery,
                          ![h].learner = IF s \in DOMAIN mastery THEN mastery[s].elo ELSE defaultRating]
    /\ UNCHANGED <<tables, locks, now, aborts, history>>

LockLearner(h) ==
    LET s == Anchor(h)
    IN
    /\ run[h].pc = "elo"
    /\ Free(s, h)
    /\ locks' = IF s \in DOMAIN mastery THEN [locks EXCEPT ![s] = h] ELSE locks
    /\ run' = [run EXCEPT ![h].pc = "rival", ![h].fresh = s \notin DOMAIN mastery,
                          ![h].learner = IF s \in DOMAIN mastery THEN mastery[s].elo ELSE defaultRating]
    /\ UNCHANGED <<tables, now, aborts, history>>

LockActivity(h) ==
    /\ run[h].pc = "rival"
    /\ Free(Target(h), h)
    /\ locks' = [locks EXCEPT ![Target(h)] = h]
    /\ run' = [run EXCEPT ![h].pc = "match", ![h].rating = difficulty[Target(h)]]
    /\ UNCHANGED <<tables, now, aborts, history>>

EvidenceOf(s) == {i \in DOMAIN evidence : evidence[i].skill = s}

Match(h) ==
    eloUpdate([learner |-> run[h].learner, activity |-> run[h].rating,
               matches |-> Cardinality(EvidenceOf(Anchor(h))),
               attempts |-> Cardinality({i \in DOMAIN attempts : attempts[i].activity = Target(h)}),
               outcome |-> IF ~Passed(h) THEN 0
                           ELSE IF attempts[run[h].attempt].retry = 0 THEN 1000 ELSE 500])

\* Insert or update of the rating, the activity's rating, commit.
recordEloMatch(h) ==
    LET s == Anchor(h)
        result == Match(h)
        row == IF s \in DOMAIN mastery THEN mastery[s] ELSE NewRow
    IN
    /\ run[h].pc = "match"
    /\ Free(s, h)
    /\ mastery' = Put(mastery, s, [row EXCEPT !.elo = result.learner])
    /\ difficulty' = [difficulty EXCEPT ![Target(h)] = result.activity]
    /\ played' = [played EXCEPT ![s] = @ + result.learner - run[h].learner,
                                ![Target(h)] = @ + result.activity - run[h].rating]
    /\ locks' = Release(h)
    /\ run' = [run EXCEPT ![h].pc = "evidence", ![h].adjust = result.adjust,
                          ![h].todo = DOMAIN Activities[Target(h)].weights]
    /\ UNCHANGED <<evidence, activity, attempts, now, aborts, seeded, remediated>>

-----------------------------------------------------------------------------
(* MasteryService.recordEvidence, for one skill after the other *)

\* The row is read without a lock.
EvidenceRead(h) ==
    /\ run[h].pc = "evidence"
    /\ \E s \in run[h].todo :
         run' = [run EXCEPT ![h].pc = "update", ![h].skill = s,
                            ![h].row = IF s \in DOMAIN mastery THEN mastery[s] ELSE [NewRow EXCEPT !.last = now]]
    /\ UNCHANGED <<tables, locks, now, aborts, history>>

priorP(row) == IF row.last = NotDue THEN row.p ELSE decayedMastery(row.p, now - row.last)

Update(h) ==
    bktUpdate(priorP(run[h].row),
              [score |-> run[h].score, weight |-> Activities[Target(h)].weights[run[h].skill],
               adjust |-> IF run[h].skill = Anchor(h) THEN run[h].adjust ELSE 0, genuine |-> run[h].genuine])

Upsert(h, count) ==
    LET s == run[h].skill
        row == IF s \in DOMAIN mastery THEN mastery[s] ELSE NewRow
        result == Update(h)
        band == bandFor(result.after)
    IN /\ mastery' = Put(mastery, s, [row EXCEPT !.p = result.after, !.last = now, !.count = count,
                                      !.band = band, !.due = computeReviewDueAt(band, now, run[h].row.due)])
       /\ evidence' = Append(evidence, [skill |-> s, attempt |-> run[h].attempt,
                                        before |-> result.before, after |-> result.after])

AfterSkill(h) ==
    [run EXCEPT ![h].pc = IF run[h].todo = {run[h].skill} THEN "verdict" ELSE "evidence",
                ![h].todo = @ \ {run[h].skill}]

Counted(s) == IF s \in DOMAIN mastery THEN mastery[s].count ELSE 0

recordEvidence_bug(h) ==
    /\ run[h].pc = "update"
    /\ Free(run[h].skill, h)
    /\ Upsert(h, run[h].row.count + 1)
    /\ run' = AfterSkill(h)
    /\ UNCHANGED <<difficulty, activity, attempts, locks, now, aborts, history>>

recordEvidence_oneTransaction(h) ==
    /\ run[h].pc = "update"
    /\ Free(run[h].skill, h)
    /\ Upsert(h, Counted(run[h].skill) + 1)
    /\ locks' = IF run[h].todo = {run[h].skill} THEN Release(h) ELSE [locks EXCEPT ![run[h].skill] = h]
    /\ run' = AfterSkill(h)
    /\ UNCHANGED <<difficulty, activity, attempts, now, aborts, history>>

\* evidence_count is incremented in SQL, all else comes from the read.
recordEvidence(h) ==
    /\ run[h].pc = "update"
    /\ Free(run[h].skill, h)
    /\ Upsert(h, Counted(run[h].skill) + 1)
    /\ run' = AfterSkill(h)
    /\ UNCHANGED <<difficulty, activity, attempts, locks, now, aborts, history>>

-----------------------------------------------------------------------------
(* The verdict and the cooldown *)

EvaluateVerdict(h) ==
    /\ run[h].pc = "verdict"
    /\ attempts' = [attempts EXCEPT ![run[h].attempt].status = IF Passed(h) THEN "PASSED" ELSE "FAILED"]
    /\ run' = [run EXCEPT ![h].pc = "settle"]
    /\ UNCHANGED <<mastery, evidence, difficulty, activity, locks, now, aborts, history>>

\* A day, doubled with every retry, a week at most.
CooldownHours(retry) ==
    CASE retry = 0 -> 24 [] retry = 1 -> 48 [] retry = 2 -> 96 [] OTHER -> 7 * 24
computeCooldownUntil(retry) == now + CooldownHours(retry)

SettleActivity(h) ==
    LET a == Target(h)
        old == IF a \in DOMAIN activity THEN activity[a] ELSE [best |-> 0, count |-> 0]
    IN
    /\ run[h].pc = "settle"
    /\ activity' = Put(activity, a,
         [best |-> Max({old.best, run[h].score}), latest |-> run[h].score, count |-> old.count + 1,
          status |-> IF Passed(h) THEN "passed" ELSE "failed",
          cooldown |-> IF Passed(h) THEN NoCooldown ELSE computeCooldownUntil(attempts[run[h].attempt].retry)])
    /\ remediated' = IF Passed(h) THEN remediated \cup {a} ELSE remediated
    /\ run' = [run EXCEPT ![h] = IF Passed(h) THEN [@ EXCEPT !.pc = "clear"] ELSE Idle]
    /\ UNCHANGED <<mastery, evidence, difficulty, attempts, locks, now, aborts, played, seeded>>

Siblings(a) == {b \in DeclaredActivities \ {a} : Activities[b].primary = Activities[a].primary}

clearCooldownsForRemediatedSkills(h) ==
    /\ run[h].pc = "clear"
    /\ activity' = [b \in DOMAIN activity |->
                      IF b \in Siblings(Target(h)) THEN [activity[b] EXCEPT !.cooldown = NoCooldown]
                      ELSE activity[b]]
    /\ run' = [run EXCEPT ![h] = Idle]
    /\ UNCHANGED <<mastery, evidence, difficulty, attempts, locks, now, aborts, history>>

-----------------------------------------------------------------------------
\* Hours pass between requests, not within one.
Tick ==
    /\ \A h \in Handlers : run[h].pc \in {"idle", "work"}
    /\ \E d \in Waits : now + d <= MaxTime /\ now' = now + d
    /\ UNCHANGED <<tables, locks, run, aborts, history>>

\* The row an evaluation waits for.
Wanted(h) ==
    CASE run[h].pc \in {"elo", "match"} -> {Anchor(h)}
      [] run[h].pc = "rival" -> {Target(h)}
      [] run[h].pc = "update" -> {run[h].skill}
      [] OTHER -> {}
WaitsFor(h, g) == h # g /\ \E x \in Wanted(h) : locks[x] = g

\* An error, or PostgreSQL ending one of two transactions that wait for each
\* other: the transaction rolls back, evaluate() throws.
Fail(h) ==
    /\ run[h].pc \notin {"idle", "work", "create"}
    /\ aborts < MaxAborts
    /\ aborts' = aborts + 1
    /\ locks' = Release(h)
    /\ run' = [run EXCEPT ![h] = Idle]
    /\ UNCHANGED <<tables, now, history>>

Evaluation(h) ==
    \/ InsertAttempt(h)  \/ evaluate(h)
    \/ LockLearner(h)    \/ LockActivity(h)    \/ recordEloMatch(h)
    \/ EvidenceRead(h)   \/ recordEvidence(h)  \/ EvaluateVerdict(h)
    \/ SettleActivity(h) \/ clearCooldownsForRemediatedSkills(h) \/ Fail(h)

Next ==
    \/ \E h \in Handlers : Evaluation(h) \/ \E a \in DeclaredActivities : createAttempt(h, a)
    \/ Tick

Spec == Init /\ [][Next]_vars

-----------------------------------------------------------------------------
(* Properties *)

\* mastery.service.ts, recordEloMatch: the row locks serialise the matches, so
\* the activity's rating, and the rating of a learner whose row existed, is
\* the sum of every committed match and none is lost.
RatingCountsEveryMatch ==
    /\ \A a \in DeclaredActivities : difficulty[a] = defaultRating + played[a]
    /\ \A s \in seeded : mastery[s].elo = defaultRating + played[s]

\* The same for every skill: "The lock serialises concurrent matches instead
\* of losing one silently" (mastery.service.ts), a learner's first included.
NoMatchIsLost == \A s \in DOMAIN mastery : mastery[s].elo = defaultRating + played[s]

\* mastery.service.ts, recordEvidence: "in one transaction so the two never
\* drift apart": the row has the probability of the last evidence and counts
\* every piece of it, whatever matches and evaluations ran in between.
EvidenceExplainsMastery ==
    \A s \in DOMAIN mastery :
        LET chain == EvidenceOf(s)
        IN /\ mastery[s].count = Cardinality(chain)
           /\ mastery[s].p = IF chain = {} THEN BktParams.pInit ELSE evidence[Max(chain)].after

\* mastery.service.ts: matches lock the learner's row before the activity's and
\* evidence holds one row at a time, so evaluations wait for each other only
\* when one of them is a first match, whose insert comes after the activity.
DeadlockNeedsFirstMatch ==
    \A h, g \in Handlers : WaitsFor(h, g) /\ WaitsFor(g, h) => run[h].fresh \/ run[g].fresh

\* evaluation.service.ts, cooldown.ts: a failed activity comes back before its
\* cooldown ends only if the learner passed another one with the same primary
\* skill, whichever order concurrent evaluations settle in.
CooldownIsEarned ==
    \A a \in DOMAIN activity : activity[a].status = "failed" /\ activity[a].cooldown = NoCooldown =>
        Siblings(a) \cap remediated # {}
=============================================================================
