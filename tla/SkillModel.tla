----------------------------- MODULE SkillModel -----------------------------
(***************************************************************************)
(* What an evaluated attempt says about a skill: Bayesian knowledge        *)
(* tracing (bkt.service), Elo matches between a learner and an activity    *)
(* (elo.service), the review calendar (spaced-repetition) and the          *)
(* prerequisite closure of the skill graph (skill.repository).             *)
(*                                                                         *)
(* Probabilities are in thousandths, scores and weights in percent, times  *)
(* in hours; the code computes the same quotients in floating point.       *)
(***************************************************************************)
EXTENDS Integers, Sequences, FiniteSets, FiniteSetsExt, Functions

CONSTANT ACTIVITY_FREEZE_ATTEMPT_COUNT      \* 500 in the code

clamp(n, lo, hi) == Max({lo, Min({n, hi})})

\* Division that rounds towards zero.
Quot(a, b) == IF a < 0 THEN -((-a) \div b) ELSE a \div b

BktParams == [pInit |-> 150, pTransit |-> 250, pSlip |-> 100, pGuess |-> 80, halfLife |-> 180 * 24]
PassThreshold == 70

-----------------------------------------------------------------------------
(* BktService *)

evidenceStrength(score, weight) ==
    clamp(Quot(weight * (score - PassThreshold), 100 - PassThreshold), -100, 100)

\* A hard activity makes a pass stronger and a failure weaker evidence.
pGuess(adjust) ==
    LET size == clamp(IF adjust < 0 THEN -adjust ELSE adjust, 0, 500)
    IN (BktParams.pGuess * (IF adjust > 0 THEN 1000 - size ELSE 1000 + size)) \div 1000

pSlip(adjust) ==
    LET size == clamp(IF adjust < 0 THEN -adjust ELSE adjust, 0, 500)
    IN Min({900, (BktParams.pSlip * (IF adjust > 0 THEN 1000 + size ELSE 1000 - size)) \div 1000})

posterior(prior, passed, adjust) ==
    LET mastered == prior * (IF passed THEN 1000 - pSlip(adjust) ELSE pSlip(adjust))
        unmastered == (1000 - prior) * (IF passed THEN pGuess(adjust) ELSE 1000 - pGuess(adjust))
    IN (1000 * mastered) \div (mastered + unmastered)

\* The posterior counts as far as the evidence is strong; an assisted
\* attempt moves nothing.
bktUpdate(p, in) ==
    LET strength == evidenceStrength(in.score, in.weight)
        prior == clamp(p, 1, 999)
        post == posterior(prior, strength >= 0, in.adjust)
        size == IF strength < 0 THEN -strength ELSE strength
        blended == prior + Quot((post - prior) * size, 100)
        after == IF in.genuine THEN blended + ((1000 - blended) * BktParams.pTransit) \div 1000 ELSE prior
    IN [before |-> prior, after |-> clamp(after, 1, 999)]

\* Half-lives count as wholes.
decayedMastery(p, hours) ==
    BktParams.pInit + Quot(p - BktParams.pInit, 2 ^ (hours \div BktParams.halfLife))

bandFor(p) ==
    CASE p < 300 -> "Novice"
      [] p \in 300 .. 549 -> "Developing"
      [] p \in 550 .. 749 -> "Competent"
      [] p \in 750 .. 899 -> "Proficient"
      [] OTHER -> "Mastered"

-----------------------------------------------------------------------------
(* EloService *)

defaultRating == 1200

kLearnerFor(matches) == 32 - Min({matches, 20})

\* The logistic curve by its tangent where the ratings are equal.
expectedPass(learner, activity) == clamp(500 - Quot(144 * (activity - learner), 100), 0, 1000)

eloUpdate(in) ==
    LET surprise == in.outcome - expectedPass(in.learner, in.activity)
        kActivity == IF in.attempts > ACTIVITY_FREEZE_ATTEMPT_COUNT THEN 0 ELSE 4
    IN [learner |-> in.learner + Quot(kLearnerFor(in.matches) * surprise, 1000),
        activity |-> in.activity - Quot(kActivity * surprise, 1000),
        adjust |-> Quot((in.activity - in.learner) * 1000, 400)]

-----------------------------------------------------------------------------
(* spaced-repetition *)

NotDue == -1
BASE_INTERVAL_DAYS == [Competent |-> 7, Proficient |-> 14, Mastered |-> 30]

\* A review on time earns the interval times 1.8; MAX_INTERVAL_DAYS is never
\* reached from these bases.
computeReviewDueAt(band, now, prevDue) ==
    IF band \notin DOMAIN BASE_INTERVAL_DAYS THEN NotDue
    ELSE LET hours == 24 * BASE_INTERVAL_DAYS[band]
             onTime == prevDue # NotDue /\ now <= prevDue
         IN now + (IF onTime THEN Min({(hours * 9) \div 5, 24 * 180}) ELSE hours)

isReviewDue(due, now) == due # NotDue /\ due <= now

-----------------------------------------------------------------------------
(* SkillRepository.  An edge is [from, to, type]. *)

Prerequisite(edges) == {e \in edges : e.type \in {"REQUIRES", "BUILDS_ON"}}

\* The walks of the recursive query: no skill twice.
Walks(edges, skills) ==
    {w \in UNION {Injection(1 .. n, skills) : n \in 2 .. Cardinality(skills)} :
       \A i \in 1 .. Len(w) - 1 : \E e \in Prerequisite(edges) : e.from = w[i] /\ e.to = w[i + 1]}

\* A pair has the types of the edges along every walk between its skills.
rebuildClosure(edges, skills) ==
    LET walks == Walks(edges, skills)
        on(w) == {e \in Prerequisite(edges) : \E i \in 1 .. Len(w) - 1 : e.from = w[i] /\ e.to = w[i + 1]}
        between(a, d) == {w \in walks : w[1] = a /\ w[Len(w)] = d}
    IN {[ancestor |-> w[1], descendant |-> w[Len(w)],
         types |-> {e.type : e \in UNION {on(v) : v \in between(w[1], w[Len(w)])}}] : w \in walks}

getRequiresAncestors(closure, skill) ==
    {c.ancestor : c \in {d \in closure : d.descendant = skill /\ "REQUIRES" \in d.types}}
=============================================================================
