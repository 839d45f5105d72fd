--------------------------- MODULE Recommendation ---------------------------
(***************************************************************************)
(* RecommendationService.recommend over the tables of Mastery: five sources *)
(* of candidates, the eligibility filter, the weighting by source and the   *)
(* best Limit.  It only reads these tables, and the rows it inserts into    *)
(* learner.recommendation are read by nothing, so it is an operator on the  *)
(* states of Mastery.                                                       *)
(***************************************************************************)
EXTENDS Mastery

CONSTANTS
    ColdTopics,         \* the topics offered before the first attempt
    Limit               \* length of the list

ASSUME RecommendationAssumption == IsFiniteSet(DeclaredActivities) /\ Limit \in Nat

SOURCE_WEIGHT == [REMEDIATION |-> 100, UNBLOCKING |-> 95, CURRICULUM_ADJACENT |-> 80,
                  PROGRESSION |-> 70, SPACED_REPETITION |-> 60]
REQUIRES_GATE_THRESHOLD == 550

publishedActivityVersionsQuery == {a \in DeclaredActivities : Activities[a].status = "PUBLISHED"}
Targeting(s) == {a \in publishedActivityVersionsQuery : s \in DOMAIN Activities[a].weights}
PrimaryOn(s) == {a \in publishedActivityVersionsQuery : Activities[a].primary = s}
AtLevel(S, levels) == {a \in S : Activities[a].level \in levels}
Attempted == {attempts[i].activity : i \in DOMAIN attempts}
Weak(s) == s \notin DOMAIN mastery \/ mastery[s].p < REQUIRES_GATE_THRESHOLD

Offer(a, score, reason) == [activity |-> a, score |-> score, reason |-> reason]

-----------------------------------------------------------------------------
(* The five sources *)

addCurriculumAdjacentCandidates ==
    LET seen == UNION {DOMAIN Activities[a].topics : a \in Attempted}
        topics == IF seen # {} THEN seen ELSE ColdTopics
    IN UNION {{Offer(a, 500 + 3 * Activities[a].topics[t], "CURRICULUM_ADJACENT")
                 : t \in topics \cap DOMAIN Activities[a].topics}
              : a \in publishedActivityVersionsQuery \ Attempted}

\* A primary skill of an attempt begun in the last thirty days and failed.
StrugglingSkills ==
    {s \in DOMAIN mastery : Weak(s) /\ \E i \in DOMAIN attempts :
        /\ attempts[i].status = "FAILED" /\ now - attempts[i].at <= 30 * 24
        /\ Activities[attempts[i].activity].primary = s}

\* Prerequisites of either kind that are not mastered.
WeakAncestors(s) == {r \in {c.ancestor : c \in {d \in Closure : d.descendant = s}} : Weak(r)}

\* The activities an ORDER BY difficulty LIMIT 1 may return.
Easiest(r) ==
    LET easy == AtLevel(Targeting(r), {"L1", "L2"})
        lowest == IF AtLevel(easy, {"L1"}) # {} THEN "L1" ELSE "L2"
    IN AtLevel(easy, {lowest})

addRemediationCandidates_bug(pick) ==
    UNION {{Offer(pick[r], 650, "REMEDIATION") : r \in {q \in WeakAncestors(s) : Easiest(q) # {}}}
           : s \in StrugglingSkills}

\* pick chooses an easiest activity for every skill that has one.
addRemediationCandidates(pick) ==
    UNION {{Offer(a, 700 + REQUIRES_GATE_THRESHOLD - mastery[s].p, "REMEDIATION")
              : a \in AtLevel(Targeting(s), {"L1", "L2"})}
           \cup {Offer(pick[r], 650, "REMEDIATION") : r \in {q \in WeakAncestors(s) : Easiest(q) # {}}}
           : s \in StrugglingSkills}

addSpacedRepetitionCandidates ==
    UNION {{Offer(a, 550, "SPACED_REPETITION") : a \in PrimaryOn(s)}
           : s \in {r \in DOMAIN mastery : isReviewDue(mastery[r].due, now)}}

addProgressionCandidates ==
    LET levels(s) == IF mastery[s].band = "Mastered" THEN {"L4", "L5"} ELSE {"L3", "L4"}
    IN UNION {{Offer(a, 600, "PROGRESSION") : a \in AtLevel(Targeting(s), levels(s)) \ Attempted}
              : s \in {r \in DOMAIN mastery : mastery[r].band \in {"Proficient", "Mastered"}}}

addUnblockingCandidates ==
    LET unblocks(s) == Cardinality({c \in Closure : c.ancestor = s})
    IN UNION {{Offer(a, Min({600 + 50 * unblocks(s), 950}), "UNBLOCKING") : a \in PrimaryOn(s)}
              : s \in {r \in DOMAIN mastery : Weak(r) /\ unblocks(r) > 0}}

-----------------------------------------------------------------------------
\* candidates.set: an offer replaces the one before if its raw score is higher.
Merge(cs, offers) ==
    LET offered == {o.activity : o \in offers}
        best(a) == CHOOSE o \in offers : o.activity = a /\ \A q \in offers : q.activity = a => q.score <= o.score
        keep(a) == a \in DOMAIN cs /\ (a \notin offered \/ cs[a].score >= best(a).score)
    IN [a \in DOMAIN cs \cup offered |->
          IF keep(a) THEN cs[a] ELSE [score |-> best(a).score, reason |-> best(a).reason]]

Gathered(pick) ==
    Merge(Merge(Merge(Merge(Merge(<<>>, addCurriculumAdjacentCandidates), addRemediationCandidates(pick)),
          addSpacedRepetitionCandidates), addProgressionCandidates), addUnblockingCandidates)

Picks == {pick \in [Skills -> DeclaredActivities \cup {"none"}] :
            \A s \in Skills : IF Easiest(s) = {} THEN pick[s] = "none" ELSE pick[s] \in Easiest(s)}

weighted(candidate) == candidate.score * SOURCE_WEIGHT[candidate.reason]

\* The lists the filter and the sort may return.
recommend(pick) ==
    LET candidates == Gathered(pick)
        filtered == {a \in DOMAIN candidates : check(a)}
        best(top) == \A a \in top, b \in filtered \ top : weighted(candidates[a]) >= weighted(candidates[b])
    IN {top \in SUBSET filtered : Cardinality(top) = Min({Limit, Cardinality(filtered)}) /\ best(top)}

-----------------------------------------------------------------------------
(* Properties *)

\* a is a candidate, and the list has it unless it is full of candidates that
\* weigh at least as much.
IsAnswered(a, pick) ==
    LET candidates == Gathered(pick)
    IN /\ a \in DOMAIN candidates
       /\ \A top \in recommend(pick) :
            a \in top \/ (Cardinality(top) = Limit
                          /\ \A b \in top : weighted(candidates[b]) >= weighted(candidates[a]))

\* recommendation.service.ts and evaluation.service.ts: a learner who failed on
\* a skill is not left with nudges: no source, merge or filter loses an easy
\* activity on that skill that may be started, and the cut to Limit drops one
\* only for others that weigh as much; and the activity that was failed comes
\* back before its cooldown ends only if the learner passed another one with the
\* same primary skill.
StruggleIsAnswered ==
    /\ \A s \in StrugglingSkills, pick \in Picks :
         \A a \in AtLevel(Targeting(s), {"L1", "L2"}) : check(a) => IsAnswered(a, pick)
    /\ CooldownIsEarned
=============================================================================
