--------------------------- MODULE Mastery_proofs ---------------------------
(***************************************************************************)
(* Proofs about mastery: the row locks, the ratings, the evidence and the  *)
(* cooldowns, for any skill graph, activities, concurrent evaluations and  *)
(* failures, and about what is recommended meanwhile.                      *)
(***************************************************************************)
EXTENDS Recommendation, FiniteSetTheorems, SequenceTheorems, TLAPS

-----------------------------------------------------------------------------
(* The inductive invariants *)

RunFields == {"pc", "attempt", "score", "genuine", "fresh", "learner", "rating", "adjust", "todo", "skill", "row"}
RowFields == {"p", "elo", "count", "band", "last", "due"}

\* An evaluation is of an attempt, and works on the skills of its activity.
Evaluating(h) == run[h].pc \notin {"idle", "create"}
Sound(h) ==
    /\ DOMAIN run[h] = RunFields /\ run[h].fresh \in BOOLEAN
    /\ run[h].learner \in Int /\ run[h].rating \in Int
    /\ Evaluating(h) => run[h].attempt \in DOMAIN attempts
    /\ run[h].pc = "create" => run[h].skill \in DeclaredActivities
    /\ run[h].todo \subseteq Skills
    /\ run[h].pc = "update" => run[h].skill \in Skills

TableInv ==
    /\ DOMAIN run = Handlers /\ \A h \in Handlers : Sound(h)
    /\ DOMAIN attempts = 1 .. Len(attempts) /\ Len(attempts) \in Nat
    /\ attempts \in Seq({attempts[i] : i \in DOMAIN attempts})
    /\ \A i \in DOMAIN attempts : "activity" \in DOMAIN attempts[i] /\ attempts[i].activity \in DeclaredActivities
    /\ seeded \subseteq DOMAIN mastery /\ DOMAIN mastery \subseteq Skills
    /\ \A s \in DOMAIN mastery : DOMAIN mastery[s] = RowFields /\ mastery[s].elo \in Int /\ mastery[s].count \in Nat
    /\ difficulty \in [DeclaredActivities -> Int]
    /\ played \in [Skills \cup DeclaredActivities -> Int]
    /\ locks \in [Skills \cup DeclaredActivities -> Handlers \cup {Unlocked}]
    /\ evidence \in Seq({evidence[i] : i \in DOMAIN evidence})

\* Who holds a lock is in a match and holds it for that: the learner's row
\* since it was read, the activity's row once that was read; and what was read
\* under a lock is still there.
Playing(h) == run[h].pc \in {"rival", "match"}
LocksOf(h) ==
    /\ \A x \in Skills \cup DeclaredActivities : locks[x] = h =>
         \/ Playing(h) /\ x = Anchor(h) /\ ~run[h].fresh
         \/ run[h].pc = "match" /\ x = Target(h)
    /\ Playing(h) /\ ~run[h].fresh =>
         /\ locks[Anchor(h)] = h
         /\ Anchor(h) \in DOMAIN mastery /\ run[h].learner = mastery[Anchor(h)].elo
    /\ Playing(h) /\ run[h].fresh => Anchor(h) \notin seeded
    /\ run[h].pc = "match" => locks[Target(h)] = h /\ run[h].rating = difficulty[Target(h)]
LockInv == \A h \in Handlers : LocksOf(h)

\* A skill without a row has no evidence.
EvidenceInv ==
    /\ EvidenceExplainsMastery
    /\ \A s \in Skills \ DOMAIN mastery : EvidenceOf(s) = {}

-----------------------------------------------------------------------------
(* The operators *)

LEMMA RangeSeq ==
  ASSUME NEW S, NEW s \in Seq(S)
  PROVE  s \in Seq({s[i] : i \in DOMAIN s})
<1> DEFINE T == {s[i] : i \in DOMAIN s}
<1>1. DOMAIN s = 1 .. Len(s) /\ Len(s) \in Nat /\ s \in [1 .. Len(s) -> S]
  OBVIOUS
<1>2. s \in [1 .. Len(s) -> T]
  BY <1>1
<1>3. QED BY <1>1, <1>2, SeqDef

\* A log that grows at its end.
LEMMA Appended ==
  ASSUME NEW s, s \in Seq({s[i] : i \in DOMAIN s}), NEW x
  PROVE  LET t == Append(s, x)
         IN /\ t \in Seq({t[i] : i \in DOMAIN t})
            /\ Len(s) \in Nat /\ DOMAIN s = 1 .. Len(s) /\ DOMAIN t = 1 .. Len(s) + 1 /\ Len(t) = Len(s) + 1
            /\ t[Len(s) + 1] = x /\ \A i \in DOMAIN s : t[i] = s[i]
<1> DEFINE S == {s[i] : i \in DOMAIN s}
           t == Append(s, x)
<1>1. s \in Seq(S)
  OBVIOUS
<1> HIDE DEF S
<1>2. t \in Seq(S \cup {x})
  BY <1>1
<1>3. t \in Seq({t[i] : i \in DOMAIN t})
  <2> HIDE DEF t
  <2> QED BY <1>2, RangeSeq
<1>4. QED BY <1>1, <1>3

LEMMA QuotInt ==
  ASSUME NEW a \in Int, NEW b \in Nat \ {0}
  PROVE  Quot(a, b) \in Int
BY DEF Quot

LEMMA ClampInt ==
  ASSUME NEW n \in Int, NEW lo \in Int, NEW hi \in Int
  PROVE  clamp(n, lo, hi) \in Int
<1>1. Min({n, hi}) \in {n, hi}
  <2>1. \E x \in {n, hi} : \A y \in {n, hi} : x <= y
    OBVIOUS
  <2>2. QED BY <2>1 DEF Min
<1>2. \A m \in Int : Max({lo, m}) \in {lo, m}
  <2>1. \A m \in Int : \E x \in {lo, m} : \A y \in {lo, m} : x >= y
    OBVIOUS
  <2>2. QED BY <2>1 DEF Max
<1>3. QED BY <1>1, <1>2 DEF clamp

\* A match leaves numbers.
LEMMA EloInt ==
  ASSUME NEW in, in.learner \in Int, in.activity \in Int, in.matches \in Nat, in.outcome \in Int
  PROVE  eloUpdate(in).learner \in Int /\ eloUpdate(in).activity \in Int
<1> DEFINE e == expectedPass(in.learner, in.activity)
           k == kLearnerFor(in.matches)
           q == Quot(144 * (in.activity - in.learner), 100)
           ka == IF in.attempts > ACTIVITY_FREEZE_ATTEMPT_COUNT THEN 0 ELSE 4
<1>1. q \in Int
  BY QuotInt
<1>2. e \in Int
  <2> HIDE DEF q
  <2>1. clamp(500 - q, 0, 1000) \in Int
    BY <1>1, ClampInt
  <2>2. QED BY <2>1 DEF expectedPass, q
<1>3. k \in Int
  <2>1. \E x \in {in.matches, 20} : \A y \in {in.matches, 20} : x <= y
    OBVIOUS
  <2>2. QED BY <2>1 DEF kLearnerFor, Min
<1>4. ka \in Int
  OBVIOUS
<1> HIDE DEF e, k, ka
<1>5. k * (in.outcome - e) \in Int /\ ka * (in.outcome - e) \in Int
  BY <1>2, <1>3, <1>4
<1>6. Quot(k * (in.outcome - e), 1000) \in Int /\ Quot(ka * (in.outcome - e), 1000) \in Int
  BY <1>5, QuotInt
<1>7. /\ eloUpdate(in).learner = in.learner + Quot(k * (in.outcome - e), 1000)
      /\ eloUpdate(in).activity = in.activity - Quot(ka * (in.outcome - e), 1000)
  BY DEF eloUpdate, e, k, ka
<1>8. QED BY <1>6, <1>7

-----------------------------------------------------------------------------
(* The tables *)

LEMMA Targets ==
  ASSUME TableInv, NEW h \in Handlers, Evaluating(h)
  PROVE  /\ Target(h) \in DeclaredActivities /\ Anchor(h) \in Skills /\ Target(h) \notin Skills
         /\ DOMAIN Activities[Target(h)].weights \subseteq Skills
<1>1. Sound(h)
  BY DEF TableInv
<1>2. Target(h) \in DeclaredActivities
  BY <1>1, SMTT(30) DEF TableInv, Sound, Target
<1>3. QED BY ONLY <1>2, MasteryAssumption, SMTT(30) DEF Anchor, Target, DeclaredActivities

LEMMA MatchInt ==
  ASSUME TableInv, NEW h \in Handlers, Evaluating(h)
  PROVE  Match(h).learner \in Int /\ Match(h).activity \in Int
<1> DEFINE in == [learner |-> run[h].learner, activity |-> run[h].rating,
                  matches |-> Cardinality(EvidenceOf(Anchor(h))),
                  attempts |-> Cardinality({i \in DOMAIN attempts : attempts[i].activity = Target(h)}),
                  outcome |-> IF ~Passed(h) THEN 0
                              ELSE IF attempts[run[h].attempt].retry = 0 THEN 1000 ELSE 500]
<1>1. Cardinality(EvidenceOf(Anchor(h))) \in Nat
  <2>1. DOMAIN evidence = 1 .. Len(evidence) /\ Len(evidence) \in Nat
    BY Appended DEF TableInv
  <2>2. IsFiniteSet(DOMAIN evidence)
    BY <2>1, FS_Interval
  <2>3. IsFiniteSet(EvidenceOf(Anchor(h)))
    BY <2>2, FS_Subset DEF EvidenceOf
  <2>4. QED BY <2>3, FS_CardinalityType
<1>2. in.learner \in Int /\ in.activity \in Int /\ in.matches \in Nat /\ in.outcome \in Int
  BY <1>1 DEF TableInv, Sound
<1>3. Match(h) = eloUpdate(in)
  BY DEF Match
<1> HIDE DEF in
<1>4. QED BY <1>2, <1>3, EloInt

\* An evaluation changes its own handler; attempts keep their activity.
Step(h) == Evaluation(h) \/ \E a \in DeclaredActivities : createAttempt(h, a)
LEMMA OthersStay ==
  ASSUME TableInv, NEW h \in Handlers, Step(h)
  PROVE  DOMAIN run' = Handlers /\ \A g \in Handlers \ {h} : run'[g] = run[g]
BY DEF TableInv, Step, Evaluation, createAttempt, InsertAttempt, evaluate, LockLearner, LockActivity, recordEloMatch,
       EvidenceRead, recordEvidence, AfterSkill, EvaluateVerdict, SettleActivity,
       clearCooldownsForRemediatedSkills, Fail

Attempts(as) ==
    /\ DOMAIN as = 1 .. Len(as) /\ Len(as) \in Nat /\ as \in Seq({as[i] : i \in DOMAIN as})
    /\ \A i \in DOMAIN as : "activity" \in DOMAIN as[i] /\ as[i].activity \in DeclaredActivities

LEMMA AttemptsStay ==
  ASSUME TableInv, NEW h \in Handlers, Step(h)
  PROVE  /\ Attempts(attempts') /\ DOMAIN attempts \subseteq DOMAIN attempts'
         /\ \A i \in DOMAIN attempts : attempts'[i].activity = attempts[i].activity
<1>0. Attempts(attempts)
  BY DEF TableInv, Attempts
<1>1. CASE UNCHANGED attempts
  BY <1>0, <1>1
<1>2. ASSUME NEW x, Evaluating(h), attempts' = [attempts EXCEPT ![run[h].attempt].status = x]
      PROVE  Attempts(attempts') /\ DOMAIN attempts \subseteq DOMAIN attempts'
             /\ \A i \in DOMAIN attempts : attempts'[i].activity = attempts[i].activity
  <2> DEFINE i0 == run[h].attempt
             row == [attempts[i0] EXCEPT !.status = x]
             S == {attempts[i] : i \in DOMAIN attempts}
  <2>1. i0 \in DOMAIN attempts
    BY <1>2 DEF TableInv, Sound
  <2>2. row.activity = attempts[i0].activity /\ "activity" \in DOMAIN row
    BY <1>0, <2>1 DEF Attempts
  <2>3. attempts' = [attempts EXCEPT ![i0] = row]
    BY <1>2
  <2>4. attempts \in Seq(S)
    BY <1>0 DEF Attempts
  <2> HIDE DEF row, i0, S
  <2>5. attempts' \in Seq(S \cup {row}) /\ Len(attempts') = Len(attempts) /\ DOMAIN attempts' = DOMAIN attempts
    BY <2>1, <2>3, <2>4
  <2>6. attempts'[i0] = row /\ \A i \in DOMAIN attempts \ {i0} : attempts'[i] = attempts[i]
    BY <2>1, <2>3, <2>4
  <2>7. attempts' \in Seq({attempts'[i] : i \in DOMAIN attempts'})
    BY <2>5, RangeSeq
  <2>8. QED BY <1>0, <2>2, <2>5, <2>6, <2>7 DEF Attempts
<1>3. CASE InsertAttempt(h)
  <2>1. PICK retry : attempts' = Append(attempts, [activity |-> run[h].skill, status |-> "ACTIVE", retry |-> retry, at |-> now])
    BY <1>3 DEF InsertAttempt
  <2> DEFINE row == [activity |-> run[h].skill, status |-> "ACTIVE", retry |-> retry, at |-> now]
  <2>2. "activity" \in DOMAIN row /\ row.activity \in DeclaredActivities
    BY <1>3 DEF InsertAttempt, TableInv, Sound
  <2>3. attempts \in Seq({attempts[i] : i \in DOMAIN attempts})
    BY <1>0 DEF Attempts
  <2> HIDE DEF row
  <2>4. attempts' = Append(attempts, row)
    BY <2>1 DEF row
  <2>5. /\ attempts' \in Seq({attempts'[i] : i \in DOMAIN attempts'}) /\ Len(attempts) \in Nat
        /\ DOMAIN attempts = 1 .. Len(attempts) /\ DOMAIN attempts' = 1 .. Len(attempts) + 1
        /\ Len(attempts') = Len(attempts) + 1
        /\ attempts'[Len(attempts) + 1] = row /\ \A i \in DOMAIN attempts : attempts'[i] = attempts[i]
    BY <2>3, <2>4, Appended
  <2>6. \A i \in DOMAIN attempts' : i \in DOMAIN attempts \/ i = Len(attempts) + 1
    BY <2>5
  <2>7. QED BY <1>0, <2>2, <2>5, <2>6 DEF Attempts
<1>4. CASE evaluate(h)
  BY <1>2, <1>4 DEF evaluate, Evaluating
<1>5. CASE EvaluateVerdict(h)
  BY <1>2, <1>5 DEF EvaluateVerdict, Evaluating
<1>6. QED
  BY <1>1, <1>3, <1>4, <1>5
     DEF Step, Evaluation, createAttempt, LockLearner, LockActivity, recordEloMatch, EvidenceRead, recordEvidence,
         SettleActivity, clearCooldownsForRemediatedSkills, Fail, tables

\* So an evaluation stays the evaluation of its activity.
LEMMA SameTarget ==
  ASSUME TableInv, NEW h \in Handlers, Step(h), NEW g \in Handlers, Evaluating(g), run'[g].attempt = run[g].attempt
  PROVE  Target(g)' = Target(g) /\ Anchor(g)' = Anchor(g)
BY AttemptsStay DEF TableInv, Sound, Target, Anchor

LEMMA SoundNext ==
  ASSUME TableInv, NEW h \in Handlers, Step(h)
  PROVE  \A g \in Handlers : Sound(g)'
<1>1. \A g \in Handlers \ {h} : Sound(g)'
  BY OthersStay, AttemptsStay DEF TableInv, Sound, Evaluating
<1>0. SUFFICES Sound(h)'
  BY <1>1
<1>2. Sound(h) /\ DOMAIN run = Handlers /\ DOMAIN attempts \subseteq DOMAIN attempts'
  BY AttemptsStay DEF TableInv
<1>3. ASSUME run'[h] = Idle PROVE Sound(h)'
  <2>1. DOMAIN Idle = RunFields /\ Idle.fresh \in BOOLEAN /\ Idle.learner \in Int /\ Idle.rating \in Int
        /\ Idle.pc = "idle" /\ Idle.todo = {}
    BY DEF Idle, RunFields
  <2>2. QED BY <1>3, <2>1 DEF Sound, Evaluating
<1>4. CASE \E a \in DeclaredActivities : createAttempt(h, a)
  BY <1>2, <1>4 DEF createAttempt, Sound, Evaluating, RunFields
<1>5. CASE InsertAttempt(h)
  <2>1. Len(attempts) + 1 \in DOMAIN attempts'
    <3>1. attempts \in Seq({attempts[i] : i \in DOMAIN attempts})
      BY DEF TableInv
    <3>2. \A x : Len(attempts) + 1 \in DOMAIN Append(attempts, x)
      BY <3>1, Appended
    <3>3. QED BY <1>5, <3>2 DEF InsertAttempt
  <2>2. run'[h] = [Idle EXCEPT !.pc = "work", !.attempt = Len(attempts) + 1]
    BY <1>2, <1>5 DEF InsertAttempt
  <2>3. QED BY <2>1, <2>2 DEF Sound, Evaluating, RunFields, Idle
<1>6. CASE evaluate(h)
  BY <1>2, <1>6 DEF evaluate, Sound, Evaluating, RunFields
<1>7. CASE LockLearner(h)
  <2> DEFINE e == IF Anchor(h) \in DOMAIN mastery THEN mastery[Anchor(h)].elo ELSE defaultRating
             f == Anchor(h) \notin DOMAIN mastery
  <2>1. e \in Int /\ f \in BOOLEAN
    BY DEF TableInv, defaultRating
  <2>2. run[h].pc = "elo" /\ run' = [run EXCEPT ![h].pc = "rival", ![h].fresh = f, ![h].learner = e]
    BY <1>7 DEF LockLearner
  <2> HIDE DEF e, f
  <2>3. QED BY <1>2, <2>1, <2>2 DEF Sound, Evaluating, RunFields
<1>8. CASE LockActivity(h)
  <2>1. difficulty[Target(h)] \in Int
    BY <1>8, Targets DEF LockActivity, Evaluating, TableInv
  <2>2. QED BY <1>2, <1>8, <2>1 DEF LockActivity, Sound, Evaluating, RunFields
<1>9. CASE recordEloMatch(h)
  <2>1. DOMAIN Activities[Target(h)].weights \subseteq Skills
    BY <1>9, Targets DEF recordEloMatch, Evaluating
  <2>2. PICK x : run' = [run EXCEPT ![h].pc = "evidence", ![h].adjust = x,
                          ![h].todo = DOMAIN Activities[Target(h)].weights]
    BY <1>9 DEF recordEloMatch
  <2>3. run[h].pc = "match"
    BY <1>9 DEF recordEloMatch
  <2>4. QED BY <1>2, <2>1, <2>2, <2>3 DEF Sound, Evaluating, RunFields
<1>10. CASE EvidenceRead(h)
  <2>1. run[h].pc = "evidence"
    BY <1>10 DEF EvidenceRead
  <2>2. PICK s \in run[h].todo : \E x : run' = [run EXCEPT ![h].pc = "update", ![h].skill = s, ![h].row = x]
    BY <1>10 DEF EvidenceRead
  <2>3. PICK x : run' = [run EXCEPT ![h].pc = "update", ![h].skill = s, ![h].row = x]
    BY <2>2
  <2>4. QED BY <1>2, <2>1, <2>3 DEF Sound, Evaluating, RunFields
<1>11. CASE recordEvidence(h)
  <2>1. run[h].pc = "update" /\ run' = [run EXCEPT ![h].pc = IF run[h].todo = {run[h].skill} THEN "verdict" ELSE "evidence",
                                                   ![h].todo = @ \ {run[h].skill}]
    BY <1>11 DEF recordEvidence, AfterSkill
  <2>2. QED BY <1>2, <2>1 DEF Sound, Evaluating, RunFields
<1>12. CASE EvaluateVerdict(h)
  BY <1>2, <1>12 DEF EvaluateVerdict, Sound, Evaluating, RunFields
<1>13. CASE SettleActivity(h)
  <2>1. CASE run'[h] = Idle
    BY <1>3, <2>1
  <2>2. CASE run'[h] = [run[h] EXCEPT !.pc = "clear"]
    BY <1>2, <1>13, <2>2 DEF SettleActivity, Sound, Evaluating, RunFields
  <2>3. QED BY <1>2, <1>13, <2>1, <2>2 DEF SettleActivity
<1>14. CASE clearCooldownsForRemediatedSkills(h)
  BY <1>2, <1>3, <1>14 DEF clearCooldownsForRemediatedSkills
<1>15. CASE Fail(h)
  BY <1>2, <1>3, <1>15 DEF Fail
<1>16. QED
  BY <1>4, <1>5, <1>6, <1>7, <1>8, <1>9, <1>10, <1>11, <1>12, <1>13, <1>14, <1>15 DEF Step, Evaluation

Rows(m) ==
    /\ seeded \subseteq DOMAIN m /\ DOMAIN m \subseteq Skills
    /\ \A s \in DOMAIN m : DOMAIN m[s] = RowFields /\ m[s].elo \in Int /\ m[s].count \in Nat

LEMMA PutRow ==
  ASSUME Rows(mastery), NEW s \in Skills, NEW row,
         DOMAIN row = RowFields, row.elo \in Int, row.count \in Nat
  PROVE  /\ Rows(Put(mastery, s, row)) /\ DOMAIN Put(mastery, s, row) = DOMAIN mastery \cup {s}
         /\ Put(mastery, s, row)[s] = row
         /\ \A r \in DOMAIN mastery \ {s} : Put(mastery, s, row)[r] = mastery[r]
BY DEF Rows, Put

\* The row an upsert starts from.
RowOf(s) == IF s \in DOMAIN mastery THEN mastery[s] ELSE NewRow
LEMMA RowOfIs ==
  ASSUME Rows(mastery), NEW s
  PROVE  DOMAIN RowOf(s) = RowFields /\ RowOf(s).elo \in Int /\ RowOf(s).count \in Nat
BY DEF Rows, RowOf, NewRow, RowFields, defaultRating

\* What a match does to the tables.
LEMMA MatchDoes ==
  ASSUME TableInv, NEW h \in Handlers, recordEloMatch(h)
  PROVE  LET s == Anchor(h)
             row == [RowOf(s) EXCEPT !.elo = Match(h).learner]
         IN /\ mastery' = Put(mastery, s, row)
            /\ DOMAIN row = RowFields /\ row.elo = Match(h).learner /\ row.count = RowOf(s).count /\ row.p = RowOf(s).p
            /\ s \in Skills /\ Match(h).learner \in Int
<1>1. Rows(mastery) /\ Anchor(h) \in Skills /\ Match(h).learner \in Int
  BY Targets, MatchInt DEF recordEloMatch, Evaluating, TableInv, Rows
<1>2. DOMAIN RowOf(Anchor(h)) = RowFields
  BY <1>1, RowOfIs
<1>3. mastery' = Put(mastery, Anchor(h), [RowOf(Anchor(h)) EXCEPT !.elo = Match(h).learner])
  BY DEF recordEloMatch, RowOf
<1>4. QED BY <1>1, <1>2, <1>3 DEF RowFields

\* What a piece of evidence does to them.
LEMMA EvidenceDoes ==
  ASSUME TableInv, NEW h \in Handlers, recordEvidence(h)
  PROVE  LET s == run[h].skill
         IN /\ s \in Skills
            /\ \E row : /\ mastery' = Put(mastery, s, row)
                        /\ DOMAIN row = RowFields /\ row.elo = RowOf(s).elo
                        /\ row.count = Counted(s) + 1 /\ row.p = Update(h).after
            /\ \E e : e.skill = s /\ e.after = Update(h).after /\ evidence' = Append(evidence, e)
<1> DEFINE s == run[h].skill
           r == Update(h)
           b == bandFor(r.after)
           row == [RowOf(s) EXCEPT !.p = r.after, !.last = now, !.count = Counted(s) + 1,
                                   !.band = b, !.due = computeReviewDueAt(b, now, run[h].row.due)]
           e == [skill |-> s, attempt |-> run[h].attempt, before |-> r.before, after |-> r.after]
<1>1. s \in Skills
  BY DEF recordEvidence, TableInv, Sound
<1>2. DOMAIN RowOf(s) = RowFields
  <2>1. Rows(mastery)
    BY DEF TableInv, Rows
  <2>2. QED BY <2>1, RowOfIs
<1>3. mastery' = Put(mastery, s, row) /\ evidence' = Append(evidence, e)
  BY DEF recordEvidence, Upsert, RowOf
<1> HIDE DEF r, b, s
<1>4. DOMAIN row = RowFields /\ row.elo = RowOf(s).elo /\ row.count = Counted(s) + 1 /\ row.p = r.after
  BY <1>2 DEF RowFields
<1>5. e.skill = s /\ e.after = r.after
  OBVIOUS
<1> HIDE DEF row, e
<1>6. QED BY <1>1, <1>3, <1>4, <1>5 DEF r, s

LEMMA TableInit == Init => TableInv
<1>1. SUFFICES ASSUME Init PROVE TableInv
  OBVIOUS
<1>2. DOMAIN Idle = RunFields /\ Idle.fresh \in BOOLEAN /\ Idle.learner \in Int /\ Idle.rating \in Int
      /\ Idle.pc = "idle" /\ Idle.todo = {}
  BY DEF Idle, RunFields
<1>3. DOMAIN run = Handlers /\ \A h \in Handlers : Sound(h)
  BY <1>1, <1>2 DEF Init, Sound, Evaluating
<1>4. attempts = <<>> /\ evidence = <<>>
  BY <1>1 DEF Init
<1>5. DOMAIN NewRow = RowFields /\ NewRow.elo = 1200 /\ NewRow.count = 0
  BY DEF NewRow, RowFields, defaultRating
<1>6. DOMAIN mastery = seeded /\ seeded \subseteq Skills /\ \A s \in DOMAIN mastery : mastery[s] = NewRow
  BY <1>1, MasteryAssumption DEF Init
<1>7. /\ difficulty \in [DeclaredActivities -> Int]
      /\ played \in [Skills \cup DeclaredActivities -> Int]
      /\ locks \in [Skills \cup DeclaredActivities -> Handlers \cup {Unlocked}]
  BY <1>1 DEF Init, defaultRating
<1>8. DOMAIN attempts = 1 .. Len(attempts) /\ Len(attempts) \in Nat /\ DOMAIN attempts = {}
  BY <1>4
<1>9. <<>> \in Seq({<<>>[i] : i \in DOMAIN <<>>})
  OBVIOUS
<1>10. QED BY <1>3, <1>4, <1>5, <1>6, <1>7, <1>8, <1>9 DEF TableInv

LEMMA TableStep ==
  ASSUME TableInv, NEW h \in Handlers, Step(h)
  PROVE  TableInv'
<1>1. DOMAIN run' = Handlers /\ (\A g \in Handlers : Sound(g)') /\ Attempts(attempts')
  BY OthersStay, SoundNext, AttemptsStay
<1>2. UNCHANGED seeded
  BY DEF Step, Evaluation, createAttempt, InsertAttempt, evaluate, LockLearner, LockActivity, recordEloMatch,
         EvidenceRead, recordEvidence, EvaluateVerdict, SettleActivity, clearCooldownsForRemediatedSkills, Fail, history
<1>3. Rows(mastery')
  <2>0. Rows(mastery)
    BY DEF TableInv, Rows
  <2>1. CASE recordEloMatch(h)
    <3>1. PICK row : /\ mastery' = Put(mastery, Anchor(h), row) /\ DOMAIN row = RowFields
                     /\ row.elo \in Int /\ row.count = RowOf(Anchor(h)).count /\ Anchor(h) \in Skills
      BY <2>1, MatchDoes
    <3>2. QED BY <2>0, <3>1, PutRow, RowOfIs
  <2>2. CASE recordEvidence(h)
    <3>1. PICK row : /\ mastery' = Put(mastery, run[h].skill, row) /\ DOMAIN row = RowFields
                     /\ row.elo = RowOf(run[h].skill).elo /\ row.count = Counted(run[h].skill) + 1
                     /\ run[h].skill \in Skills
      BY <2>2, EvidenceDoes
    <3>2. Counted(run[h].skill) \in Nat
      BY <2>0 DEF Counted, Rows
    <3>3. row.elo \in Int /\ row.count \in Nat
      BY <2>0, <3>1, <3>2, RowOfIs
    <3>4. QED BY <2>0, <3>1, <3>3, PutRow
  <2>3. CASE UNCHANGED mastery
    BY <2>0, <2>3
  <2>4. QED
    BY <2>1, <2>2, <2>3
       DEF Step, Evaluation, createAttempt, InsertAttempt, evaluate, LockLearner, LockActivity, EvidenceRead,
           EvaluateVerdict, SettleActivity, clearCooldownsForRemediatedSkills, Fail, tables
<1>4. difficulty' \in [DeclaredActivities -> Int] /\ played' \in [Skills \cup DeclaredActivities -> Int]
  <2>1. CASE recordEloMatch(h)
    <3>1. /\ Match(h).learner \in Int /\ Match(h).activity \in Int /\ run[h].learner \in Int /\ run[h].rating \in Int
          /\ Target(h) \in DeclaredActivities /\ Anchor(h) \in Skills
      BY <2>1, MatchInt, Targets DEF recordEloMatch, Evaluating, TableInv, Sound
    <3>2. /\ difficulty' = [difficulty EXCEPT ![Target(h)] = Match(h).activity]
          /\ played' = [played EXCEPT ![Anchor(h)] = @ + Match(h).learner - run[h].learner,
                                      ![Target(h)] = @ + Match(h).activity - run[h].rating]
      BY <2>1 DEF recordEloMatch
    <3>3. difficulty \in [DeclaredActivities -> Int] /\ played \in [Skills \cup DeclaredActivities -> Int]
      BY DEF TableInv
    <3>4. QED BY <3>1, <3>2, <3>3
  <2>2. CASE UNCHANGED <<difficulty, played>>
    BY <2>2 DEF TableInv
  <2>3. QED
    BY <2>1, <2>2
       DEF Step, Evaluation, createAttempt, InsertAttempt, evaluate, LockLearner, LockActivity, EvidenceRead,
           recordEvidence, EvaluateVerdict, SettleActivity, clearCooldownsForRemediatedSkills, Fail, tables, history
<1>5. locks' \in [Skills \cup DeclaredActivities -> Handlers \cup {Unlocked}]
  <2>1. locks' \in {locks, Release(h), [locks EXCEPT ![Anchor(h)] = h], [locks EXCEPT ![Target(h)] = h]}
    BY DEF Step, Evaluation, createAttempt, InsertAttempt, evaluate, LockLearner, LockActivity, recordEloMatch,
           EvidenceRead, recordEvidence, EvaluateVerdict, SettleActivity, clearCooldownsForRemediatedSkills, Fail
  <2>2. QED BY <2>1 DEF TableInv, Release
<1>6. evidence' \in Seq({evidence'[i] : i \in DOMAIN evidence'})
  <2>0. evidence \in Seq({evidence[i] : i \in DOMAIN evidence})
    BY DEF TableInv
  <2>1. evidence' = evidence \/ \E x : evidence' = Append(evidence, x)
    BY DEF Step, Evaluation, createAttempt, InsertAttempt, evaluate, LockLearner, LockActivity, recordEloMatch,
           EvidenceRead, recordEvidence, Upsert, EvaluateVerdict, SettleActivity, clearCooldownsForRemediatedSkills,
           Fail, tables
  <2>2. ASSUME NEW x, evidence' = Append(evidence, x) PROVE evidence' \in Seq({evidence'[i] : i \in DOMAIN evidence'})
    BY <2>0, <2>2, Appended
  <2>3. QED BY <2>0, <2>1, <2>2
<1>7. QED BY <1>1, <1>2, <1>3, <1>4, <1>5, <1>6 DEF TableInv, Attempts, Rows

LEMMA TableNext ==
  ASSUME TableInv, [Next]_vars
  PROVE  TableInv'
<1>1. CASE Tick \/ UNCHANGED vars
  BY <1>1, ZenonT(30) DEF Tick, vars, tables, history, TableInv, Sound, Evaluating
<1>2. QED BY <1>1, TableStep DEF Next, Step

-----------------------------------------------------------------------------
(* The locks *)

\* A step that touches only rows that are free, or its own, leaves the others
\* what they hold.
LEMMA OthersKeepLocks ==
  ASSUME TableInv, LockInv, NEW h \in Handlers, Step(h), LocksOf(h)', UNCHANGED seeded,
         \A x \in Skills \cup DeclaredActivities :
            locks'[x] = locks[x] \/ (locks[x] \in {h, Unlocked} /\ locks'[x] \in {h, Unlocked}),
         \A s \in DOMAIN mastery : s \in DOMAIN mastery' /\ (mastery'[s].elo = mastery[s].elo \/ locks[s] \in {h, Unlocked}),
         \A a \in DeclaredActivities : difficulty'[a] = difficulty[a] \/ locks[a] \in {h, Unlocked}
  PROVE  LockInv'
<1>1. SUFFICES ASSUME NEW g \in Handlers \ {h} PROVE LocksOf(g)'
  BY DEF LockInv
<1>2. run'[g] = run[g] /\ LocksOf(g) /\ g # Unlocked
  BY OthersStay, MasteryAssumption DEF LockInv, Unlocked
<1>3. Evaluating(g) => /\ Target(g)' = Target(g) /\ Anchor(g)' = Anchor(g)
                       /\ Target(g) \in DeclaredActivities /\ Anchor(g) \in Skills
  BY <1>2, SameTarget, Targets
<1>4. \A x \in Skills \cup DeclaredActivities : (locks'[x] = g) <=> (locks[x] = g)
  BY <1>2
<1>5. Playing(g) => Evaluating(g)
  BY DEF Playing, Evaluating
<1>6. Playing(g)' <=> Playing(g)
  BY <1>2 DEF Playing
<1>7. ASSUME NEW x \in Skills \cup DeclaredActivities, locks'[x] = g
      PROVE  \/ Playing(g)' /\ x = Anchor(g)' /\ ~run'[g].fresh
             \/ run'[g].pc = "match" /\ x = Target(g)'
  BY <1>2, <1>3, <1>4, <1>5, <1>6, <1>7 DEF LocksOf, Playing
<1>8. Playing(g)' /\ ~run'[g].fresh => /\ locks'[Anchor(g)'] = g
                                       /\ Anchor(g)' \in DOMAIN mastery'
                                       /\ run'[g].learner = mastery'[Anchor(g)'].elo
  BY <1>2, <1>3, <1>4, <1>5, <1>6 DEF LocksOf
<1>9. Playing(g)' /\ run'[g].fresh => Anchor(g)' \notin seeded'
  BY <1>2, <1>3, <1>5, <1>6 DEF LocksOf
<1>10. run'[g].pc = "match" => locks'[Target(g)'] = g /\ run'[g].rating = difficulty'[Target(g)']
  BY <1>2, <1>3, <1>4, <1>5 DEF LocksOf, Playing
<1>11. QED BY <1>7, <1>8, <1>9, <1>10 DEF LocksOf

\* Outside a match a handler holds nothing.
LEMMA HoldsNothing ==
  ASSUME LockInv, NEW h \in Handlers, ~Playing(h)
  PROVE  \A x \in Skills \cup DeclaredActivities : locks[x] # h
BY DEF LockInv, LocksOf, Playing

LEMMA LocksInit == Init => LockInv
<1>1. SUFFICES ASSUME Init, NEW h \in Handlers PROVE LocksOf(h)
  BY DEF LockInv
<1>2. run[h].pc = "idle"
  BY <1>1 DEF Init, Idle
<1>3. \A x \in Skills \cup DeclaredActivities : locks[x] # h
  BY <1>1, MasteryAssumption DEF Init, Unlocked
<1>4. QED BY <1>2, <1>3 DEF LocksOf, Playing

LEMMA LocksStep ==
  ASSUME TableInv, LockInv, NEW h \in Handlers, Step(h)
  PROVE  LockInv'
<1>0. /\ DOMAIN run = Handlers /\ DOMAIN run[h] = RunFields /\ run[h].fresh \in BOOLEAN /\ LocksOf(h) /\ h # Unlocked
      /\ DOMAIN locks = Skills \cup DeclaredActivities /\ seeded \subseteq DOMAIN mastery
      /\ difficulty \in [DeclaredActivities -> Int]
  BY MasteryAssumption DEF TableInv, Sound, LockInv, Unlocked
<1>1. ASSUME ~Playing(h), ~Playing(h)', UNCHANGED <<locks, mastery, difficulty, seeded>> PROVE LockInv'
  <2>1. LocksOf(h)'
    BY <1>1, HoldsNothing DEF LocksOf, Playing
  <2>2. QED BY <1>1, <2>1, OthersKeepLocks
<1>2. CASE (\E a \in DeclaredActivities : createAttempt(h, a)) \/ evaluate(h) \/ EvidenceRead(h) \/ EvaluateVerdict(h)
  <2>1. UNCHANGED <<locks, mastery, difficulty, seeded>>
    BY <1>2 DEF createAttempt, evaluate, EvidenceRead, EvaluateVerdict, tables, history
  <2>2. /\ run[h].pc \in {"idle", "work", "evidence", "verdict"}
        /\ run'[h].pc \in {"create", "elo", "update", "settle"}
    <3>1. CASE \E a \in DeclaredActivities : createAttempt(h, a)
      BY <1>0, <3>1 DEF createAttempt, RunFields
    <3>2. CASE evaluate(h)
      BY <1>0, <3>2 DEF evaluate, RunFields
    <3>3. CASE EvidenceRead(h)
      <4>1. run[h].pc = "evidence" /\ \E s, x : run' = [run EXCEPT ![h].pc = "update", ![h].skill = s, ![h].row = x]
        BY <3>3 DEF EvidenceRead
      <4>2. QED BY <1>0, <4>1 DEF RunFields
    <3>4. CASE EvaluateVerdict(h)
      BY <1>0, <3>4 DEF EvaluateVerdict, RunFields
    <3>5. QED BY <1>2, <3>1, <3>2, <3>3, <3>4
  <2>3. QED BY <1>1, <2>1, <2>2 DEF Playing
<1>3. CASE InsertAttempt(h)
  <2>1. run'[h].pc = "work"
    <3>1. run'[h] = [Idle EXCEPT !.pc = "work", !.attempt = Len(attempts) + 1]
      BY <1>0, <1>3 DEF InsertAttempt
    <3>2. QED BY <3>1 DEF Idle
  <2>2. QED BY <1>1, <1>3, <2>1 DEF InsertAttempt, Playing, history
<1>4. CASE SettleActivity(h) \/ clearCooldownsForRemediatedSkills(h)
  <2>1. Idle.pc = "idle"
    BY DEF Idle
  <2>2. run'[h].pc \in {"idle", "clear"}
    BY <1>0, <1>4, <2>1 DEF SettleActivity, clearCooldownsForRemediatedSkills, RunFields
  <2>3. QED BY <1>1, <1>4, <2>2 DEF SettleActivity, clearCooldownsForRemediatedSkills, Playing, history
<1>5. CASE recordEvidence(h)
  <2>1. ~Playing(h) /\ ~Playing(h)' /\ UNCHANGED <<locks, difficulty, seeded>>
    BY <1>0, <1>5 DEF recordEvidence, AfterSkill, Playing, RunFields, history
  <2>2. LocksOf(h)'
    BY <2>1, HoldsNothing DEF LocksOf, Playing
  <2>3. \A s \in DOMAIN mastery : s \in DOMAIN mastery' /\ mastery'[s].elo = mastery[s].elo
    <3>1. PICK row : mastery' = Put(mastery, run[h].skill, row) /\ row.elo = RowOf(run[h].skill).elo
      BY <1>5, EvidenceDoes
    <3>2. QED BY <3>1 DEF Put, RowOf
  <2>4. QED BY <2>1, <2>2, <2>3, OthersKeepLocks
<1>6. CASE LockLearner(h)
  <2> DEFINE s == Anchor(h)
  <2>1. /\ run[h].pc = "elo" /\ Free(s, h) /\ UNCHANGED <<mastery, difficulty, seeded, attempts>>
        /\ locks' = IF s \in DOMAIN mastery THEN [locks EXCEPT ![s] = h] ELSE locks
        /\ run' = [run EXCEPT ![h].pc = "rival", ![h].fresh = s \notin DOMAIN mastery,
                              ![h].learner = IF s \in DOMAIN mastery THEN mastery[s].elo ELSE defaultRating]
    BY <1>6 DEF LockLearner, tables, history
  <2>2. s \in Skills /\ ~Playing(h) /\ Evaluating(h)
    BY <2>1, Targets DEF Playing, Evaluating
  <2>3. \A x \in Skills \cup DeclaredActivities : locks[x] # h
    BY <2>2, HoldsNothing
  <2> HIDE DEF s
  <2>4. /\ run'[h].pc = "rival" /\ run'[h].fresh = (s \notin DOMAIN mastery) /\ run'[h].attempt = run[h].attempt
        /\ (s \in DOMAIN mastery => run'[h].learner = mastery[s].elo)
    BY <1>0, <2>1 DEF RunFields
  <2>5. Anchor(h)' = s
    BY <2>2, <2>4, SameTarget DEF s
  <2>6. LocksOf(h)'
    BY <1>0, <2>1, <2>2, <2>3, <2>4, <2>5 DEF LocksOf, Playing
  <2>7. \A x \in Skills \cup DeclaredActivities :
            locks'[x] = locks[x] \/ (locks[x] \in {h, Unlocked} /\ locks'[x] \in {h, Unlocked})
    BY <1>0, <2>1, <2>2 DEF Free
  <2>8. QED BY <2>1, <2>6, <2>7, OthersKeepLocks
<1>7. CASE LockActivity(h)
  <2>1. /\ run[h].pc = "rival" /\ Free(Target(h), h) /\ UNCHANGED <<mastery, difficulty, seeded, attempts>>
        /\ locks' = [locks EXCEPT ![Target(h)] = h]
        /\ run' = [run EXCEPT ![h].pc = "match", ![h].rating = difficulty[Target(h)]]
    BY <1>7 DEF LockActivity, tables, history
  <2>2. Evaluating(h) /\ Playing(h)
    BY <2>1 DEF Evaluating, Playing
  <2>3. Target(h) \in DeclaredActivities /\ Anchor(h) \in Skills /\ Target(h) \notin Skills
    BY <2>2, Targets
  <2>4. /\ run'[h].pc = "match" /\ run'[h].fresh = run[h].fresh /\ run'[h].learner = run[h].learner
        /\ run'[h].rating = difficulty[Target(h)] /\ run'[h].attempt = run[h].attempt
    BY <1>0, <2>1 DEF RunFields
  <2>5. Target(h)' = Target(h) /\ Anchor(h)' = Anchor(h)
    BY <2>2, <2>4, SameTarget
  <2>6. locks'[Target(h)] = h /\ \A x \in Skills \cup DeclaredActivities : x # Target(h) => locks'[x] = locks[x]
    BY <1>0, <2>1, <2>3
  <2>7. LocksOf(h)'
    BY <1>0, <2>1, <2>2, <2>3, <2>4, <2>5, <2>6 DEF LocksOf, Playing
  <2>8. \A x \in Skills \cup DeclaredActivities :
            locks'[x] = locks[x] \/ (locks[x] \in {h, Unlocked} /\ locks'[x] \in {h, Unlocked})
    BY <2>1, <2>6 DEF Free
  <2>9. QED BY <2>1, <2>7, <2>8, OthersKeepLocks
<1>8. ASSUME locks' = Release(h), ~Playing(h)' PROVE
        /\ LocksOf(h)'
        /\ \A x \in Skills \cup DeclaredActivities :
            locks'[x] = locks[x] \/ (locks[x] \in {h, Unlocked} /\ locks'[x] \in {h, Unlocked})
  <2>1. \A x \in Skills \cup DeclaredActivities : locks'[x] = IF locks[x] = h THEN Unlocked ELSE locks[x]
    BY <1>0, <1>8 DEF Release
  <2>2. QED BY <1>0, <1>8, <2>1 DEF LocksOf, Playing
<1>9. CASE recordEloMatch(h)
  <2>1. /\ run[h].pc = "match" /\ Free(Anchor(h), h) /\ locks' = Release(h) /\ UNCHANGED seeded
        /\ difficulty' = [difficulty EXCEPT ![Target(h)] = Match(h).activity]
    BY <1>9 DEF recordEloMatch
  <2>2. ~Playing(h)'
    <3>1. run'[h].pc = "evidence"
      BY <1>0, <1>9 DEF recordEloMatch, RunFields
    <3>2. QED BY <3>1 DEF Playing
  <2>3. Anchor(h) \in Skills /\ locks[Target(h)] = h
    BY <1>0, <2>1, Targets DEF Evaluating, LocksOf
  <2>4. \A s \in DOMAIN mastery : s \in DOMAIN mastery' /\ (s # Anchor(h) => mastery'[s] = mastery[s])
    <3>1. PICK row : mastery' = Put(mastery, Anchor(h), row)
      BY <1>9, MatchDoes
    <3>2. QED BY <3>1 DEF Put
  <2>5. QED BY <1>0, <1>8, <2>1, <2>2, <2>3, <2>4, OthersKeepLocks DEF Free
<1>10. CASE Fail(h)
  <2>1. locks' = Release(h) /\ UNCHANGED <<mastery, difficulty, seeded>> /\ run'[h] = Idle
    BY <1>0, <1>10 DEF Fail, tables, history
  <2>2. ~Playing(h)'
    <3>1. Idle.pc = "idle"
      BY DEF Idle
    <3>2. QED BY <2>1, <3>1 DEF Playing
  <2>3. QED BY <1>8, <2>1, <2>2, OthersKeepLocks
<1>11. QED BY <1>2, <1>3, <1>4, <1>5, <1>6, <1>7, <1>9, <1>10 DEF Step, Evaluation

LEMMA LocksNext ==
  ASSUME TableInv, LockInv, [Next]_vars
  PROVE  LockInv'
<1>1. CASE Tick \/ UNCHANGED vars
  <2>1. UNCHANGED <<run, locks, mastery, seeded, difficulty, attempts>>
    BY <1>1 DEF Tick, vars, tables, history
  <2>2. ASSUME NEW h \in Handlers PROVE LocksOf(h)'
    <3>1. LocksOf(h)
      BY DEF LockInv
    <3>2. UNCHANGED <<Playing(h), Anchor(h), Target(h)>>
      BY <2>1 DEF Playing, Anchor, Target
    <3>3. QED BY <2>1, <3>1, <3>2 DEF LocksOf
  <2>3. QED BY <2>2 DEF LockInv
<1>2. QED BY <1>1, LocksStep DEF Next, Step

-----------------------------------------------------------------------------
(* Results *)

\* mastery.service.ts, recordEloMatch and recordEvidence: two evaluations wait
\* for each other only if one of them is a learner's first match on a skill,
\* for any number of concurrent evaluations and activities: a match that found
\* its row holds it before it asks for the activity, and evidence holds nothing.
THEOREM DeadlocksNeedFirstMatch == Spec => []DeadlockNeedsFirstMatch
<1>1. TableInv /\ LockInv => DeadlockNeedsFirstMatch
  <2>1. SUFFICES ASSUME TableInv, LockInv, NEW h \in Handlers, NEW g \in Handlers,
                        WaitsFor(h, g), WaitsFor(g, h), ~run[h].fresh, ~run[g].fresh
                 PROVE  FALSE
    BY DEF DeadlockNeedsFirstMatch
  <2>2. ASSUME NEW f \in Handlers, NEW e \in Handlers, WaitsFor(f, e), Playing(f), ~run[f].fresh, ~run[e].fresh
        PROVE  run[f].pc = "rival" /\ run[e].pc = "match"
    <3>1. Target(f) \in DeclaredActivities /\ Target(f) \notin Skills /\ LocksOf(e) /\ LocksOf(f) /\ f # e
      BY <2>1, <2>2, Targets DEF Playing, Evaluating, LockInv, WaitsFor
    <3>2. CASE run[f].pc = "match"
      <4>1. locks[Anchor(f)] = e
        BY <2>2, <3>2 DEF WaitsFor, Wanted
      <4>2. QED BY <2>2, <3>1, <4>1 DEF LocksOf
    <3>3. CASE run[f].pc = "rival"
      <4>1. locks[Target(f)] = e
        BY <2>2, <3>3 DEF WaitsFor, Wanted
      <4>2. run[e].pc = "match" \/ (Playing(e) /\ Target(f) = Anchor(e))
        BY <3>1, <4>1 DEF LocksOf
      <4>3. Playing(e) => Anchor(e) \in Skills
        BY <2>1, Targets DEF Playing, Evaluating
      <4>4. QED BY <3>1, <3>3, <4>2, <4>3
    <3>4. QED BY <2>2, <3>2, <3>3 DEF Playing
  <2>3. ASSUME NEW f \in Handlers, NEW e \in Handlers, WaitsFor(f, e) PROVE Playing(e)
    <3>1. PICK x \in Wanted(f) : locks[x] = e
      BY <2>3 DEF WaitsFor
    <3>2. x \in Skills \cup DeclaredActivities
      <4>1. Wanted(f) \in {{Anchor(f)}, {Target(f)}, {run[f].skill}, {}}
        BY DEF Wanted
      <4>2. CASE run[f].pc \in {"elo", "match", "rival"}
        BY <2>1, <3>1, <4>2, Targets DEF Wanted, Evaluating
      <4>3. CASE run[f].pc = "update"
        BY <2>1, <3>1, <4>3 DEF Wanted, TableInv, Sound
      <4>4. CASE run[f].pc \notin {"elo", "match", "rival", "update"}
        BY <3>1, <4>4 DEF Wanted
      <4>5. QED BY <4>2, <4>3, <4>4
    <3>3. QED BY <2>1, <3>1, <3>2, HoldsNothing
  <2>4. Playing(h) /\ Playing(g)
    BY <2>1, <2>3
  <2>5. run[h].pc = "rival" /\ run[h].pc = "match"
    BY <2>1, <2>2, <2>4
  <2>6. QED BY <2>5
<1>2. QED BY <1>1, TableInit, TableNext, LocksInit, LocksNext, PTL DEF Spec

LEMMA RatingsNext ==
  ASSUME TableInv, LockInv, RatingCountsEveryMatch, [Next]_vars
  PROVE  RatingCountsEveryMatch'
<1>1. ASSUME NEW h \in Handlers, recordEloMatch(h) PROVE RatingCountsEveryMatch'
  <2> DEFINE s == Anchor(h)
             a == Target(h)
  <2>1. /\ run[h].pc = "match" /\ UNCHANGED seeded
        /\ difficulty' = [difficulty EXCEPT ![a] = Match(h).activity]
        /\ played' = [played EXCEPT ![s] = @ + Match(h).learner - run[h].learner,
                                    ![a] = @ + Match(h).activity - run[h].rating]
    BY <1>1 DEF recordEloMatch
  <2>2. Evaluating(h) /\ Playing(h) /\ LocksOf(h)
    BY <2>1 DEF Evaluating, Playing, LockInv
  <2>3. /\ a \in DeclaredActivities /\ s \in Skills /\ a \notin Skills /\ s \notin DeclaredActivities
        /\ Match(h).learner \in Int /\ Match(h).activity \in Int
    BY <2>2, Targets, MatchInt, MasteryAssumption DEF DeclaredActivities
  <2>4. /\ difficulty \in [DeclaredActivities -> Int] /\ played \in [Skills \cup DeclaredActivities -> Int]
        /\ run[h].learner \in Int /\ run[h].rating \in Int /\ seeded \subseteq DOMAIN mastery /\ DOMAIN mastery \subseteq Skills
        /\ run[h].fresh \in BOOLEAN
    BY DEF TableInv, Sound
  <2>5. run[h].rating = difficulty[a] /\ (s \in seeded => run[h].learner = mastery[s].elo)
    BY <2>1, <2>2, <2>4 DEF LocksOf
  <2>6. mastery'[s].elo = Match(h).learner /\ \A r \in DOMAIN mastery \ {s} : mastery'[r] = mastery[r]
    <3>1. PICK row : mastery' = Put(mastery, s, row) /\ row.elo = Match(h).learner
      BY <1>1, MatchDoes
    <3>2. QED BY <3>1 DEF Put
  <2> HIDE DEF s, a
  <2>7. /\ difficulty[a] = defaultRating + played[a]
        /\ s \in seeded => mastery[s].elo = defaultRating + played[s]
        /\ \A b \in DeclaredActivities : difficulty[b] = defaultRating + played[b]
        /\ \A r \in seeded : mastery[r].elo = defaultRating + played[r]
    BY <2>3 DEF RatingCountsEveryMatch
  <2>8. /\ played'[s] = played[s] + Match(h).learner - run[h].learner
        /\ played'[a] = played[a] + Match(h).activity - run[h].rating
        /\ \A x \in Skills \cup DeclaredActivities : x # s /\ x # a => played'[x] = played[x]
    BY <2>1, <2>3, <2>4
  <2>9. ASSUME NEW b \in DeclaredActivities PROVE difficulty'[b] = defaultRating + played'[b]
    <3>1. CASE b = a
      BY <2>1, <2>3, <2>4, <2>5, <2>7, <2>8, <3>1 DEF defaultRating
    <3>2. CASE b # a
      BY <2>1, <2>3, <2>4, <2>7, <2>8, <3>2
    <3>3. QED BY <3>1, <3>2
  <2>10. ASSUME NEW r \in seeded PROVE mastery'[r].elo = defaultRating + played'[r]
    <3>1. CASE r = s
      BY <2>3, <2>4, <2>5, <2>6, <2>7, <2>8, <3>1 DEF defaultRating
    <3>2. CASE r # s
      BY <2>3, <2>4, <2>6, <2>7, <2>8, <3>2
    <3>3. QED BY <3>1, <3>2
  <2>11. QED BY <2>1, <2>9, <2>10 DEF RatingCountsEveryMatch
<1>2. ASSUME NEW h \in Handlers, recordEvidence(h) PROVE RatingCountsEveryMatch'
  <2>1. UNCHANGED <<difficulty, played, seeded>> /\ seeded \subseteq DOMAIN mastery
    BY <1>2 DEF recordEvidence, history, TableInv
  <2>2. \A r \in DOMAIN mastery : mastery'[r].elo = mastery[r].elo
    <3>1. PICK row : mastery' = Put(mastery, run[h].skill, row) /\ row.elo = RowOf(run[h].skill).elo
      BY <1>2, EvidenceDoes
    <3>2. QED BY <3>1 DEF Put, RowOf
  <2>3. QED BY <2>1, <2>2 DEF RatingCountsEveryMatch
<1>3. CASE UNCHANGED <<difficulty, played, seeded, mastery>>
  BY <1>3 DEF RatingCountsEveryMatch
<1>4. QED
  BY <1>1, <1>2, <1>3, ZenonT(30)
     DEF Next, Evaluation, createAttempt, InsertAttempt, evaluate, LockLearner, LockActivity, EvidenceRead,
         EvaluateVerdict, SettleActivity, clearCooldownsForRemediatedSkills, Fail, Tick, vars, tables, history

\* mastery.service.ts, recordEloMatch: no committed match of an activity, or of
\* a learner whose row existed, is lost, whatever evaluations run at once, fail
\* or die: what a match adds was computed from the rating that is still there.
THEOREM RatingsCountEveryMatch == Spec => []RatingCountsEveryMatch
<1>1. Init => RatingCountsEveryMatch
  <2>1. SUFFICES ASSUME Init PROVE RatingCountsEveryMatch
    OBVIOUS
  <2>2. NewRow.elo = 1200
    BY DEF NewRow, defaultRating
  <2>3. seeded \subseteq Skills
    BY <2>1, MasteryAssumption DEF Init
  <2>4. QED BY <2>1, <2>2, <2>3 DEF Init, RatingCountsEveryMatch, defaultRating
<1>2. QED BY <1>1, TableInit, TableNext, LocksInit, LocksNext, RatingsNext, PTL DEF Spec

LEMMA LeastNatural ==
  ASSUME NEW S \in SUBSET Nat, S # {}
  PROVE  \E x \in S : \A y \in S : x <= y
<1> DEFINE U == {0 .. x : x \in S}
<1>1. \A x \in S : 0 .. x \in FiniteSubsetsOf(Nat)
  BY FS_Interval DEF FiniteSubsetsOf
<1>2. U \subseteq FiniteSubsetsOf(Nat) /\ U # {}
  BY <1>1
<1>3. PICK u \in U : \A v \in U : ~(<<v, u>> \in StrictSubsetOrdering(Nat))
  <2> HIDE DEF U
  <2> QED BY <1>2, WFMin, FS_StrictSubsetOrderingWellFounded
<1>4. PICK x \in S : u = 0 .. x
  OBVIOUS
<1>5. ASSUME NEW y \in S, y < x PROVE FALSE
  <2>1. 0 .. y \subseteq 0 .. x /\ x \in 0 .. x /\ x \notin 0 .. y
    BY <1>5
  <2>2. <<0 .. y, 0 .. x>> \in StrictSubsetOrdering(Nat)
    BY <2>1, <1>1 DEF StrictSubsetOrdering, FiniteSubsetsOf
  <2>3. QED BY <1>3, <1>4, <2>2
<1>6. QED BY <1>5

\* Among positions of a log there is a last one.
LEMMA LastPosition ==
  ASSUME NEW n \in Nat, NEW S \in SUBSET (1 .. n), S # {}
  PROVE  Max(S) \in S /\ \A y \in S : Max(S) >= y
<1> DEFINE T == {k \in Nat : n - k \in S}
<1>1. PICK x \in S : TRUE
  OBVIOUS
<1>2. n - x \in T
  BY <1>1
<1>3. PICK t \in T : \A y \in T : t <= y
  <2>1. T \in SUBSET Nat /\ T # {}
    BY <1>2
  <2> HIDE DEF T
  <2> QED BY <2>1, LeastNatural
<1>4. \A y \in S : n - y \in T
  OBVIOUS
<1>5. n - t \in S /\ \A y \in S : n - t >= y
  BY <1>3, <1>4
<1>6. QED BY <1>5 DEF Max

LEMMA EvidenceFinite ==
  ASSUME TableInv, NEW s
  PROVE  /\ DOMAIN evidence = 1 .. Len(evidence) /\ Len(evidence) \in Nat
         /\ IsFiniteSet(EvidenceOf(s)) /\ Cardinality(EvidenceOf(s)) \in Nat
<1>1. DOMAIN evidence = 1 .. Len(evidence) /\ Len(evidence) \in Nat
  BY Appended DEF TableInv
<1>2. IsFiniteSet(DOMAIN evidence)
  BY <1>1, FS_Interval
<1>3. IsFiniteSet(EvidenceOf(s))
  BY <1>2, FS_Subset DEF EvidenceOf
<1>4. QED BY <1>1, <1>3, FS_CardinalityType

LEMMA EvidenceNext ==
  ASSUME TableInv, EvidenceInv, [Next]_vars
  PROVE  EvidenceInv'
<1>1. CASE UNCHANGED <<mastery, evidence>>
  BY <1>1 DEF EvidenceInv, EvidenceExplainsMastery, EvidenceOf
<1>2. ASSUME NEW h \in Handlers, recordEloMatch(h) PROVE EvidenceInv'
  <2> DEFINE s == Anchor(h)
  <2>1. PICK row : /\ mastery' = Put(mastery, s, row) /\ row.count = RowOf(s).count /\ row.p = RowOf(s).p /\ s \in Skills
    BY <1>2, MatchDoes
  <2>2. UNCHANGED evidence /\ \A r : EvidenceOf(r)' = EvidenceOf(r)
    BY <1>2 DEF recordEloMatch, EvidenceOf
  <2> HIDE DEF s
  <2>3. DOMAIN mastery' = DOMAIN mastery \cup {s} /\ mastery'[s] = row /\ \A r \in DOMAIN mastery \ {s} : mastery'[r] = mastery[r]
    BY <2>1 DEF Put
  <2>4. s \notin DOMAIN mastery => EvidenceOf(s) = {} /\ row.count = 0 /\ row.p = BktParams.pInit
    <3>1. NewRow.count = 0 /\ NewRow.p = BktParams.pInit
      BY DEF NewRow
    <3>2. QED BY <2>1, <3>1 DEF EvidenceInv, RowOf
  <2>5. Cardinality({}) = 0
    BY FS_EmptySet
  <2>6. ASSUME NEW r \in DOMAIN mastery'
        PROVE  /\ mastery'[r].count = Cardinality(EvidenceOf(r))
               /\ mastery'[r].p = IF EvidenceOf(r) = {} THEN BktParams.pInit ELSE evidence[Max(EvidenceOf(r))].after
    <3>1. CASE r \in DOMAIN mastery
      <4>1. mastery'[r].count = mastery[r].count /\ mastery'[r].p = mastery[r].p
        BY <2>1, <2>3, <3>1 DEF RowOf
      <4>2. QED BY <3>1, <4>1 DEF EvidenceInv, EvidenceExplainsMastery
    <3>2. CASE r \notin DOMAIN mastery
      BY <2>3, <2>4, <2>5, <2>6, <3>2
    <3>3. QED BY <3>1, <3>2
  <2>7. \A r \in Skills \ DOMAIN mastery' : EvidenceOf(r) = {}
    BY <2>3 DEF EvidenceInv
  <2>8. QED BY <2>2, <2>6, <2>7 DEF EvidenceInv, EvidenceExplainsMastery
<1>3. ASSUME NEW h \in Handlers, recordEvidence(h) PROVE EvidenceInv'
  <2>0. PICK s, u, n : s = run[h].skill /\ u = Update(h).after /\ n = Len(evidence) + 1
    OBVIOUS
  <2>1. PICK row : mastery' = Put(mastery, s, row) /\ row.count = Counted(s) + 1 /\ row.p = u /\ s \in Skills
    BY <1>3, <2>0, EvidenceDoes
  <2>2. PICK e : e.skill = s /\ e.after = u /\ evidence' = Append(evidence, e)
    BY <1>3, <2>0, EvidenceDoes
  <2>3. /\ Len(evidence) \in Nat /\ DOMAIN evidence = 1 .. Len(evidence) /\ DOMAIN evidence' = 1 .. n
        /\ evidence'[n] = e /\ \A i \in DOMAIN evidence : evidence'[i] = evidence[i]
    BY <2>0, <2>2, Appended DEF TableInv
  <2>4. EvidenceOf(s)' = EvidenceOf(s) \cup {n} /\ \A r : r # s => EvidenceOf(r)' = EvidenceOf(r)
    BY <2>0, <2>2, <2>3 DEF EvidenceOf
  <2>5. \A r : EvidenceOf(r) \subseteq 1 .. Len(evidence)
    BY <2>3 DEF EvidenceOf
  <2>6. IsFiniteSet(EvidenceOf(s)) /\ Cardinality(EvidenceOf(s)) \in Nat /\ n \notin EvidenceOf(s)
    BY <2>0, <2>3, <2>5, EvidenceFinite
  <2>7. Cardinality(EvidenceOf(s)') = Cardinality(EvidenceOf(s)) + 1
    BY <2>4, <2>6, FS_AddElement
  <2>8. Counted(s) = Cardinality(EvidenceOf(s))
    <3>1. Cardinality({}) = 0
      BY FS_EmptySet
    <3>2. QED BY <2>1, <3>1 DEF Counted, EvidenceInv, EvidenceExplainsMastery
  <2>9. Max(EvidenceOf(s)') = n /\ EvidenceOf(s)' # {}
    <3>1. n \in EvidenceOf(s)' /\ \A y \in EvidenceOf(s)' : y \in Nat /\ n >= y
      BY <2>0, <2>3, <2>4, <2>5
    <3>2. ASSUME NEW x \in EvidenceOf(s)', \A y \in EvidenceOf(s)' : x >= y PROVE x = n
      <4>1. x >= n /\ n >= x /\ x \in Nat /\ n \in Nat
        BY <2>0, <2>3, <3>1, <3>2
      <4>2. QED BY <4>1
    <3>3. QED BY <3>1, <3>2 DEF Max
  <2>10. DOMAIN mastery' = DOMAIN mastery \cup {s} /\ mastery'[s] = row /\ \A r \in DOMAIN mastery \ {s} : mastery'[r] = mastery[r]
    BY <2>1 DEF Put
  <2>11. ASSUME NEW r \in DOMAIN mastery', r # s
         PROVE  /\ mastery'[r].count = Cardinality(EvidenceOf(r)')
                /\ mastery'[r].p = IF EvidenceOf(r)' = {} THEN BktParams.pInit ELSE evidence'[Max(EvidenceOf(r)')].after
    <3>1. r \in DOMAIN mastery /\ mastery'[r] = mastery[r] /\ EvidenceOf(r)' = EvidenceOf(r)
      BY <2>4, <2>10, <2>11
    <3>2. ASSUME EvidenceOf(r) # {} PROVE Max(EvidenceOf(r)) \in DOMAIN evidence
      <4>1. Max(EvidenceOf(r)) \in EvidenceOf(r)
        <5>1. EvidenceOf(r) \subseteq 1 .. Len(evidence)
          BY <2>5
        <5>2. QED BY <2>3, <3>2, <5>1, LastPosition
      <4>2. QED BY <4>1 DEF EvidenceOf
    <3>3. QED BY <2>3, <3>1, <3>2 DEF EvidenceInv, EvidenceExplainsMastery
  <2>12. ASSUME NEW r \in Skills \ DOMAIN mastery' PROVE EvidenceOf(r)' = {}
    BY <2>4, <2>10, <2>12 DEF EvidenceInv
  <2>13. /\ mastery'[s].count = Cardinality(EvidenceOf(s)') /\ mastery'[s].p = evidence'[Max(EvidenceOf(s)')].after
         /\ EvidenceOf(s)' # {}
    BY <2>1, <2>2, <2>3, <2>7, <2>8, <2>9, <2>10
  <2>14. QED BY <2>11, <2>12, <2>13 DEF EvidenceInv, EvidenceExplainsMastery
<1>4. QED
  BY <1>1, <1>2, <1>3, ZenonT(30)
     DEF Next, Evaluation, createAttempt, InsertAttempt, evaluate, LockLearner, LockActivity, EvidenceRead,
         EvaluateVerdict, SettleActivity, clearCooldownsForRemediatedSkills, Fail, Tick, vars, tables, history

\* mastery.service.ts, recordEvidence: the row of a skill always has the
\* probability of its last piece of evidence and counts each of them, for any
\* number of evaluations that interleave, fail or die between two skills.
THEOREM EvidenceExplains == Spec => []EvidenceExplainsMastery
<1>1. Init => EvidenceInv
  <2>1. SUFFICES ASSUME Init PROVE EvidenceInv
    OBVIOUS
  <2>2. \A s : EvidenceOf(s) = {}
    BY <2>1 DEF Init, EvidenceOf
  <2>3. NewRow.count = 0 /\ NewRow.p = BktParams.pInit /\ Cardinality({}) = 0
    BY FS_EmptySet DEF NewRow
  <2>4. \A s \in DOMAIN mastery : mastery[s] = NewRow
    BY <2>1 DEF Init
  <2>5. QED BY <2>2, <2>3, <2>4 DEF EvidenceInv, EvidenceExplainsMastery
<1>2. EvidenceInv => EvidenceExplainsMastery
  BY DEF EvidenceInv
<1>3. QED BY <1>1, <1>2, TableInit, TableNext, EvidenceNext, PTL DEF Spec

-----------------------------------------------------------------------------
(* The cooldown *)

\* Whoever is about to clear the cooldowns of siblings has passed.
CooldownInv ==
    /\ CooldownIsEarned /\ now \in Nat
    /\ \A h \in Handlers : run[h].pc = "clear" => Target(h) \in remediated
    /\ \A a \in DOMAIN activity : {"status", "cooldown"} \subseteq DOMAIN activity[a]

LEMMA CooldownSettles ==
  ASSUME TableInv, CooldownInv, NEW h \in Handlers, SettleActivity(h)
  PROVE  CooldownIsEarned' /\ \A a \in DOMAIN activity' : {"status", "cooldown"} \subseteq DOMAIN activity'[a]
<1> DEFINE a0 == Target(h)
<1>1. PICK row : /\ activity' = Put(activity, a0, row) /\ {"status", "cooldown"} \subseteq DOMAIN row
                 /\ row.status = IF Passed(h) THEN "passed" ELSE "failed"
                 /\ row.cooldown = IF Passed(h) THEN NoCooldown ELSE computeCooldownUntil(attempts[run[h].attempt].retry)
  BY DEF SettleActivity
<1>2. row.status = "failed" => row.cooldown # NoCooldown
  <2>1. ASSUME NEW retry PROVE CooldownHours(retry) \in Nat
    BY DEF CooldownHours
  <2>2. QED BY <1>1, <2>1 DEF CooldownInv, computeCooldownUntil, NoCooldown
<1>3. remediated \subseteq remediated'
  BY DEF SettleActivity
<1> HIDE DEF a0
<1>4. /\ DOMAIN activity' = DOMAIN activity \cup {a0} /\ activity'[a0] = row
      /\ \A a \in DOMAIN activity \ {a0} : activity'[a] = activity[a]
  BY <1>1 DEF Put
<1>5. QED BY <1>1, <1>2, <1>3, <1>4 DEF CooldownInv, CooldownIsEarned, Siblings

LEMMA CooldownClears ==
  ASSUME TableInv, CooldownInv, NEW h \in Handlers, clearCooldownsForRemediatedSkills(h)
  PROVE  CooldownIsEarned' /\ \A a \in DOMAIN activity' : {"status", "cooldown"} \subseteq DOMAIN activity'[a]
<1> DEFINE a0 == Target(h)
<1>1. a0 \in DeclaredActivities /\ a0 \in remediated
  BY Targets DEF clearCooldownsForRemediatedSkills, Evaluating, CooldownInv
<1>2. /\ DOMAIN activity' = DOMAIN activity /\ UNCHANGED remediated
      /\ \A b \in DOMAIN activity : activity'[b] = IF b \in Siblings(a0) THEN [activity[b] EXCEPT !.cooldown = NoCooldown]
                                                   ELSE activity[b]
  BY DEF clearCooldownsForRemediatedSkills, history
<1> HIDE DEF a0
<1>3. \A b \in Siblings(a0) : a0 \in Siblings(b)
  BY <1>1 DEF Siblings
<1>4. \A b \in DOMAIN activity : DOMAIN activity'[b] = DOMAIN activity[b] /\ activity'[b].status = activity[b].status
  BY <1>2 DEF CooldownInv
<1>5. ASSUME NEW b \in DOMAIN activity, activity'[b].status = "failed", activity'[b].cooldown = NoCooldown
      PROVE  Siblings(b) \cap remediated # {}
  <2>1. CASE b \in Siblings(a0)
    BY <1>1, <1>3, <2>1
  <2>2. CASE b \notin Siblings(a0)
    BY <1>2, <1>5, <2>2 DEF CooldownInv, CooldownIsEarned
  <2>3. QED BY <2>1, <2>2
<1>6. QED BY <1>2, <1>4, <1>5 DEF CooldownInv, CooldownIsEarned, Siblings

LEMMA CooldownStep ==
  ASSUME TableInv, CooldownInv, NEW h \in Handlers, Step(h)
  PROVE  CooldownInv'
<1>1. CooldownIsEarned' /\ \A a \in DOMAIN activity' : {"status", "cooldown"} \subseteq DOMAIN activity'[a]
  <2>1. CASE UNCHANGED <<activity, remediated>>
    BY <2>1 DEF CooldownInv, CooldownIsEarned, Siblings
  <2>2. QED
    BY <2>1, CooldownSettles, CooldownClears
       DEF Step, Evaluation, createAttempt, InsertAttempt, evaluate, LockLearner, LockActivity, recordEloMatch,
           EvidenceRead, recordEvidence, EvaluateVerdict, Fail, tables, history
<1>2. UNCHANGED now /\ remediated \subseteq remediated'
  BY DEF Step, Evaluation, createAttempt, InsertAttempt, evaluate, LockLearner, LockActivity, recordEloMatch,
         EvidenceRead, recordEvidence, EvaluateVerdict, SettleActivity, clearCooldownsForRemediatedSkills, Fail, history
<1>3. ASSUME NEW g \in Handlers \ {h}, run'[g].pc = "clear" PROVE Target(g)' \in remediated'
  <2>1. run'[g] = run[g]
    BY OthersStay
  <2>2. Evaluating(g)
    BY <1>3, <2>1 DEF Evaluating
  <2>3. QED BY <1>2, <1>3, <2>1, <2>2, SameTarget DEF CooldownInv
<1>4. ASSUME run'[h].pc = "clear" PROVE Target(h)' \in remediated'
  <2>0. DOMAIN run = Handlers /\ Sound(h)
    BY DEF TableInv
  <2>1. SettleActivity(h) /\ Passed(h)
    <3>1. Idle.pc = "idle" /\ [Idle EXCEPT !.pc = "work", !.attempt = Len(attempts) + 1].pc = "work"
      BY DEF Idle
    <3>2. run'[h] # Idle /\ ~InsertAttempt(h)
      BY <1>4, <2>0, <3>1 DEF InsertAttempt
    <3>3. ~\E a \in DeclaredActivities : createAttempt(h, a)
      BY <1>4, <2>0 DEF createAttempt, Sound, RunFields
    <3>4. ASSUME evaluate(h) PROVE FALSE
      <4>1. PICK score, genuine :
              run' = [run EXCEPT ![h].pc = "elo", ![h].score = score, ![h].genuine = genuine]
        BY <3>4 DEF evaluate
      <4>2. QED BY <1>4, <2>0, <4>1 DEF Sound, RunFields
    <3>5. ~LockLearner(h) /\ ~LockActivity(h)
      BY <1>4, <2>0 DEF LockLearner, LockActivity, Sound, RunFields
    <3>6. ASSUME recordEloMatch(h) PROVE FALSE
      <4>1. PICK adjust, todo :
              run' = [run EXCEPT ![h].pc = "evidence", ![h].adjust = adjust, ![h].todo = todo]
        BY <3>6 DEF recordEloMatch
      <4>2. QED BY <1>4, <2>0, <4>1 DEF Sound, RunFields
    <3>7. ASSUME EvidenceRead(h) PROVE FALSE
      <4>1. PICK s, row : run' = [run EXCEPT ![h].pc = "update", ![h].skill = s, ![h].row = row]
        BY <3>7 DEF EvidenceRead
      <4>2. QED BY <1>4, <2>0, <4>1 DEF Sound, RunFields
    <3>8. ~recordEvidence(h) /\ ~EvaluateVerdict(h)
      BY <1>4, <2>0 DEF recordEvidence, AfterSkill, EvaluateVerdict, Sound, RunFields
    <3>9. ~clearCooldownsForRemediatedSkills(h) /\ ~Fail(h)
      BY <2>0, <3>2 DEF clearCooldownsForRemediatedSkills, Fail
    <3>10. SettleActivity(h)
      BY <3>2, <3>3, <3>4, <3>5, <3>6, <3>7, <3>8, <3>9 DEF Step, Evaluation
    <3>11. QED BY <2>0, <3>2, <3>10 DEF SettleActivity
  <2>2. Target(h) \in remediated'
    BY <2>1 DEF SettleActivity
  <2>3. run'[h].attempt = run[h].attempt /\ Evaluating(h)
    BY <2>0, <2>1 DEF SettleActivity, Sound, RunFields, Evaluating
  <2>4. QED BY <2>2, <2>3, SameTarget
<1>5. QED BY <1>1, <1>2, <1>3, <1>4 DEF CooldownInv

\* evaluation.service.ts, clearCooldownsForRemediatedSkills: however evaluations
\* interleave, fail or die, a failed activity loses its cooldown early only
\* after another activity with the same primary skill was passed.
THEOREM CooldownsAreEarned == Spec => []CooldownIsEarned
<1>1. ASSUME Init PROVE CooldownInv
  <2>1. Idle.pc = "idle"
    BY DEF Idle
  <2>2. DOMAIN activity = {} /\ now \in Nat /\ \A h \in Handlers : run[h] = Idle
    BY <1>1 DEF Init
  <2>3. QED BY <2>1, <2>2 DEF CooldownInv, CooldownIsEarned
<1>2. ASSUME TableInv, CooldownInv, [Next]_vars PROVE CooldownInv'
  <2>1. ASSUME UNCHANGED <<activity, attempts, run, remediated>>, now' \in Nat PROVE CooldownInv'
    <3>1. CooldownIsEarned'
      BY <1>2, <2>1 DEF CooldownInv, CooldownIsEarned, Siblings
    <3>2. ASSUME NEW h \in Handlers, run'[h].pc = "clear" PROVE Target(h)' \in remediated'
      BY <1>2, <2>1, <3>2 DEF CooldownInv, Target
    <3>3. QED BY <1>2, <2>1, <3>1, <3>2 DEF CooldownInv
  <2>2. CASE UNCHANGED vars
    BY <1>2, <2>1, <2>2 DEF vars, CooldownInv
  <2>3. CASE Tick
    <3>1. UNCHANGED <<activity, attempts, run, remediated>>
      BY <2>3 DEF Tick, tables, history
    <3>2. now' \in Nat
      BY <1>2, <2>3, MasteryAssumption DEF Tick, CooldownInv
    <3>3. QED BY <2>1, <3>1, <3>2
  <2>4. QED BY <2>2, <2>3, CooldownStep, <1>2 DEF Next, Step
<1>3. QED BY <1>1, <1>2, TableInit, TableNext, PTL DEF Spec, CooldownInv

-----------------------------------------------------------------------------
(* The recommendations *)

\* The sources offer what is published.
Offered(offers) == {o.activity : o \in offers}

LEMMA OffersAre ==
  ASSUME NEW a, NEW score, NEW reason
  PROVE  Offer(a, score, reason).activity = a
BY DEF Offer

LEMMA MergeHas ==
  ASSUME NEW cs, NEW offers
  PROVE  DOMAIN Merge(cs, offers) = DOMAIN cs \cup Offered(offers)
BY DEF Merge, Offered

LEMMA AncestorsAreSkills ==
  ASSUME NEW s
  PROVE  WeakAncestors(s) \subseteq Skills
<1> SUFFICES ASSUME NEW c \in Closure PROVE c.ancestor \in Skills
  BY DEF WeakAncestors
<1>1. PICK w \in Walks(Edges, Skills) : c.ancestor = w[1]
  BY DEF Closure, rebuildClosure
<1>2. PICK n \in 2 .. Cardinality(Skills) : w \in Injection(1 .. n, Skills)
  BY DEF Walks
<1>3. w \in [1 .. n -> Skills] /\ 1 \in 1 .. n
  BY <1>2 DEF Injection
<1>4. QED BY <1>1, <1>3

LEMMA GatheredHas ==
  ASSUME NEW pick
  PROVE  DOMAIN Gathered(pick) =
           Offered(addCurriculumAdjacentCandidates) \cup Offered(addRemediationCandidates(pick)) \cup
           Offered(addSpacedRepetitionCandidates) \cup Offered(addProgressionCandidates) \cup
           Offered(addUnblockingCandidates)
<1>1. PICK c0, c1, c2, c3, c4 :
        /\ c0 = <<>> /\ c1 = Merge(c0, addCurriculumAdjacentCandidates)
        /\ c2 = Merge(c1, addRemediationCandidates(pick)) /\ c3 = Merge(c2, addSpacedRepetitionCandidates)
        /\ c4 = Merge(c3, addProgressionCandidates)
  OBVIOUS
<1>2. Gathered(pick) = Merge(c4, addUnblockingCandidates) /\ DOMAIN c0 = {}
  BY <1>1 DEF Gathered
<1>3. /\ DOMAIN c1 = DOMAIN c0 \cup Offered(addCurriculumAdjacentCandidates)
      /\ DOMAIN c2 = DOMAIN c1 \cup Offered(addRemediationCandidates(pick))
      /\ DOMAIN c3 = DOMAIN c2 \cup Offered(addSpacedRepetitionCandidates)
      /\ DOMAIN c4 = DOMAIN c3 \cup Offered(addProgressionCandidates)
      /\ DOMAIN Gathered(pick) = DOMAIN c4 \cup Offered(addUnblockingCandidates)
  BY <1>1, <1>2, MergeHas
<1>4. QED BY <1>2, <1>3

LEMMA GatheredIsPublished ==
  ASSUME NEW pick \in Picks
  PROVE  DOMAIN Gathered(pick) \subseteq publishedActivityVersionsQuery
<1>1. Offered(addCurriculumAdjacentCandidates) \subseteq publishedActivityVersionsQuery
  BY OffersAre DEF Offered, addCurriculumAdjacentCandidates
<1>2. Offered(addRemediationCandidates(pick)) \subseteq publishedActivityVersionsQuery
  <2>1. ASSUME NEW r \in Skills, Easiest(r) # {} PROVE pick[r] \in publishedActivityVersionsQuery
    BY <2>1 DEF Picks, Easiest, AtLevel, Targeting
  <2>2. ASSUME NEW s, NEW r \in WeakAncestors(s), Easiest(r) # {} PROVE pick[r] \in publishedActivityVersionsQuery
    BY <2>1, <2>2, AncestorsAreSkills
  <2>3. ASSUME NEW s, NEW a \in AtLevel(Targeting(s), {"L1", "L2"}) PROVE a \in publishedActivityVersionsQuery
    BY DEF AtLevel, Targeting
  <2>4. QED BY <2>2, <2>3, OffersAre DEF Offered, addRemediationCandidates
<1>3. Offered(addSpacedRepetitionCandidates) \subseteq publishedActivityVersionsQuery
  BY OffersAre DEF Offered, addSpacedRepetitionCandidates, PrimaryOn
<1>4. Offered(addProgressionCandidates) \subseteq publishedActivityVersionsQuery
  BY OffersAre DEF Offered, addProgressionCandidates, AtLevel, Targeting
<1>5. Offered(addUnblockingCandidates) \subseteq publishedActivityVersionsQuery
  <2>1. ASSUME NEW o \in addUnblockingCandidates
        PROVE  \E s, score : \E a \in PrimaryOn(s) : o = Offer(a, score, "UNBLOCKING")
    <3> DEFINE score(s) == Min({600 + 50 * Cardinality({c \in Closure : c.ancestor = s}), 950})
               W == {s \in DOMAIN mastery : Weak(s) /\ Cardinality({c \in Closure : c.ancestor = s}) > 0}
    <3>1. o \in UNION {{Offer(a, score(s), "UNBLOCKING") : a \in PrimaryOn(s)} : s \in W}
      BY DEF addUnblockingCandidates
    <3> HIDE DEF score, W
    <3>2. QED BY <3>1
  <2>2. QED BY <2>1, OffersAre DEF Offered, PrimaryOn
<1>6. QED BY <1>1, <1>2, <1>3, <1>4, <1>5, GatheredHas

\* What may be started and is not in the list has given way to a full one, of
\* candidates that weigh at least as much.
LEMMA ListedOrOutweighed ==
  ASSUME NEW pick \in Picks, NEW top \in recommend(pick), NEW a \in DOMAIN Gathered(pick), check(a), a \notin top
  PROVE  /\ top \cup {a} \subseteq publishedActivityVersionsQuery /\ Cardinality(top) = Limit
         /\ \A b \in top : weighted(Gathered(pick)[b]) >= weighted(Gathered(pick)[a])
<1> DEFINE filtered == {b \in DOMAIN Gathered(pick) : check(b)}
<1>1. /\ top \subseteq filtered /\ Cardinality(top) = Min({Limit, Cardinality(filtered)})
      /\ \A b \in top, c \in filtered \ top : weighted(Gathered(pick)[b]) >= weighted(Gathered(pick)[c])
  BY DEF recommend
<1>2. filtered \subseteq publishedActivityVersionsQuery /\ a \in filtered
  BY GatheredIsPublished
<1>3. IsFiniteSet(filtered)
  <2>1. filtered \subseteq DeclaredActivities
    BY <1>2 DEF publishedActivityVersionsQuery
  <2>2. QED BY <2>1, RecommendationAssumption, FS_Subset
<1> HIDE DEF filtered
<1>4. Cardinality(top) # Cardinality(filtered)
  BY <1>1, <1>2, <1>3, FS_Subset
<1>5. Cardinality(top) = Limit
  <2>1. PICK n : n = Cardinality(filtered) /\ n \in Nat
    BY <1>3, FS_CardinalityType
  <2>2. Min({Limit, n}) \in {Limit, n}
    BY <2>1, RecommendationAssumption DEF Min
  <2>3. QED BY <1>1, <1>4, <2>1, <2>2
<1>6. QED BY <1>1, <1>2, <1>5

\* recommendation.service.ts, recommend: for any skills, prerequisites,
\* activities and length of the list, the five sources, the merge by raw score
\* and the filter lose no easy activity on a skill the learner struggles with;
\* only a full list of candidates that weigh as much can; and a failed
\* activity's cooldown ends early only if it was earned.
THEOREM StrugglesAreAnswered == Spec => []StruggleIsAnswered
<1>1. ASSUME NEW s \in StrugglingSkills, NEW a \in AtLevel(Targeting(s), {"L1", "L2"}), NEW pick \in Picks
      PROVE  a \in DOMAIN Gathered(pick)
  <2>1. PICK o : o = Offer(a, 700 + REQUIRES_GATE_THRESHOLD - mastery[s].p, "REMEDIATION")
    OBVIOUS
  <2>2. o \in addRemediationCandidates(pick)
    BY <2>1 DEF addRemediationCandidates
  <2>3. o.activity = a
    BY <2>1, OffersAre
  <2>4. QED BY <2>2, <2>3, GatheredHas DEF Offered
<1>2. CooldownIsEarned => StruggleIsAnswered
  BY <1>1, ListedOrOutweighed DEF StruggleIsAnswered, IsAnswered
<1>3. QED BY <1>2, CooldownsAreEarned, PTL

=============================================================================
