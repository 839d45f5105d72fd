--------------------------- MODULE TaskRecord_proofs ---------------------------
(***************************************************************************)
(* Proofs about the record of an attempt, for any tasks, requests, hint    *)
(* ladders, commands and number of steps.                                  *)
(***************************************************************************)
EXTENDS TaskRecord, FiniteSetTheorems, SequenceTheorems, TLAPS

-----------------------------------------------------------------------------
(* Sequences and numbers *)

LEMMA RangeSeq ==
  ASSUME NEW S, NEW s \in Seq(S)
  PROVE  s \in Seq({s[i] : i \in DOMAIN s})
<1> DEFINE T == {s[i] : i \in DOMAIN s}
<1>1. DOMAIN s = 1 .. Len(s) /\ Len(s) \in Nat /\ s \in [1 .. Len(s) -> S]
  OBVIOUS
<1>2. s \in [1 .. Len(s) -> T]
  BY <1>1
<1>3. QED BY <1>1, <1>2, SeqDef

\* A log that grows at its end.
LEMMA Appended ==
  ASSUME NEW s, s \in Seq({s[i] : i \in DOMAIN s}), NEW x
  PROVE  LET t == Append(s, x)
         IN /\ t \in Seq({t[i] : i \in DOMAIN t})
            /\ Len(s) \in Nat /\ DOMAIN s = 1 .. Len(s) /\ DOMAIN t = 1 .. Len(s) + 1 /\ Len(t) = Len(s) + 1
            /\ t[Len(s) + 1] = x /\ \A i \in DOMAIN s : t[i] = s[i]
<1> DEFINE S == {s[i] : i \in DOMAIN s}
           t == Append(s, x)
<1>1. s \in Seq(S)
  OBVIOUS
<1> HIDE DEF S
<1>2. t \in Seq(S \cup {x})
  BY <1>1
<1>3. t \in Seq({t[i] : i \in DOMAIN t})
  <2> HIDE DEF t
  <2> QED BY <1>2, RangeSeq
<1>4. QED BY <1>1, <1>3

LEMMA LeastNatural ==
  ASSUME NEW S \in SUBSET Nat, S # {}
  PROVE  \E x \in S : \A y \in S : x <= y
<1> DEFINE U == {0 .. x : x \in S}
<1>1. \A x \in S : 0 .. x \in FiniteSubsetsOf(Nat)
  BY FS_Interval DEF FiniteSubsetsOf
<1>2. U \subseteq FiniteSubsetsOf(Nat) /\ U # {}
  BY <1>1
<1>3. PICK u \in U : \A v \in U : ~(<<v, u>> \in StrictSubsetOrdering(Nat))
  <2> HIDE DEF U
  <2> QED BY <1>2, WFMin, FS_StrictSubsetOrderingWellFounded
<1>4. PICK x \in S : u = 0 .. x
  OBVIOUS
<1>5. ASSUME NEW y \in S, y < x PROVE FALSE
  <2>1. 0 .. y \subseteq 0 .. x /\ x \in 0 .. x /\ x \notin 0 .. y
    BY <1>5
  <2>2. <<0 .. y, 0 .. x>> \in StrictSubsetOrdering(Nat)
    BY <2>1, <1>1 DEF StrictSubsetOrdering, FiniteSubsetsOf
  <2>3. QED BY <1>3, <1>4, <2>2
<1>6. QED BY <1>5

LEMMA MaxOfTwo ==
  ASSUME NEW a \in Int, NEW b \in Int
  PROVE  Max({a, b}) \in {a, b} /\ Max({a, b}) >= a /\ Max({a, b}) >= b
<1>1. \E x \in {a, b} : \A y \in {a, b} : x >= y
  OBVIOUS
<1>2. QED BY <1>1 DEF Max

-----------------------------------------------------------------------------
(* Replay *)

HintAt(l, i, t, n) == l[i].type = "HINT_REQUESTED" /\ l[i].task = t /\ l[i].level = n

\* Every level up to n of the task's ladder has been shown.
AllShown(l, t, n) == \A m \in 1 .. n : \E j \in DOMAIN l : HintAt(l, j, t, m)
ShownBefore(l, i, t, n) == \A m \in 1 .. n : \E j \in 1 .. i - 1 : HintAt(l, j, t, m)

\* No level before the one below it, no answer before the last level.
LogInv(l) ==
    /\ l \in Seq({l[i] : i \in DOMAIN l})
    /\ \A i \in DOMAIN l : l[i].type = "HINT_REQUESTED" =>
         l[i].level \in 1 .. MaxLevel /\ ShownBefore(l, i, l[i].task, l[i].level - 1)
    /\ \A i \in DOMAIN l : l[i].type = "SOLUTION_VIEWED" => ShownBefore(l, i, l[i].task, MaxLevel)

\* A row is true of the first k events.
TrueRow(l, t, row, k) ==
    /\ row.attempts = Cardinality(Verdicts(l, t, k))
    /\ (row.status = "PASSED") <=> \E i \in Verdicts(l, t, k) : l[i].type = "TASK_PASSED"

RowFields == {"status", "attempts", "level", "assisted"}
LevelRow(l, t, row) == DOMAIN row = RowFields /\ row.level \in Nat /\ AllShown(l, t, row.level)
RowInv(l, t, row) == LevelRow(l, t, row) /\ \E k \in 0 .. Len(l) : TrueRow(l, t, row, k)

\* What the first n events leave.
Replayed(l, s, n) ==
    /\ \A t \in DOMAIN s : LevelRow(l, t, s[t]) /\ TrueRow(l, t, s[t], n)
    /\ \A t : t \notin DOMAIN s => Verdicts(l, t, n) = {}

LEMMA NoRowIs == /\ DOMAIN NoRow = RowFields /\ NoRow.level = 0 /\ NoRow.attempts = 0
                 /\ NoRow.status = "PENDING"
BY DEF NoRow, RowFields

LEMMA VerdictsGrow ==
  ASSUME NEW l, NEW t, NEW n \in Nat
  PROVE  /\ Verdicts(l, t, 0) = {}
         /\ IsFiniteSet(Verdicts(l, t, n)) /\ Cardinality(Verdicts(l, t, n)) \in Nat
         /\ Verdicts(l, t, n + 1) = IF l[n + 1].type \in {"TASK_PASSED", "TASK_FAILED"} /\ l[n + 1].task = t
                                   THEN Verdicts(l, t, n) \cup {n + 1} ELSE Verdicts(l, t, n)
         /\ n + 1 \notin Verdicts(l, t, n)
<1>1. IsFiniteSet(1 .. n)
  BY FS_Interval
<1>2. Verdicts(l, t, n) \in SUBSET (1 .. n)
  BY DEF Verdicts
<1>3. IsFiniteSet(Verdicts(l, t, n))
  BY <1>1, <1>2, FS_Subset
<1>4. Cardinality(Verdicts(l, t, n)) \in Nat
  BY <1>3, FS_CardinalityType
<1>5. 1 .. n + 1 = (1 .. n) \cup {n + 1} /\ n + 1 \notin 1 .. n /\ 1 .. 0 = {}
  OBVIOUS
<1>6. QED BY <1>3, <1>4, <1>5 DEF Verdicts

LEMMA VerdictsElsewhere ==
  ASSUME NEW l, NEW t, NEW n \in Nat, l[n + 1].task # t
  PROVE  Verdicts(l, t, n + 1) = Verdicts(l, t, n)
<1>1. 1 .. n + 1 = (1 .. n) \cup {n + 1}
  OBVIOUS
<1>2. QED BY <1>1 DEF Verdicts

LEMMA CountOneMore ==
  ASSUME NEW S, IsFiniteSet(S), NEW x, x \notin S
  PROVE  Cardinality(S \cup {x}) = Cardinality(S) + 1
BY FS_AddElement

\* One event replayed.
LEMMA FoldedStep ==
  ASSUME NEW l, LogInv(l), NEW n \in Nat, n + 1 \in DOMAIN l, NEW s, Replayed(l, s, n)
  PROVE  Replayed(l, Folded(s, l[n + 1]), n + 1)
<1> DEFINE e == l[n + 1]
           t == e.task
           row == IF t \in DOMAIN s THEN s[t] ELSE NoRow
           Ensure(r) == [u \in DOMAIN s \cup {t} |-> IF u = t THEN r ELSE s[u]]
<1>1. LevelRow(l, t, row) /\ TrueRow(l, t, row, n)
  <2>1. CASE t \in DOMAIN s
    BY <2>1 DEF Replayed
  <2>2. CASE t \notin DOMAIN s
    <3>1. Verdicts(l, t, n) = {}
      BY <2>2 DEF Replayed
    <3>2. Cardinality({}) = 0
      BY FS_EmptySet
    <3>3. QED BY <2>2, <3>1, <3>2, NoRowIs DEF LevelRow, TrueRow, AllShown
  <2>3. QED BY <2>1, <2>2
<1>2. ASSUME NEW u, u # t PROVE Verdicts(l, u, n + 1) = Verdicts(l, u, n)
  BY <1>2, VerdictsElsewhere
<1>3. ASSUME NEW r, LevelRow(l, t, r), TrueRow(l, t, r, n + 1), Folded(s, e) = Ensure(r)
      PROVE  Replayed(l, Folded(s, e), n + 1)
  <2>1. ASSUME NEW u, u # t, u \in DOMAIN s PROVE LevelRow(l, u, s[u]) /\ TrueRow(l, u, s[u], n + 1)
    BY <1>2, <2>1 DEF Replayed, TrueRow
  <2>2. ASSUME NEW u, u # t, u \notin DOMAIN s PROVE Verdicts(l, u, n + 1) = {}
    BY <1>2, <2>2 DEF Replayed
  <2> HIDE DEF t, row
  <2>3. DOMAIN Ensure(r) = DOMAIN s \cup {t} /\ Ensure(r)[t] = r /\ \A u \in DOMAIN s : u # t => Ensure(r)[u] = s[u]
    OBVIOUS
  <2> HIDE DEF Ensure, e
  <2>4. QED BY <1>3, <2>1, <2>2, <2>3 DEF Replayed
<1>4. row.attempts = Cardinality(Verdicts(l, t, n)) /\ row.attempts \in Nat /\ DOMAIN row = RowFields
  <2> HIDE DEF row, t, e
  <2>1. Cardinality(Verdicts(l, t, n)) \in Nat
    BY VerdictsGrow
  <2>2. QED BY <1>1, <2>1 DEF TrueRow, LevelRow
<1>5. CASE e.type = "TASK_PASSED"
  <2> DEFINE r == [row EXCEPT !.attempts = @ + 1, !.status = "PASSED"]
  <2>1. Folded(s, e) = Ensure(r)
    BY <1>5 DEF Folded
  <2>2. Verdicts(l, t, n + 1) = Verdicts(l, t, n) \cup {n + 1}
    BY <1>5, VerdictsGrow
  <2>3. Cardinality(Verdicts(l, t, n + 1)) = row.attempts + 1
    BY <1>4, <2>2, VerdictsGrow, CountOneMore, ZenonT(30)
  <2> HIDE DEF row, Ensure
  <2>4. r.attempts = row.attempts + 1 /\ r.status = "PASSED" /\ r.level = row.level /\ DOMAIN r = RowFields
    BY <1>4 DEF RowFields
  <2> HIDE DEF r
  <2>5. LevelRow(l, t, r)
    BY <1>1, <2>4 DEF LevelRow
  <2>6. TrueRow(l, t, r, n + 1)
    BY <1>5, <2>2, <2>3, <2>4 DEF TrueRow
  <2>7. QED BY <1>3, <2>1, <2>5, <2>6
<1>6. CASE e.type = "TASK_FAILED"
  <2> DEFINE r == [row EXCEPT !.attempts = @ + 1, !.status = IF @ = "PASSED" THEN @ ELSE "FAILED"]
  <2>1. Folded(s, e) = Ensure(r)
    BY <1>6 DEF Folded
  <2>2. Verdicts(l, t, n + 1) = Verdicts(l, t, n) \cup {n + 1}
    BY <1>6, VerdictsGrow
  <2>3. Cardinality(Verdicts(l, t, n + 1)) = row.attempts + 1
    BY <1>4, <2>2, VerdictsGrow, CountOneMore, ZenonT(30)
  <2> HIDE DEF row, Ensure
  <2>4. /\ r.attempts = row.attempts + 1 /\ ((r.status = "PASSED") <=> (row.status = "PASSED"))
        /\ r.level = row.level /\ DOMAIN r = RowFields
    BY <1>4 DEF RowFields
  <2> HIDE DEF r
  <2>5. LevelRow(l, t, r)
    BY <1>1, <2>4 DEF LevelRow
  <2>6. TrueRow(l, t, r, n + 1)
    <3>1. (row.status = "PASSED") <=> \E i \in Verdicts(l, t, n) : l[i].type = "TASK_PASSED"
      BY <1>1 DEF TrueRow
    <3>2. l[n + 1].type # "TASK_PASSED"
      BY <1>6
    <3> HIDE DEF t, e
    <3>3. QED BY <2>2, <2>3, <2>4, <3>1, <3>2 DEF TrueRow
  <2>7. QED BY <1>3, <2>1, <2>5, <2>6
<1>7. CASE e.type = "HINT_REQUESTED"
  <2> DEFINE top == Max({row.level, e.level})
             r == [row EXCEPT !.level = top]
  <2>1. Folded(s, e) = Ensure(r)
    BY <1>7 DEF Folded
  <2>2. Verdicts(l, t, n + 1) = Verdicts(l, t, n)
    BY <1>7, VerdictsGrow
  <2>3. row.level \in Nat /\ AllShown(l, t, row.level)
    BY <1>1 DEF LevelRow
  <2>4. e.level \in 1 .. MaxLevel /\ e.level \in Nat /\ AllShown(l, t, e.level)
    <3>1. e.level \in 1 .. MaxLevel /\ ShownBefore(l, n + 1, t, e.level - 1) /\ HintAt(l, n + 1, t, e.level)
      BY <1>7 DEF LogInv, HintAt
    <3>2. e.level \in Nat
      BY <3>1, RecordAssumption
    <3>3. 1 .. (n + 1) - 1 \subseteq DOMAIN l
      <4>1. DOMAIN l = 1 .. Len(l) /\ Len(l) \in Nat
        BY DEF LogInv
      <4>2. QED BY <4>1
    <3> HIDE DEF e, t
    <3>4. QED BY <3>1, <3>2, <3>3 DEF ShownBefore, AllShown
  <2>5. top \in {row.level, e.level}
    <3>1. PICK a \in Int, b \in Int : a = row.level /\ b = e.level
      BY <2>3, <2>4
    <3>2. Max({a, b}) \in {a, b}
      BY MaxOfTwo
    <3> HIDE DEF row, e
    <3>3. QED BY <3>1, <3>2
  <2>6. top \in Nat /\ AllShown(l, t, top)
    BY <2>3, <2>4, <2>5
  <2> HIDE DEF row, Ensure, top
  <2>7. r.attempts = row.attempts /\ r.status = row.status /\ r.level = top /\ DOMAIN r = RowFields
    BY <1>4 DEF RowFields
  <2> HIDE DEF r
  <2>8. LevelRow(l, t, r) /\ TrueRow(l, t, r, n + 1)
    BY <1>1, <2>2, <2>6, <2>7 DEF LevelRow, TrueRow
  <2>9. QED BY <1>3, <2>1, <2>8
<1>8. CASE e.type \notin {"TASK_PASSED", "TASK_FAILED", "HINT_REQUESTED"}
  <2>1. Folded(s, e) = s
    BY <1>8 DEF Folded
  <2>2. ASSUME NEW u PROVE Verdicts(l, u, n + 1) = Verdicts(l, u, n)
    <3>1. l[n + 1].type \notin {"TASK_PASSED", "TASK_FAILED"}
      BY <1>8
    <3>2. QED BY <3>1, VerdictsGrow, ZenonT(30)
  <2>3. QED BY <2>1, <2>2 DEF Replayed, TrueRow
<1>9. QED BY <1>5, <1>6, <1>7, <1>8

Step(l, f, n) == IF n = 0 THEN <<>> ELSE Folded(f[n - 1], l[n])
Replays(l, f, k) == f = [n \in 0 .. k |-> Step(l, f, n)]

LEMMA ReplayExists ==
  ASSUME NEW l, NEW N \in Nat
  PROVE  \E f : Replays(l, f, N)
<1> DEFINE S == {k \in Nat : ~\E f : Replays(l, f, k)}
<1>1. SUFFICES ASSUME S # {} PROVE FALSE
  OBVIOUS
<1>2. PICK k \in S : \A j \in S : k <= j
  <2>1. S \in SUBSET Nat
    OBVIOUS
  <2> HIDE DEF S
  <2>2. QED BY <1>1, <2>1, LeastNatural
<1>3. CASE k = 0
  <2> DEFINE f == [n \in 0 .. 0 |-> <<>>]
  <2>1. \A n \in 0 .. 0 : Step(l, f, n) = <<>>
    BY DEF Step
  <2>2. Replays(l, f, 0)
    BY <2>1 DEF Replays
  <2>3. QED BY <1>2, <1>3, <2>2
<1>4. CASE k # 0
  <2>1. k \in Nat /\ k - 1 \in Nat /\ k - 1 \notin S
    BY <1>2, <1>4
  <2>2. PICK f : Replays(l, f, k - 1)
    BY <2>1
  <2> DEFINE g == [n \in 0 .. k |-> IF n = k THEN Folded(f[k - 1], l[k]) ELSE f[n]]
  <2>3. ASSUME NEW n \in 0 .. k PROVE g[n] = Step(l, g, n)
    <3>1. CASE n = k
      <4>1. g[n] = Folded(f[k - 1], l[k]) /\ g[k - 1] = f[k - 1]
        BY <2>1, <3>1
      <4> HIDE DEF g
      <4>2. QED BY <1>4, <3>1, <4>1 DEF Step
    <3>2. CASE n # k
      <4>1. n \in 0 .. k - 1 /\ g[n] = f[n] /\ (n # 0 => g[n - 1] = f[n - 1])
        BY <2>1, <3>2
      <4>2. f[n] = Step(l, f, n)
        BY <2>2, <4>1 DEF Replays
      <4> HIDE DEF g
      <4>3. QED BY <4>1, <4>2 DEF Step
    <3>3. QED BY <3>1, <3>2
  <2>4. g = [n \in 0 .. k |-> g[n]]
    OBVIOUS
  <2> HIDE DEF g
  <2>5. g = [n \in 0 .. k |-> Step(l, g, n)]
    BY <2>3, <2>4
  <2>6. Replays(l, g, k)
    BY <2>5 DEF Replays
  <2>7. QED BY <1>2, <2>6
<1>5. QED BY <1>3, <1>4

\* replay.service.ts, deriveTaskState: whatever the log, what is derived from it
\* is true of all of it, and holds no level that was not shown.
LEMMA DerivedIsTrue ==
  ASSUME NEW l, LogInv(l)
  PROVE  Replayed(l, deriveTaskState(l), Len(l))
<1> DEFINE f == CHOOSE f : Replays(l, f, Len(l))
<1>1. DOMAIN l = 1 .. Len(l) /\ Len(l) \in Nat
  BY DEF LogInv
<1>2. Replays(l, f, Len(l))
  BY <1>1, ReplayExists
<1>3. deriveTaskState(l) = f[Len(l)]
  BY DEF deriveTaskState, Replays, Step
<1> HIDE DEF f
<1>4. \A n \in 0 .. Len(l) : f[n] = Step(l, f, n)
  BY <1>2 DEF Replays
<1> DEFINE S == {n \in 0 .. Len(l) : ~Replayed(l, f[n], n)}
<1>5. SUFFICES ASSUME S # {} PROVE FALSE
  BY <1>1, <1>3
<1>6. PICK k \in S : \A j \in S : k <= j
  <2>1. S \in SUBSET Nat
    BY <1>1
  <2> HIDE DEF S
  <2>2. QED BY <1>5, <2>1, LeastNatural
<1>7. CASE k = 0
  <2>1. f[0] = <<>> /\ DOMAIN f[0] = {}
    BY <1>1, <1>4 DEF Step
  <2>2. Replayed(l, f[0], 0)
    BY <2>1, VerdictsGrow DEF Replayed
  <2>3. QED BY <1>6, <1>7, <2>2
<1>8. CASE k # 0
  <2>1. k \in 1 .. Len(l) /\ k - 1 \in Nat /\ k - 1 \in 0 .. Len(l) /\ k - 1 \notin S /\ (k - 1) + 1 = k
    BY <1>1, <1>6, <1>8
  <2>2. Replayed(l, f[k - 1], k - 1)
    BY <2>1
  <2>3. f[k] = Folded(f[k - 1], l[k])
    BY <1>4, <1>8, <2>1 DEF Step
  <2>4. Replayed(l, Folded(f[k - 1], l[(k - 1) + 1]), (k - 1) + 1)
    BY <1>1, <2>1, <2>2, FoldedStep
  <2>5. Replayed(l, f[k], k)
    BY <2>1, <2>3, <2>4
  <2>6. QED BY <1>6, <2>5
<1>9. QED BY <1>7, <1>8

-----------------------------------------------------------------------------
(* The invariant of the record *)

ReqFields == {"pc", "task", "level", "submit", "results", "derived", "penalty"}

\* What a handler still acts on: levels that come next, rows that are true.
RowsInv(l, s) == \A t \in DOMAIN s : RowInv(l, t, s[t])
ReqInv(l, r) ==
    /\ DOMAIN r = ReqFields
    /\ r.pc = "hint" => r.level \in 1 .. MaxLevel /\ AllShown(l, r.task, r.level - 1)
    /\ r.pc = "charge" => r.level \in 1 .. MaxLevel /\ AllShown(l, r.task, r.level)
    /\ r.pc = "tell" => AllShown(l, r.task, MaxLevel)
    /\ r.pc = "rebuild" => RowsInv(l, r.derived)

RecordInv ==
    /\ LogInv(log)
    /\ RowsInv(log, state)
    /\ DOMAIN req = Requests /\ \A h \in Requests : ReqInv(log, req[h])

\* The log only grows at its end.
Grown(l, m) == m = l \/ \E e : m = Append(l, e)

LEMMA GrownKeeps ==
  ASSUME NEW l, NEW m, LogInv(l), Grown(l, m)
  PROVE  /\ DOMAIN l = 1 .. Len(l) /\ DOMAIN m = 1 .. Len(m) /\ {Len(l), Len(m)} \subseteq Nat /\ Len(l) <= Len(m)
         /\ \A i \in DOMAIN l : i \in DOMAIN m /\ m[i] = l[i]
<1>1. l \in Seq({l[i] : i \in DOMAIN l})
  BY DEF LogInv
<1>2. CASE m = l
  BY <1>1, <1>2
<1>3. ASSUME NEW e, m = Append(l, e)
      PROVE  /\ DOMAIN l = 1 .. Len(l) /\ DOMAIN m = 1 .. Len(m) /\ {Len(l), Len(m)} \subseteq Nat /\ Len(l) <= Len(m)
             /\ \A i \in DOMAIN l : i \in DOMAIN m /\ m[i] = l[i]
  <2>1. /\ Len(l) \in Nat /\ DOMAIN l = 1 .. Len(l) /\ DOMAIN m = 1 .. Len(l) + 1 /\ Len(m) = Len(l) + 1
        /\ \A i \in DOMAIN l : m[i] = l[i]
    BY <1>1, <1>3, Appended
  <2>2. QED BY <2>1
<1>4. QED BY <1>2, <1>3 DEF Grown

LEMMA GrownShows ==
  ASSUME NEW l, NEW m, LogInv(l), Grown(l, m), NEW t, NEW n, AllShown(l, t, n)
  PROVE  AllShown(m, t, n)
BY GrownKeeps DEF AllShown, HintAt

LEMMA GrownRow ==
  ASSUME NEW l, NEW m, LogInv(l), Grown(l, m), NEW t, NEW row, RowInv(l, t, row)
  PROVE  RowInv(m, t, row)
<1>1. PICK k \in 0 .. Len(l) : TrueRow(l, t, row, k)
  BY DEF RowInv
<1>2. \A i \in 1 .. k : m[i] = l[i]
  BY GrownKeeps
<1>3. Verdicts(m, t, k) = Verdicts(l, t, k)
  BY <1>2 DEF Verdicts
<1>4. \A i \in Verdicts(l, t, k) : m[i] = l[i]
  BY <1>2 DEF Verdicts
<1>5. TrueRow(m, t, row, k)
  BY <1>1, <1>3, <1>4 DEF TrueRow
<1>6. k \in 0 .. Len(m)
  BY GrownKeeps
<1>7. LevelRow(m, t, row)
  BY GrownShows DEF RowInv, LevelRow
<1>8. QED BY <1>5, <1>6, <1>7 DEF RowInv

LEMMA GrownRows ==
  ASSUME NEW l, NEW m, LogInv(l), Grown(l, m), NEW s, RowsInv(l, s)
  PROVE  RowsInv(m, s)
BY GrownRow DEF RowsInv

LEMMA GrownReq ==
  ASSUME NEW l, NEW m, LogInv(l), Grown(l, m), NEW r, ReqInv(l, r)
  PROVE  ReqInv(m, r)
BY GrownShows, GrownRows DEF ReqInv

\* What may be appended.
LEMMA LogAppends ==
  ASSUME NEW l, LogInv(l), NEW e,
         e.type = "HINT_REQUESTED" => e.level \in 1 .. MaxLevel /\ AllShown(l, e.task, e.level - 1),
         e.type = "SOLUTION_VIEWED" => AllShown(l, e.task, MaxLevel)
  PROVE  LogInv(Append(l, e)) /\ Grown(l, Append(l, e))
<1> DEFINE m == Append(l, e)
<1>1. /\ m \in Seq({m[i] : i \in DOMAIN m})
      /\ Len(l) \in Nat /\ DOMAIN l = 1 .. Len(l) /\ DOMAIN m = 1 .. Len(l) + 1
      /\ m[Len(l) + 1] = e /\ \A i \in DOMAIN l : m[i] = l[i]
  <2>1. l \in Seq({l[i] : i \in DOMAIN l})
    BY DEF LogInv
  <2>2. QED BY <2>1, Appended
<1> HIDE DEF m
<1>2. ASSUME NEW t, NEW n, AllShown(l, t, n) PROVE ShownBefore(m, Len(l) + 1, t, n)
  <2>1. 1 .. (Len(l) + 1) - 1 = DOMAIN l
    BY <1>1
  <2>2. QED BY <1>1, <1>2, <2>1 DEF AllShown, ShownBefore, HintAt
<1>3. ASSUME NEW i \in DOMAIN l, NEW t, NEW n, ShownBefore(l, i, t, n) PROVE ShownBefore(m, i, t, n)
  <2>1. 1 .. i - 1 \subseteq DOMAIN l
    BY <1>1
  <2>2. QED BY <1>1, <1>3, <2>1 DEF ShownBefore, HintAt
<1>4. \A i \in DOMAIN m : i \in DOMAIN l \/ i = Len(l) + 1
  BY <1>1
<1>5. ASSUME NEW i \in DOMAIN m, m[i].type = "HINT_REQUESTED"
      PROVE  m[i].level \in 1 .. MaxLevel /\ ShownBefore(m, i, m[i].task, m[i].level - 1)
  BY <1>1, <1>2, <1>3, <1>4, <1>5 DEF LogInv
<1>6. ASSUME NEW i \in DOMAIN m, m[i].type = "SOLUTION_VIEWED"
      PROVE  ShownBefore(m, i, m[i].task, MaxLevel)
  BY <1>1, <1>2, <1>3, <1>4, <1>6 DEF LogInv
<1>7. LogInv(m)
  BY <1>1, <1>5, <1>6 DEF LogInv
<1>8. QED BY <1>7 DEF m, Grown

\* A handler takes a step and the others wait.
LEMMA HandlerMoves ==
  ASSUME RecordInv, NEW h \in Requests, NEW r, req' = [req EXCEPT ![h] = r],
         LogInv(log'), Grown(log, log'), ReqInv(log', r), RowsInv(log', state')
  PROVE  RecordInv'
<1>1. DOMAIN req' = Requests /\ req'[h] = r /\ \A g \in Requests \ {h} : req'[g] = req[g]
  BY DEF RecordInv
<1>2. \A g \in Requests \ {h} : ReqInv(log', req[g])
  BY GrownReq DEF RecordInv
<1>3. QED BY <1>1, <1>2 DEF RecordInv

\* A step that is no handler's.
LEMMA HandlersWait ==
  ASSUME RecordInv, UNCHANGED <<req, state>>, LogInv(log'), Grown(log, log')
  PROVE  RecordInv'
<1>1. \A g \in Requests : ReqInv(log', req[g])
  BY GrownReq DEF RecordInv
<1>2. RowsInv(log', state)
  BY GrownRows DEF RecordInv
<1>3. QED BY <1>1, <1>2 DEF RecordInv

LEMMA IdleIs == DOMAIN Idle = ReqFields /\ Idle.pc = "idle"
BY DEF Idle, ReqFields

LEMMA IdleReq == ASSUME NEW l PROVE ReqInv(l, Idle)
BY IdleIs DEF ReqInv

LEMMA RowHolds ==
  ASSUME RecordInv, NEW t
  PROVE  RowInv(log, t, Row(t))
<1>1. CASE t \in DOMAIN state
  BY <1>1 DEF Row, RecordInv, RowsInv
<1>2. CASE t \notin DOMAIN state
  <2>1. 0 \in 0 .. Len(log)
    BY GrownKeeps DEF RecordInv, Grown
  <2>2. Verdicts(log, t, 0) = {}
    BY VerdictsGrow
  <2>3. Cardinality({}) = 0
    BY FS_EmptySet
  <2>4. TrueRow(log, t, NoRow, 0) /\ LevelRow(log, t, NoRow)
    BY <2>2, <2>3, NoRowIs DEF TrueRow, LevelRow, AllShown
  <2>5. QED BY <1>2, <2>1, <2>4 DEF Row, RowInv
<1>3. QED BY <1>1, <1>2

LEMMA PutHolds ==
  ASSUME RecordInv, NEW t, NEW row, RowInv(log, t, row)
  PROVE  RowsInv(log, Put(t, row))
<1>1. /\ DOMAIN Put(t, row) = DOMAIN state \cup {t} /\ Put(t, row)[t] = row
      /\ \A u \in DOMAIN state : u # t => Put(t, row)[u] = state[u]
  BY DEF Put
<1>2. QED BY <1>1 DEF RecordInv, RowsInv

\* Handlers that leave log and rows alone.
LEMMA QuietStep ==
  ASSUME RecordInv, NEW h \in Requests, NEW r, req' = [req EXCEPT ![h] = r], ReqInv(log, r),
         UNCHANGED <<log, state>>
  PROVE  RecordInv'
BY HandlerMoves DEF RecordInv, Grown

LEMMA RevealStep ==
  ASSUME RecordInv, NEW h \in Requests, NEW t, reveal(h, t)
  PROVE  RecordInv'
<1> DEFINE n == Row(t).level + 1
           r == [req[h] EXCEPT !.pc = "hint", !.task = t, !.level = n]
<1>1. req' = [req EXCEPT ![h] = r] /\ Row(t).level < MaxLevel /\ UNCHANGED <<log, state>>
  BY DEF reveal, getUsedMaxLevel, projections
<1>2. Row(t).level \in Nat /\ AllShown(log, t, Row(t).level)
  BY RowHolds DEF RowInv, LevelRow
<1>3. n \in 1 .. MaxLevel /\ n - 1 = Row(t).level
  BY <1>1, <1>2, RecordAssumption
<1>4. DOMAIN req[h] = ReqFields
  BY DEF RecordInv, ReqInv
<1> HIDE DEF n
<1>5. r.pc = "hint" /\ r.task = t /\ r.level = n /\ DOMAIN r = ReqFields
  BY <1>4 DEF ReqFields
<1> HIDE DEF r
<1>6. ReqInv(log, r)
  BY <1>2, <1>3, <1>5 DEF ReqInv
<1>7. QED BY <1>1, <1>6, QuietStep

LEMMA RevealEventStep ==
  ASSUME RecordInv, NEW h \in Requests, RevealEvent(h)
  PROVE  RecordInv'
<1> DEFINE e == [type |-> "HINT_REQUESTED", task |-> req[h].task, level |-> req[h].level]
           r == [req[h] EXCEPT !.pc = "charge"]
<1>1. /\ log' = Append(log, e) /\ req[h].pc = "hint" /\ req' = [req EXCEPT ![h] = r] /\ UNCHANGED state
  BY DEF RevealEvent, append, Goto, projections
<1>2. /\ DOMAIN req[h] = ReqFields /\ req[h].level \in 1 .. MaxLevel /\ AllShown(log, req[h].task, req[h].level - 1)
      /\ LogInv(log)
  BY <1>1 DEF RecordInv, ReqInv
<1>3. e.type = "HINT_REQUESTED" /\ e.task = req[h].task /\ e.level = req[h].level
  OBVIOUS
<1>4. r.pc = "charge" /\ r.task = req[h].task /\ r.level = req[h].level /\ DOMAIN r = ReqFields
  BY <1>2 DEF ReqFields
<1> HIDE DEF e, r
<1>5. LogInv(log') /\ Grown(log, log')
  BY <1>1, <1>2, <1>3, LogAppends
<1>6. AllShown(log', r.task, r.level)
  <2>1. /\ Len(log) + 1 \in DOMAIN log' /\ log'[Len(log) + 1] = e
        /\ \A i \in DOMAIN log : i \in DOMAIN log' /\ log'[i] = log[i]
    <3>1. log \in Seq({log[i] : i \in DOMAIN log})
      BY <1>2 DEF LogInv
    <3>2. /\ Len(log) \in Nat /\ DOMAIN log' = 1 .. Len(log) + 1 /\ log'[Len(log) + 1] = e
      BY <1>1, <3>1, Appended
    <3>3. QED BY <1>2, <1>5, <3>2, GrownKeeps
  <2>2. HintAt(log', Len(log) + 1, r.task, r.level)
    BY <1>3, <1>4, <2>1 DEF HintAt
  <2>3. ASSUME NEW m \in 1 .. r.level PROVE \E j \in DOMAIN log' : HintAt(log', j, r.task, m)
    <3>1. CASE m = r.level
      BY <2>1, <2>2, <3>1
    <3>2. CASE m # r.level
      <4>1. m \in 1 .. r.level - 1
        BY <1>2, <1>4, <3>2, RecordAssumption
      <4>2. PICK j \in DOMAIN log : HintAt(log, j, r.task, m)
        BY <1>2, <1>4, <4>1 DEF AllShown
      <4>3. QED BY <2>1, <4>2 DEF HintAt
    <3>3. QED BY <3>1, <3>2
  <2>4. QED BY <2>3 DEF AllShown
<1>7. ReqInv(log', r)
  BY <1>2, <1>4, <1>6 DEF ReqInv
<1>8. RowsInv(log', state')
  BY <1>1, <1>2, <1>5, GrownRows DEF RecordInv
<1>9. QED BY <1>1, <1>5, <1>7, <1>8, HandlerMoves

\* The level of a row is moved, the verdicts it tells are not.
LEMMA RowLevelled ==
  ASSUME NEW l, NEW t, NEW row, RowInv(l, t, row), NEW n \in Nat, AllShown(l, t, n)
  PROVE  RowInv(l, t, [row EXCEPT !.level = n])
<1> DEFINE r == [row EXCEPT !.level = n]
<1>1. DOMAIN row = RowFields
  BY DEF RowInv, LevelRow
<1>2. DOMAIN r = RowFields /\ r.level = n /\ r.attempts = row.attempts /\ r.status = row.status
  BY <1>1 DEF RowFields
<1> HIDE DEF r
<1>3. RowInv(l, t, r)
  BY <1>2 DEF RowInv, LevelRow, TrueRow
<1>4. QED BY <1>3 DEF r

LEMMA RowAssisted ==
  ASSUME NEW l, NEW t, NEW row, RowInv(l, t, row)
  PROVE  RowInv(l, t, [row EXCEPT !.assisted = TRUE])
<1> DEFINE r == [row EXCEPT !.assisted = TRUE]
<1>1. DOMAIN row = RowFields
  BY DEF RowInv, LevelRow
<1>2. DOMAIN r = RowFields /\ r.level = row.level /\ r.attempts = row.attempts /\ r.status = row.status
  BY <1>1 DEF RowFields
<1> HIDE DEF r
<1>3. RowInv(l, t, r)
  BY <1>2 DEF RowInv, LevelRow, TrueRow
<1>4. QED BY <1>3 DEF r

LEMMA RowsWritten ==
  ASSUME RecordInv, NEW h \in Requests, req' = [req EXCEPT ![h] = Idle], UNCHANGED log, RowsInv(log, state')
  PROVE  RecordInv'
BY IdleReq, HandlerMoves DEF RecordInv, Grown

LEMMA RevealChargeStep ==
  ASSUME RecordInv, NEW h \in Requests, RevealCharge(h)
  PROVE  RecordInv'
<1> DEFINE t == req[h].task
           n == req[h].level
<1>1. /\ req[h].pc = "charge" /\ state' = Put(t, [Row(t) EXCEPT !.level = n])
      /\ req' = [req EXCEPT ![h] = Idle] /\ UNCHANGED log
  BY DEF RevealCharge, Done
<1>2. n \in 1 .. MaxLevel /\ AllShown(log, t, n)
  BY <1>1 DEF RecordInv, ReqInv
<1>3. n \in Nat
  BY <1>2, RecordAssumption
<1> HIDE DEF t, n
<1>4. RowInv(log, t, [Row(t) EXCEPT !.level = n])
  BY <1>2, <1>3, RowHolds, RowLevelled
<1>5. RowsInv(log, state')
  BY <1>1, <1>4, PutHolds
<1>6. QED BY <1>1, <1>5, RowsWritten

LEMMA FallbackSteps ==
  ASSUME RecordInv, NEW h \in Requests, NEW t, guidedFallback(h, t) \/ FallbackEvent(h) \/ FallbackFlag(h)
  PROVE  RecordInv'
<1>1. DOMAIN req[h] = ReqFields /\ LogInv(log)
  BY DEF RecordInv, ReqInv
<1>2. CASE guidedFallback(h, t)
  <2> DEFINE r == [req[h] EXCEPT !.pc = "tell", !.task = t]
  <2>1. req' = [req EXCEPT ![h] = r] /\ Row(t).level >= MaxLevel /\ UNCHANGED <<log, state>>
    BY <1>2 DEF guidedFallback, getUsedMaxLevel, projections
  <2>2. Row(t).level \in Nat /\ AllShown(log, t, Row(t).level)
    BY RowHolds DEF RowInv, LevelRow
  <2>3. AllShown(log, t, MaxLevel)
    BY <2>1, <2>2, RecordAssumption DEF AllShown
  <2>4. r.pc = "tell" /\ r.task = t /\ DOMAIN r = ReqFields
    BY <1>1 DEF ReqFields
  <2> HIDE DEF r
  <2>5. ReqInv(log, r)
    BY <2>3, <2>4 DEF ReqInv
  <2>6. QED BY <2>1, <2>5, QuietStep
<1>3. CASE FallbackEvent(h)
  <2> DEFINE e == [type |-> "SOLUTION_VIEWED", task |-> req[h].task, level |-> 0]
             r == [req[h] EXCEPT !.pc = "flag"]
  <2>1. /\ log' = Append(log, e) /\ req[h].pc = "tell" /\ req' = [req EXCEPT ![h] = r] /\ UNCHANGED state
    BY <1>3 DEF FallbackEvent, append, Goto, projections
  <2>2. AllShown(log, req[h].task, MaxLevel)
    BY <2>1 DEF RecordInv, ReqInv
  <2>3. e.type = "SOLUTION_VIEWED" /\ e.task = req[h].task
    OBVIOUS
  <2>4. r.pc = "flag" /\ DOMAIN r = ReqFields
    BY <1>1 DEF ReqFields
  <2> HIDE DEF e, r
  <2>5. LogInv(log') /\ Grown(log, log')
    BY <1>1, <2>1, <2>2, <2>3, LogAppends
  <2>6. ReqInv(log', r)
    BY <2>4 DEF ReqInv
  <2>7. RowsInv(log', state')
    BY <1>1, <2>1, <2>5, GrownRows DEF RecordInv
  <2>8. QED BY <2>1, <2>5, <2>6, <2>7, HandlerMoves
<1>4. CASE FallbackFlag(h)
  <2> DEFINE u == req[h].task
  <2>1. /\ state' = Put(u, [Row(u) EXCEPT !.assisted = TRUE])
        /\ req' = [req EXCEPT ![h] = Idle] /\ UNCHANGED log
    BY <1>4 DEF FallbackFlag, Done
  <2> HIDE DEF u
  <2>2. RowsInv(log, state')
    BY <2>1, RowHolds, RowAssisted, PutHolds
  <2>3. QED BY <2>1, <2>2, RowsWritten
<1>5. QED BY <1>2, <1>3, <1>4

\* A handler that acts on no level and no rows.
Plain(r) == DOMAIN r = ReqFields /\ r.pc \notin {"hint", "charge", "tell", "rebuild"}

LEMMA PlainReq ==
  ASSUME NEW l, NEW r, Plain(r)
  PROVE  ReqInv(l, r)
BY DEF Plain, ReqInv

\* An event that is neither a hint nor the answer.
LEMMA PlainEvent ==
  ASSUME RecordInv, NEW e, e.type \notin {"HINT_REQUESTED", "SOLUTION_VIEWED"}, log' = Append(log, e)
  PROVE  LogInv(log') /\ Grown(log, log') /\ RowsInv(log', state)
<1>1. LogInv(log') /\ Grown(log, log')
  BY LogAppends DEF RecordInv
<1>2. QED BY <1>1, GrownRows DEF RecordInv

LEMMA RunTaskStep ==
  ASSUME RecordInv, NEW h \in Requests, RunTask(h)
  PROVE  RecordInv'
<1> DEFINE n == Len(req[h].results) + 1
           vs == Tasks[n].validators
           Of(a) == [i \in DOMAIN vs |-> [status |-> a[i], weight |-> vs[i].weight, blocking |-> vs[i].blocking]]
           Type(a) == IF taskPassed(Of(a)) THEN "TASK_PASSED" ELSE "TASK_FAILED"
<1>1. PICK a \in [DOMAIN vs -> Answers] :
        /\ log' = Append(log, [type |-> Type(a), task |-> n, level |-> 0])
        /\ req' = [req EXCEPT ![h].results = Append(@, Of(a))]
  BY DEF RunTask, append
<1> DEFINE e == [type |-> Type(a), task |-> n, level |-> 0]
           r == [req[h] EXCEPT !.results = Append(@, Of(a))]
<1>2. req[h].pc = "run" /\ UNCHANGED state
  BY DEF RunTask, projections
<1>3. DOMAIN req[h] = ReqFields
  BY DEF RecordInv, ReqInv
<1>4. e.type \notin {"HINT_REQUESTED", "SOLUTION_VIEWED"} /\ log' = Append(log, e)
  BY <1>1
<1>5. req' = [req EXCEPT ![h] = r]
  BY <1>1
<1> HIDE DEF Of
<1>6. Plain(r)
  BY <1>2, <1>3 DEF Plain, ReqFields
<1> HIDE DEF e, r
<1>7. LogInv(log') /\ Grown(log, log') /\ RowsInv(log', state')
  BY <1>2, <1>4, PlainEvent
<1>8. QED BY <1>5, <1>6, <1>7, PlainReq, HandlerMoves

LEMMA RebuildSteps ==
  ASSUME RecordInv, NEW h \in Requests, RebuildRead(h) \/ rebuildForAttempt(h)
  PROVE  RecordInv'
<1>1. DOMAIN req[h] = ReqFields /\ LogInv(log)
  BY DEF RecordInv, ReqInv
<1>2. CASE RebuildRead(h)
  <2> DEFINE s == deriveTaskState(log)
             r == [req[h] EXCEPT !.pc = "rebuild", !.derived = s]
  <2>1. req' = [req EXCEPT ![h] = r] /\ UNCHANGED <<log, state>>
    BY <1>2 DEF RebuildRead, projections
  <2>2. RowsInv(log, s)
    <3>1. Len(log) \in 0 .. Len(log)
      BY <1>1, GrownKeeps DEF Grown
    <3> HIDE DEF s
    <3>2. Replayed(log, s, Len(log))
      BY <1>1, DerivedIsTrue DEF s
    <3>3. QED BY <3>1, <3>2 DEF Replayed, RowsInv, RowInv
  <2> HIDE DEF s
  <2>3. r.pc = "rebuild" /\ r.derived = s /\ DOMAIN r = ReqFields
    BY <1>1 DEF ReqFields
  <2> HIDE DEF r
  <2>4. ReqInv(log, r)
    BY <2>2, <2>3 DEF ReqInv
  <2>5. QED BY <2>1, <2>4, QuietStep
<1>3. CASE rebuildForAttempt(h)
  <2> DEFINE r == IF req[h].submit THEN [req[h] EXCEPT !.pc = "score", !.derived = <<>>] ELSE Idle
  <2>1. req[h].pc = "rebuild" /\ state' = req[h].derived /\ req' = [req EXCEPT ![h] = r] /\ UNCHANGED log
    BY <1>3 DEF rebuildForAttempt
  <2>2. RowsInv(log, state')
    BY <2>1 DEF RecordInv, ReqInv
  <2>3. Plain(r)
    <3>1. Plain([req[h] EXCEPT !.pc = "score", !.derived = <<>>])
      BY <1>1 DEF Plain, ReqFields
    <3>2. QED BY <3>1, IdleIs DEF Plain
  <2> HIDE DEF r
  <2>4. QED BY <1>1, <2>1, <2>2, <2>3, PlainReq, HandlerMoves DEF Grown
<1>4. QED BY <1>2, <1>3

\* The handlers' steps that touch neither the ladder nor the rows.
LEMMA OtherSteps ==
  ASSUME RecordInv, NEW h \in Requests,
         \/ checkWork(h) \/ submit(h) \/ evaluate(h) \/ EvaluateScore(h) \/ gradeArtifact(h)
         \/ submitArtifact(h) \/ AbortRequest(h)
  PROVE  RecordInv'
<1>1. DOMAIN req[h] = ReqFields /\ LogInv(log)
  BY DEF RecordInv, ReqInv
<1>2. ASSUME NEW r, Plain(r), req' = [req EXCEPT ![h] = r], UNCHANGED <<log, state>> PROVE RecordInv'
  BY <1>2, PlainReq, QuietStep
<1>3. Plain(Idle)
  BY IdleIs DEF Plain
<1>4. CASE checkWork(h)
  <2>1. Plain([req[h] EXCEPT !.pc = "run"])
    BY <1>1 DEF Plain, ReqFields
  <2>2. req' = [req EXCEPT ![h] = [req[h] EXCEPT !.pc = "run"]] /\ UNCHANGED <<log, state>>
    BY <1>4 DEF checkWork, projections
  <2>3. QED BY <1>2, <2>1, <2>2
<1>5. CASE submit(h)
  <2>1. Plain([req[h] EXCEPT !.pc = "evaluate"])
    BY <1>1 DEF Plain, ReqFields
  <2>2. req' = [req EXCEPT ![h] = [req[h] EXCEPT !.pc = "evaluate"]] /\ UNCHANGED <<log, state>>
    BY <1>5 DEF submit, projections
  <2>3. QED BY <1>2, <2>1, <2>2
<1>6. CASE evaluate(h)
  <2>1. Plain([req[h] EXCEPT !.pc = "run", !.submit = TRUE, !.penalty = penalty])
    BY <1>1 DEF Plain, ReqFields
  <2>2. /\ req' = [req EXCEPT ![h] = [req[h] EXCEPT !.pc = "run", !.submit = TRUE, !.penalty = penalty]]
        /\ UNCHANGED <<log, state>>
    BY <1>6 DEF evaluate, projections
  <2>3. QED BY <1>2, <2>1, <2>2
<1>7. CASE EvaluateScore(h)
  <2>1. Plain([req[h] EXCEPT !.pc = "grade"])
    BY <1>1 DEF Plain, ReqFields
  <2>2. req' = [req EXCEPT ![h] = [req[h] EXCEPT !.pc = "grade"]] /\ UNCHANGED <<log, state>>
    BY <1>7 DEF EvaluateScore, Goto, projections
  <2>3. QED BY <1>2, <2>1, <2>2
<1>8. CASE gradeArtifact(h)
  <2>1. req' = [req EXCEPT ![h] = Idle] /\ UNCHANGED state
    BY <1>8 DEF gradeArtifact, Done, projections
  <2>2. CASE UNCHANGED log
    BY <1>2, <1>3, <2>1, <2>2
  <2>3. CASE ~UNCHANGED log
    <3> DEFINE e == [type |-> "AI_MESSAGE", task |-> artifacts, level |-> 0]
    <3>1. log' = Append(log, e) /\ e.type = "AI_MESSAGE"
      BY <1>8, <2>3 DEF gradeArtifact, append
    <3> HIDE DEF e
    <3>2. LogInv(log') /\ Grown(log, log') /\ RowsInv(log', state')
      BY <2>1, <3>1, PlainEvent
    <3>3. QED BY <2>1, <3>2, IdleReq, HandlerMoves
  <2>4. QED BY <2>2, <2>3
<1>9. CASE submitArtifact(h)
  <2>1. UNCHANGED <<req, log, state>>
    BY <1>9 DEF submitArtifact, projections
  <2>2. QED BY <1>1, <2>1, HandlersWait DEF Grown
<1>10. CASE AbortRequest(h)
  BY <1>2, <1>3, <1>10 DEF AbortRequest, Done, projections
<1>11. QED BY <1>4, <1>5, <1>6, <1>7, <1>8, <1>9, <1>10

LEMMA RecordNext ==
  ASSUME RecordInv, [Next]_vars
  PROVE  RecordInv'
<1>1. CASE UNCHANGED vars
  BY <1>1, HandlersWait DEF vars, RecordInv, Grown
<1>2. ASSUME NEW h \in Requests, NewRequest(h) PROVE RecordInv'
  BY <1>2, RevealStep, FallbackSteps, OtherSteps DEF NewRequest
<1>3. ASSUME NEW h \in Requests, Continue(h) PROVE RecordInv'
  BY <1>3, RevealEventStep, RevealChargeStep, FallbackSteps, RunTaskStep, RebuildSteps, OtherSteps DEF Continue
<1>4. ASSUME NEW h \in Requests, AbortRequest(h) PROVE RecordInv'
  BY <1>4, OtherSteps
<1>5. ASSUME NEW cmd, handleCommand(cmd) PROVE RecordInv'
  <2> DEFINE e == [type |-> "COMMAND_EXECUTED", task |-> cmd, level |-> 0]
  <2>1. log' = Append(log, e) /\ e.type = "COMMAND_EXECUTED" /\ UNCHANGED <<req, state>>
    BY <1>5 DEF handleCommand, append, projections
  <2> HIDE DEF e
  <2>2. LogInv(log') /\ Grown(log, log')
    BY <2>1, PlainEvent
  <2>3. QED BY <2>1, <2>2, HandlersWait
<1>6. CASE incrementSignal \/ DropMessage
  <2>1. UNCHANGED <<req, log, state>>
    BY <1>6 DEF incrementSignal, DropMessage, projections
  <2>2. QED BY <2>1, HandlersWait DEF RecordInv, Grown
<1>7. QED BY <1>1, <1>2, <1>3, <1>4, <1>5, <1>6 DEF Next

LEMMA RecordInit == Init => RecordInv
<1>1. SUFFICES ASSUME Init PROVE RecordInv
  OBVIOUS
<1>2. log = <<>> /\ DOMAIN state = {} /\ req = [h \in Requests |-> Idle]
  BY <1>1 DEF Init
<1>3. LogInv(log)
  <2>1. DOMAIN log = {} /\ log \in Seq({})
    BY <1>2
  <2>2. QED BY <2>1, RangeSeq DEF LogInv
<1>4. QED BY <1>2, <1>3, IdleReq DEF RecordInv, RowsInv

LEMMA RecordHolds == Spec => []RecordInv
BY RecordInit, RecordNext, PTL DEF Spec

\* hint.service.ts, reveal and guidedFallback: with any number of requests at
\* once, on any tasks and ladders, and whatever rebuilds write over the rows,
\* no level is revealed before the one below it and no answer before the last.
THEOREM LaddersInOrder == Spec => []LadderInOrder
<1>1. RecordInv => LadderInOrder
  <2>1. SUFFICES ASSUME RecordInv PROVE LadderInOrder
    OBVIOUS
  <2>2. LogInv(log) /\ DOMAIN log = 1 .. Len(log) /\ Len(log) \in Nat
    BY <2>1, GrownKeeps DEF RecordInv, Grown
  <2>3. ASSUME NEW i \in DOMAIN log, NEW t, NEW n, NEW l \in 1 .. n, ShownBefore(log, i, t, n)
        PROVE  \E j \in Hints(t) : j < i /\ log[j].level = l
    <3>1. PICK j \in 1 .. i - 1 : HintAt(log, j, t, l)
      BY <2>3 DEF ShownBefore
    <3>2. j \in DOMAIN log /\ j < i
      BY <2>2, <3>1
    <3>3. QED BY <3>1, <3>2 DEF HintAt, Hints
  <2>4. ASSUME NEW t \in TaskKeys, NEW i \in Hints(t), log[i].level > 1
        PROVE  \E j \in Hints(t) : j < i /\ log[j].level = log[i].level - 1
    <3>1. /\ i \in DOMAIN log /\ log[i].task = t /\ log[i].level \in 1 .. MaxLevel
          /\ ShownBefore(log, i, t, log[i].level - 1)
      BY <2>2 DEF Hints, LogInv
    <3>2. log[i].level - 1 \in 1 .. log[i].level - 1
      BY <2>4, <3>1, RecordAssumption
    <3>3. QED BY <2>3, <3>1, <3>2
  <2>5. ASSUME NEW i \in DOMAIN log, log[i].type = "SOLUTION_VIEWED", NEW l \in 1 .. MaxLevel
        PROVE  \E j \in Hints(log[i].task) : j < i /\ log[j].level = l
    BY <2>2, <2>3, <2>5 DEF LogInv
  <2>6. QED BY <2>4, <2>5 DEF LadderInOrder
<1>2. QED BY <1>1, RecordHolds, PTL

\* replay.service.ts, deriveTaskState: with any number of rebuilds from reads
\* that are stale by the time they write, and hints between them, every row is
\* true of a prefix of the log.
THEOREM RowsAreTrueOfSomePast == Spec => []RowIsTrueOfSomePast
<1>1. RecordInv => RowIsTrueOfSomePast
  BY DEF RecordInv, RowsInv, RowInv, TrueRow, RowIsTrueOfSomePast
<1>2. QED BY <1>1, RecordHolds, PTL

-----------------------------------------------------------------------------
(* Sums over finite sets, which the library folds in an order of its own   *)

Pick(s) == CHOOSE x \in s : TRUE
Sums(f, D, it) == it = [s \in SUBSET D |-> IF s = {} THEN 0 ELSE f[Pick(s)] + it[s \ {Pick(s)}]]

\* The same for the subsets of at most n elements.
Small(D, n) == {s \in SUBSET D : Cardinality(s) <= n}
Summand(f, it, s) == IF s = {} THEN 0 ELSE f[Pick(s)] + it[s \ {Pick(s)}]
SumsTo(f, D, n, it) == it = [s \in Small(D, n) |-> Summand(f, it, s)]

LEMMA PickOne ==
  ASSUME NEW s, IsFiniteSet(s), s # {}
  PROVE  /\ Pick(s) \in s
         /\ \A x \in s : IsFiniteSet(s \ {x}) /\ Cardinality(s \ {x}) = Cardinality(s) - 1
         /\ Cardinality(s) \in Nat \ {0}
<1>1. Pick(s) \in s
  BY DEF Pick
<1>2. Cardinality(s) \in Nat /\ Cardinality(s) # 0
  BY FS_CardinalityType, FS_EmptySet
<1>3. QED BY <1>1, <1>2, FS_RemoveElement

LEMMA SumsToExist ==
  ASSUME NEW f, NEW D, IsFiniteSet(D), NEW N \in Nat
  PROVE  \E it : SumsTo(f, D, N, it)
<1> DEFINE S == {n \in Nat : ~\E it : SumsTo(f, D, n, it)}
<1>1. SUFFICES ASSUME S # {} PROVE FALSE
  OBVIOUS
<1>2. PICK n \in S : \A m \in S : n <= m
  <2>1. S \in SUBSET Nat
    OBVIOUS
  <2> HIDE DEF S
  <2>2. QED BY <1>1, <2>1, LeastNatural
<1>3. \A s \in SUBSET D : IsFiniteSet(s) /\ Cardinality(s) \in Nat
  BY FS_Subset, FS_CardinalityType
<1>4. CASE n = 0
  <2> DEFINE it == [s \in Small(D, 0) |-> 0]
  <2>1. \A s \in Small(D, 0) : s = {}
    BY <1>3, PickOne DEF Small
  <2>2. \A s \in Small(D, 0) : Summand(f, it, s) = 0
    BY <2>1 DEF Summand
  <2>3. it = [s \in Small(D, 0) |-> Summand(f, it, s)]
    BY <2>2
  <2>4. QED BY <1>2, <1>4, <2>3 DEF SumsTo
<1>5. CASE n # 0
  <2>1. n \in Nat /\ n - 1 \in Nat /\ n - 1 \notin S
    BY <1>2, <1>5
  <2>2. PICK it : SumsTo(f, D, n - 1, it)
    BY <2>1
  <2> DEFINE jt == [s \in Small(D, n) |-> IF s \in Small(D, n - 1) THEN it[s] ELSE Summand(f, it, s)]
  <2>3. ASSUME NEW s \in Small(D, n), s # {} PROVE s \ {Pick(s)} \in Small(D, n - 1) /\ s \ {Pick(s)} \in Small(D, n)
    <3>1. s \in SUBSET D /\ IsFiniteSet(s) /\ Cardinality(s) <= n
      BY <1>3 DEF Small
    <3>2. Cardinality(s \ {Pick(s)}) = Cardinality(s) - 1 /\ Cardinality(s) \in Nat
      BY <2>3, <3>1, PickOne
    <3>3. s \ {Pick(s)} \in SUBSET D
      BY <3>1
    <3>4. Cardinality(s \ {Pick(s)}) <= n - 1 /\ Cardinality(s \ {Pick(s)}) <= n
      BY <2>1, <3>1, <3>2
    <3>5. QED BY <3>3, <3>4 DEF Small
  <2>4. \A s \in Small(D, n - 1) : it[s] = Summand(f, it, s)
    BY <2>2 DEF SumsTo
  <2>5. ASSUME NEW s \in Small(D, n) PROVE jt[s] = Summand(f, jt, s)
    <3>1. jt[s] = Summand(f, it, s)
      BY <2>4
    <3>2. s # {} => jt[s \ {Pick(s)}] = it[s \ {Pick(s)}]
      BY <2>3
    <3> HIDE DEF jt
    <3>3. QED BY <3>1, <3>2 DEF Summand
  <2>6. jt = [s \in Small(D, n) |-> jt[s]]
    OBVIOUS
  <2> HIDE DEF jt
  <2>7. SumsTo(f, D, n, jt)
    BY <2>5, <2>6 DEF SumsTo
  <2>8. QED BY <1>2, <2>7
<1>6. QED BY <1>4, <1>5

LEMMA SumsExist ==
  ASSUME NEW f, NEW D, IsFiniteSet(D)
  PROVE  \E it : Sums(f, D, it)
<1>1. Cardinality(D) \in Nat
  BY FS_CardinalityType
<1>2. PICK it : SumsTo(f, D, Cardinality(D), it)
  BY <1>1, SumsToExist
<1>3. Small(D, Cardinality(D)) = SUBSET D
  BY FS_Subset DEF Small
<1>4. Sums(f, D, it)
  BY <1>2, <1>3 DEF SumsTo, Sums, Summand
<1>5. QED BY <1>4

LEMMA SumIs ==
  ASSUME NEW f, IsFiniteSet(DOMAIN f)
  PROVE  \E it : Sums(f, DOMAIN f, it) /\ SumFunction(f) = it[DOMAIN f]
<1> DEFINE it == CHOOSE it : Sums(f, DOMAIN f, it)
<1>1. Sums(f, DOMAIN f, it)
  BY SumsExist
<1>2. SumFunction(f) = it[DOMAIN f]
  BY DEF SumFunction, SumFunctionOnSet, FoldFunctionOnSet, MapThenFoldSet, Sums, Pick
<1>3. QED BY <1>1, <1>2

\* Whatever element comes first.
LEMMA SumsInAnyOrder ==
  ASSUME NEW f, NEW D, IsFiniteSet(D), \A x \in D : f[x] \in Int, NEW it, Sums(f, D, it), NEW s0 \in SUBSET D
  PROVE  it[s0] \in Int /\ \A x \in s0 : it[s0] = f[x] + it[s0 \ {x}]
<1> DEFINE Good(s) == it[s] \in Int /\ \A x \in s : it[s] = f[x] + it[s \ {x}]
           S == {n \in Nat : \E s \in SUBSET D : Cardinality(s) = n /\ ~Good(s)}
<1>1. \A s \in SUBSET D : IsFiniteSet(s) /\ Cardinality(s) \in Nat
  BY FS_Subset, FS_CardinalityType
<1>2. SUFFICES ASSUME S # {} PROVE FALSE
  <2>1. Good(s0)
    BY <1>1, <1>2
  <2>2. QED BY <2>1
<1>3. PICK n \in S : \A m \in S : n <= m
  <2>1. S \in SUBSET Nat
    OBVIOUS
  <2> HIDE DEF S
  <2>2. QED BY <1>2, <2>1, LeastNatural
<1>4. PICK s \in SUBSET D : Cardinality(s) = n /\ ~Good(s)
  BY <1>3
<1>5. \A u \in SUBSET D : Cardinality(u) < Cardinality(s) => Good(u)
  BY <1>1, <1>3, <1>4
<1>6. \A u \in SUBSET D : it[u] = IF u = {} THEN 0 ELSE f[Pick(u)] + it[u \ {Pick(u)}]
  BY DEF Sums
<1>7. s # {}
  <2>1. it[{}] = 0
    BY <1>6
  <2>2. QED BY <1>4, <2>1
<1> DEFINE p == Pick(s)
<1>8. p \in s /\ IsFiniteSet(s) /\ it[s] = f[p] + it[s \ {p}]
  BY <1>1, <1>6, <1>7, PickOne
<1> HIDE DEF p
<1>9. ASSUME NEW x \in s PROVE Good(s \ {x}) /\ s \ {x} \in SUBSET D
  <2>1. Cardinality(s \ {x}) = Cardinality(s) - 1 /\ Cardinality(s) \in Nat
    BY <1>7, <1>8, PickOne
  <2>2. Cardinality(s \ {x}) < Cardinality(s) /\ s \ {x} \in SUBSET D
    BY <2>1
  <2> HIDE DEF Good
  <2>3. QED BY <1>5, <2>2
<1>10. it[s] \in Int
  <2>1. f[p] \in Int /\ it[s \ {p}] \in Int
    BY <1>8, <1>9
  <2>2. QED BY <1>8, <2>1
<1>11. ASSUME NEW x \in s PROVE it[s] = f[x] + it[s \ {x}]
  <2>1. CASE x = p
    BY <1>8, <2>1
  <2>2. CASE x # p
    <3>1. it[s \ {p}] = f[x] + it[(s \ {p}) \ {x}] /\ it[s \ {x}] = f[p] + it[(s \ {x}) \ {p}]
      BY <1>8, <1>9, <2>2
    <3>2. (s \ {p}) \ {x} = (s \ {x}) \ {p}
      OBVIOUS
    <3>3. it[(s \ {x}) \ {p}] \in Int
      <4>1. (s \ {x}) # {} /\ p \in s \ {x}
        BY <1>8, <2>2
      <4>2. s \ {x} \in SUBSET D /\ IsFiniteSet(s \ {x})
        BY <1>1, <1>9
      <4>3. Cardinality((s \ {x}) \ {p}) = Cardinality(s \ {x}) - 1 /\ Cardinality(s \ {x}) = Cardinality(s) - 1
            /\ Cardinality(s) \in Nat
        BY <1>7, <1>8, <4>1, <4>2, PickOne
      <4>4. QED BY <1>5, <4>3
    <3>4. f[x] \in Int /\ f[p] \in Int
      BY <1>8
    <3>5. PICK a \in Int, b \in Int, c \in Int : a = f[x] /\ b = f[p] /\ c = it[(s \ {x}) \ {p}]
      BY <3>3, <3>4
    <3>6. it[s] = b + (a + c) /\ it[s \ {x}] = b + c
      BY <1>8, <3>1, <3>2, <3>5
    <3>7. QED BY <3>5, <3>6
  <2>3. QED BY <2>1, <2>2
<1>12. QED BY <1>4, <1>10, <1>11

\* A sum depends on what it adds up.
LEMMA SumsAgree ==
  ASSUME NEW f, NEW D, IsFiniteSet(D), NEW it, Sums(f, D, it),
         NEW g, NEW E, NEW jt, Sums(g, E, jt), D \subseteq E, \A x \in D : f[x] = g[x]
  PROVE  it[D] = jt[D]
<1> DEFINE S == {n \in Nat : \E s \in SUBSET D : Cardinality(s) = n /\ it[s] # jt[s]}
<1>1. \A s \in SUBSET D : IsFiniteSet(s) /\ Cardinality(s) \in Nat
  BY FS_Subset, FS_CardinalityType
<1>2. SUFFICES ASSUME S # {} PROVE FALSE
  BY <1>1
<1>3. PICK n \in S : \A m \in S : n <= m
  <2>1. S \in SUBSET Nat
    OBVIOUS
  <2> HIDE DEF S
  <2>2. QED BY <1>2, <2>1, LeastNatural
<1>4. PICK s \in SUBSET D : Cardinality(s) = n /\ it[s] # jt[s]
  BY <1>3
<1>5. \A u \in SUBSET D : Cardinality(u) < Cardinality(s) => it[u] = jt[u]
  BY <1>1, <1>3, <1>4
<1>6. /\ it[s] = IF s = {} THEN 0 ELSE f[Pick(s)] + it[s \ {Pick(s)}]
      /\ jt[s] = IF s = {} THEN 0 ELSE g[Pick(s)] + jt[s \ {Pick(s)}]
  BY DEF Sums
<1>7. s # {}
  BY <1>4, <1>6
<1>8. Pick(s) \in s /\ Cardinality(s \ {Pick(s)}) = Cardinality(s) - 1 /\ Cardinality(s) \in Nat
  BY <1>1, <1>7, PickOne
<1>9. s \ {Pick(s)} \in SUBSET D /\ Cardinality(s \ {Pick(s)}) < Cardinality(s)
  BY <1>8
<1>10. QED BY <1>4, <1>5, <1>6, <1>8, <1>9

LEMMA SumInt ==
  ASSUME NEW f, IsFiniteSet(DOMAIN f), \A x \in DOMAIN f : f[x] \in Int
  PROVE  SumFunction(f) \in Int /\ (DOMAIN f = {} => SumFunction(f) = 0)
<1>1. PICK it : Sums(f, DOMAIN f, it) /\ SumFunction(f) = it[DOMAIN f]
  BY SumIs
<1>2. it[DOMAIN f] \in Int
  BY <1>1, SumsInAnyOrder
<1>3. DOMAIN f = {} => it[DOMAIN f] = 0
  BY <1>1 DEF Sums
<1>4. QED BY <1>1, <1>2, <1>3

\* One more summand.
LEMMA SumAdd ==
  ASSUME NEW f, IsFiniteSet(DOMAIN f), \A y \in DOMAIN f : f[y] \in Int,
         NEW g, NEW x, x \notin DOMAIN f, DOMAIN g = DOMAIN f \cup {x}, g[x] \in Int,
         \A y \in DOMAIN f : g[y] = f[y]
  PROVE  SumFunction(g) = SumFunction(f) + g[x]
<1>1. IsFiniteSet(DOMAIN g)
  BY FS_AddElement
<1>2. PICK it : Sums(f, DOMAIN f, it) /\ SumFunction(f) = it[DOMAIN f]
  BY SumIs
<1>3. PICK jt : Sums(g, DOMAIN g, jt) /\ SumFunction(g) = jt[DOMAIN g]
  BY <1>1, SumIs
<1>4. it[DOMAIN f] = jt[DOMAIN f]
  BY <1>2, <1>3, SumsAgree
<1>5. jt[DOMAIN g] = g[x] + jt[DOMAIN g \ {x}]
  <2>1. x \in DOMAIN g /\ DOMAIN g \in SUBSET DOMAIN g /\ \A y \in DOMAIN g : g[y] \in Int
    OBVIOUS
  <2>2. PICK D : D = DOMAIN g
    OBVIOUS
  <2>3. IsFiniteSet(D) /\ Sums(g, D, jt) /\ D \in SUBSET D /\ \A y \in D : g[y] \in Int
    BY <1>1, <1>3, <2>1, <2>2
  <2>4. \A y \in D : jt[D] = g[y] + jt[D \ {y}]
    <3>1. ASSUME NEW y \in D PROVE jt[D] = g[y] + jt[D \ {y}]
      BY ONLY <2>3, <3>1, SumsInAnyOrder
    <3>2. QED BY <3>1
  <2>5. QED BY <2>1, <2>2, <2>4
<1>6. DOMAIN g \ {x} = DOMAIN f
  OBVIOUS
<1>7. SumFunction(f) \in Int
  BY SumInt
<1>8. QED BY <1>2, <1>3, <1>4, <1>5, <1>6, <1>7

-----------------------------------------------------------------------------
(* The counters *)

HintsIn(l) == {i \in DOMAIN l : l[i].type = "HINT_REQUESTED"}
HintCosts(l) == [i \in HintsIn(l) |-> HintCost[l[i].level]]
ChargingIn(r) == {h \in Requests : r[h].pc = "charge"}
OwedCosts(r) == [h \in ChargingIn(r) |-> HintCost[r[h].level]]
CommandsIn(l, S) == {i \in DOMAIN l : l[i].type = "COMMAND_EXECUTED" /\ l[i].task \in S}
LagOf(m, S) == IF m.pc = "signals" /\ m.cmd \in S THEN 1 ELSE 0

Agree(aborts, n, total) == n <= total /\ (aborts = 0 => n = total)
HintsAgree == Agree(used.aborts, penalty + SumFunction(OwedCosts(req)), SumFunction(HintCosts(log)))
SignalAgrees(n, S) == Agree(used.aborts, n + LagOf(msg, S), Cardinality(CommandsIn(log, S)))
SignalsAgree ==
    /\ SignalAgrees(signals.violations, Forbidden)
    /\ SignalAgrees(signals.good, GoodActions)
    /\ SignalAgrees(signals.bad, BadActions)

CountTypes ==
    /\ penalty \in Nat /\ DOMAIN used = {"requests", "commands", "aborts"} /\ used.aborts \in Nat
    /\ {signals.violations, signals.good, signals.bad} \subseteq Nat

CountInv == CountTypes /\ HintsAgree /\ SignalsAgree

\* What is added up is finite, and every cost is a number.
LEMMA CostsAreNumbers ==
  ASSUME RecordInv
  PROVE  /\ IsFiniteSet(DOMAIN HintCosts(log)) /\ \A i \in DOMAIN HintCosts(log) : HintCosts(log)[i] \in Int
         /\ IsFiniteSet(DOMAIN OwedCosts(req)) /\ \A h \in DOMAIN OwedCosts(req) : OwedCosts(req)[h] \in Int
         /\ SumFunction(HintCosts(log)) \in Int /\ SumFunction(OwedCosts(req)) \in Int
         /\ \A S : IsFiniteSet(CommandsIn(log, S)) /\ Cardinality(CommandsIn(log, S)) \in Nat
<1>1. LogInv(log) /\ DOMAIN log = 1 .. Len(log) /\ Len(log) \in Nat
  BY GrownKeeps DEF RecordInv, Grown
<1>2. IsFiniteSet(DOMAIN log)
  BY <1>1, FS_Interval
<1>3. IsFiniteSet(HintsIn(log)) /\ \A S : IsFiniteSet(CommandsIn(log, S))
  <2>1. HintsIn(log) \in SUBSET DOMAIN log /\ \A S : CommandsIn(log, S) \in SUBSET DOMAIN log
    BY DEF HintsIn, CommandsIn
  <2>2. QED BY <1>2, <2>1, FS_Subset
<1>4. \A i \in HintsIn(log) : HintCost[log[i].level] \in Int
  BY <1>1, RecordAssumption DEF HintsIn, LogInv
<1>5. ChargingIn(req) \in SUBSET Requests /\ IsFiniteSet(ChargingIn(req))
  BY RecordAssumption, FS_Subset DEF ChargingIn
<1>6. \A h \in ChargingIn(req) : HintCost[req[h].level] \in Int
  BY RecordAssumption DEF ChargingIn, RecordInv, ReqInv
<1>7. /\ DOMAIN HintCosts(log) = HintsIn(log) /\ \A i \in HintsIn(log) : HintCosts(log)[i] = HintCost[log[i].level]
      /\ DOMAIN OwedCosts(req) = ChargingIn(req) /\ \A h \in ChargingIn(req) : OwedCosts(req)[h] = HintCost[req[h].level]
  BY DEF HintCosts, OwedCosts
<1>8. SumFunction(HintCosts(log)) \in Int /\ SumFunction(OwedCosts(req)) \in Int
  BY <1>3, <1>4, <1>5, <1>6, <1>7, SumInt
<1>9. QED BY <1>3, <1>4, <1>5, <1>6, <1>7, <1>8, FS_CardinalityType

\* What an event adds to the sums.
LEMMA EventCounts ==
  ASSUME RecordInv, NEW e, log' = Append(log, e)
  PROVE  /\ HintsIn(log') = IF e.type = "HINT_REQUESTED" THEN HintsIn(log) \cup {Len(log) + 1} ELSE HintsIn(log)
         /\ \A S : CommandsIn(log', S) = IF e.type = "COMMAND_EXECUTED" /\ e.task \in S
                                         THEN CommandsIn(log, S) \cup {Len(log) + 1} ELSE CommandsIn(log, S)
         /\ Len(log) + 1 \notin DOMAIN log /\ log'[Len(log) + 1] = e /\ \A i \in DOMAIN log : log'[i] = log[i]
<1>1. log \in Seq({log[i] : i \in DOMAIN log})
  BY DEF RecordInv, LogInv
<1>2. /\ Len(log) \in Nat /\ DOMAIN log = 1 .. Len(log) /\ DOMAIN log' = 1 .. Len(log) + 1
      /\ log'[Len(log) + 1] = e /\ \A i \in DOMAIN log : log'[i] = log[i]
  BY <1>1, Appended
<1>3. DOMAIN log' = DOMAIN log \cup {Len(log) + 1} /\ Len(log) + 1 \notin DOMAIN log
  BY <1>2
<1>4. HintsIn(log') = IF e.type = "HINT_REQUESTED" THEN HintsIn(log) \cup {Len(log) + 1} ELSE HintsIn(log)
  BY <1>2, <1>3 DEF HintsIn
<1>5. ASSUME NEW S
      PROVE  CommandsIn(log', S) = IF e.type = "COMMAND_EXECUTED" /\ e.task \in S
                                   THEN CommandsIn(log, S) \cup {Len(log) + 1} ELSE CommandsIn(log, S)
  BY <1>2, <1>3 DEF CommandsIn
<1>6. QED BY <1>2, <1>3, <1>4, <1>5

\* A step of a log that appends no hint, or none at all.
NoHint == log' = log \/ \E e : log' = Append(log, e) /\ e.type # "HINT_REQUESTED"
NoCommand == log' = log \/ \E e : log' = Append(log, e) /\ e.type # "COMMAND_EXECUTED"

LEMMA NoHintAdded ==
  ASSUME RecordInv, NoHint
  PROVE  HintCosts(log') = HintCosts(log)
<1>1. HintsIn(log') = HintsIn(log) /\ \A i \in HintsIn(log) : log'[i] = log[i]
  BY EventCounts DEF NoHint, HintsIn
<1>2. QED BY <1>1 DEF HintCosts

LEMMA NoCommandAdded ==
  ASSUME RecordInv, NoCommand, NEW S
  PROVE  CommandsIn(log', S) = CommandsIn(log, S)
BY EventCounts DEF NoCommand

LEMMA NothingOwed ==
  ASSUME RecordInv, NEW h \in Requests, NEW r, req' = [req EXCEPT ![h] = r], req[h].pc # "charge", r.pc # "charge"
  PROVE  OwedCosts(req') = OwedCosts(req)
<1>1. DOMAIN req = Requests /\ req'[h] = r /\ \A g \in Requests \ {h} : req'[g] = req[g]
  BY DEF RecordInv
<1>2. ChargingIn(req') = ChargingIn(req) /\ \A g \in ChargingIn(req) : req'[g] = req[g]
  BY <1>1 DEF ChargingIn
<1>3. PICK q : q = req'
  OBVIOUS
<1>4. ChargingIn(q) = ChargingIn(req) /\ \A g \in ChargingIn(req) : HintCost[q[g].level] = HintCost[req[g].level]
  BY <1>2, <1>3
<1>5. OwedCosts(q) = OwedCosts(req)
  BY <1>4 DEF OwedCosts
<1>6. QED BY <1>3, <1>5

\* A step that leaves the ledger of the hints alone.
LEMMA HintsWait ==
  ASSUME RecordInv, HintsAgree, NoHint, OwedCosts(req') = OwedCosts(req), UNCHANGED penalty,
         used'.aborts = 0 => used.aborts = 0
  PROVE  HintsAgree'
<1>1. HintCosts(log') = HintCosts(log)
  BY NoHintAdded
<1>2. QED BY <1>1 DEF HintsAgree, Agree

LEMMA SignalsWait ==
  ASSUME RecordInv, SignalsAgree, NoCommand, UNCHANGED <<signals, msg>>, used'.aborts = 0 => used.aborts = 0
  PROVE  SignalsAgree'
<1>1. \A S : CommandsIn(log', S) = CommandsIn(log, S)
  BY NoCommandAdded
<1>2. QED BY <1>1 DEF SignalsAgree, SignalAgrees, Agree

\* The event is there, and the handler owes its cost.
LEMMA RevealEventCounts ==
  ASSUME RecordInv, CountInv, NEW h \in Requests, RevealEvent(h)
  PROVE  CountInv'
<1> DEFINE n == req[h].level
           e == [type |-> "HINT_REQUESTED", task |-> req[h].task, level |-> n]
           r == [req[h] EXCEPT !.pc = "charge"]
<1>1. /\ log' = Append(log, e) /\ req[h].pc = "hint" /\ req' = [req EXCEPT ![h] = r]
      /\ UNCHANGED <<penalty, signals, msg, used>>
  BY DEF RevealEvent, append, Goto, projections, ledger
<1>2. DOMAIN req[h] = ReqFields /\ n \in 1 .. MaxLevel
  BY <1>1 DEF RecordInv, ReqInv
<1>3. e.type = "HINT_REQUESTED" /\ e.level = n
  OBVIOUS
<1> HIDE DEF n
<1>4. r.pc = "charge" /\ r.level = n
  BY <1>2 DEF n, ReqFields
<1> HIDE DEF e, r
<1>5. HintCost[n] \in Int
  BY <1>2, RecordAssumption
<1>6. SumFunction(HintCosts(log')) = SumFunction(HintCosts(log)) + HintCost[n]
  <2>1. /\ HintsIn(log') = HintsIn(log) \cup {Len(log) + 1} /\ Len(log) + 1 \notin HintsIn(log)
        /\ log'[Len(log) + 1] = e /\ \A i \in HintsIn(log) : log'[i] = log[i]
    BY <1>1, <1>3, EventCounts DEF HintsIn
  <2>2. PICK f, g, x : f = HintCosts(log) /\ g = HintCosts(log') /\ x = Len(log) + 1
    OBVIOUS
  <2>3. /\ DOMAIN f = HintsIn(log) /\ DOMAIN g = DOMAIN f \cup {x} /\ x \notin DOMAIN f
        /\ g[x] = HintCost[n] /\ \A i \in DOMAIN f : g[i] = f[i]
    BY <1>3, <2>1, <2>2 DEF HintCosts
  <2>4. IsFiniteSet(DOMAIN f) /\ \A i \in DOMAIN f : f[i] \in Int
    BY <2>2, CostsAreNumbers
  <2>5. SumFunction(g) = SumFunction(f) + g[x]
    BY <1>5, <2>3, <2>4, SumAdd
  <2>6. QED BY <2>2, <2>3, <2>5
<1>7. SumFunction(OwedCosts(req')) = SumFunction(OwedCosts(req)) + HintCost[n]
  <2>1. DOMAIN req = Requests /\ req'[h] = r /\ \A g \in Requests \ {h} : req'[g] = req[g]
    BY <1>1 DEF RecordInv
  <2>2. /\ ChargingIn(req') = ChargingIn(req) \cup {h} /\ h \notin ChargingIn(req)
        /\ \A g \in ChargingIn(req) : req'[g] = req[g]
    BY <1>1, <1>4, <2>1 DEF ChargingIn
  <2>3. PICK f, g, q : f = OwedCosts(req) /\ g = OwedCosts(q) /\ q = req'
    OBVIOUS
  <2>4. /\ DOMAIN f = ChargingIn(req) /\ DOMAIN g = DOMAIN f \cup {h} /\ h \notin DOMAIN f
        /\ g[h] = HintCost[n] /\ \A i \in DOMAIN f : g[i] = f[i]
    BY <1>4, <2>1, <2>2, <2>3 DEF OwedCosts
  <2>5. IsFiniteSet(DOMAIN f) /\ \A i \in DOMAIN f : f[i] \in Int
    BY <2>3, CostsAreNumbers
  <2>6. SumFunction(g) = SumFunction(f) + g[h]
    BY <1>5, <2>4, <2>5, SumAdd
  <2>7. QED BY <2>3, <2>4, <2>6
<1>8. HintsAgree'
  <2>1. PICK a \in Int, b \in Int, c \in Int :
          a = SumFunction(OwedCosts(req)) /\ b = SumFunction(HintCosts(log)) /\ c = HintCost[n]
    BY <1>5, CostsAreNumbers
  <2>2. penalty \in Nat /\ penalty + a <= b /\ (used.aborts = 0 => penalty + a = b)
    BY <2>1 DEF CountInv, CountTypes, HintsAgree, Agree
  <2>3. penalty + (a + c) <= b + c /\ (used.aborts = 0 => penalty + (a + c) = b + c)
    BY <2>2
  <2>4. QED BY <1>1, <1>6, <1>7, <2>1, <2>3 DEF HintsAgree, Agree
<1>9. SignalsAgree'
  <2>1. NoCommand
    BY <1>1, <1>3 DEF NoCommand
  <2>2. QED BY <1>1, <2>1, SignalsWait DEF CountInv
<1>10. QED BY <1>1, <1>8, <1>9 DEF CountInv, CountTypes

\* A charging handler is done, or dies and is never paid.
LEMMA ChargeIsPaid ==
  ASSUME RecordInv, NEW h \in Requests, req[h].pc = "charge", req' = [req EXCEPT ![h] = Idle]
  PROVE  /\ HintCost[req[h].level] \in Nat
         /\ SumFunction(OwedCosts(req)) = SumFunction(OwedCosts(req')) + HintCost[req[h].level]
         /\ SumFunction(OwedCosts(req')) \in Int
<1>1. HintCost[req[h].level] \in Nat
  BY RecordAssumption DEF RecordInv, ReqInv
<1>2. DOMAIN req = Requests /\ req'[h] = Idle /\ \A g \in Requests \ {h} : req'[g] = req[g]
  BY DEF RecordInv
<1>3. /\ ChargingIn(req) = ChargingIn(req') \cup {h} /\ h \notin ChargingIn(req')
      /\ \A g \in ChargingIn(req') : req'[g] = req[g]
  BY <1>2, IdleIs DEF ChargingIn
<1>4. PICK f, g, q : f = OwedCosts(q) /\ g = OwedCosts(req) /\ q = req'
  OBVIOUS
<1>5. /\ DOMAIN g = DOMAIN f \cup {h} /\ h \notin DOMAIN f
      /\ g[h] = HintCost[req[h].level] /\ \A i \in DOMAIN f : g[i] = f[i]
  BY <1>2, <1>3, <1>4 DEF OwedCosts
<1>6. IsFiniteSet(DOMAIN g) /\ \A i \in DOMAIN g : g[i] \in Int
  BY <1>4, CostsAreNumbers
<1>7. IsFiniteSet(DOMAIN f) /\ \A i \in DOMAIN f : f[i] \in Int
  BY <1>5, <1>6, FS_Subset
<1>8. SumFunction(g) = SumFunction(f) + g[h]
  BY <1>1, <1>5, <1>7, SumAdd
<1>9. SumFunction(f) \in Int
  BY <1>7, SumInt
<1>10. QED BY <1>1, <1>4, <1>5, <1>8, <1>9

LEMMA RevealChargeCounts ==
  ASSUME RecordInv, CountInv, NEW h \in Requests, RevealCharge(h)
  PROVE  CountInv'
<1>1. /\ req[h].pc = "charge" /\ req' = [req EXCEPT ![h] = Idle] /\ penalty' = penalty + HintCost[req[h].level]
      /\ UNCHANGED <<log, signals, msg, used>>
  BY DEF RevealCharge, Done
<1>2. HintsAgree'
  <2>1. PICK a \in Int, b \in Int, c \in Nat, d \in Int :
          /\ a = SumFunction(OwedCosts(req)) /\ b = SumFunction(HintCosts(log)) /\ c = HintCost[req[h].level]
          /\ d = SumFunction(OwedCosts(req')) /\ a = d + c
    BY <1>1, ChargeIsPaid, CostsAreNumbers
  <2>2. penalty \in Nat /\ penalty + a <= b /\ (used.aborts = 0 => penalty + a = b)
    BY <2>1 DEF CountInv, CountTypes, HintsAgree, Agree
  <2>3. penalty' + d = penalty + a
    BY <1>1, <2>1, <2>2
  <2>4. QED BY <1>1, <2>1, <2>2, <2>3 DEF HintsAgree, Agree
<1>3. SignalsAgree'
  BY <1>1, SignalsWait DEF CountInv, NoCommand
<1>4. penalty' \in Nat
  <2>1. PICK c \in Nat : c = HintCost[req[h].level]
    BY <1>1, ChargeIsPaid
  <2>2. penalty \in Nat /\ penalty' = penalty + c
    BY <1>1, <2>1 DEF CountInv, CountTypes
  <2>3. QED BY <2>2
<1>5. QED BY <1>1, <1>2, <1>3, <1>4 DEF CountInv, CountTypes

LEMMA AbortCounts ==
  ASSUME RecordInv, CountInv, NEW h \in Requests, AbortRequest(h)
  PROVE  CountInv'
<1>1. /\ req' = [req EXCEPT ![h] = Idle] /\ used' = [used EXCEPT !.aborts = @ + 1]
      /\ UNCHANGED <<log, penalty, signals, msg>>
  BY DEF AbortRequest, Done, projections, ledger
<1>2. used'.aborts \in Nat \ {0} /\ DOMAIN used' = {"requests", "commands", "aborts"}
  BY <1>1 DEF CountInv, CountTypes
<1>3. HintsAgree'
  <2>1. CASE req[h].pc = "charge"
    <3>1. PICK a \in Int, b \in Int, c \in Nat, d \in Int :
            /\ a = SumFunction(OwedCosts(req)) /\ b = SumFunction(HintCosts(log)) /\ c = HintCost[req[h].level]
            /\ d = SumFunction(OwedCosts(req')) /\ a = d + c
      BY <1>1, <2>1, ChargeIsPaid, CostsAreNumbers
    <3>2. penalty \in Nat /\ penalty + a <= b
      BY <3>1 DEF CountInv, CountTypes, HintsAgree, Agree
    <3>3. penalty + d <= b
      BY <3>1, <3>2
    <3>4. QED BY <1>1, <1>2, <3>1, <3>3 DEF HintsAgree, Agree
  <2>2. CASE req[h].pc # "charge"
    BY <1>1, <1>2, <2>2, IdleIs, NothingOwed, HintsWait DEF CountInv, NoHint
  <2>3. QED BY <2>1, <2>2
<1>4. SignalsAgree'
  BY <1>1, <1>2, SignalsWait DEF CountInv, NoCommand
<1>5. QED BY <1>1, <1>2, <1>3, <1>4 DEF CountInv, CountTypes

\* A handler that counts nothing: it neither charges nor is about to.
Uncounted(h) ==
    /\ \E r : req' = [req EXCEPT ![h] = r] /\ req[h].pc # "charge" /\ r.pc # "charge"
    /\ NoHint /\ NoCommand
    /\ UNCHANGED <<penalty, signals, msg>>
    /\ DOMAIN used' = DOMAIN used /\ used'.aborts = used.aborts

LEMMA UncountedStep ==
  ASSUME RecordInv, CountInv, NEW h \in Requests, Uncounted(h)
  PROVE  CountInv'
<1>1. PICK r : req' = [req EXCEPT ![h] = r] /\ req[h].pc # "charge" /\ r.pc # "charge"
  BY DEF Uncounted
<1>2. OwedCosts(req') = OwedCosts(req)
  BY <1>1, NothingOwed
<1>3. HintsAgree' /\ SignalsAgree'
  BY <1>2, HintsWait, SignalsWait DEF Uncounted, CountInv
<1>4. QED BY <1>3 DEF Uncounted, CountInv, CountTypes

LEMMA OneMoreRequest ==
  ASSUME CountInv, used' = [used EXCEPT !.requests = @ + 1]
  PROVE  DOMAIN used' = DOMAIN used /\ used'.aborts = used.aborts
BY DEF CountInv, CountTypes

\* The handlers' first steps.
LEMMA NewRequestCounts ==
  ASSUME RecordInv, CountInv, NEW h \in Requests, NewRequest(h)
  PROVE  CountInv'
<1>1. DOMAIN req[h] = ReqFields /\ DOMAIN req = Requests
  BY DEF RecordInv, ReqInv
<1>2. ASSUME NEW r, req' = [req EXCEPT ![h] = r], req[h].pc # "charge", r.pc # "charge",
             UNCHANGED <<log, penalty, signals, msg>>, used' = [used EXCEPT !.requests = @ + 1] \/ UNCHANGED used
      PROVE  CountInv'
  BY <1>2, OneMoreRequest, UncountedStep DEF Uncounted, NoHint, NoCommand
<1>3. ASSUME NEW t, reveal(h, t) PROVE CountInv'
  <2> DEFINE r == [req[h] EXCEPT !.pc = "hint", !.task = t, !.level = getUsedMaxLevel(t) + 1]
  <2>1. /\ req' = [req EXCEPT ![h] = r] /\ req[h].pc = "idle"
        /\ UNCHANGED <<log, penalty, signals, msg>> /\ used' = [used EXCEPT !.requests = @ + 1]
    BY <1>3 DEF reveal, projections, ledger
  <2>2. r.pc = "hint"
    BY <1>1 DEF ReqFields
  <2> HIDE DEF r
  <2>3. QED BY <1>2, <2>1, <2>2
<1>4. ASSUME NEW t, guidedFallback(h, t) PROVE CountInv'
  <2> DEFINE r == [req[h] EXCEPT !.pc = "tell", !.task = t]
  <2>1. /\ req' = [req EXCEPT ![h] = r] /\ req[h].pc = "idle"
        /\ UNCHANGED <<log, penalty, signals, msg>> /\ used' = [used EXCEPT !.requests = @ + 1]
    BY <1>4 DEF guidedFallback, projections, ledger
  <2>2. r.pc = "tell"
    BY <1>1 DEF ReqFields
  <2> HIDE DEF r
  <2>3. QED BY <1>2, <2>1, <2>2
<1>5. CASE checkWork(h)
  <2> DEFINE r == [req[h] EXCEPT !.pc = "run"]
  <2>1. /\ req' = [req EXCEPT ![h] = r] /\ req[h].pc = "idle"
        /\ UNCHANGED <<log, penalty, signals, msg>> /\ used' = [used EXCEPT !.requests = @ + 1]
    BY <1>5 DEF checkWork, projections, ledger
  <2>2. r.pc = "run"
    BY <1>1 DEF ReqFields
  <2> HIDE DEF r
  <2>3. QED BY <1>2, <2>1, <2>2
<1>6. CASE submit(h)
  <2> DEFINE r == [req[h] EXCEPT !.pc = "evaluate"]
  <2>1. /\ req' = [req EXCEPT ![h] = r] /\ req[h].pc = "idle"
        /\ UNCHANGED <<log, penalty, signals, msg, used>>
    BY <1>6 DEF submit, projections, ledger
  <2>2. r.pc = "evaluate"
    BY <1>1 DEF ReqFields
  <2> HIDE DEF r
  <2>3. QED BY <1>2, <2>1, <2>2
<1>7. CASE submitArtifact(h)
  <2>1. /\ req[h].pc = "idle" /\ UNCHANGED <<req, log, penalty, signals, msg>>
        /\ used' = [used EXCEPT !.requests = @ + 1]
    BY <1>7 DEF submitArtifact, projections, ledger
  <2>2. UNCHANGED OwedCosts(req)
    BY <2>1
  <2>3. DOMAIN used' = DOMAIN used /\ used'.aborts = used.aborts
    BY <2>1, OneMoreRequest
  <2>4. HintsAgree' /\ SignalsAgree'
    BY <2>1, <2>2, <2>3, HintsWait, SignalsWait DEF CountInv, NoHint, NoCommand
  <2>5. QED BY <2>1, <2>3, <2>4 DEF CountInv, CountTypes
<1>8. QED BY <1>3, <1>4, <1>5, <1>6, <1>7 DEF NewRequest

\* The handlers' other steps.
LEMMA ContinueCounts ==
  ASSUME RecordInv, CountInv, NEW h \in Requests, Continue(h)
  PROVE  CountInv'
<1>1. DOMAIN req[h] = ReqFields
  BY DEF RecordInv, ReqInv
<1>2. ASSUME NEW r, req' = [req EXCEPT ![h] = r], req[h].pc # "charge", r.pc # "charge",
             UNCHANGED <<penalty, signals, msg, used>>, NoHint, NoCommand
      PROVE  CountInv'
  BY <1>2, UncountedStep DEF Uncounted
<1>3. ASSUME NEW r, req' = [req EXCEPT ![h] = r], req[h].pc # "charge", r.pc # "charge",
             UNCHANGED <<log, penalty, signals, msg, used>>
      PROVE  CountInv'
  BY <1>2, <1>3 DEF NoHint, NoCommand
<1>4. ASSUME NEW type, NEW task, append(type, task, 0), type # "HINT_REQUESTED", type # "COMMAND_EXECUTED"
      PROVE  NoHint /\ NoCommand
  <2> DEFINE e == [type |-> type, task |-> task, level |-> 0]
  <2>1. log' = Append(log, e) /\ e.type = type
    BY <1>4 DEF append
  <2> HIDE DEF e
  <2>2. QED BY <1>4, <2>1 DEF NoHint, NoCommand
<1>5. CASE FallbackEvent(h)
  <2> DEFINE r == [req[h] EXCEPT !.pc = "flag"]
  <2>1. /\ req' = [req EXCEPT ![h] = r] /\ req[h].pc = "tell" /\ append("SOLUTION_VIEWED", req[h].task, 0)
        /\ UNCHANGED <<penalty, signals, msg, used>>
    BY <1>5 DEF FallbackEvent, Goto, projections, ledger
  <2>2. r.pc = "flag"
    BY <1>1 DEF ReqFields
  <2> HIDE DEF r
  <2>3. QED BY <1>2, <1>4, <2>1, <2>2
<1>6. CASE FallbackFlag(h)
  <2>1. /\ req' = [req EXCEPT ![h] = Idle] /\ req[h].pc = "flag"
        /\ UNCHANGED <<log, penalty, signals, msg, used>>
    BY <1>6 DEF FallbackFlag, Done
  <2>2. QED BY <1>3, <2>1, IdleIs
<1>7. CASE evaluate(h)
  <2> DEFINE r == [req[h] EXCEPT !.pc = "run", !.submit = TRUE, !.penalty = penalty]
  <2>1. /\ req' = [req EXCEPT ![h] = r] /\ req[h].pc = "evaluate"
        /\ UNCHANGED <<log, penalty, signals, msg, used>>
    BY <1>7 DEF evaluate, projections, ledger
  <2>2. r.pc = "run"
    BY <1>1 DEF ReqFields
  <2> HIDE DEF r
  <2>3. QED BY <1>3, <2>1, <2>2
<1>8. CASE RunTask(h)
  <2>1. /\ req[h].pc = "run" /\ UNCHANGED <<penalty, signals, msg, used>>
        /\ \E type \in {"TASK_PASSED", "TASK_FAILED"} : \E task, results :
              /\ append(type, task, 0)
              /\ req' = [req EXCEPT ![h].results = Append(@, results)]
    BY <1>8 DEF RunTask, projections, ledger
  <2>2. PICK type \in {"TASK_PASSED", "TASK_FAILED"} : \E task, results :
              /\ append(type, task, 0)
              /\ req' = [req EXCEPT ![h].results = Append(@, results)]
    BY <2>1
  <2>3. PICK task, results :
              /\ append(type, task, 0)
              /\ req' = [req EXCEPT ![h].results = Append(@, results)]
    BY <2>2
  <2> DEFINE r == [req[h] EXCEPT !.results = Append(@, results)]
  <2>4. req' = [req EXCEPT ![h] = r]
    BY <2>3
  <2>5. r.pc = "run"
    BY <1>1, <2>1 DEF ReqFields
  <2> HIDE DEF r
  <2>6. QED BY <1>2, <1>4, <2>1, <2>3, <2>4, <2>5
<1>9. CASE RebuildRead(h)
  <2> DEFINE r == [req[h] EXCEPT !.pc = "rebuild", !.derived = deriveTaskState(log)]
  <2>1. /\ req' = [req EXCEPT ![h] = r] /\ req[h].pc = "run"
        /\ UNCHANGED <<log, penalty, signals, msg, used>>
    BY <1>9 DEF RebuildRead, projections, ledger
  <2>2. r.pc = "rebuild"
    BY <1>1 DEF ReqFields
  <2> HIDE DEF r
  <2>3. QED BY <1>3, <2>1, <2>2
<1>10. CASE rebuildForAttempt(h)
  <2> DEFINE r == IF req[h].submit THEN [req[h] EXCEPT !.pc = "score", !.derived = <<>>] ELSE Idle
  <2>1. /\ req' = [req EXCEPT ![h] = r] /\ req[h].pc = "rebuild"
        /\ UNCHANGED <<log, penalty, signals, msg, used>>
    BY <1>10 DEF rebuildForAttempt, ledger
  <2>2. r.pc \in {"score", "idle"}
    BY <1>1, IdleIs DEF ReqFields
  <2> HIDE DEF r
  <2>3. QED BY <1>3, <2>1, <2>2
<1>11. CASE EvaluateScore(h)
  <2> DEFINE r == [req[h] EXCEPT !.pc = "grade"]
  <2>1. /\ req' = [req EXCEPT ![h] = r] /\ req[h].pc = "score"
        /\ UNCHANGED <<log, penalty, signals, msg, used>>
    BY <1>11 DEF EvaluateScore, Goto, projections, ledger
  <2>2. r.pc = "grade"
    BY <1>1 DEF ReqFields
  <2> HIDE DEF r
  <2>3. QED BY <1>3, <2>1, <2>2
<1>12. CASE gradeArtifact(h)
  <2>1. /\ req' = [req EXCEPT ![h] = Idle] /\ req[h].pc = "grade"
        /\ UNCHANGED <<penalty, signals, msg, used>> /\ (append("AI_MESSAGE", artifacts, 0) \/ UNCHANGED log)
    BY <1>12 DEF gradeArtifact, Done, projections, ledger
  <2>2. NoHint /\ NoCommand
    BY <1>4, <2>1 DEF NoHint, NoCommand
  <2>3. QED BY <1>2, <2>1, <2>2, IdleIs
<1>13. QED BY <1>5, <1>6, <1>7, <1>8, <1>9, <1>10, <1>11, <1>12, RevealEventCounts, RevealChargeCounts
           DEF Continue

-----------------------------------------------------------------------------
(* The consumer: the event first, the signals after it *)

\* A message with a command of S adds one to the events, and to what is owed.
LEMMA CommandCounts ==
  ASSUME RecordInv, CountInv, NEW cmd, handleCommand(cmd)
  PROVE  CountInv'
<1> DEFINE e == [type |-> "COMMAND_EXECUTED", task |-> cmd, level |-> 0]
<1>1. /\ log' = Append(log, e) /\ msg.pc = "idle" /\ msg' = [pc |-> "signals", cmd |-> cmd]
      /\ used' = [used EXCEPT !.commands = @ + 1] /\ UNCHANGED <<req, penalty, signals>>
  BY DEF handleCommand, append, projections, ledger
<1>2. e.type = "COMMAND_EXECUTED" /\ e.task = cmd
  OBVIOUS
<1> HIDE DEF e
<1>3. DOMAIN used' = DOMAIN used /\ used'.aborts = used.aborts
  BY <1>1 DEF CountInv, CountTypes
<1>4. HintsAgree'
  <2>1. NoHint
    BY <1>1, <1>2 DEF NoHint
  <2>2. UNCHANGED OwedCosts(req)
    BY <1>1
  <2>3. QED BY <1>1, <1>3, <2>1, <2>2, HintsWait DEF CountInv
<1>5. ASSUME NEW S, NEW n \in Nat, SignalAgrees(n, S)
      PROVE  Agree(used'.aborts, n + LagOf(msg', S), Cardinality(CommandsIn(log', S)))
  <2>1. LagOf(msg, S) = 0 /\ LagOf(msg', S) = IF cmd \in S THEN 1 ELSE 0
    BY <1>1 DEF LagOf
  <2>2. PICK c \in Nat : c = Cardinality(CommandsIn(log, S)) /\ IsFiniteSet(CommandsIn(log, S))
    BY CostsAreNumbers
  <2>3. n <= c /\ (used.aborts = 0 => n = c)
    BY <1>5, <2>1, <2>2 DEF SignalAgrees, Agree
  <2>4. Cardinality(CommandsIn(log', S)) = IF cmd \in S THEN c + 1 ELSE c
    <3>1. Len(log) + 1 \notin CommandsIn(log, S)
      BY <1>1, EventCounts DEF CommandsIn
    <3>2. CommandsIn(log', S) = IF cmd \in S THEN CommandsIn(log, S) \cup {Len(log) + 1} ELSE CommandsIn(log, S)
      BY <1>1, <1>2, EventCounts
    <3>3. QED BY <2>2, <3>1, <3>2, FS_AddElement
  <2>5. QED BY <1>3, <2>1, <2>3, <2>4 DEF Agree
<1>6. SignalsAgree'
  <2>1. signals.violations \in Nat /\ signals.good \in Nat /\ signals.bad \in Nat
    BY DEF CountInv, CountTypes
  <2>2. /\ Agree(used'.aborts, signals.violations + LagOf(msg', Forbidden), Cardinality(CommandsIn(log', Forbidden)))
        /\ Agree(used'.aborts, signals.good + LagOf(msg', GoodActions), Cardinality(CommandsIn(log', GoodActions)))
        /\ Agree(used'.aborts, signals.bad + LagOf(msg', BadActions), Cardinality(CommandsIn(log', BadActions)))
    BY <1>5, <2>1 DEF CountInv, SignalsAgree
  <2>3. QED BY <1>1, <2>2 DEF SignalsAgree, SignalAgrees
<1>7. QED BY <1>1, <1>3, <1>4, <1>6 DEF CountInv, CountTypes

\* What was owed is counted.
LEMMA SignalCounts ==
  ASSUME RecordInv, CountInv, incrementSignal
  PROVE  CountInv'
<1>1. /\ msg.pc = "signals" /\ msg' = NoMsg /\ UNCHANGED <<req, log, penalty, used>>
      /\ signals'.violations = signals.violations + LagOf(msg, Forbidden)
      /\ signals'.good = signals.good + LagOf(msg, GoodActions)
      /\ signals'.bad = signals.bad + LagOf(msg, BadActions)
  BY DEF incrementSignal, LagOf, ledger
<1>2. \A S : LagOf(msg, S) \in Nat /\ LagOf(msg', S) = 0
  BY <1>1 DEF LagOf, NoMsg
<1>3. signals.violations \in Nat /\ signals.good \in Nat /\ signals.bad \in Nat
  BY DEF CountInv, CountTypes
<1>4. signals'.violations \in Nat /\ signals'.good \in Nat /\ signals'.bad \in Nat
  BY <1>1, <1>2, <1>3
<1>5. HintsAgree'
  <2>1. UNCHANGED OwedCosts(req)
    BY <1>1
  <2>2. QED BY <1>1, <2>1, HintsWait DEF CountInv, NoHint
<1>6. SignalsAgree'
  <2>1. /\ Agree(used.aborts, signals'.violations, Cardinality(CommandsIn(log, Forbidden)))
        /\ Agree(used.aborts, signals'.good, Cardinality(CommandsIn(log, GoodActions)))
        /\ Agree(used.aborts, signals'.bad, Cardinality(CommandsIn(log, BadActions)))
    BY <1>1 DEF CountInv, SignalsAgree, SignalAgrees
  <2>2. /\ signals'.violations + LagOf(msg', Forbidden) = signals'.violations
        /\ signals'.good + LagOf(msg', GoodActions) = signals'.good
        /\ signals'.bad + LagOf(msg', BadActions) = signals'.bad
    BY <1>2, <1>4
  <2>3. QED BY <1>1, <2>1, <2>2 DEF SignalsAgree, SignalAgrees
<1>7. QED BY <1>1, <1>4, <1>5, <1>6 DEF CountInv, CountTypes

\* A message that is dropped leaves the counters behind the log.
LEMMA DropCounts ==
  ASSUME RecordInv, CountInv, DropMessage
  PROVE  CountInv'
<1>1. /\ msg' = NoMsg /\ used' = [used EXCEPT !.aborts = @ + 1] /\ UNCHANGED <<req, log, penalty, signals>>
  BY DEF DropMessage, projections, ledger
<1>2. used'.aborts \in Nat \ {0} /\ DOMAIN used' = {"requests", "commands", "aborts"}
  BY <1>1 DEF CountInv, CountTypes
<1>3. HintsAgree'
  <2>1. UNCHANGED OwedCosts(req)
    BY <1>1
  <2>2. QED BY <1>1, <1>2, <2>1, HintsWait DEF CountInv, NoHint
<1>4. ASSUME NEW S, NEW n \in Nat, SignalAgrees(n, S)
      PROVE  Agree(used'.aborts, n + LagOf(msg', S), Cardinality(CommandsIn(log, S)))
  <2>1. LagOf(msg, S) \in Nat /\ LagOf(msg', S) = 0
    BY <1>1 DEF LagOf, NoMsg
  <2>2. PICK c \in Nat : c = Cardinality(CommandsIn(log, S))
    BY CostsAreNumbers
  <2>3. n + LagOf(msg, S) <= c
    BY <1>4, <2>2 DEF SignalAgrees, Agree
  <2>4. n + LagOf(msg', S) <= c
    BY <2>1, <2>3
  <2>5. QED BY <1>2, <2>2, <2>4 DEF Agree
<1>5. SignalsAgree'
  <2>1. signals.violations \in Nat /\ signals.good \in Nat /\ signals.bad \in Nat
    BY DEF CountInv, CountTypes
  <2>2. QED BY <1>1, <1>4, <2>1 DEF CountInv, SignalsAgree, SignalAgrees
<1>6. QED BY <1>1, <1>2, <1>3, <1>5 DEF CountInv, CountTypes

LEMMA CountNext ==
  ASSUME RecordInv, CountInv, [Next]_vars
  PROVE  CountInv'
<1>1. CASE UNCHANGED vars
  <2>1. UNCHANGED <<req, log, penalty, signals, msg, used>>
    BY <1>1 DEF vars
  <2>2. UNCHANGED OwedCosts(req)
    BY <2>1
  <2>3. HintsAgree' /\ SignalsAgree'
    BY <2>1, <2>2, HintsWait, SignalsWait DEF CountInv, NoHint, NoCommand
  <2>4. QED BY <2>1, <2>3 DEF CountInv, CountTypes
<1>2. QED BY <1>1, NewRequestCounts, ContinueCounts, AbortCounts, CommandCounts, SignalCounts, DropCounts DEF Next

LEMMA CountInit == Init => CountInv
<1>1. SUFFICES ASSUME Init PROVE CountInv
  OBVIOUS
<1>2. /\ log = <<>> /\ req = [h \in Requests |-> Idle] /\ penalty = 0 /\ msg.pc = "idle"
      /\ signals = [violations |-> 0, good |-> 0, bad |-> 0]
      /\ used = [requests |-> 0, commands |-> 0, aborts |-> 0]
  BY <1>1 DEF Init, NoMsg
<1>3. RecordInv
  BY <1>1, RecordInit
<1>4. HintsIn(log) = {} /\ ChargingIn(req) = {} /\ \A S : CommandsIn(log, S) = {} /\ LagOf(msg, S) = 0
  BY <1>2, IdleIs DEF HintsIn, ChargingIn, CommandsIn, LagOf
<1>5. SumFunction(HintCosts(log)) = 0 /\ SumFunction(OwedCosts(req)) = 0
  <2>1. DOMAIN HintCosts(log) = {} /\ DOMAIN OwedCosts(req) = {}
    BY <1>4 DEF HintCosts, OwedCosts
  <2>2. QED BY <1>3, <2>1, CostsAreNumbers, SumInt
<1>6. HintsAgree
  BY <1>2, <1>5 DEF HintsAgree, Agree
<1>7. SignalsAgree
  <2>1. \A S : Cardinality(CommandsIn(log, S)) = 0
    BY <1>4, FS_EmptySet
  <2>2. signals.violations = 0 /\ signals.good = 0 /\ signals.bad = 0
    BY <1>2
  <2>3. \A S : SignalAgrees(0, S)
    BY <1>4, <2>1 DEF SignalAgrees, Agree
  <2>4. QED BY <2>2, <2>3 DEF SignalsAgree
<1>8. CountTypes
  BY <1>2 DEF CountTypes
<1>9. QED BY <1>6, <1>7, <1>8 DEF CountInv

\* hint.service.ts and command-executed.consumer.ts: with any number of
\* requests at once, any ladder prices and any commands, the learner never pays
\* for a hint, and no signal counts a command, that the log does not have; and
\* until a request or message dies half way, every counter is exactly the log's
\* but for what its writers are about to add.
THEOREM CountersFollowLog == Spec => []CountersMatchLog
<1>1. CountInv => CountersMatchLog
  <2>1. SUFFICES ASSUME CountInv PROVE CountersMatchLog
    OBVIOUS
  <2>2. HintTotal = SumFunction(HintCosts(log))
    BY DEF HintTotal, HintEvents, HintCosts, HintsIn
  <2>3. SumFunction([h \in Charging |-> HintCost[req[h].level]]) = SumFunction(OwedCosts(req))
    BY DEF Charging, OwedCosts, ChargingIn
  <2>4. \A S : CommandCount(S) = Cardinality(CommandsIn(log, S))
    BY DEF CommandCount, CommandsIn
  <2>5. QED BY <2>1, <2>2, <2>3, <2>4 DEF CountersMatchLog, CountInv, HintsAgree, SignalsAgree, SignalAgrees, Agree, LagOf
<1>2. Init => CountInv
  BY CountInit
<1>3. RecordInv /\ CountInv /\ [Next]_vars => CountInv'
  BY CountNext
<1>4. QED BY <1>1, <1>2, <1>3, RecordHolds, PTL DEF Spec

-----------------------------------------------------------------------------
(* The score *)

\* A sum of natural numbers is one.
LEMMA SumNat ==
  ASSUME NEW f, IsFiniteSet(DOMAIN f), \A x \in DOMAIN f : f[x] \in Nat
  PROVE  SumFunction(f) \in Nat
<1>1. PICK it : Sums(f, DOMAIN f, it) /\ SumFunction(f) = it[DOMAIN f]
  BY SumIs
<1> DEFINE S == {n \in Nat : \E s \in SUBSET DOMAIN f : Cardinality(s) = n /\ it[s] \notin Nat}
<1>2. \A s \in SUBSET DOMAIN f : IsFiniteSet(s) /\ Cardinality(s) \in Nat
  BY FS_Subset, FS_CardinalityType
<1>3. SUFFICES ASSUME S # {} PROVE FALSE
  BY <1>1, <1>2
<1>4. PICK n \in S : \A m \in S : n <= m
  <2>1. S \in SUBSET Nat
    OBVIOUS
  <2> HIDE DEF S
  <2>2. QED BY <1>3, <2>1, LeastNatural
<1>5. PICK s \in SUBSET DOMAIN f : Cardinality(s) = n /\ it[s] \notin Nat
  BY <1>4
<1>6. \A u \in SUBSET DOMAIN f : Cardinality(u) < Cardinality(s) => it[u] \in Nat
  BY <1>2, <1>4, <1>5
<1>7. it[s] = IF s = {} THEN 0 ELSE f[Pick(s)] + it[s \ {Pick(s)}]
  BY <1>1 DEF Sums
<1>8. s # {}
  BY <1>5, <1>7
<1>9. Pick(s) \in s /\ Cardinality(s \ {Pick(s)}) = Cardinality(s) - 1 /\ Cardinality(s) \in Nat
  BY <1>2, <1>8, PickOne
<1>10. s \ {Pick(s)} \in SUBSET DOMAIN f /\ Cardinality(s \ {Pick(s)}) < Cardinality(s)
  BY <1>9
<1>11. f[Pick(s)] \in Nat /\ it[s \ {Pick(s)}] \in Nat
  BY <1>6, <1>9, <1>10
<1>12. QED BY <1>5, <1>7, <1>8, <1>11

LEMMA Fraction ==
  ASSUME NEW a \in Nat, NEW b \in Nat, b # 0
  PROVE  (Unit * a) \div b \in Int
BY DEF Unit

\* What an evaluation hands to the criteria.
Input(in) ==
    /\ IsFiniteSet(DOMAIN in.tasks)
    /\ \A t \in DOMAIN in.tasks :
         /\ IsFiniteSet(DOMAIN in.tasks[t].validators)
         /\ \A i \in DOMAIN in.tasks[t].validators : in.tasks[t].validators[i].weight \in Nat
    /\ {in.hints, in.resets, in.retries, in.violations, in.good, in.bad, in.active, in.estimated} \subseteq Nat
    /\ IsFiniteSet(in.paths) /\ \A p \in in.paths : IsFiniteSet(DOMAIN p)

LEMMA ResultsFinite ==
  ASSUME NEW in, Input(in)
  PROVE  /\ IsFiniteSet(Results(in.tasks))
         /\ \A r \in Results(in.tasks) : in.tasks[r[1]].validators[r[2]].weight \in Nat
<1> DEFINE D == DOMAIN in.tasks
           keys == [t \in D |-> DOMAIN in.tasks[t].validators]
           T == {keys[t] : t \in D}
<1>1. IsFiniteSet(D) /\ \A t \in D : IsFiniteSet(keys[t])
  BY DEF Input
<1>2. keys \in Surjection(D, T)
  BY DEF Surjection
<1>3. IsFiniteSet(T) /\ \A K \in T : IsFiniteSet(K)
  <2>1. \A K \in T : IsFiniteSet(K)
    BY <1>1
  <2> HIDE DEF T, keys, D
  <2>2. QED BY <1>1, <1>2, <2>1, FS_Surjection
<1>4. IsFiniteSet(UNION T)
  <2> HIDE DEF T
  <2>1. QED BY <1>3, FS_UNION
<1>5. IsFiniteSet(D \X UNION T)
  <2> HIDE DEF T, D
  <2>1. QED BY <1>1, <1>4, FS_Product
<1>6. ASSUME NEW r \in Results(in.tasks)
      PROVE  r \in D \X UNION T /\ in.tasks[r[1]].validators[r[2]].weight \in Nat
  <2>1. PICK t \in D : \E i \in Scorable(in.tasks[t].validators) : r = <<t, i>>
    BY DEF Results
  <2>2. PICK i \in Scorable(in.tasks[t].validators) : r = <<t, i>>
    BY <2>1
  <2>3. i \in DOMAIN in.tasks[t].validators /\ keys[t] \in T
    BY DEF Scorable
  <2>4. i \in UNION T
    BY <2>3
  <2>5. QED BY <2>2, <2>3, <2>4 DEF Input
<1>7. Results(in.tasks) \in SUBSET (D \X UNION T)
  BY <1>6
<1>8. QED BY <1>5, <1>6, <1>7, FS_Subset

LEMMA CorrectnessInt ==
  ASSUME NEW in, Input(in)
  PROVE  technicalCorrectnessV1(in) \in Int
<1> DEFINE all == Results(in.tasks)
           passing == {r \in all : in.tasks[r[1]].validators[r[2]].status = "PASS"}
           f == [r \in all |-> in.tasks[r[1]].validators[r[2]].weight]
           g == [r \in passing |-> in.tasks[r[1]].validators[r[2]].weight]
<1>1. technicalCorrectnessV1(in) = IF SumFunction(f) = 0 THEN 0 ELSE (Unit * SumFunction(g)) \div SumFunction(f)
  BY DEF technicalCorrectnessV1
<1>2. /\ IsFiniteSet(DOMAIN f) /\ \A r \in DOMAIN f : f[r] \in Nat
      /\ DOMAIN g \in SUBSET DOMAIN f /\ \A r \in DOMAIN g : g[r] \in Nat
  BY ResultsFinite
<1> HIDE DEF f, g
<1>3. IsFiniteSet(DOMAIN g)
  BY <1>2, FS_Subset
<1>4. SumFunction(f) \in Nat /\ SumFunction(g) \in Nat
  BY <1>2, <1>3, SumNat
<1>5. QED BY <1>1, <1>4, Fraction

LEMMA CompletionInt ==
  ASSUME NEW in, Input(in)
  PROVE  taskCompletionV1(in) \in Int
<1> DEFINE required == {t \in DOMAIN in.tasks : in.tasks[t].required}
           passed == {t \in required : taskPassed(in.tasks[t].validators)}
<1>1. taskCompletionV1(in) = IF required = {} THEN Unit ELSE (Unit * Cardinality(passed)) \div Cardinality(required)
  BY DEF taskCompletionV1
<1>2. IsFiniteSet(DOMAIN in.tasks) /\ required \in SUBSET DOMAIN in.tasks /\ passed \in SUBSET required
  BY DEF Input
<1> HIDE DEF required, passed
<1>3. IsFiniteSet(required) /\ IsFiniteSet(passed)
  BY <1>2, FS_Subset
<1>4. Cardinality(required) \in Nat /\ Cardinality(passed) \in Nat /\ (required # {} => Cardinality(required) # 0)
  BY <1>3, FS_CardinalityType, FS_EmptySet
<1>5. Unit \in Int
  BY DEF Unit
<1>6. QED BY <1>1, <1>4, <1>5, Fraction

LEMMA EfficiencyInt ==
  ASSUME NEW in, Input(in)
  PROVE  efficiencyV1(in) \in Int
<1> DEFINE evidence == \/ \E t \in DOMAIN in.tasks : taskPassed(in.tasks[t].validators)
                       \/ in.preSubmitRuns > 0
                       \/ in.active >= 2
           over == in.active - in.estimated
           late == Unit - (Unit * over) \div (2 * in.estimated)
<1>1. in.active \in Nat /\ in.estimated \in Nat
  BY DEF Input
<1>2. efficiencyV1(in) = CASE ~evidence -> 0
                           [] evidence /\ (in.estimated <= 0 \/ over <= 0) -> Unit
                           [] OTHER -> Max({0, late})
  BY DEF efficiencyV1
<1>3. over \in Int /\ (in.estimated > 0 => late \in Int)
  BY <1>1 DEF Unit
<1> HIDE DEF evidence, late, over
<1>4. in.estimated > 0 => Max({0, late}) \in Int
  <2>1. ASSUME NEW n \in Int PROVE Max({0, n}) \in Int
    <3>1. 0 \in Int /\ n \in Int
      OBVIOUS
    <3>2. Max({0, n}) \in {0, n}
      BY ONLY <3>1, MaxOfTwo
    <3>3. QED BY <3>1, <3>2
  <2>2. QED BY <1>3, <2>1
<1>5. QED BY <1>1, <1>2, <1>4 DEF Unit

LEMMA OrderingInt ==
  ASSUME NEW path, IsFiniteSet(DOMAIN path), NEW commands
  PROVE  LET o == orderingScoreForPath(path, commands) IN o.comparable \in Nat /\ o.ordered \in Nat
<1> DEFINE seen(s) == {k \in DOMAIN commands : commands[k] = s}
           pairs == {p \in (DOMAIN path) \X (DOMAIN path) :
                       p[1] < p[2] /\ seen(path[p[1]]) # {} /\ seen(path[p[2]]) # {}}
           ordered == {p \in pairs : Min(seen(path[p[1]])) < Min(seen(path[p[2]]))}
<1>1. orderingScoreForPath(path, commands) = [comparable |-> Cardinality(pairs), ordered |-> Cardinality(ordered)]
  BY DEF orderingScoreForPath
<1>2. pairs \in SUBSET ((DOMAIN path) \X (DOMAIN path)) /\ ordered \in SUBSET pairs
  OBVIOUS
<1> HIDE DEF pairs, ordered
<1>3. IsFiniteSet((DOMAIN path) \X (DOMAIN path))
  BY FS_Product
<1>4. IsFiniteSet(pairs) /\ IsFiniteSet(ordered)
  BY <1>2, <1>3, FS_Subset
<1>5. QED BY <1>1, <1>4, FS_CardinalityType

LEMMA TroubleshootingInt ==
  ASSUME NEW in, Input(in)
  PROVE  troubleshootingV1(in) \in Int
<1>1. diagnosticEfficiencyV1(in) \in Int
  <2>1. PICK a \in Nat, b \in Nat : a = in.good /\ b = in.bad
    BY DEF Input
  <2>2. diagnosticEfficiencyV1(in) = IF a + b = 0 THEN Unit ELSE (Unit * a) \div (a + b)
    BY <2>1 DEF diagnosticEfficiencyV1
  <2>3. a + b \in Nat /\ Unit \in Int
    BY DEF Unit
  <2>4. QED BY <2>2, <2>3, Fraction
<1>2. hypothesisOrderingV1(in) \in Int
  <2> DEFINE result(p) == orderingScoreForPath(p, in.commands)
             scored == {p \in in.paths : result(p).comparable > 0}
             f == [p \in scored |-> (Unit * result(p).ordered) \div result(p).comparable]
  <2>1. hypothesisOrderingV1(in) = IF scored = {} THEN Unit ELSE SumFunction(f) \div Cardinality(scored)
    BY DEF hypothesisOrderingV1
  <2>2. scored \in SUBSET in.paths /\ IsFiniteSet(in.paths) /\ DOMAIN f = scored
    BY DEF Input
  <2>3. ASSUME NEW p \in scored PROVE f[p] \in Int
    <3>1. PICK a \in Nat, b \in Nat : a = result(p).ordered /\ b = result(p).comparable
      BY OrderingInt DEF Input
    <3>2. b # 0
      BY <3>1
    <3>3. f[p] = (Unit * a) \div b
      BY <3>1
    <3>4. QED BY <3>2, <3>3, Fraction
  <2> HIDE DEF scored, f
  <2>4. IsFiniteSet(scored)
    BY <2>2, FS_Subset
  <2>5. SumFunction(f) \in Int
    BY <2>2, <2>3, <2>4, SumInt
  <2>6. Cardinality(scored) \in Nat /\ (scored # {} => Cardinality(scored) # 0)
    BY <2>4, FS_CardinalityType, FS_EmptySet
  <2>7. QED BY <2>1, <2>5, <2>6 DEF Unit
<1>3. QED BY <1>1, <1>2 DEF troubleshootingV1

LEMMA WeightedSumInt ==
  ASSUME NEW in, Input(in), NEW p, IsProfile(p)
  PROVE  weightedSum(in, p) \in Int
<1> DEFINE f == [c \in DOMAIN p.weights |-> CRITERION_REGISTRY(in)[c] * p.weights[c]]
<1>1. \A c \in DOMAIN p.weights : CRITERION_REGISTRY(in)[c] \in Int
  BY CorrectnessInt, CompletionInt, EfficiencyInt, TroubleshootingInt DEF CRITERION_REGISTRY, IsProfile
<1>2. \A c \in DOMAIN p.weights : f[c] \in Int
  BY <1>1 DEF IsProfile
<1>3. weightedSum(in, p) = SumFunction(f)
  BY DEF weightedSum
<1>4. IsFiniteSet(DOMAIN f) /\ \A c \in DOMAIN f : f[c] \in Int
  BY <1>2 DEF IsProfile
<1> HIDE DEF f
<1>5. QED BY <1>3, <1>4, SumInt

\* The criteria look at the work, not at hints, resets, retries and violations.
SameWork(in, other) ==
    /\ other.tasks = in.tasks /\ other.preSubmitRuns = in.preSubmitRuns
    /\ other.active = in.active /\ other.estimated = in.estimated
    /\ other.good = in.good /\ other.bad = in.bad
    /\ other.commands = in.commands /\ other.paths = in.paths

LEMMA SameWorkSameSum ==
  ASSUME NEW in, NEW other, SameWork(in, other), NEW p
  PROVE  weightedSum(other, p) = weightedSum(in, p)
<1>1. technicalCorrectnessV1(other) = technicalCorrectnessV1(in)
  BY DEF SameWork, technicalCorrectnessV1
<1>2. taskCompletionV1(other) = taskCompletionV1(in)
  BY DEF SameWork, taskCompletionV1
<1>3. efficiencyV1(other) = efficiencyV1(in)
  BY DEF SameWork, efficiencyV1
<1>4. troubleshootingV1(other) = troubleshootingV1(in)
  <2>1. diagnosticEfficiencyV1(other) = diagnosticEfficiencyV1(in)
    BY DEF SameWork, diagnosticEfficiencyV1
  <2>2. hypothesisOrderingV1(other) = hypothesisOrderingV1(in)
    BY DEF SameWork, hypothesisOrderingV1
  <2>3. QED BY <2>1, <2>2 DEF troubleshootingV1
<1>5. CRITERION_REGISTRY(other) = CRITERION_REGISTRY(in)
  BY <1>1, <1>2, <1>3, <1>4 DEF CRITERION_REGISTRY
<1>6. QED BY <1>5 DEF weightedSum

\* One penalty: never negative, and nothing for nothing.
Cost(n, d) == AtMost(n * d.per, d.cap)

LEMMA CostIs ==
  ASSUME NEW n \in Nat, NEW d, d.per \in Nat, d.cap \in Nat
  PROVE  Cost(n, d) \in Nat /\ Cost(0, d) = 0
<1>1. PICK a \in Nat, b \in Nat : a = d.per /\ b = d.cap
  OBVIOUS
<1>2. n * a \in Nat /\ 0 * a = 0
  OBVIOUS
<1>3. QED BY <1>1, <1>2 DEF Cost, AtMost

\* The final score as a function of the sum, the penalties and the bonus.
Final(raw, penalties, bonus, pass, guard) ==
    LET final == raw - penalties + bonus
        floored == IF raw >= pass /\ final < guard THEN guard ELSE final
    IN Max({0, AtMost(floored, Full)})

LEMMA FinalIsMonotone ==
  ASSUME NEW raw \in Int, NEW p \in Int, NEW b \in Int, NEW q \in Int, NEW c \in Int,
         NEW pass \in Int, NEW guard \in Int, q <= p, b <= c
  PROVE  Final(raw, p, b, pass, guard) <= Final(raw, q, c, pass, guard)
<1> DEFINE F(x, y) == raw - x + y
           G(x, y) == IF raw >= pass /\ F(x, y) < guard THEN guard ELSE F(x, y)
<1>1. G(p, b) \in Int /\ G(q, c) \in Int /\ G(p, b) <= G(q, c)
  OBVIOUS
<1>2. PICK m \in Int, n \in Int : m = AtMost(G(p, b), Full) /\ n = AtMost(G(q, c), Full) /\ m <= n
  BY <1>1 DEF AtMost, Full, Unit
<1>3. Final(raw, p, b, pass, guard) = Max({0, m}) /\ Final(raw, q, c, pass, guard) = Max({0, n})
  BY <1>2 DEF Final
<1>4. Max({0, m}) \in {0, m} /\ Max({0, n}) >= 0 /\ Max({0, n}) >= n /\ Max({0, n}) \in {0, n}
  BY MaxOfTwo
<1>5. QED BY <1>2, <1>3, <1>4

LEMMA FinalIsGuarded ==
  ASSUME NEW raw \in Int, NEW p \in Int, NEW b \in Int, NEW pass \in Int, NEW guard \in Int,
         raw >= pass, guard <= Full
  PROVE  Final(raw, p, b, pass, guard) >= guard
<1> DEFINE G == IF raw >= pass /\ raw - p + b < guard THEN guard ELSE raw - p + b
<1>1. G \in Int /\ G >= guard
  OBVIOUS
<1>2. PICK m \in Int : m = AtMost(G, Full) /\ m >= guard
  BY <1>1 DEF AtMost, Full, Unit
<1>3. Final(raw, p, b, pass, guard) = Max({0, m})
  BY <1>2 DEF Final
<1>4. Max({0, m}) >= m /\ Max({0, m}) \in {0, m}
  BY MaxOfTwo
<1>5. QED BY <1>2, <1>3, <1>4

Bonus(in, p) == IF in.retries = 0 THEN Percent(p.firstTry) ELSE 0

LEMMA ScoreIsFinal ==
  ASSUME NEW in, NEW p
  PROVE  score(in, p) = Final(weightedSum(in, p), totalPenalty(in, p), Bonus(in, p),
                              Percent(p.pass), Percent(p.guard))
BY DEF score, Final, Bonus

LEMMA PenaltiesAre ==
  ASSUME NEW in, Input(in), NEW p, IsProfile(p)
  PROVE  \E o \in Nat :
           /\ o = Cost(Max({0, in.active - in.estimated}) \div 100, p.overtime)
           /\ totalPenalty(in, p) = Percent(Cost(in.hints, p.hints) + Cost(in.resets, p.resets)
                                            + Cost(in.retries, p.retries) + Cost(in.violations, p.blast) + o)
           /\ {Cost(in.hints, p.hints), Cost(in.resets, p.resets), Cost(in.retries, p.retries),
               Cost(in.violations, p.blast)} \subseteq Nat
<1>1. PICK n \in Int : n = in.active - in.estimated
  BY DEF Input
<1>2. PICK m \in Nat : m = Max({0, n})
  BY MaxOfTwo
<1>3. m \div 100 \in Nat
  OBVIOUS
<1>4. Cost(m \div 100, p.overtime) \in Nat
  BY <1>3, CostIs DEF IsProfile
<1>5. {Cost(in.hints, p.hints), Cost(in.resets, p.resets), Cost(in.retries, p.retries),
       Cost(in.violations, p.blast)} \subseteq Nat
  <2>1. Cost(in.hints, p.hints) \in Nat /\ Cost(in.resets, p.resets) \in Nat
    BY CostIs, SMTT(30) DEF Input, IsProfile
  <2>2. Cost(in.retries, p.retries) \in Nat /\ Cost(in.violations, p.blast) \in Nat
    BY CostIs, SMTT(30) DEF Input, IsProfile
  <2>3. QED BY <2>1, <2>2
<1>6. QED BY <1>1, <1>2, <1>4, <1>5 DEF totalPenalty, Cost

\* The same work without hints, resets, retries and violations.
Clean(in) == [in EXCEPT !.hints = 0, !.resets = 0, !.retries = 0, !.violations = 0]
InputFields == {"tasks", "hints", "resets", "retries", "active", "estimated", "preSubmitRuns",
                "violations", "good", "bad", "commands", "paths"}

LEMMA ScoreFair ==
  ASSUME NEW in, DOMAIN in = InputFields, Input(in), NEW p, IsProfile(p)
  PROVE  /\ weightedSum(in, p) >= Percent(p.pass) => score(in, p) >= Percent(p.guard)
         /\ score(in, p) <= score(Clean(in), p)
<1> DEFINE clean == Clean(in)
<1>1. /\ SameWork(in, clean) /\ clean.hints = 0 /\ clean.resets = 0 /\ clean.retries = 0 /\ clean.violations = 0
  BY DEF Clean, SameWork, InputFields
<1> HIDE DEF clean
<1>2. Input(clean)
  BY <1>1 DEF Input, SameWork
<1>3. PICK raw \in Int : raw = weightedSum(in, p) /\ raw = weightedSum(clean, p)
  BY <1>1, WeightedSumInt, SameWorkSameSum
<1>4. PICK pass \in Nat, guard \in Nat, first \in Nat : pass = p.pass /\ guard = p.guard /\ first = p.firstTry
  BY DEF IsProfile
<1>5. PICK x \in Int, y \in Int : x = totalPenalty(in, p) /\ y = totalPenalty(clean, p) /\ y <= x
  <2>1. PICK o \in Nat :
           /\ o = Cost(Max({0, in.active - in.estimated}) \div 100, p.overtime)
           /\ totalPenalty(in, p) = Percent(Cost(in.hints, p.hints) + Cost(in.resets, p.resets)
                                            + Cost(in.retries, p.retries) + Cost(in.violations, p.blast) + o)
    BY PenaltiesAre
  <2>2. PICK a \in Nat, b \in Nat, c \in Nat, d \in Nat :
           /\ a = Cost(in.hints, p.hints) /\ b = Cost(in.resets, p.resets)
           /\ c = Cost(in.retries, p.retries) /\ d = Cost(in.violations, p.blast)
    BY PenaltiesAre
  <2>3. PICK u \in Nat :
           /\ u = Cost(Max({0, clean.active - clean.estimated}) \div 100, p.overtime)
           /\ totalPenalty(clean, p) = Percent(Cost(clean.hints, p.hints) + Cost(clean.resets, p.resets)
                                            + Cost(clean.retries, p.retries) + Cost(clean.violations, p.blast) + u)
    BY <1>2, PenaltiesAre
  <2>4. u = o
    BY <1>1, <2>1, <2>3 DEF SameWork
  <2>5. Cost(0, p.hints) = 0 /\ Cost(0, p.resets) = 0 /\ Cost(0, p.retries) = 0 /\ Cost(0, p.blast) = 0
    BY CostIs DEF IsProfile
  <2>6. totalPenalty(in, p) = Percent(a + b + c + d + o) /\ totalPenalty(clean, p) = Percent(0 + 0 + 0 + 0 + o)
    BY <1>1, <2>1, <2>2, <2>3, <2>4, <2>5
  <2>7. QED BY <2>6 DEF Percent, Unit
<1>6. PICK v \in Int, w \in Int : v = Bonus(in, p) /\ w = Bonus(clean, p) /\ v <= w
  BY <1>1, <1>4 DEF Bonus, Percent, Unit
<1>7. /\ score(in, p) = Final(raw, x, v, Percent(pass), Percent(guard))
      /\ score(clean, p) = Final(raw, y, w, Percent(pass), Percent(guard))
  BY <1>3, <1>4, <1>5, <1>6, ScoreIsFinal
<1>8. Percent(pass) \in Int /\ Percent(guard) \in Int /\ Percent(guard) <= Full
  BY <1>4 DEF Percent, Full, Unit, IsProfile
<1>9. score(in, p) <= score(clean, p)
  <2>1. PICK m \in Int, n \in Int : m = Percent(pass) /\ n = Percent(guard)
    BY <1>8
  <2>2. Final(raw, x, v, m, n) <= Final(raw, y, w, m, n)
    BY ONLY <1>3, <1>5, <1>6, <2>1, FinalIsMonotone
  <2>3. QED BY <1>7, <2>1, <2>2
<1>10. raw >= Percent(pass) => score(in, p) >= Percent(guard)
  BY <1>7, <1>8, FinalIsGuarded
<1>11. QED BY <1>3, <1>4, <1>9, <1>10 DEF clean

\* A score is the engine's, of an input that was put together in full.
Scored(s) ==
    /\ DOMAIN s.in = InputFields /\ Input(s.in) /\ IsProfile(s.profile)
    /\ s.final = score(s.in, s.profile)

\* The results a handler holds, one entry per task it has run.
HeldResults(r) ==
    /\ r.penalty \in Nat
    /\ r.results \in Seq({r.results[t] : t \in DOMAIN r.results})
    /\ \A t \in DOMAIN r.results :
         /\ IsFiniteSet(DOMAIN r.results[t])
         /\ \A i \in DOMAIN r.results[t] : r.results[t][i].weight \in Nat
    /\ r.pc \in {"rebuild", "score"} => DOMAIN r.results = TaskKeys

ScoreInv ==
    /\ scores \in Seq({scores[i] : i \in DOMAIN scores})
    /\ \A i \in DOMAIN scores : Scored(scores[i])
    /\ \A h \in Requests : HeldResults(req[h])

LEMMA IdleHolds == HeldResults(Idle)
<1>1. DOMAIN Idle.results = {} /\ Idle.results = <<>> /\ Idle.penalty = 0 /\ Idle.pc = "idle"
  BY DEF Idle
<1>2. Idle.results \in Seq({Idle.results[t] : t \in DOMAIN Idle.results})
  BY <1>1
<1>3. QED BY <1>1, <1>2 DEF HeldResults

\* A step of one handler, with what it holds.
LEMMA HolderMoves ==
  ASSUME RecordInv, ScoreInv, NEW h \in Requests, NEW r, req' = [req EXCEPT ![h] = r], HeldResults(r), UNCHANGED scores
  PROVE  ScoreInv'
<1>1. req'[h] = r /\ \A g \in Requests \ {h} : req'[g] = req[g]
  BY DEF RecordInv
<1>2. \A g \in Requests : HeldResults(req'[g])
  BY <1>1 DEF ScoreInv
<1>3. QED BY <1>2 DEF ScoreInv

\* ... whose results stay what they are.
LEMMA HolderKeeps ==
  ASSUME RecordInv, ScoreInv, NEW h \in Requests, NEW r, req' = [req EXCEPT ![h] = r],
         r.results = req[h].results, r.penalty \in Nat, r.pc \notin {"rebuild", "score"}, UNCHANGED scores
  PROVE  ScoreInv'
<1>1. HeldResults(r)
  BY DEF ScoreInv, HeldResults
<1>2. QED BY <1>1, HolderMoves

LEMMA NewRequestScores ==
  ASSUME RecordInv, ScoreInv, NEW h \in Requests, NewRequest(h)
  PROVE  ScoreInv'
<1>1. DOMAIN req[h] = ReqFields /\ req[h].penalty \in Nat
  BY DEF RecordInv, ReqInv, ScoreInv, HeldResults
<1>2. ASSUME NEW t, reveal(h, t) PROVE ScoreInv'
  <2> DEFINE r == [req[h] EXCEPT !.pc = "hint", !.task = t, !.level = getUsedMaxLevel(t) + 1]
  <2>1. req' = [req EXCEPT ![h] = r] /\ UNCHANGED scores
    BY <1>2 DEF reveal, outputs
  <2>2. r.results = req[h].results /\ r.penalty = req[h].penalty /\ r.pc = "hint"
    BY <1>1 DEF ReqFields
  <2> HIDE DEF r
  <2>3. QED BY <1>1, <2>1, <2>2, HolderKeeps
<1>3. ASSUME NEW t, guidedFallback(h, t) PROVE ScoreInv'
  <2> DEFINE r == [req[h] EXCEPT !.pc = "tell", !.task = t]
  <2>1. req' = [req EXCEPT ![h] = r] /\ UNCHANGED scores
    BY <1>3 DEF guidedFallback, outputs
  <2>2. r.results = req[h].results /\ r.penalty = req[h].penalty /\ r.pc = "tell"
    BY <1>1 DEF ReqFields
  <2> HIDE DEF r
  <2>3. QED BY <1>1, <2>1, <2>2, HolderKeeps
<1>4. CASE checkWork(h)
  <2> DEFINE r == [req[h] EXCEPT !.pc = "run"]
  <2>1. req' = [req EXCEPT ![h] = r] /\ UNCHANGED scores
    BY <1>4 DEF checkWork
  <2>2. r.results = req[h].results /\ r.penalty = req[h].penalty /\ r.pc = "run"
    BY <1>1 DEF ReqFields
  <2> HIDE DEF r
  <2>3. QED BY <1>1, <2>1, <2>2, HolderKeeps
<1>5. CASE submit(h)
  <2> DEFINE r == [req[h] EXCEPT !.pc = "evaluate"]
  <2>1. req' = [req EXCEPT ![h] = r] /\ UNCHANGED scores
    BY <1>5 DEF submit, outputs
  <2>2. r.results = req[h].results /\ r.penalty = req[h].penalty /\ r.pc = "evaluate"
    BY <1>1 DEF ReqFields
  <2> HIDE DEF r
  <2>3. QED BY <1>1, <2>1, <2>2, HolderKeeps
<1>6. CASE submitArtifact(h)
  BY <1>6 DEF submitArtifact, ScoreInv
<1>7. QED BY <1>2, <1>3, <1>4, <1>5, <1>6 DEF NewRequest

\* One more task has its results.
LEMMA RunTaskScores ==
  ASSUME RecordInv, ScoreInv, NEW h \in Requests, RunTask(h)
  PROVE  ScoreInv'
<1> DEFINE t == Len(req[h].results) + 1
           vs == Tasks[t].validators
           Of(answer) == [i \in DOMAIN vs |-> [status |-> answer[i], weight |-> vs[i].weight, blocking |-> vs[i].blocking]]
<1>1. /\ req[h].pc = "run" /\ t \in TaskKeys /\ UNCHANGED scores
      /\ \E answer : req' = [req EXCEPT ![h].results = Append(@, Of(answer))]
  BY DEF RunTask, outputs
<1>2. PICK answer : req' = [req EXCEPT ![h].results = Append(@, Of(answer))]
  BY <1>1
<1>3. PICK w : w = Of(answer)
  OBVIOUS
<1>4. IsFiniteSet(DOMAIN w) /\ \A i \in DOMAIN w : w[i].weight \in Nat
  BY <1>1, <1>3, RecordAssumption DEF TaskKeys
<1> DEFINE r == [req[h] EXCEPT !.results = Append(@, w)]
<1>5. req' = [req EXCEPT ![h] = r]
  BY <1>2, <1>3
<1>6. HeldResults(req[h]) /\ DOMAIN req[h] = ReqFields
  BY DEF RecordInv, ReqInv, ScoreInv
<1>7. r.pc = "run" /\ r.penalty = req[h].penalty /\ r.results = Append(req[h].results, w)
  BY <1>1, <1>6 DEF ReqFields
<1> HIDE DEF r
<1>8. PICK s, q : s = req[h].results /\ q = r.results /\ q = Append(s, w) /\ s \in Seq({s[i] : i \in DOMAIN s})
  BY <1>6, <1>7 DEF HeldResults
<1>9. /\ q \in Seq({q[i] : i \in DOMAIN q}) /\ Len(s) \in Nat /\ DOMAIN s = 1 .. Len(s)
      /\ DOMAIN q = 1 .. Len(s) + 1 /\ q[Len(s) + 1] = w /\ \A i \in DOMAIN s : q[i] = s[i]
  <2>1. /\ Append(s, w) \in Seq({Append(s, w)[i] : i \in DOMAIN Append(s, w)})
        /\ Len(s) \in Nat /\ DOMAIN s = 1 .. Len(s) /\ DOMAIN Append(s, w) = 1 .. Len(s) + 1
        /\ Append(s, w)[Len(s) + 1] = w /\ \A i \in DOMAIN s : Append(s, w)[i] = s[i]
    <3>1. s \in Seq({s[i] : i \in DOMAIN s})
      BY <1>8
    <3>2. QED BY ONLY <3>1, Appended
  <2>2. QED BY <1>8, <2>1
<1>10. \A u \in DOMAIN q : IsFiniteSet(DOMAIN q[u]) /\ \A i \in DOMAIN q[u] : q[u][i].weight \in Nat
  <2>1. \A u \in DOMAIN s : IsFiniteSet(DOMAIN s[u]) /\ \A i \in DOMAIN s[u] : s[u][i].weight \in Nat
    BY <1>6, <1>8 DEF HeldResults
  <2>2. \A u \in DOMAIN q : u \in DOMAIN s \/ u = Len(s) + 1
    BY <1>9
  <2>3. QED BY <1>4, <1>9, <2>1, <2>2
<1>11. HeldResults(r)
  BY <1>6, <1>7, <1>8, <1>9, <1>10, ZenonT(30) DEF HeldResults
<1>12. QED BY <1>1, <1>5, <1>11, HolderMoves

LEMMA RebuildScores ==
  ASSUME RecordInv, ScoreInv, NEW h \in Requests, RebuildRead(h) \/ rebuildForAttempt(h)
  PROVE  ScoreInv'
<1>1. HeldResults(req[h]) /\ DOMAIN req[h] = ReqFields
  BY DEF RecordInv, ReqInv, ScoreInv
<1>2. CASE RebuildRead(h)
  <2> DEFINE r == [req[h] EXCEPT !.pc = "rebuild", !.derived = deriveTaskState(log)]
  <2>1. req' = [req EXCEPT ![h] = r] /\ UNCHANGED scores /\ Len(req[h].results) = Len(Tasks)
    BY <1>2 DEF RebuildRead, outputs
  <2>2. r.results = req[h].results /\ r.penalty = req[h].penalty
    BY <1>1 DEF ReqFields
  <2>3. DOMAIN req[h].results = TaskKeys
    <3>1. PICK s, S : s = req[h].results /\ s \in Seq(S)
      BY <1>1 DEF HeldResults
    <3>2. PICK T : Tasks \in Seq(T)
      BY RecordAssumption
    <3>3. QED BY <2>1, <3>1, <3>2 DEF TaskKeys
  <2> HIDE DEF r
  <2>4. HeldResults(r)
    BY <1>1, <2>2, <2>3 DEF HeldResults
  <2>5. QED BY <2>1, <2>4, HolderMoves
<1>3. CASE rebuildForAttempt(h)
  <2> DEFINE r == IF req[h].submit THEN [req[h] EXCEPT !.pc = "score", !.derived = <<>>] ELSE Idle
  <2>1. req' = [req EXCEPT ![h] = r] /\ UNCHANGED scores /\ req[h].pc = "rebuild"
    BY <1>3 DEF rebuildForAttempt, outputs
  <2>2. r = Idle \/ (r.results = req[h].results /\ r.penalty = req[h].penalty)
    BY <1>1 DEF ReqFields
  <2> HIDE DEF r
  <2>3. DOMAIN req[h].results = TaskKeys
    BY <1>1, <2>1 DEF HeldResults
  <2>4. HeldResults(r)
    BY <1>1, <2>2, <2>3, IdleHolds DEF HeldResults
  <2>5. QED BY <2>1, <2>4, HolderMoves
<1>4. QED BY <1>2, <1>3

\* What the engine is handed.
LEMMA InputIsComplete ==
  ASSUME CountInv, ScoreInv, NEW h \in Requests, req[h].pc = "score", NEW history \in Histories
  PROVE  DOMAIN CriterionInput(h, history) = InputFields /\ Input(CriterionInput(h, history))
<1> DEFINE in == CriterionInput(h, history)
           held == req[h].results
<1>1. /\ DOMAIN in = InputFields
      /\ in.tasks = [t \in TaskKeys |-> [required |-> Tasks[t].required, validators |-> held[t]]]
      /\ in.hints = req[h].penalty /\ in.resets = history.resets /\ in.retries = history.retries
      /\ in.active = history.active /\ in.estimated = history.estimated /\ in.violations = signals.violations
      /\ in.good = signals.good /\ in.bad = signals.bad /\ in.paths = Paths
  BY DEF CriterionInput, InputFields
<1>2. HeldResults(req[h]) /\ DOMAIN held = TaskKeys
  BY DEF ScoreInv, HeldResults
<1>3. IsFiniteSet(TaskKeys)
  <2>1. PICK T : Tasks \in Seq(T)
    BY RecordAssumption
  <2>2. TaskKeys = 1 .. Len(Tasks) /\ Len(Tasks) \in Nat
    BY <2>1 DEF TaskKeys
  <2>3. QED BY <2>2, FS_Interval
<1> HIDE DEF in
<1>4. /\ DOMAIN in.tasks = TaskKeys /\ \A t \in TaskKeys : in.tasks[t].validators = held[t]
  BY <1>1
<1>5. \A t \in TaskKeys : IsFiniteSet(DOMAIN held[t]) /\ \A i \in DOMAIN held[t] : held[t][i].weight \in Nat
  BY <1>2 DEF HeldResults
<1>6. {in.hints, in.resets, in.retries, in.violations, in.good, in.bad, in.active, in.estimated} \subseteq Nat
  BY <1>1, <1>2, RecordAssumption DEF HeldResults, CountInv, CountTypes
<1>7. IsFiniteSet(in.paths) /\ \A p \in in.paths : IsFiniteSet(DOMAIN p)
  BY <1>1, RecordAssumption
<1>8. Input(in)
  BY <1>3, <1>4, <1>5, <1>6, <1>7 DEF Input
<1>9. QED BY <1>1, <1>8 DEF in

LEMMA EvaluateScores ==
  ASSUME RecordInv, CountInv, ScoreInv, NEW h \in Requests, EvaluateScore(h)
  PROVE  ScoreInv'
<1>1. req[h].pc = "score" /\ req' = [req EXCEPT ![h] = [req[h] EXCEPT !.pc = "grade"]]
  BY DEF EvaluateScore, Goto
<1>2. PICK profile \in Profiles, history \in Histories :
        scores' = Append(scores, [in |-> CriterionInput(h, history), profile |-> profile,
                                  final |-> score(CriterionInput(h, history), profile)])
  BY DEF EvaluateScore
<1>3. PICK in : in = CriterionInput(h, history)
  OBVIOUS
<1>4. DOMAIN in = InputFields /\ Input(in) /\ IsProfile(profile)
  BY <1>1, <1>3, InputIsComplete, RecordAssumption
<1> DEFINE e == [in |-> in, profile |-> profile, final |-> score(in, profile)]
<1>5. scores' = Append(scores, e)
  BY <1>2, <1>3
<1>6. Scored(e)
  BY <1>4 DEF Scored
<1> HIDE DEF e
<1>7. PICK s, q : s = scores /\ q = scores' /\ q = Append(s, e) /\ s \in Seq({s[i] : i \in DOMAIN s})
  BY <1>5 DEF ScoreInv
<1>8. /\ q \in Seq({q[i] : i \in DOMAIN q}) /\ Len(s) \in Nat /\ DOMAIN s = 1 .. Len(s)
      /\ DOMAIN q = 1 .. Len(s) + 1 /\ q[Len(s) + 1] = e /\ \A i \in DOMAIN s : q[i] = s[i]
  BY <1>7, Appended
<1>9. \A i \in DOMAIN q : Scored(q[i])
  <2>1. \A i \in DOMAIN s : Scored(s[i])
    BY <1>7 DEF ScoreInv
  <2>2. \A i \in DOMAIN q : i \in DOMAIN s \/ i = Len(s) + 1
    BY <1>8
  <2>3. QED BY <1>6, <1>8, <2>1, <2>2
<1>10. \A g \in Requests : HeldResults(req'[g])
  <2> DEFINE r == [req[h] EXCEPT !.pc = "grade"]
  <2>1. HeldResults(req[h]) /\ DOMAIN req[h] = ReqFields
    BY DEF RecordInv, ReqInv, ScoreInv
  <2>2. r.pc = "grade" /\ r.results = req[h].results /\ r.penalty = req[h].penalty /\ req' = [req EXCEPT ![h] = r]
    BY <1>1, <2>1 DEF ReqFields
  <2> HIDE DEF r
  <2>3. HeldResults(r)
    BY <2>1, <2>2 DEF HeldResults
  <2>4. req'[h] = r /\ \A g \in Requests \ {h} : req'[g] = req[g]
    BY <2>2 DEF RecordInv
  <2>5. QED BY <2>3, <2>4 DEF ScoreInv
<1>11. QED BY <1>7, <1>8, <1>9, <1>10 DEF ScoreInv

LEMMA ContinueScores ==
  ASSUME RecordInv, CountInv, ScoreInv, NEW h \in Requests, Continue(h)
  PROVE  ScoreInv'
<1>1. DOMAIN req[h] = ReqFields /\ req[h].penalty \in Nat /\ penalty \in Nat
  BY DEF RecordInv, ReqInv, ScoreInv, HeldResults, CountInv, CountTypes
<1>2. ASSUME req' = [req EXCEPT ![h] = Idle], UNCHANGED scores PROVE ScoreInv'
  BY <1>2, IdleHolds, HolderMoves
<1>3. ASSUME NEW pc \in {"charge", "flag"}, Goto(h, pc), UNCHANGED scores PROVE ScoreInv'
  <2> DEFINE r == [req[h] EXCEPT !.pc = pc]
  <2>1. req' = [req EXCEPT ![h] = r]
    BY <1>3 DEF Goto
  <2>2. r.results = req[h].results /\ r.penalty = req[h].penalty /\ r.pc = pc
    BY <1>1 DEF ReqFields
  <2> HIDE DEF r
  <2>3. QED BY <1>1, <1>3, <2>1, <2>2, HolderKeeps
<1>4. CASE RevealEvent(h) \/ FallbackEvent(h)
  BY <1>3, <1>4 DEF RevealEvent, FallbackEvent, outputs
<1>5. CASE RevealCharge(h) \/ FallbackFlag(h) \/ gradeArtifact(h)
  BY <1>2, <1>5 DEF RevealCharge, FallbackFlag, gradeArtifact, Done, outputs
<1>6. CASE evaluate(h)
  <2> DEFINE r == [req[h] EXCEPT !.pc = "run", !.submit = TRUE, !.penalty = penalty]
  <2>1. req' = [req EXCEPT ![h] = r] /\ UNCHANGED scores
    BY <1>6 DEF evaluate, outputs
  <2>2. r.results = req[h].results /\ r.penalty = penalty /\ r.pc = "run"
    BY <1>1 DEF ReqFields
  <2> HIDE DEF r
  <2>3. QED BY <1>1, <2>1, <2>2, HolderKeeps
<1>7. QED BY <1>4, <1>5, <1>6, RunTaskScores, RebuildScores, EvaluateScores DEF Continue

LEMMA ScoreNext ==
  ASSUME RecordInv, CountInv, ScoreInv, [Next]_vars
  PROVE  ScoreInv'
<1>1. ASSUME NEW h \in Requests, AbortRequest(h) PROVE ScoreInv'
  BY <1>1, IdleHolds, HolderMoves DEF AbortRequest, Done, outputs
<1>2. ASSUME UNCHANGED <<req, scores>> PROVE ScoreInv'
  BY <1>2 DEF ScoreInv
<1>3. ASSUME NEW cmd, handleCommand(cmd) PROVE ScoreInv'
  BY <1>2, <1>3 DEF handleCommand, outputs
<1>4. CASE incrementSignal \/ DropMessage \/ UNCHANGED vars
  BY <1>2, <1>4 DEF incrementSignal, DropMessage, vars, outputs
<1>5. QED BY <1>1, <1>3, <1>4, NewRequestScores, ContinueScores DEF Next

LEMMA ScoreInit == Init => ScoreInv
<1>1. SUFFICES ASSUME Init PROVE ScoreInv
  OBVIOUS
<1>2. scores = <<>> /\ req = [h \in Requests |-> Idle]
  BY <1>1 DEF Init
<1>3. scores \in Seq({scores[i] : i \in DOMAIN scores}) /\ DOMAIN scores = {}
  BY <1>2
<1>4. QED BY <1>2, <1>3, IdleHolds DEF ScoreInv

\* scoring-engine.service.ts: for every set of tasks, validators, weights and
\* answers, every profile and every history, a solution whose unpenalised sum
\* passes never falls below the guard, and the hints, resets, retries and
\* forbidden commands of an attempt never add to its score.
THEOREM ScoresAreFair == Spec => []ScoreIsFair
<1>1. ScoreInv => ScoreIsFair
  <2>1. SUFFICES ASSUME ScoreInv, NEW i \in DOMAIN scores
                 PROVE  LET in == scores[i].in
                            profile == scores[i].profile
                        IN /\ weightedSum(in, profile) >= Percent(profile.pass) => scores[i].final >= Percent(profile.guard)
                           /\ scores[i].final <= score(Clean(in), profile)
    BY DEF ScoreIsFair, Clean
  <2>2. Scored(scores[i])
    BY <2>1 DEF ScoreInv
  <2>3. QED BY <2>2, ScoreFair DEF Scored
<1>2. RecordInv /\ CountInv /\ ScoreInv /\ [Next]_vars => ScoreInv'
  BY ScoreNext
<1>3. Init => CountInv /\ ScoreInv
  BY CountInit, ScoreInit
<1>4. RecordInv /\ CountInv /\ [Next]_vars => CountInv'
  BY CountNext
<1>5. QED BY <1>1, <1>2, <1>3, <1>4, RecordHolds, PTL DEF Spec
=============================================================================
