--------------------------- MODULE Project_proofs ---------------------------
(***************************************************************************)
(* Theorems about Project: for any milestones, gates, number of requests   *)
(* in flight, answers of validators and models, deaths and restarts, the   *)
(* milestone gates implement MilestoneLadder, an unlocked milestone is in  *)
(* the submission history, and a viva is scored once.                      *)
(***************************************************************************)
EXTENDS Project, FiniteSetTheorems, TLAPS

-----------------------------------------------------------------------------
\* Types.

Pcs == {"idle", "seed", "check", "mark", "gate", "apply", "stamp", "env", "suspend",
        "provision", "attach", "rollup", "defence", "first", "ask", "score"}

Request ==
  [pc : Pcs, m : 0 .. Len(Keys), n : Nat, out : Outcomes, score : Int, level : Int,
   env : Envs \union {NoEnv}, v : Nat, comps : {<<>>} \union [Ms -> Int]]

Row == [status : Statuses, score : Int, count : Nat]
Viva == [id : Nat, questions : Nat, asked : Nat, closed : BOOLEAN]

StateTyped ==
  /\ spec \in [Ms -> [gate : Gates, env : BOOLEAN, rubric : BOOLEAN]]
  /\ ms \in [Ms -> Row]
  /\ viva \in Viva
  /\ vivas \in Nat /\ turns \in Nat /\ deaths \in Nat
  /\ marks \in Seq([viva : Nat, level : Int])
  /\ envId \in Envs \union {NoEnv}

ReqTyped == req \in [Requests -> Request]

Typed == StateTyped /\ ReqTyped

\* A submission knows its milestone once it has passed the check, and only
\* the last milestone's pass goes on to the roll-up.
Past == {"mark", "gate", "apply", "stamp", "env", "suspend", "provision", "attach", "rollup", "defence"}
OnMilestone ==
  \A h \in Requests :
    /\ req[h].pc \in Past \union {"check"} => req[h].m \in Ms
    /\ req[h].pc \in {"rollup", "defence"} => req[h].m = Final

\* The milestones that are not locked are the first ones, and a submission
\* past its check is on one of them.
Climbed ==
  /\ ms[1].status # "LOCKED"
  /\ \A m \in Ms : ms[m].status # "LOCKED" => \A k \in 1 .. m : ms[k].status # "LOCKED"
  /\ \A h \in Requests : req[h].pc \in Past => ms[req[h].m].status # "LOCKED"

LadderInv == Typed /\ OnMilestone /\ Climbed

\* A submission that has its row in project_submission and not its outcome.
Unstamped(h) == req[h].pc \in {"gate", "apply", "stamp"}
Held(h) == <<req[h].m, req[h].n>>

\* Submissions in flight have rows of their own, which are PENDING, and the
\* numbers given out are the ones the milestone counted.
SubsInv ==
  /\ \A p \in DOMAIN subs : p \in Ms \X Nat /\ p[2] <= ms[p[1]].count
  /\ \A h \in Requests : Unstamped(h) => Held(h) \in DOMAIN subs /\ subs[Held(h)] = Pending
  /\ \A g, h \in Requests : Unstamped(g) /\ Unstamped(h) /\ g # h => Held(g) # Held(h)

\* UnlockIsRecorded, with a PENDING row that no request will stamp any more.
Explained(m) ==
  \/ \E p \in DOMAIN subs : p[1] = m - 1 /\ subs[p] = "GATED_PASS"
  \/ \E h \in Requests : req[h].pc = "stamp" /\ req[h].m = m - 1 /\ req[h].out = "GATED_PASS"
  \/ /\ deaths > 0
     /\ \E p \in DOMAIN subs :
          p[1] = m - 1 /\ subs[p] = Pending /\ \A h \in Requests : Unstamped(h) => Held(h) # p

RecordInv == SubsInv /\ \A m \in Ms \ {1} : ms[m].status # "LOCKED" => Explained(m)

\* A viva that has its score, or a request that will score it, is closed; no
\* other request scores it, and no later viva has its number.
Scoring(h) == req[h].pc = "score"
VivaInv ==
  /\ viva.id <= vivas
  /\ \A i \in 1 .. Len(marks) : marks[i].viva <= vivas /\ (marks[i].viva = viva.id => viva.closed)
  /\ \A h \in Requests : Scoring(h) =>
       /\ req[h].v <= vivas
       /\ req[h].v = viva.id => viva.closed
       /\ \A i \in 1 .. Len(marks) : marks[i].viva # req[h].v
  /\ \A g, h \in Requests : Scoring(g) /\ Scoring(h) /\ g # h => req[g].v # req[h].v
  /\ OneScorePerViva

\* Milestones below an open one, and the one a gated submission is on, have
\* a score; so has everything the roll-up reads.
Scored(m) == ms[m].score # NoScore
ScoreInv ==
  /\ \A m \in Ms : ms[m].status # "LOCKED" => \A k \in 1 .. m - 1 : Scored(k)
  /\ \A h \in Requests : req[h].pc = "apply" => req[h].score # NoScore
  /\ \A h \in Requests : req[h].pc \in Past \ {"mark", "gate", "apply"} => Scored(req[h].m)
  /\ \A h \in Requests : req[h].pc = "defence" =>
       req[h].comps \in [Ms -> Int] /\ \A m \in Ms : req[h].comps[m] # NoScore
  /\ \A i \in 1 .. Len(scores) : \A m \in Ms : scores[i].comps[m] # NoScore
-----------------------------------------------------------------------------
\* Operators.

LEMMA Round4Type ==
  ASSUME NEW p \in Nat, NEW q \in Nat \ {0}
  PROVE  Round4(p, q) \in Nat
<1>1. 20000 * p + q \in Nat /\ 2 * q \in Nat \ {0}
  OBVIOUS
<1>2. ASSUME NEW a \in Nat, NEW b \in Nat \ {0} PROVE a \div b \in Nat
  OBVIOUS
<1>3. QED BY <1>1, <1>2 DEF Round4

LEMMA GateScore ==
  ASSUME NEW g \in Gates, NEW total \in Nat, NEW passing \in 0 .. total, NEW level \in Int
  PROVE  computeMilestoneScore(g, passing, total, level) \in Nat
<1>1. LevelThirds(level) \in Nat
  BY DEF LevelThirds
<1> DEFINE num == IF total = 0 THEN 1 ELSE passing
           den == IF total = 0 THEN 1 ELSE total
<1>2. num \in Nat /\ den \in Nat \ {0}
  OBVIOUS
<1> HIDE DEF num, den
<1>3. 3 * num + den * LevelThirds(level) \in Nat /\ 6 * den \in Nat \ {0}
  BY <1>1, <1>2
<1>4. /\ Round4(num, den) \in Nat
      /\ Round4(LevelThirds(level), 3) \in Nat
      /\ Round4(3 * num + den * LevelThirds(level), 6 * den) \in Nat
  BY <1>1, <1>2, <1>3, Round4Type
<1>5. QED BY <1>4 DEF computeMilestoneScore, Gates, num, den

-----------------------------------------------------------------------------
\* Types are kept.

LEMMA InitTyped == Init => Typed
<1> SUFFICES ASSUME Init PROVE Typed
  OBVIOUS
<1>1. spec \in [Ms -> [gate : Gates, env : BOOLEAN, rubric : BOOLEAN]]
  BY ProjectAssumption DEF Init, loadMilestoneSpecs
<1>2. Idle \in Request /\ NoViva \in Viva
  BY ProjectAssumption DEF Idle, Request, Pcs, Outcomes, NoScore, NoViva, Viva
<1>3. ms \in [Ms -> Row]
  BY DEF Init, Row, Statuses, NoScore
<1>4. QED
  BY <1>1, <1>2, <1>3 DEF Init, Typed, StateTyped, ReqTyped

\* A request that changes one step at a time stays well typed.
LEMMA IdleTyped == Idle \in Request
BY ProjectAssumption DEF Idle, Request, Pcs, Outcomes, NoScore

LEMMA MovedTyped ==
  ASSUME ReqTyped, NEW h \in Requests, NEW r \in Request, req' = [req EXCEPT ![h] = r]
  PROVE  ReqTyped'
BY DEF ReqTyped

LEMMA GotoTyped ==
  ASSUME ReqTyped, NEW h \in Requests, NEW pc \in Pcs
  PROVE  (Goto(h, pc) => ReqTyped') /\ (Done(h) => ReqTyped')
<1>1. req[h] \in Request
  BY DEF ReqTyped
<1> DEFINE r == [req[h] EXCEPT !.pc = pc]
<1>2. r \in Request
  BY <1>1, Zenon DEF Request
<1>3. Goto(h, pc) => req' = [req EXCEPT ![h] = r]
  BY DEF Goto
<1> HIDE DEF r
<1>4. QED BY <1>2, <1>3, IdleTyped, MovedTyped DEF Done

LEMMA GatedTyped ==
  ASSUME ReqTyped, NEW h \in Requests
  PROVE  Gated(h) \in Request
BY IdleTyped DEF ReqTyped, Gated, Request, Pcs


LEMMA ReqTypedNext ==
  ASSUME Typed, OnMilestone, [Next]_vars
  PROVE  ReqTyped'
<1> USE DEF Typed
<1>1. ASSUME NEW h \in Requests, ListMilestones(h) PROVE ReqTyped'
  BY <1>1, GotoTyped DEF ListMilestones, Pcs
<1>2. ASSUME NEW h \in Requests, NEW m \in Ms, Submit(h, m) PROVE ReqTyped'
  <2>1. req' = [req EXCEPT ![h].pc = "check", ![h].m = m] /\ "check" \in Pcs /\ m \in 0 .. Len(Keys)
    BY <1>2 DEF Submit, Pcs, Ms
  <2>2. QED
    <3> DEFINE r == [req[h] EXCEPT !.pc = "check", !.m = m]
    <3>1. req[h] \in Request
      BY DEF ReqTyped
    <3>2. r \in Request
      BY <2>1, <3>1, Zenon DEF Request
    <3>3. req' = [req EXCEPT ![h] = r]
      BY <2>1
    <3> HIDE DEF r
    <3>4. QED BY <3>2, <3>3, MovedTyped
<1>3. ASSUME NEW h \in Requests, NEW count \in generateQuestions, startViva(h, count) PROVE ReqTyped'
  <2>1. PICK pc \in Pcs, v \in Nat : req' = [req EXCEPT ![h].pc = pc, ![h].v = v]
    <3>1. /\ (IF count = 0 THEN "idle" ELSE "first") \in Pcs
          /\ (IF count = 0 THEN 0 ELSE vivas + 1) \in Nat
      BY DEF Pcs, StateTyped
    <3>2. QED BY <1>3, <3>1 DEF startViva
  <2>2. QED
    <3> DEFINE r == [req[h] EXCEPT !.pc = pc, !.v = v]
    <3>1. req[h] \in Request
      BY DEF ReqTyped
    <3>2. r \in Request
      BY <3>1, Zenon DEF Request
    <3>3. req' = [req EXCEPT ![h] = r]
      BY <2>1
    <3> HIDE DEF r
    <3>4. QED BY <3>2, <3>3, MovedTyped
<1>4. ASSUME NEW h \in Requests, postMessage(h) PROVE ReqTyped'
  <2>1. \/ req' = req
        \/ req' = [req EXCEPT ![h].pc = "ask", ![h].v = viva.id, ![h].n = viva.asked + 1]
        \/ req' = [req EXCEPT ![h].pc = "score", ![h].v = viva.id]
    BY <1>4 DEF postMessage
  <2>2. "ask" \in Pcs /\ "score" \in Pcs /\ viva.id \in Nat /\ viva.asked + 1 \in Nat
    BY DEF Pcs, StateTyped, Viva
  <2>3. CASE req' = [req EXCEPT ![h].pc = "ask", ![h].v = viva.id, ![h].n = viva.asked + 1]
    <3> DEFINE r == [req[h] EXCEPT !.pc = "ask", !.v = viva.id, !.n = viva.asked + 1]
    <3>1. req[h] \in Request
      BY DEF ReqTyped
    <3>2. r \in Request
      BY <3>1, <2>2, Zenon DEF Request
    <3>3. req' = [req EXCEPT ![h] = r]
      BY <2>3
    <3> HIDE DEF r
    <3>4. QED BY <3>2, <3>3 DEF ReqTyped
  <2>4. CASE req' = [req EXCEPT ![h].pc = "score", ![h].v = viva.id]
    <3> DEFINE r == [req[h] EXCEPT !.pc = "score", !.v = viva.id]
    <3>1. req[h] \in Request
      BY DEF ReqTyped
    <3>2. r \in Request
      BY <2>2, <3>1, Zenon DEF Request
    <3>3. req' = [req EXCEPT ![h] = r]
      BY <2>4
    <3> HIDE DEF r
    <3>4. QED BY <3>2, <3>3, MovedTyped
  <2>5. QED BY <2>1, <2>3, <2>4 DEF ReqTyped
<1>5. ASSUME NEW h \in Requests, seedMilestones(h) PROVE ReqTyped'
  BY <1>5, GotoTyped DEF seedMilestones, Pcs
<1>6. ASSUME NEW h \in Requests, SubmitCheck(h) PROVE ReqTyped'
  BY <1>6, GotoTyped DEF SubmitCheck, Pcs
<1>7. ASSUME NEW h \in Requests, markSubmitted(h) PROVE ReqTyped'
  <2>1. ms[req[h].m].count + 1 \in Nat
    BY <1>7 DEF markSubmitted, OnMilestone, Past, StateTyped, Row
  <2>2. PICK n \in Nat : req' = [req EXCEPT ![h].pc = "gate", ![h].n = n]
    BY <1>7, <2>1 DEF markSubmitted
  <2>3. "gate" \in Pcs
    BY DEF Pcs
  <2>4. QED
    <3> DEFINE r == [req[h] EXCEPT !.pc = "gate", !.n = n]
    <3>1. req[h] \in Request
      BY DEF ReqTyped
    <3>2. r \in Request
      BY <2>3, <3>1, Zenon DEF Request
    <3>3. req' = [req EXCEPT ![h] = r]
      BY <2>2
    <3> HIDE DEF r
    <3>4. QED BY <3>2, <3>3, MovedTyped
<1>8. ASSUME NEW h \in Requests, RunGate(h) PROVE ReqTyped'
  <2> DEFINE s == spec[req[h].m]
  <2>1. PICK passing \in runMilestoneValidators,
             level \in IF s.gate = "ALL_VALIDATORS_PASS" THEN {NoScore} ELSE gradeMilestoneRubric(s) :
          req' = [req EXCEPT ![h].pc = "apply", ![h].level = level,
                   ![h].out = IF GatePasses(s, passing, level) THEN "GATED_PASS" ELSE "GATED_FAIL",
                   ![h].score = computeMilestoneScore(s.gate, passing, TaskCount, level)]
    BY <1>8 DEF RunGate
  <2>2. s.gate \in Gates
    BY <1>8 DEF RunGate, OnMilestone, Past, StateTyped
  <2>3. level \in Int /\ passing \in 0 .. TaskCount
    BY ProjectAssumption DEF gradeMilestoneRubric, NoScore, runMilestoneValidators
  <2>4. computeMilestoneScore(s.gate, passing, TaskCount, level) \in Int
    <3>1. TaskCount \in Nat
      BY ProjectAssumption
    <3> HIDE DEF s
    <3>2. computeMilestoneScore(s.gate, passing, TaskCount, level) \in Nat
      BY ONLY <2>2, <2>3, <3>1, GateScore
    <3>3. QED BY ONLY <3>2
  <2>5. PICK o \in Outcomes, c \in Int :
          req' = [req EXCEPT ![h].pc = "apply", ![h].level = level, ![h].out = o, ![h].score = c]
    BY <2>1, <2>4 DEF Outcomes
  <2>6. "apply" \in Pcs
    BY DEF Pcs
  <2>7. QED
    <3> DEFINE r == [req[h] EXCEPT !.pc = "apply", !.level = level, !.out = o, !.score = c]
    <3>1. req[h] \in Request
      BY DEF ReqTyped
    <3>2. r \in Request
      BY <3>1, <2>3, <2>6, Zenon DEF Request
    <3>3. req' = [req EXCEPT ![h] = r]
      BY <2>5
    <3> HIDE DEF r
    <3>4. QED BY <3>2, <3>3 DEF ReqTyped
<1>9. ASSUME NEW h \in Requests, applyGateOutcome(h) PROVE ReqTyped'
  BY <1>9, GotoTyped DEF applyGateOutcome, Pcs
<1>10. ASSUME NEW h \in Requests, stampSubmissionOutcome(h) PROVE ReqTyped'
  <2>1. Goto(h, "env") \/ req' = [req EXCEPT ![h] = Gated(h)]
    BY <1>10 DEF stampSubmissionOutcome, Goto
  <2>2. QED BY <2>1, GotoTyped, GatedTyped DEF ReqTyped, Pcs
<1>11. ASSUME NEW h \in Requests, EnvRead(h) PROVE ReqTyped'
  <2>1. \/ req' = [req EXCEPT ![h].pc = "suspend", ![h].env = envId]
        \/ Goto(h, "provision")
        \/ req' = [req EXCEPT ![h] = Gated(h)]
    BY <1>11 DEF EnvRead, Goto
  <2>2. "suspend" \in Pcs /\ "provision" \in Pcs /\ envId \in Envs \union {NoEnv}
    BY DEF Pcs, StateTyped
  <2>3. CASE req' = [req EXCEPT ![h].pc = "suspend", ![h].env = envId]
    <3> DEFINE r == [req[h] EXCEPT !.pc = "suspend", !.env = envId]
    <3>1. req[h] \in Request
      BY DEF ReqTyped
    <3>2. r \in Request
      BY <2>2, <3>1, Zenon DEF Request
    <3>3. req' = [req EXCEPT ![h] = r]
      BY <2>3
    <3> HIDE DEF r
    <3>4. QED BY <3>2, <3>3, MovedTyped
  <2>4. CASE Goto(h, "provision")
    BY <2>2, <2>4, GotoTyped
  <2>5. CASE req' = [req EXCEPT ![h] = Gated(h)]
    BY <2>5, GatedTyped DEF ReqTyped
  <2>6. QED BY <2>1, <2>3, <2>4, <2>5
<1>12. ASSUME NEW h \in Requests, snapshotAndSuspend(h) PROVE ReqTyped'
  BY <1>12, GatedTyped DEF snapshotAndSuspend, ReqTyped
<1>13. ASSUME NEW h \in Requests, provisionForMilestone(h) PROVE ReqTyped'
  <2>1. CASE req' = [req EXCEPT ![h] = Gated(h)]
    BY <2>1, GatedTyped DEF ReqTyped
  <2>2. CASE \E e \in Envs : req' = [req EXCEPT ![h].pc = "attach", ![h].env = e]
    <3>1. PICK e \in Envs \union {NoEnv} : req' = [req EXCEPT ![h].pc = "attach", ![h].env = e]
      BY <2>2
    <3>2. "attach" \in Pcs
      BY DEF Pcs
    <3>3. QED
      <4> DEFINE r == [req[h] EXCEPT !.pc = "attach", !.env = e]
      <4>1. req[h] \in Request
        BY DEF ReqTyped
      <4>2. r \in Request
        BY <3>2, <4>1, Zenon DEF Request
      <4>3. req' = [req EXCEPT ![h] = r]
        BY <3>1
      <4> HIDE DEF r
      <4>4. QED BY <4>2, <4>3, MovedTyped
  <2>3. QED BY <1>13, <2>1, <2>2 DEF provisionForMilestone
<1>14. ASSUME NEW h \in Requests, AttachEnv(h) PROVE ReqTyped'
  BY <1>14, GatedTyped DEF AttachEnv, ReqTyped
<1>15. ASSUME NEW h \in Requests, FinalizeRead(h) PROVE ReqTyped'
  <2>1. PICK c \in [Ms -> Int] : req' = [req EXCEPT ![h].pc = "defence", ![h].comps = c]
    BY <1>15 DEF FinalizeRead, StateTyped, Row
  <2>2. "defence" \in Pcs
    BY DEF Pcs
  <2>3. QED
    <3> DEFINE r == [req[h] EXCEPT !.pc = "defence", !.comps = c]
    <3>1. req[h] \in Request
      BY DEF ReqTyped
    <3>2. r \in Request
      BY <2>2, <3>1, Zenon DEF Request
    <3>3. req' = [req EXCEPT ![h] = r]
      BY <2>1
    <3> HIDE DEF r
    <3>4. QED BY <3>2, <3>3, MovedTyped
<1>16. ASSUME NEW h \in Requests,
              FinalizeScore(h) \/ FirstQuestion(h) \/ AskNext(h) \/ scoreViva(h) \/ AbortRequest(h)
       PROVE  ReqTyped'
  <2>1. Done(h)
    BY <1>16 DEF FinalizeScore, FirstQuestion, AskNext, scoreViva, AbortRequest
  <2>2. QED BY <2>1, GotoTyped DEF Pcs
<1>17. CASE Restart
  BY <1>17, IdleTyped DEF Restart, ReqTyped
<1>18. CASE UNCHANGED vars
  BY <1>18 DEF vars, ReqTyped
<1>19. QED
  BY <1>1, <1>2, <1>3, <1>4, <1>5, <1>6, <1>7, <1>8, <1>9, <1>10, <1>11, <1>12, <1>13, <1>14,
     <1>15, <1>16, <1>17, <1>18 DEF Next, NewRequest, Continue

LEMMA VivaTyped ==
  ASSUME NEW w \in Viva, NEW n \in Nat
  PROVE  [w EXCEPT !.asked = n] \in Viva /\ [w EXCEPT !.closed = TRUE] \in Viva /\ w.asked + 1 \in Nat
<1>1. [w EXCEPT !.asked = n] \in Viva /\ [w EXCEPT !.closed = TRUE] \in Viva /\ w.asked \in Nat
  BY Zenon DEF Viva
<1>2. QED BY <1>1

LEMMA StateTypedNext ==
  ASSUME Typed, OnMilestone, [Next]_vars
  PROVE  StateTyped'
<1> USE DEF Typed
<1>1. CASE UNCHANGED <<ms, viva, vivas, turns, marks, deaths, envId, spec>>
  BY <1>1 DEF StateTyped
<1>2. ASSUME NEW h \in Requests, NEW count \in generateQuestions, startViva(h, count) PROVE StateTyped'
  <2>1. [id |-> vivas + 1, questions |-> count, asked |-> 0, closed |-> FALSE] \in Viva
    BY ProjectAssumption DEF StateTyped, generateQuestions, Viva
  <2>2. QED BY <1>2, <2>1 DEF startViva, StateTyped, milestoneVars, envVars
<1>3. ASSUME NEW h \in Requests, postMessage(h) PROVE StateTyped'
  <2>1. viva' \in Viva
    <3>1. \/ viva' = viva
          \/ viva' = [viva EXCEPT !.asked = viva.asked + 1]
          \/ viva' = [viva EXCEPT !.closed = TRUE]
      BY <1>3 DEF postMessage
    <3>2. QED BY <3>1, VivaTyped DEF StateTyped
  <2>2. turns' \in Nat
    BY <1>3 DEF postMessage, emitTurn, StateTyped
  <2>3. QED BY <1>3, <2>1, <2>2 DEF postMessage, StateTyped, milestoneVars, envVars
<1>4. ASSUME NEW h \in Requests, markSubmitted(h) PROVE StateTyped'
  <2>1. ms' = [ms EXCEPT ![req[h].m].status = "SUBMITTED", ![req[h].m].count = ms[req[h].m].count + 1]
        /\ req[h].m \in Ms
    BY <1>4 DEF markSubmitted, OnMilestone, Past
  <2>2. ms' \in [Ms -> Row]
    <3> DEFINE r == [ms[req[h].m] EXCEPT !.status = "SUBMITTED", !.count = ms[req[h].m].count + 1]
    <3>1. ms[req[h].m].count + 1 \in Nat /\ ms[req[h].m] \in Row
      BY <2>1 DEF StateTyped, Row
    <3>2. r \in Row
      BY <3>1 DEF Row, Statuses
    <3>3. ms' = [ms EXCEPT ![req[h].m] = r]
      BY <2>1
    <3>4. QED BY <2>1, <3>2, <3>3 DEF StateTyped
  <2>3. QED BY <1>4, <2>2 DEF markSubmitted, StateTyped, vivaVars, envVars
<1>5. ASSUME NEW h \in Requests, applyGateOutcome(h) PROVE StateTyped'
  <2>1. req[h].out \in Statuses /\ req[h].score \in Int
    BY DEF ReqTyped, Request, Outcomes, Statuses
  <2>2. "OPEN" \in Statuses
    BY DEF Statuses
  <2>3. ms' \in [Ms -> Row]
    <3>1. CASE UNCHANGED ms
      BY <3>1 DEF StateTyped
    <3>2. CASE ~UNCHANGED ms
      <4>1. ms' = [k \in Ms |->
                 IF k = req[h].m THEN [ms[k] EXCEPT !.status = req[h].out, !.score = req[h].score]
                 ELSE IF k = req[h].m + 1 /\ req[h].out = "GATED_PASS" /\ ms[k].status = "LOCKED"
                      THEN [ms[k] EXCEPT !.status = "OPEN"]
                      ELSE ms[k]]
        BY <1>5, <3>2 DEF applyGateOutcome
      <4>2. ASSUME NEW k \in Ms
            PROVE /\ [ms[k] EXCEPT !.status = req[h].out, !.score = req[h].score] \in Row
                  /\ [ms[k] EXCEPT !.status = "OPEN"] \in Row
                  /\ ms[k] \in Row
        BY <2>1, <2>2 DEF StateTyped, Row
      <4>3. QED BY <4>1, <4>2
    <3>3. QED BY <3>1, <3>2
  <2>4. QED BY <1>5, <2>3 DEF applyGateOutcome, StateTyped, vivaVars, envVars
<1>6. ASSUME NEW h \in Requests, FirstQuestion(h) PROVE StateTyped'
  <2>1. viva' \in Viva
    BY <1>6, VivaTyped DEF FirstQuestion, StateTyped
  <2>2. turns' \in Nat
    BY <1>6 DEF FirstQuestion, emitTurn, StateTyped
  <2>3. QED BY <1>6, <2>1, <2>2 DEF FirstQuestion, StateTyped, milestoneVars, envVars
<1>7. ASSUME NEW h \in Requests, AskNext(h) PROVE StateTyped'
  BY <1>7 DEF AskNext, emitTurn, StateTyped, milestoneVars, envVars
<1>8. ASSUME NEW h \in Requests, scoreViva(h) PROVE StateTyped'
  <2>1. PICK level \in Levels : marks' = Append(marks, [viva |-> req[h].v, level |-> level])
    BY <1>8 DEF scoreViva
  <2>2. [viva |-> req[h].v, level |-> level] \in [viva : Nat, level : Int]
    BY ProjectAssumption DEF ReqTyped, Request
  <2>3. marks' \in Seq([viva : Nat, level : Int])
    BY <2>1, <2>2 DEF StateTyped
  <2>4. turns' \in Nat
    BY <1>8 DEF scoreViva, emitTurn, StateTyped
  <2>5. QED BY <1>8, <2>3, <2>4 DEF scoreViva, StateTyped, milestoneVars, envVars
<1>9. ASSUME NEW h \in Requests, AbortRequest(h) PROVE StateTyped'
  BY <1>9 DEF AbortRequest, StateTyped, milestoneVars, envVars, vivaVars
<1>10. ASSUME NEW h \in Requests, AttachEnv(h) PROVE StateTyped'
  BY <1>10 DEF AttachEnv, StateTyped, milestoneVars, vivaVars, ReqTyped, Request
<1>11. CASE Restart
  BY <1>11 DEF Restart, StateTyped, milestoneVars, envVars, NoViva, Viva
<1>12. ASSUME NEW h \in Requests,
              \/ ListMilestones(h) \/ seedMilestones(h) \/ SubmitCheck(h) \/ RunGate(h)
              \/ stampSubmissionOutcome(h) \/ EnvRead(h) \/ snapshotAndSuspend(h)
              \/ provisionForMilestone(h) \/ FinalizeRead(h) \/ FinalizeScore(h)
              \/ \E m \in Ms : Submit(h, m)
       PROVE  StateTyped'
  BY <1>1, <1>12
     DEF ListMilestones, seedMilestones, SubmitCheck, RunGate, stampSubmissionOutcome, EnvRead,
         snapshotAndSuspend, provisionForMilestone, FinalizeRead, FinalizeScore, Submit,
         milestoneVars, envVars, vivaVars
<1>13. CASE UNCHANGED vars
  BY <1>1, <1>13 DEF vars
<1>14. QED
  BY <1>2, <1>3, <1>4, <1>5, <1>6, <1>7, <1>8, <1>9, <1>10, <1>11, <1>12, <1>13
     DEF Next, NewRequest, Continue

-----------------------------------------------------------------------------
\* What a step does to the requests, field by field.

Others(h) == \A g \in Requests : g # h => req'[g] = req[g]
Ended(h) == Others(h) /\ req'[h].pc = "idle"
OnSame(h) == req'[h].m = req[h].m /\ req'[h].n = req[h].n /\ req'[h].out = req[h].out
Onward(h, pc) == Others(h) /\ req'[h].pc = pc /\ OnSame(h)
GatedOn(h) == Ended(h) \/ (Onward(h, "rollup") /\ req[h].m = Final)

LEMMA GotoOn ==
  ASSUME Typed, NEW h \in Requests
  PROVE  /\ \A pc \in Pcs : Goto(h, pc) => Onward(h, pc)
         /\ Done(h) => Ended(h)
         /\ req' = [req EXCEPT ![h] = Gated(h)] => GatedOn(h)
<1>1. ASSUME NEW pc \in Pcs, Goto(h, pc) PROVE Onward(h, pc)
  BY <1>1 DEF Typed, ReqTyped, Request, Goto, Onward, Others, OnSame
<1>2. ASSUME Done(h) PROVE Ended(h)
  BY <1>2 DEF Typed, ReqTyped, Done, Idle, Ended, Others
<1>3. ASSUME req' = [req EXCEPT ![h] = Gated(h)] PROVE GatedOn(h)
  <2>1. CASE Gated(h) = Idle
    BY <1>3, <2>1 DEF Typed, ReqTyped, Idle, GatedOn, Ended, Others
  <2>2. CASE Gated(h) = [req[h] EXCEPT !.pc = "rollup"] /\ req[h].m = Final
    BY <1>3, <2>2 DEF Typed, ReqTyped, Request, GatedOn, Onward, OnSame, Others
  <2>3. QED BY <2>1, <2>2 DEF Gated
<1>4. QED BY <1>1, <1>2, <1>3

\* The steps that leave the milestones and the submissions alone.
Quiet(h) ==
  \/ Onward(h, "seed") /\ req[h].pc \in {"idle", "check"}
  \/ Onward(h, "check") /\ req[h].m # 0 /\ req[h].pc = "seed"
  \/ Others(h) /\ req'[h].pc = "check" /\ req'[h].m \in Ms /\ req[h].pc = "idle"
  \/ Onward(h, "mark") /\ req[h].pc = "check" /\ ms[req[h].m].status # "LOCKED"
  \/ Others(h) /\ req'[h].pc = "apply" /\ req'[h].m = req[h].m /\ req'[h].n = req[h].n /\ req[h].pc = "gate"
  \/ \E pc \in {"suspend", "provision"} : Onward(h, pc) /\ req[h].pc = "env"
  \/ Onward(h, "attach") /\ req[h].pc = "provision"
  \/ GatedOn(h) /\ req[h].pc \in {"env", "suspend", "provision", "attach"}
  \/ Onward(h, "defence") /\ req[h].pc = "rollup"
  \/ Ended(h) /\ req[h].pc \in {"seed", "check", "defence", "first", "ask", "score"}
  \/ Others(h) /\ req'[h].pc \in {"idle", "first", "ask", "score"} /\ req[h].pc = "idle"

QuietAction(h) ==
  \/ ListMilestones(h) \/ seedMilestones(h) \/ SubmitCheck(h) \/ RunGate(h) \/ EnvRead(h)
  \/ snapshotAndSuspend(h) \/ provisionForMilestone(h) \/ AttachEnv(h) \/ FinalizeRead(h)
  \/ FinalizeScore(h) \/ FirstQuestion(h) \/ AskNext(h) \/ scoreViva(h) \/ postMessage(h)
  \/ (\E m \in Ms : Submit(h, m)) \/ \E count \in generateQuestions : startViva(h, count)

LEMMA QuietSteps ==
  ASSUME Typed, OnMilestone, NEW h \in Requests, QuietAction(h)
  PROVE  Quiet(h) /\ UNCHANGED <<ms, subs, deaths, spec>>
<1>1. UNCHANGED <<ms, subs, deaths, spec>>
  BY DEF QuietAction, ListMilestones, seedMilestones, SubmitCheck, RunGate, EnvRead, snapshotAndSuspend,
         provisionForMilestone, AttachEnv, FinalizeRead, FinalizeScore, FirstQuestion, AskNext,
         scoreViva, postMessage, Submit, startViva, milestoneVars
<1>2. ASSUME ListMilestones(h) \/ seedMilestones(h) \/ SubmitCheck(h) PROVE Quiet(h)
  BY <1>2, GotoOn DEF ListMilestones, seedMilestones, SubmitCheck, Quiet, Pcs
<1>3. ASSUME NEW m \in Ms, Submit(h, m) PROVE Quiet(h)
  <2>1. req' = [req EXCEPT ![h].pc = "check", ![h].m = m] /\ req[h].pc = "idle"
    BY <1>3 DEF Submit
  <2>2. QED BY <2>1 DEF Typed, ReqTyped, Request, Quiet, Others
<1>4. ASSUME RunGate(h) PROVE Quiet(h)
  <2>1. PICK l, o, c : req' = [req EXCEPT ![h].pc = "apply", ![h].level = l, ![h].out = o, ![h].score = c]
    <3> DEFINE s == spec[req[h].m]
    <3>1. PICK passing \in runMilestoneValidators,
               level \in IF s.gate = "ALL_VALIDATORS_PASS" THEN {NoScore} ELSE gradeMilestoneRubric(s) :
            req' = [req EXCEPT ![h].pc = "apply", ![h].level = level,
                     ![h].out = IF GatePasses(s, passing, level) THEN "GATED_PASS" ELSE "GATED_FAIL",
                     ![h].score = computeMilestoneScore(s.gate, passing, TaskCount, level)]
      BY <1>4 DEF RunGate
    <3>2. QED BY <3>1
  <2>2. Others(h) /\ req'[h].pc = "apply" /\ req'[h].m = req[h].m /\ req'[h].n = req[h].n
    BY <2>1 DEF Typed, ReqTyped, Request, Others
  <2>3. QED BY <1>4, <2>2 DEF Quiet, RunGate
<1>5. ASSUME EnvRead(h) PROVE Quiet(h)
  <2>1. \/ req' = [req EXCEPT ![h].pc = "suspend", ![h].env = envId]
        \/ Goto(h, "provision")
        \/ req' = [req EXCEPT ![h] = Gated(h)]
    BY <1>5 DEF EnvRead, Goto
  <2>2. CASE req' = [req EXCEPT ![h].pc = "suspend", ![h].env = envId]
    <3>1. Onward(h, "suspend")
      BY <2>2 DEF Typed, ReqTyped, Request, Onward, Others, OnSame
    <3>2. QED BY <1>5, <3>1 DEF Quiet, EnvRead
  <2>3. QED BY <1>5, <2>1, <2>2, GotoOn DEF Quiet, EnvRead, Pcs
<1>6. ASSUME snapshotAndSuspend(h) \/ AttachEnv(h) PROVE Quiet(h)
  BY <1>6, GotoOn DEF snapshotAndSuspend, AttachEnv, Quiet
<1>7. ASSUME provisionForMilestone(h) PROVE Quiet(h)
  <2>1. CASE req' = [req EXCEPT ![h] = Gated(h)]
    BY <1>7, <2>1, GotoOn DEF provisionForMilestone, Quiet
  <2>2. CASE \E e \in Envs : req' = [req EXCEPT ![h].pc = "attach", ![h].env = e]
    <3>1. PICK e \in Envs : req' = [req EXCEPT ![h].pc = "attach", ![h].env = e]
      BY <2>2
    <3>2. Onward(h, "attach")
      BY <3>1 DEF Typed, ReqTyped, Request, Onward, Others, OnSame
    <3>3. QED BY <1>7, <3>2 DEF Quiet, provisionForMilestone
  <2>3. QED BY <1>7, <2>1, <2>2 DEF provisionForMilestone
<1>8. ASSUME FinalizeRead(h) PROVE Quiet(h)
  <2>1. PICK c : req' = [req EXCEPT ![h].pc = "defence", ![h].comps = c]
    BY <1>8 DEF FinalizeRead
  <2>2. Onward(h, "defence")
    BY <2>1 DEF Typed, ReqTyped, Request, Onward, Others, OnSame
  <2>3. QED BY <1>8, <2>2 DEF Quiet, FinalizeRead
<1>9. ASSUME FinalizeScore(h) \/ FirstQuestion(h) \/ AskNext(h) \/ scoreViva(h) PROVE Quiet(h)
  BY <1>9, GotoOn DEF FinalizeScore, FirstQuestion, AskNext, scoreViva, Quiet
<1>10. ASSUME NEW count \in generateQuestions, startViva(h, count) PROVE Quiet(h)
  <2>1. PICK pc \in {"idle", "first"} : \E v : req' = [req EXCEPT ![h].pc = pc, ![h].v = v]
    BY <1>10 DEF startViva
  <2>2. Others(h) /\ req'[h].pc = pc
    BY <2>1 DEF Typed, ReqTyped, Request, Others
  <2>3. QED BY <1>10, <2>2 DEF Quiet, startViva
<1>11. ASSUME postMessage(h) PROVE Quiet(h)
  <2>1. \/ req' = req
        \/ req' = [req EXCEPT ![h].pc = "ask", ![h].v = viva.id, ![h].n = viva.asked + 1]
        \/ req' = [req EXCEPT ![h].pc = "score", ![h].v = viva.id]
    BY <1>11 DEF postMessage
  <2>2. Others(h) /\ (req'[h] = req[h] \/ req'[h].pc \in {"ask", "score"})
    BY <2>1 DEF Typed, ReqTyped, Request, Others
  <2>3. QED BY <1>11, <2>2 DEF Quiet, postMessage
<1>12. QED
  BY <1>1, <1>2, <1>3, <1>4, <1>5, <1>6, <1>7, <1>8, <1>9, <1>10, <1>11 DEF QuietAction

\* The three steps of a submission that write rows.
LEMMA MarkStep ==
  ASSUME Typed, OnMilestone, NEW h \in Requests, markSubmitted(h)
  PROVE  /\ req[h].pc = "mark" /\ req[h].m \in Ms /\ Others(h)
         /\ req'[h].pc = "gate" /\ req'[h].m = req[h].m /\ req'[h].n = ms[req[h].m].count + 1
         /\ \A k \in Ms : k # req[h].m => ms'[k] = ms[k]
         /\ ms'[req[h].m].status = "SUBMITTED" /\ ms'[req[h].m].count = ms[req[h].m].count + 1
         /\ ms'[req[h].m].score = ms[req[h].m].score
         /\ recordSubmission(<<req[h].m, ms[req[h].m].count + 1>>)
         /\ UNCHANGED <<deaths, scores, marks, viva, vivas, spec>>
<1>1. req[h].pc = "mark" /\ req[h].m \in Ms
  BY DEF markSubmitted, OnMilestone, Past
<1>2. req' = [req EXCEPT ![h].pc = "gate", ![h].n = ms[req[h].m].count + 1]
  BY DEF markSubmitted
<1>3. /\ Others(h) /\ req'[h].pc = "gate" /\ req'[h].m = req[h].m
      /\ req'[h].n = ms[req[h].m].count + 1
  BY <1>2 DEF Typed, ReqTyped, Request, Others
<1>4. ms' = [ms EXCEPT ![req[h].m].status = "SUBMITTED", ![req[h].m].count = ms[req[h].m].count + 1]
  BY DEF markSubmitted
<1>5. /\ \A k \in Ms : k # req[h].m => ms'[k] = ms[k]
      /\ ms'[req[h].m].status = "SUBMITTED" /\ ms'[req[h].m].count = ms[req[h].m].count + 1
      /\ ms'[req[h].m].score = ms[req[h].m].score
  BY <1>1, <1>4 DEF Typed, StateTyped, Row
<1>6. QED BY <1>1, <1>3, <1>5 DEF markSubmitted, vivaVars

LEMMA ApplyStep ==
  ASSUME Typed, OnMilestone, NEW h \in Requests, applyGateOutcome(h)
  PROVE  /\ req[h].pc = "apply" /\ req[h].m \in Ms
         /\ UNCHANGED <<subs, deaths, scores, marks, viva, vivas, spec>>
         /\ \/ Ended(h) /\ UNCHANGED ms
            \/ /\ Onward(h, "stamp")
               /\ \A k \in Ms :
                    IF k = req[h].m
                    THEN ms'[k].status = req[h].out /\ ms'[k].score = req[h].score /\ ms'[k].count = ms[k].count
                    ELSE \/ ms'[k] = ms[k]
                         \/ /\ k = req[h].m + 1 /\ req[h].out = "GATED_PASS" /\ ms[k].status = "LOCKED"
                            /\ ms'[k].status = "OPEN" /\ ms'[k].score = ms[k].score
                            /\ ms'[k].count = ms[k].count
<1>1. /\ req[h].pc = "apply" /\ req[h].m \in Ms
      /\ UNCHANGED <<subs, deaths, scores, marks, viva, vivas, spec>>
  BY DEF applyGateOutcome, OnMilestone, Past, vivaVars
<1>2. CASE req[h].level = 0
  BY <1>1, <1>2, GotoOn DEF applyGateOutcome
<1>3. CASE req[h].level # 0
  <2>1. Onward(h, "stamp")
    BY <1>3, GotoOn DEF applyGateOutcome, Pcs
  <2>2. ms' = [k \in Ms |->
                 IF k = req[h].m THEN [ms[k] EXCEPT !.status = req[h].out, !.score = req[h].score]
                 ELSE IF k = req[h].m + 1 /\ req[h].out = "GATED_PASS" /\ ms[k].status = "LOCKED"
                      THEN [ms[k] EXCEPT !.status = "OPEN"]
                      ELSE ms[k]]
    BY <1>3 DEF applyGateOutcome
  <2>3. \A k \in Ms : ms[k] \in Row
    BY DEF Typed, StateTyped
  <2>4. \A k \in Ms :
          IF k = req[h].m
          THEN ms'[k].status = req[h].out /\ ms'[k].score = req[h].score /\ ms'[k].count = ms[k].count
          ELSE \/ ms'[k] = ms[k]
               \/ /\ k = req[h].m + 1 /\ req[h].out = "GATED_PASS" /\ ms[k].status = "LOCKED"
                  /\ ms'[k].status = "OPEN" /\ ms'[k].score = ms[k].score /\ ms'[k].count = ms[k].count
    BY <2>2, <2>3 DEF Row
  <2>5. QED BY <1>1, <2>1, <2>4
<1>4. QED BY <1>2, <1>3

LEMMA StampStep ==
  ASSUME Typed, OnMilestone, NEW h \in Requests, stampSubmissionOutcome(h)
  PROVE  /\ req[h].pc = "stamp" /\ req[h].m \in Ms
         /\ UNCHANGED <<ms, deaths, scores, marks, viva, vivas, spec>>
         /\ subs' = [q \in DOMAIN subs |-> IF q = Held(h) THEN req[h].out ELSE subs[q]]
         /\ GatedOn(h) \/ Onward(h, "env")
<1>1. Goto(h, "env") \/ req' = [req EXCEPT ![h] = Gated(h)]
  BY DEF stampSubmissionOutcome, Goto
<1>2. GatedOn(h) \/ Onward(h, "env")
  BY <1>1, GotoOn DEF Pcs
<1>3. QED BY <1>2 DEF stampSubmissionOutcome, Held, OnMilestone, Past, vivaVars

\* Every step is one of these.
Cases ==
  \/ UNCHANGED vars \/ Restart
  \/ \E h \in Requests :
       \/ QuietAction(h) \/ markSubmitted(h) \/ applyGateOutcome(h)
       \/ stampSubmissionOutcome(h) \/ AbortRequest(h)

LEMMA NextCases == ASSUME [Next]_vars PROVE Cases
BY DEF Next, NewRequest, Continue, Cases, QuietAction

-----------------------------------------------------------------------------
\* The ladder.

LEMMA MsFacts == 1 \in Ms /\ Final \in Ms /\ Ms \subseteq Nat /\ Ms = 1 .. Final
BY ProjectAssumption DEF Ms, Final

LEMMA LadderInit == Init => LadderInv
<1> SUFFICES ASSUME Init PROVE LadderInv
  OBVIOUS
<1>1. Typed
  BY InitTyped
<1>2. \A h \in Requests : req[h].pc = "idle"
  BY DEF Init, Idle
<1>3. \A m \in Ms : ms[m].status # "LOCKED" <=> m = 1
  BY DEF Init
<1>4. OnMilestone
  BY <1>2 DEF OnMilestone, Past
<1>5. Climbed
  BY <1>2, <1>3, MsFacts DEF Climbed, Past
<1>6. QED BY <1>1, <1>4, <1>5 DEF LadderInv

LEMMA OnMilestoneNext ==
  ASSUME Typed, OnMilestone, [Next]_vars
  PROVE  OnMilestone'
<1>1. CASE UNCHANGED vars
  BY <1>1 DEF vars, OnMilestone
<1>2. CASE Restart
  BY <1>2 DEF Restart, Idle, OnMilestone, Past
<1>3. ASSUME NEW h \in Requests, QuietAction(h) PROVE OnMilestone'
  <2>1. Quiet(h) /\ req[h].m \in 0 .. Len(Keys)
    BY <1>3, QuietSteps DEF Typed, ReqTyped, Request
  <2>2. QED BY <2>1 DEF Quiet, OnMilestone, Past, Onward, OnSame, Ended, GatedOn, Others, Ms
<1>4. ASSUME NEW h \in Requests, markSubmitted(h) PROVE OnMilestone'
  BY <1>4, MarkStep DEF OnMilestone, Past, Others
<1>5. ASSUME NEW h \in Requests, applyGateOutcome(h) PROVE OnMilestone'
  BY <1>5, ApplyStep DEF OnMilestone, Past, Onward, OnSame, Ended, Others
<1>6. ASSUME NEW h \in Requests, stampSubmissionOutcome(h) PROVE OnMilestone'
  BY <1>6, StampStep DEF OnMilestone, Past, Onward, OnSame, Ended, GatedOn, Others
<1>7. ASSUME NEW h \in Requests, AbortRequest(h) PROVE OnMilestone'
  BY <1>7, GotoOn DEF AbortRequest, OnMilestone, Past, Ended, Others
<1>8. QED BY <1>1, <1>2, <1>3, <1>4, <1>5, <1>6, <1>7, NextCases DEF Cases

\* Only applyGateOutcome opens a milestone: the one above those open before.
Opens(h) ==
  /\ applyGateOutcome(h) /\ req[h].m + 1 \in Ms
  /\ \A k \in Ms : ms[k].status # "LOCKED" <=> k <= req[h].m
  /\ \A k \in Ms : ms'[k].status # "LOCKED" <=> k <= req[h].m + 1

SameOpen == \A k \in Ms : ms'[k].status # "LOCKED" <=> ms[k].status # "LOCKED"

LEMMA OpenStep ==
  ASSUME LadderInv, [Next]_vars
  PROVE  SameOpen \/ \E h \in Requests : Opens(h)
<1> USE DEF LadderInv
<1>1. CASE UNCHANGED ms
  BY <1>1 DEF SameOpen
<1>2. ASSUME NEW h \in Requests, QuietAction(h) PROVE UNCHANGED ms
  BY <1>2, QuietSteps
<1>3. ASSUME NEW h \in Requests, markSubmitted(h) PROVE SameOpen
  <2>1. ms[req[h].m].status # "LOCKED"
    BY <1>3, MarkStep DEF Climbed, Past
  <2>2. QED BY <1>3, <2>1, MarkStep DEF SameOpen
<1>4. ASSUME NEW h \in Requests, applyGateOutcome(h) PROVE SameOpen \/ Opens(h)
  <2>1. req[h].out # "LOCKED" /\ ms[req[h].m].status # "LOCKED" /\ req[h].m \in Ms
    BY <1>4, ApplyStep DEF Typed, ReqTyped, Request, Outcomes, Climbed, Past
  <2>2. CASE req[h].m + 1 \in Ms /\ ms[req[h].m + 1].status = "LOCKED"
    <3>1. \A k \in Ms : ms[k].status # "LOCKED" <=> k <= req[h].m
      <4>1. ASSUME NEW k \in Ms, k <= req[h].m PROVE ms[k].status # "LOCKED"
        BY <2>1, <4>1, MsFacts DEF Climbed
      <4>2. ASSUME NEW k \in Ms, ms[k].status # "LOCKED", ~(k <= req[h].m) PROVE FALSE
        <5>1. req[h].m + 1 \in 1 .. k
          BY <2>1, <4>2, MsFacts
        <5>2. QED BY <2>2, <4>2, <5>1 DEF Climbed
      <4>3. QED BY <4>1, <4>2
    <3>2. SameOpen \/ \A k \in Ms : ms'[k].status # "LOCKED" <=> k <= req[h].m + 1
      BY <1>4, <2>1, <2>2, <3>1, MsFacts, ApplyStep DEF SameOpen
    <3>3. QED BY <1>4, <2>2, <3>1, <3>2 DEF Opens
  <2>3. CASE ~(req[h].m + 1 \in Ms /\ ms[req[h].m + 1].status = "LOCKED")
    BY <1>4, <2>1, <2>3, ApplyStep DEF SameOpen
  <2>4. QED BY <2>2, <2>3
<1>5. ASSUME NEW h \in Requests, stampSubmissionOutcome(h) PROVE UNCHANGED ms
  BY <1>5, StampStep
<1>6. ASSUME NEW h \in Requests, AbortRequest(h) PROVE UNCHANGED ms
  BY <1>6 DEF AbortRequest, milestoneVars
<1>7. CASE Restart \/ UNCHANGED vars
  BY <1>1, <1>7 DEF Restart, milestoneVars, vars
<1>8. QED BY <1>1, <1>2, <1>3, <1>4, <1>5, <1>6, <1>7, NextCases DEF Cases

LEMMA ClimbedNext ==
  ASSUME LadderInv, [Next]_vars
  PROVE  Climbed'
<1> USE DEF LadderInv
<1>1. /\ ms'[1].status # "LOCKED"
      /\ \A m \in Ms : ms'[m].status # "LOCKED" => \A k \in 1 .. m : ms'[k].status # "LOCKED"
      /\ \A m \in Ms : ms[m].status # "LOCKED" => ms'[m].status # "LOCKED"
  <2>1. CASE SameOpen
    BY <2>1, MsFacts DEF SameOpen, Climbed
  <2>2. ASSUME NEW h \in Requests, Opens(h)
        PROVE  /\ ms'[1].status # "LOCKED"
               /\ \A m \in Ms : ms'[m].status # "LOCKED" => \A k \in 1 .. m : ms'[k].status # "LOCKED"
               /\ \A m \in Ms : ms[m].status # "LOCKED" => ms'[m].status # "LOCKED"
    <3>1. req[h].m \in Ms
      BY <2>2, ApplyStep DEF Opens
    <3>2. \A m \in Ms : \A k \in 1 .. m : k \in Ms
      BY MsFacts
    <3>3. QED BY <2>2, <3>1, <3>2, MsFacts DEF Opens
  <2>3. QED BY <2>1, <2>2, OpenStep
<1>2. ASSUME NEW g \in Requests, req'[g].pc \in Past
      PROVE  req'[g].m \in Ms /\ ms[req'[g].m].status # "LOCKED"
  <2>1. CASE req'[g] = req[g]
    BY <1>2, <2>1 DEF Climbed, OnMilestone
  <2>2. CASE UNCHANGED vars \/ Restart
    BY <1>2, <2>1, <2>2 DEF vars, Restart, Idle, Past
  <2>3. ASSUME NEW h \in Requests, QuietAction(h) PROVE req'[g].m \in Ms /\ ms[req'[g].m].status # "LOCKED"
    <3>1. Quiet(h)
      BY <2>3, QuietSteps
    <3>2. CASE g = h
      BY <1>2, <3>1, <3>2 DEF Quiet, Onward, OnSame, Ended, GatedOn, Climbed, OnMilestone, Past
    <3>3. CASE g # h
      BY <2>1, <3>1, <3>3 DEF Quiet, Onward, Ended, GatedOn, Others
    <3>4. QED BY <3>2, <3>3
  <2>4. ASSUME NEW h \in Requests, markSubmitted(h) PROVE req'[g].m \in Ms /\ ms[req'[g].m].status # "LOCKED"
    BY <1>2, <2>1, <2>4, MarkStep DEF Climbed, OnMilestone, Past, Others
  <2>5. ASSUME NEW h \in Requests, applyGateOutcome(h) PROVE req'[g].m \in Ms /\ ms[req'[g].m].status # "LOCKED"
    BY <1>2, <2>1, <2>5, ApplyStep DEF Climbed, OnMilestone, Past, Onward, OnSame, Ended, Others
  <2>6. ASSUME NEW h \in Requests, stampSubmissionOutcome(h) PROVE req'[g].m \in Ms /\ ms[req'[g].m].status # "LOCKED"
    BY <1>2, <2>1, <2>6, StampStep DEF Climbed, OnMilestone, Past, Onward, OnSame, Ended, GatedOn, Others
  <2>7. ASSUME NEW h \in Requests, AbortRequest(h) PROVE req'[g].m \in Ms /\ ms[req'[g].m].status # "LOCKED"
    BY <1>2, <2>1, <2>7, GotoOn DEF AbortRequest, Past, Ended, Others
  <2>8. QED BY <2>2, <2>3, <2>4, <2>5, <2>6, <2>7, NextCases DEF Cases
<1>3. QED BY <1>1, <1>2 DEF Climbed

LEMMA LadderNext ==
  ASSUME LadderInv, [Next]_vars
  PROVE  LadderInv'
BY ReqTypedNext, StateTypedNext, OnMilestoneNext, ClimbedNext DEF LadderInv, Typed

\* project.service.ts and project.repository.ts: the rows, the handlers and
\* what they hold stay of their types, the open milestones are the first ones,
\* and a submission past its check is never on a locked one, with any number
\* of requests in flight that may die at any await.
THEOREM SubmissionsOnOpenMilestones == Spec => []LadderInv
<1>1. Init => LadderInv
  BY LadderInit
<1>2. LadderInv /\ [Next]_vars => LadderInv'
  BY LadderNext
<1>3. QED BY <1>1, <1>2, PTL DEF Spec

\* What appending to the scores, or leaving them, does to "scored".
LEMMA ScoredStep ==
  ASSUME LadderInv, [Next]_vars
  PROVE  \/ UNCHANGED scores
         \/ \E h \in Requests : FinalizeScore(h) /\ req[h].pc = "defence" /\ scores' # <<>> /\ UNCHANGED ms
<1>1. ASSUME NEW h \in Requests, FinalizeScore(h)
      PROVE  req[h].pc = "defence" /\ scores' # <<>> /\ UNCHANGED ms
  BY <1>1 DEF FinalizeScore
<1>2. ASSUME NEW h \in Requests, QuietAction(h), ~FinalizeScore(h) PROVE UNCHANGED scores
  BY <1>2 DEF QuietAction, ListMilestones, seedMilestones, SubmitCheck, RunGate, EnvRead,
              snapshotAndSuspend, provisionForMilestone, AttachEnv, FinalizeRead, FirstQuestion,
              AskNext, scoreViva, postMessage, Submit, startViva, milestoneVars
<1>3. ASSUME NEW h \in Requests,
             markSubmitted(h) \/ applyGateOutcome(h) \/ stampSubmissionOutcome(h) \/ AbortRequest(h)
      PROVE  UNCHANGED scores
  BY <1>3 DEF markSubmitted, applyGateOutcome, stampSubmissionOutcome, AbortRequest, milestoneVars
<1>4. CASE Restart \/ UNCHANGED vars
  BY <1>4 DEF Restart, vars, milestoneVars
<1>5. QED BY <1>1, <1>2, <1>3, <1>4, NextCases DEF Cases

\* MilestoneLadder is what the gates implement: whatever concurrent
\* submissions, seedings, deaths and restarts do, the milestones open one at a
\* time and in order, none is locked again, and a score comes after the last
\* one is open.
THEOREM GatesImplementLadder == Spec => ClimbsTheLadder
<1> DEFINE openSet == {m \in Ms : ms[m].status # "LOCKED"}
<1>1. Init => Ladder!Init
  <2> SUFFICES ASSUME Init PROVE openSet = {1} /\ (scores # <<>>) = FALSE
    BY DEF Ladder!Init
  <2>1. \A m \in Ms : ms[m].status # "LOCKED" <=> m = 1
    BY DEF Init
  <2>2. QED BY <2>1, MsFacts DEF Init
<1>2. LadderInv /\ [Next]_vars => [Ladder!Next]_<<openSet, scores # <<>>>>
  <2> SUFFICES ASSUME LadderInv, [Next]_vars PROVE [Ladder!Next]_<<openSet, scores # <<>>>>
    OBVIOUS
  <2>1. CASE SameOpen /\ UNCHANGED scores
    <3>1. openSet' = openSet
      BY <2>1 DEF SameOpen
    <3>2. QED BY <2>1, <3>1
  <2>2. ASSUME NEW h \in Requests, Opens(h) PROVE Ladder!Next
    <3>1. req[h].m \in Ms /\ UNCHANGED scores
      BY <2>2, ApplyStep DEF Opens, LadderInv
    <3>2. openSet = 1 .. req[h].m /\ openSet' = 1 .. req[h].m + 1
      BY <2>2, <3>1, MsFacts DEF Opens
    <3>3. req[h].m + 1 \in 2 .. Len(Keys) /\ (req[h].m + 1) - 1 = req[h].m
      BY <2>2, <3>1, MsFacts DEF Opens, Final
    <3>4. PICK k \in 2 .. Len(Keys) : openSet = 1 .. k - 1 /\ openSet' = 1 .. k
      BY <3>2, <3>3
    <3>5. QED BY <3>1, <3>4 DEF Ladder!Next, Ladder!Open
  <2>3. ASSUME NEW h \in Requests, FinalizeScore(h), req[h].pc = "defence", scores' # <<>>, UNCHANGED ms
        PROVE  Ladder!Next
    <3>1. ms[Final].status # "LOCKED"
      BY <2>3 DEF LadderInv, Climbed, OnMilestone, Past
    <3>2. openSet = 1 .. Len(Keys) /\ openSet' = openSet
      BY <2>3, <3>1, MsFacts DEF LadderInv, Climbed, Final
    <3>3. Ladder!Score
      BY <2>3, <3>2 DEF Ladder!Score
    <3>4. QED BY <3>3 DEF Ladder!Next
  <2>4. QED BY <2>1, <2>2, <2>3, OpenStep, ScoredStep
<1>3. QED BY <1>1, <1>2, SubmissionsOnOpenMilestones, PTL DEF Spec, ClimbsTheLadder, Ladder!Spec

-----------------------------------------------------------------------------
\* The submission history.

\* No request takes a row over: those that hold one after a step held it before.
NoNewHolder == \A g \in Requests : Unstamped(g)' => Unstamped(g) /\ Held(g)' = Held(g)

\* A request about to stamp stays so, or dies.
StampersStay ==
  \A g \in Requests : req[g].pc = "stamp" => \/ req'[g] = req[g]
                                             \/ deaths' > 0 /\ ~Unstamped(g)'

LEMMA SubsKept ==
  ASSUME SubsInv, UNCHANGED subs, NoNewHolder, \A m \in Ms : ms'[m].count = ms[m].count
  PROVE  SubsInv'
<1>1. \A p \in DOMAIN subs' : p \in Ms \X Nat /\ p[2] <= ms'[p[1]].count
  BY DEF SubsInv
<1>2. \A h \in Requests : Unstamped(h)' => Held(h)' \in DOMAIN subs' /\ subs'[Held(h)'] = Pending
  BY DEF SubsInv, NoNewHolder
<1>3. \A g, h \in Requests : Unstamped(g)' /\ Unstamped(h)' /\ g # h => Held(g)' # Held(h)'
  BY DEF SubsInv, NoNewHolder
<1>4. QED BY <1>1, <1>2, <1>3 DEF SubsInv

LEMMA ExplainedKept ==
  ASSUME Typed, SubsInv, UNCHANGED subs, NoNewHolder, StampersStay, deaths > 0 => deaths' > 0,
         NEW m \in Ms, Explained(m)
  PROVE  Explained(m)'
<1>1. CASE \E p \in DOMAIN subs : p[1] = m - 1 /\ subs[p] = "GATED_PASS"
  BY <1>1 DEF Explained
<1>2. ASSUME NEW h \in Requests, req[h].pc = "stamp", req[h].m = m - 1, req[h].out = "GATED_PASS"
      PROVE  Explained(m)'
  <2>1. CASE req'[h] = req[h]
    BY <1>2, <2>1 DEF Explained
  <2>2. CASE deaths' > 0 /\ ~Unstamped(h)'
    <3>1. Held(h) \in DOMAIN subs' /\ subs'[Held(h)] = Pending /\ Held(h)[1] = m - 1
      BY <1>2 DEF SubsInv, Unstamped, Held
    <3>2. \A g \in Requests : Unstamped(g)' => Held(g)' # Held(h)
      BY <1>2, <2>2 DEF SubsInv, NoNewHolder, Unstamped
    <3>3. QED BY <2>2, <3>1, <3>2 DEF Explained
  <2>3. QED BY <1>2, <2>1, <2>2 DEF StampersStay
<1>3. ASSUME deaths > 0,
             NEW p \in DOMAIN subs, p[1] = m - 1, subs[p] = Pending,
             \A h \in Requests : Unstamped(h) => Held(h) # p
      PROVE  Explained(m)'
  <2>1. deaths' > 0
    BY <1>3
  <2>2. QED BY <1>3, <2>1 DEF Explained, NoNewHolder
<1>4. QED BY <1>1, <1>2, <1>3 DEF Explained

LEMMA RecordKept ==
  ASSUME Typed, RecordInv, UNCHANGED subs, NoNewHolder, StampersStay, deaths > 0 => deaths' > 0,
         \A m \in Ms : ms'[m].count = ms[m].count,
         \A m \in Ms : ms'[m].status # "LOCKED" => ms[m].status # "LOCKED"
  PROVE  RecordInv'
<1>1. SubsInv'
  BY SubsKept DEF RecordInv
<1>2. \A m \in Ms \ {1} : ms'[m].status # "LOCKED" => Explained(m)'
  BY ExplainedKept DEF RecordInv
<1>3. QED BY <1>1, <1>2 DEF RecordInv

LEMMA RecordInit == Init => RecordInv
<1> SUFFICES ASSUME Init PROVE RecordInv
  OBVIOUS
<1>1. SubsInv
  BY DEF Init, Idle, SubsInv, Unstamped
<1>2. \A m \in Ms \ {1} : ms[m].status = "LOCKED"
  BY DEF Init
<1>3. QED BY <1>1, <1>2 DEF RecordInv

LEMMA RecordNext ==
  ASSUME LadderInv, RecordInv, [Next]_vars
  PROVE  RecordInv'
<1> USE DEF LadderInv
<1>1. CASE UNCHANGED vars
  BY <1>1, RecordKept DEF vars, NoNewHolder, StampersStay, Unstamped, Held
<1>2. CASE Restart
  <2>1. \A g \in Requests : ~Unstamped(g)'
    BY <1>2 DEF Restart, Idle, Unstamped
  <2>2. deaths' > 0 /\ UNCHANGED <<subs, ms>>
    BY <1>2 DEF Restart, milestoneVars, Typed, StateTyped
  <2>3. QED BY <2>1, <2>2, RecordKept DEF NoNewHolder, StampersStay
<1>3. ASSUME NEW h \in Requests, QuietAction(h) PROVE RecordInv'
  <2>1. Quiet(h) /\ UNCHANGED <<ms, subs, deaths>>
    BY <1>3, QuietSteps
  <2>2. NoNewHolder /\ StampersStay
    BY <2>1 DEF Quiet, Onward, OnSame, Ended, GatedOn, Others, NoNewHolder, StampersStay, Unstamped, Held
  <2>3. QED BY <2>1, <2>2, RecordKept
<1>4. ASSUME NEW h \in Requests, markSubmitted(h) PROVE RecordInv'
  <2> DEFINE p == <<req[h].m, ms[req[h].m].count + 1>>
  <2>1. /\ req[h].m \in Ms /\ ms[req[h].m].count \in Nat
        /\ \A k \in Ms : ms[k].count \in Nat /\ ms'[k].count \in Nat /\ ms[k].count <= ms'[k].count
        /\ ms'[req[h].m].count = ms[req[h].m].count + 1
    <3>1. \A k \in Ms : ms[k].count \in Nat
      BY DEF Typed, StateTyped, Row
    <3>2. \A k \in Ms : k # req[h].m => ms'[k].count = ms[k].count
      BY <1>4, MarkStep
    <3>3. req[h].m \in Ms /\ ms'[req[h].m].count = ms[req[h].m].count + 1
      BY <1>4, MarkStep
    <3>4. QED BY <3>1, <3>2, <3>3
  <2>2. p \in Ms \X Nat /\ p \notin DOMAIN subs
    BY <2>1 DEF RecordInv, SubsInv
  <2>3. DOMAIN subs' = DOMAIN subs \union {p} /\ subs'[p] = Pending /\ \A q \in DOMAIN subs : subs'[q] = subs[q]
    <3>1. subs' = [q \in DOMAIN subs \union {p} |-> IF q = p THEN Pending ELSE subs[q]]
      BY <1>4, MarkStep DEF recordSubmission
    <3> HIDE DEF p
    <3>2. QED BY <2>2, <3>1
  <2>4. /\ Unstamped(h)' /\ Held(h)' = p /\ ~Unstamped(h) /\ deaths' = deaths /\ req[h].pc # "stamp"
        /\ \A g \in Requests : g # h => (Unstamped(g)' <=> Unstamped(g)) /\ Held(g)' = Held(g) /\ req'[g] = req[g]
    BY <1>4, MarkStep DEF Unstamped, Held, Others
  <2>5. \A m \in Ms : ms'[m].status # "LOCKED" => ms[m].status # "LOCKED"
    BY <1>4, MarkStep DEF Climbed, Past
  <2> HIDE DEF p
  <2>6. SubsInv'
    <3>1. \A q \in DOMAIN subs' : q \in Ms \X Nat /\ q[2] <= ms'[q[1]].count
      <4>1. \A q \in DOMAIN subs : q \in Ms \X Nat /\ q[2] <= ms'[q[1]].count
        BY <2>1 DEF RecordInv, SubsInv
      <4>2. p[2] <= ms'[p[1]].count
        BY <2>1 DEF p
      <4>3. QED BY <2>2, <2>3, <4>1, <4>2
    <3>2. \A g \in Requests : Unstamped(g)' => Held(g)' \in DOMAIN subs' /\ subs'[Held(g)'] = Pending
      BY <2>3, <2>4 DEF RecordInv, SubsInv
    <3>3. \A f, g \in Requests : Unstamped(f)' /\ Unstamped(g)' /\ f # g => Held(f)' # Held(g)'
      BY <2>2, <2>4 DEF RecordInv, SubsInv
    <3>4. QED BY <3>1, <3>2, <3>3 DEF SubsInv
  <2>7. ASSUME NEW m \in Ms \ {1}, ms'[m].status # "LOCKED" PROVE Explained(m)'
    <3>1. Explained(m)
      BY <2>5, <2>7 DEF RecordInv
    <3>2. CASE \E q \in DOMAIN subs : q[1] = m - 1 /\ subs[q] = "GATED_PASS"
      BY <2>3, <3>2 DEF Explained
    <3>3. CASE \E g \in Requests : req[g].pc = "stamp" /\ req[g].m = m - 1 /\ req[g].out = "GATED_PASS"
      BY <2>4, <3>3 DEF Explained
    <3>4. ASSUME deaths > 0, NEW q \in DOMAIN subs, q[1] = m - 1, subs[q] = Pending,
                 \A g \in Requests : Unstamped(g) => Held(g) # q
          PROVE  Explained(m)'
      BY <2>2, <2>3, <2>4, <3>4 DEF Explained
    <3>5. QED BY <3>1, <3>2, <3>3, <3>4 DEF Explained
  <2>8. QED BY <2>6, <2>7 DEF RecordInv
<1>5. ASSUME NEW h \in Requests, applyGateOutcome(h) PROVE RecordInv'
  <2>1. NoNewHolder /\ StampersStay
    BY <1>5, ApplyStep DEF Onward, OnSame, Ended, Others, NoNewHolder, StampersStay, Unstamped, Held
  <2>2. UNCHANGED <<subs, deaths>> /\ \A m \in Ms : ms'[m].count = ms[m].count
    BY <1>5, ApplyStep
  <2>3. SubsInv'
    BY <2>1, <2>2, SubsKept DEF RecordInv
  <2>4. ASSUME NEW m \in Ms \ {1}, ms'[m].status # "LOCKED" PROVE Explained(m)'
    <3>1. CASE ms[m].status # "LOCKED"
      BY <2>1, <2>2, <3>1, ExplainedKept DEF RecordInv
    <3>2. CASE ms[m].status = "LOCKED"
      <4>1. req[h].m \in Ms /\ ms[req[h].m].status # "LOCKED"
        BY <1>5, ApplyStep DEF Climbed, Past
      <4>2. Onward(h, "stamp") /\ m = req[h].m + 1 /\ req[h].out = "GATED_PASS"
        BY <1>5, <2>4, <3>2, <4>1, ApplyStep
      <4>3. req'[h].pc = "stamp" /\ req'[h].m = m - 1 /\ req'[h].out = "GATED_PASS"
        BY <4>1, <4>2, MsFacts DEF Onward, OnSame
      <4>4. QED BY <4>3 DEF Explained
    <3>3. QED BY <3>1, <3>2
  <2>5. QED BY <2>3, <2>4 DEF RecordInv
<1>6. ASSUME NEW h \in Requests, stampSubmissionOutcome(h) PROVE RecordInv'
  <2>1. /\ req[h].pc = "stamp" /\ UNCHANGED <<ms, deaths>> /\ Unstamped(h)
        /\ DOMAIN subs' = DOMAIN subs /\ subs'[Held(h)] = req[h].out
        /\ \A q \in DOMAIN subs : q # Held(h) => subs'[q] = subs[q]
    BY <1>6, StampStep DEF Unstamped, RecordInv, SubsInv
  <2>2. /\ ~Unstamped(h)' /\ \A g \in Requests : g # h => req'[g] = req[g]
    BY <1>6, StampStep DEF Onward, Ended, GatedOn, Others, Unstamped
  <2>3. \A g \in Requests : Unstamped(g)' => g # h /\ Unstamped(g) /\ Held(g)' = Held(g)
    BY <2>2 DEF Unstamped, Held
  <2>4. SubsInv'
    <3>1. \A q \in DOMAIN subs' : q \in Ms \X Nat /\ q[2] <= ms'[q[1]].count
      BY <2>1 DEF RecordInv, SubsInv
    <3>2. \A g \in Requests : Unstamped(g)' => Held(g)' \in DOMAIN subs' /\ subs'[Held(g)'] = Pending
      BY <2>1, <2>3 DEF RecordInv, SubsInv
    <3>3. \A f, g \in Requests : Unstamped(f)' /\ Unstamped(g)' /\ f # g => Held(f)' # Held(g)'
      BY <2>3 DEF RecordInv, SubsInv
    <3>4. QED BY <3>1, <3>2, <3>3 DEF SubsInv
  <2>5. ASSUME NEW m \in Ms \ {1}, ms'[m].status # "LOCKED" PROVE Explained(m)'
    <3>1. Explained(m)
      BY <2>1, <2>5 DEF RecordInv
    <3>2. ASSUME NEW q \in DOMAIN subs, q[1] = m - 1, subs[q] = "GATED_PASS" PROVE Explained(m)'
      <4>1. q # Held(h)
        BY <2>1, <3>2 DEF RecordInv, SubsInv, Pending
      <4>2. QED BY <2>1, <3>2, <4>1 DEF Explained
    <3>3. ASSUME NEW g \in Requests, req[g].pc = "stamp", req[g].m = m - 1, req[g].out = "GATED_PASS"
          PROVE  Explained(m)'
      <4>1. CASE g = h
        <5>1. Held(h) \in DOMAIN subs' /\ Held(h)[1] = m - 1 /\ subs'[Held(h)] = "GATED_PASS"
          BY <2>1, <3>3, <4>1 DEF RecordInv, SubsInv, Held
        <5>2. QED BY <5>1 DEF Explained
      <4>2. CASE g # h
        BY <2>2, <3>3, <4>2 DEF Explained
      <4>3. QED BY <4>1, <4>2
    <3>4. ASSUME deaths > 0, NEW q \in DOMAIN subs, q[1] = m - 1, subs[q] = Pending,
                 \A g \in Requests : Unstamped(g) => Held(g) # q
          PROVE  Explained(m)'
      BY <2>1, <2>3, <3>4 DEF Explained
    <3>5. QED BY <3>1, <3>2, <3>3, <3>4 DEF Explained
  <2>6. QED BY <2>4, <2>5 DEF RecordInv
<1>7. ASSUME NEW h \in Requests, AbortRequest(h) PROVE RecordInv'
  <2>1. UNCHANGED <<subs, ms>> /\ deaths' > 0
    BY <1>7 DEF AbortRequest, milestoneVars, Typed, StateTyped
  <2>2. NoNewHolder /\ StampersStay
    BY <1>7, <2>1, GotoOn DEF AbortRequest, Ended, Others, NoNewHolder, StampersStay, Unstamped, Held
  <2>3. QED BY <2>1, <2>2, RecordKept
<1>8. QED BY <1>1, <1>2, <1>3, <1>4, <1>5, <1>6, <1>7, NextCases DEF Cases

\* stampSubmissionOutcome: an unlocked milestone is in the submission history,
\* about to be, or was unlocked by a request that died in between; proved for
\* any number of concurrent submissions of the same milestone.
THEOREM UnlocksAreRecorded == Spec => []UnlockIsRecorded
<1>1. Init => RecordInv
  BY RecordInit
<1>2. LadderInv /\ RecordInv /\ [Next]_vars => RecordInv'
  BY RecordNext
<1>3. RecordInv => UnlockIsRecorded
  BY DEF RecordInv, Explained, UnlockIsRecorded
<1>4. QED BY <1>1, <1>2, <1>3, SubmissionsOnOpenMilestones, PTL DEF Spec

-----------------------------------------------------------------------------
\* The viva.

VivaAction(h) ==
  \/ FirstQuestion(h) \/ scoreViva(h) \/ postMessage(h)
  \/ \E count \in generateQuestions : startViva(h, count)

\* What a step does to the requests that score a viva.
NoNewScorer == \A g \in Requests : Scoring(g)' => Scoring(g) /\ req'[g].v = req[g].v

LEMMA SubmissionStep ==
  ASSUME LadderInv, [Next]_vars, \A h \in Requests : ~VivaAction(h), ~Restart
  PROVE  UNCHANGED <<marks, viva, vivas>> /\ NoNewScorer
<1> USE DEF LadderInv
<1>1. CASE UNCHANGED vars
  BY <1>1 DEF vars, NoNewScorer, Scoring
<1>2. ASSUME NEW h \in Requests, QuietAction(h) PROVE UNCHANGED <<marks, viva, vivas>> /\ NoNewScorer
  <2>1. UNCHANGED <<marks, viva, vivas>>
    BY <1>2 DEF QuietAction, VivaAction, ListMilestones, seedMilestones, SubmitCheck, RunGate, EnvRead,
                snapshotAndSuspend, provisionForMilestone, AttachEnv, FinalizeRead, FinalizeScore,
                AskNext, Submit, vivaVars
  <2>2. CASE req[h].pc # "idle"
    BY <1>2, <2>1, <2>2, QuietSteps DEF Quiet, Onward, Ended, GatedOn, Others, NoNewScorer, Scoring
  <2>3. CASE req[h].pc = "idle"
    <3>1. ListMilestones(h) \/ \E m \in Ms : Submit(h, m)
      BY <1>2, <2>3 DEF QuietAction, VivaAction, seedMilestones, SubmitCheck, RunGate, EnvRead,
           snapshotAndSuspend, provisionForMilestone, AttachEnv, FinalizeRead, FinalizeScore, AskNext
    <3>2. Others(h) /\ req'[h].pc \in {"seed", "check"}
      <4>1. CASE ListMilestones(h)
        BY <4>1, GotoOn DEF ListMilestones, Onward, Pcs
      <4>2. ASSUME NEW m \in Ms, Submit(h, m) PROVE Others(h) /\ req'[h].pc = "check"
        <5>1. req' = [req EXCEPT ![h].pc = "check", ![h].m = m]
          BY <4>2 DEF Submit
        <5>2. QED BY <5>1 DEF Typed, ReqTyped, Request, Others
      <4>3. QED BY <3>1, <4>1, <4>2
    <3>3. QED BY <2>1, <3>2 DEF Others, NoNewScorer, Scoring
  <2>4. QED BY <2>1, <2>2, <2>3
<1>3. ASSUME NEW h \in Requests, markSubmitted(h) PROVE UNCHANGED <<marks, viva, vivas>> /\ NoNewScorer
  BY <1>3, MarkStep DEF Others, NoNewScorer, Scoring
<1>4. ASSUME NEW h \in Requests, applyGateOutcome(h) PROVE UNCHANGED <<marks, viva, vivas>> /\ NoNewScorer
  BY <1>4, ApplyStep DEF Onward, Ended, Others, NoNewScorer, Scoring
<1>5. ASSUME NEW h \in Requests, stampSubmissionOutcome(h) PROVE UNCHANGED <<marks, viva, vivas>> /\ NoNewScorer
  BY <1>5, StampStep DEF Onward, Ended, GatedOn, Others, NoNewScorer, Scoring
<1>6. ASSUME NEW h \in Requests, AbortRequest(h) PROVE UNCHANGED <<marks, viva, vivas>> /\ NoNewScorer
  BY <1>6, GotoOn DEF AbortRequest, vivaVars, Ended, Others, NoNewScorer, Scoring
<1>7. QED BY <1>1, <1>2, <1>3, <1>4, <1>5, <1>6, NextCases DEF Cases

LEMMA VivaInit == Init => VivaInv
BY DEF Init, VivaInv, OneScorePerViva, Scoring, Idle, NoViva

LEMMA VivaNext ==
  ASSUME LadderInv, VivaInv, [Next]_vars
  PROVE  VivaInv'
<1> USE DEF LadderInv
<1>1. /\ viva.id \in Nat /\ vivas \in Nat /\ Len(marks) \in Nat
      /\ \A i \in 1 .. Len(marks) : marks[i].viva \in Nat
      /\ \A g \in Requests : req[g].v \in Nat
  <2>1. viva.id \in Nat
    BY Zenon DEF Typed, StateTyped, Viva
  <2>2. vivas \in Nat /\ Len(marks) \in Nat /\ \A i \in 1 .. Len(marks) : marks[i].viva \in Nat
    <3> DEFINE Mark == [viva : Nat, level : Int]
    <3>1. vivas \in Nat /\ marks \in Seq(Mark)
      BY DEF Typed, StateTyped
    <3>2. \A x \in Mark : x.viva \in Nat
      OBVIOUS
    <3> HIDE DEF Mark
    <3>3. Len(marks) \in Nat /\ \A i \in 1 .. Len(marks) : marks[i] \in Mark
      BY <3>1
    <3>4. QED BY <3>1, <3>2, <3>3
  <2>3. \A g \in Requests : req[g].v \in Nat
    BY DEF Typed, ReqTyped, Request
  <2>4. QED BY <2>1, <2>2, <2>3
<1>2. CASE UNCHANGED <<marks, viva, vivas>> /\ NoNewScorer
  BY <1>2 DEF VivaInv, OneScorePerViva, NoNewScorer
<1>3. CASE Restart
  <2>1. /\ UNCHANGED <<marks, vivas>> /\ viva'.id = 0 /\ viva'.closed = TRUE
        /\ \A g \in Requests : ~Scoring(g)'
    BY <1>3 DEF Restart, NoViva, Idle, Scoring
  <2>2. QED BY <1>1, <2>1 DEF VivaInv, OneScorePerViva
<1>4. ASSUME NEW h \in Requests, NEW count \in generateQuestions, startViva(h, count) PROVE VivaInv'
  <2>1. /\ UNCHANGED marks /\ vivas' = vivas + 1 /\ viva'.id = vivas + 1 /\ viva'.closed = FALSE
        /\ req[h].pc = "idle"
    BY <1>4 DEF startViva
  <2>2. PICK pc \in {"idle", "first"} : \E v : req' = [req EXCEPT ![h].pc = pc, ![h].v = v]
    BY <1>4 DEF startViva
  <2>3. Others(h) /\ ~Scoring(h)'
    BY <2>2 DEF Typed, ReqTyped, Request, Others, Scoring
  <2>4. NoNewScorer
    BY <2>3 DEF NoNewScorer, Scoring, Others
  <2>5. \A i \in 1 .. Len(marks) : marks[i].viva < vivas + 1
    BY <1>1 DEF VivaInv
  <2>6. \A g \in Requests : Scoring(g) => req[g].v < vivas + 1
    BY <1>1 DEF VivaInv
  <2>7. QED BY <1>1, <2>1, <2>4, <2>5, <2>6 DEF VivaInv, OneScorePerViva, NoNewScorer
<1>5. ASSUME NEW h \in Requests, FirstQuestion(h) PROVE VivaInv'
  <2>1. UNCHANGED <<marks, vivas>> /\ viva' = [viva EXCEPT !.asked = 1] /\ Ended(h)
    BY <1>5, GotoOn DEF FirstQuestion
  <2>2. viva'.id = viva.id /\ viva'.closed = viva.closed
    BY <2>1, Zenon DEF Typed, StateTyped, Viva
  <2>3. NoNewScorer
    BY <2>1 DEF Ended, Others, NoNewScorer, Scoring
  <2>4. QED BY <2>1, <2>2, <2>3 DEF VivaInv, OneScorePerViva, NoNewScorer
<1>6. ASSUME NEW h \in Requests, scoreViva(h) PROVE VivaInv'
  <2>1. PICK level \in Levels : marks' = Append(marks, [viva |-> req[h].v, level |-> level])
    BY <1>6 DEF scoreViva
  <2>2. UNCHANGED <<viva, vivas>> /\ Ended(h) /\ Scoring(h)
    BY <1>6, GotoOn DEF scoreViva, Scoring
  <2>3. NoNewScorer /\ ~Scoring(h)'
    BY <2>2 DEF Ended, Others, NoNewScorer, Scoring
  <2>4. /\ Len(marks') = Len(marks) + 1
        /\ \A i \in 1 .. Len(marks) : marks'[i] = marks[i]
        /\ marks'[Len(marks) + 1].viva = req[h].v
    BY <2>1 DEF Typed, StateTyped
  <2>5. \A i \in 1 .. Len(marks') :
          \/ i \in 1 .. Len(marks) /\ marks'[i].viva = marks[i].viva
          \/ i = Len(marks) + 1 /\ marks'[i].viva = req[h].v
    BY <1>1, <2>4
  <2>6. OneScorePerViva'
    BY <1>1, <2>2, <2>5 DEF VivaInv, OneScorePerViva
  <2>7. QED BY <2>2, <2>3, <2>5, <2>6 DEF VivaInv, NoNewScorer
<1>7. ASSUME NEW h \in Requests, postMessage(h) PROVE VivaInv'
  <2>1. UNCHANGED <<marks, vivas>>
    BY <1>7 DEF postMessage
  <2>2. CASE UNCHANGED <<viva, req>>
    BY <1>2, <2>1, <2>2 DEF NoNewScorer, Scoring
  <2>3. CASE /\ viva' = [viva EXCEPT !.asked = viva.asked + 1]
             /\ req' = [req EXCEPT ![h].pc = "ask", ![h].v = viva.id, ![h].n = viva.asked + 1]
    <3>1. viva'.id = viva.id /\ viva'.closed = viva.closed
      BY <2>3, Zenon DEF Typed, StateTyped, Viva
    <3>2. Others(h) /\ ~Scoring(h)'
      BY <2>3 DEF Typed, ReqTyped, Request, Others, Scoring
    <3>3. NoNewScorer
      BY <3>2 DEF Others, NoNewScorer, Scoring
    <3>4. QED BY <2>1, <3>1, <3>3 DEF VivaInv, OneScorePerViva, NoNewScorer
  <2>4. CASE /\ ~viva.closed /\ viva' = [viva EXCEPT !.closed = TRUE]
             /\ req' = [req EXCEPT ![h].pc = "score", ![h].v = viva.id]
    <3>1. viva'.id = viva.id /\ viva'.closed
      BY <2>4, Zenon DEF Typed, StateTyped, Viva
    <3>2. Others(h) /\ Scoring(h)' /\ req'[h].v = viva.id
      BY <2>4 DEF Typed, ReqTyped, Request, Others, Scoring
    <3>3. \A g \in Requests : g # h /\ Scoring(g)' => Scoring(g) /\ req'[g].v = req[g].v /\ req[g].v # viva.id
      BY <2>4, <3>2 DEF Others, Scoring, VivaInv
    <3>4. \A i \in 1 .. Len(marks) : marks[i].viva # viva.id
      BY <2>4 DEF VivaInv
    <3>5. QED BY <2>1, <3>1, <3>2, <3>3, <3>4 DEF VivaInv, OneScorePerViva
  <2>5. QED BY <1>7, <2>2, <2>3, <2>4 DEF postMessage
<1>8. QED BY <1>2, <1>3, <1>4, <1>5, <1>6, <1>7, SubmissionStep DEF VivaAction

\* defence.service.ts: however many answers arrive at once and whenever the
\* process restarts, a viva is scored at most once for each time it started.
THEOREM VivasScoredOnce == Spec => []OneScorePerViva
<1>1. Init => VivaInv
  BY VivaInit
<1>2. LadderInv /\ VivaInv /\ [Next]_vars => VivaInv'
  BY VivaNext
<1>3. VivaInv => OneScorePerViva
  BY DEF VivaInv
<1>4. QED BY <1>1, <1>2, <1>3, SubmissionsOnOpenMilestones, PTL DEF Spec

-----------------------------------------------------------------------------
\* The roll-up.

LEMMA LeastNatural ==
  ASSUME NEW S \in SUBSET Nat, S # {}
  PROVE  \E x \in S : \A y \in S : x <= y
<1> DEFINE U == {0 .. x : x \in S}
<1>1. \A x \in S : 0 .. x \in FiniteSubsetsOf(Nat)
  BY FS_Interval DEF FiniteSubsetsOf
<1>2. U \subseteq FiniteSubsetsOf(Nat) /\ U # {}
  BY <1>1
<1>3. PICK u \in U : \A v \in U : ~(<<v, u>> \in StrictSubsetOrdering(Nat))
  <2> HIDE DEF U
  <2> QED BY <1>2, WFMin, FS_StrictSubsetOrderingWellFounded
<1>4. PICK x \in S : u = 0 .. x
  OBVIOUS
<1>5. ASSUME NEW y \in S, y < x PROVE FALSE
  <2>1. 0 .. y \subseteq 0 .. x /\ x \in 0 .. x /\ x \notin 0 .. y
    BY <1>5
  <2>2. <<0 .. y, 0 .. x>> \in StrictSubsetOrdering(Nat)
    BY <2>1, <1>1 DEF StrictSubsetOrdering, FiniteSubsetsOf
  <2>3. QED BY <1>3, <1>4, <2>2
<1>6. QED BY <1>5

\* The last milestone with a key is a milestone.
LEMMA LastMilestone ==
  ASSUME NEW S \in SUBSET Ms, S # {}
  PROVE  Max(S) \in Ms
<1> DEFINE T == {n \in Nat : Final - n \in S}
<1>1. PICK x \in S : TRUE
  OBVIOUS
<1>2. Final - x \in T
  BY <1>1, MsFacts
<1>3. PICK t \in T : \A y \in T : t <= y
  <2>1. T \in SUBSET Nat /\ T # {}
    BY <1>2
  <2> HIDE DEF T
  <2> QED BY <2>1, LeastNatural
<1>4. \A y \in S : Final - y \in T
  BY MsFacts
<1>5. \E z \in S : \A y \in S : z >= y
  <2>1. Final \in Nat /\ \A y \in S : y \in Nat /\ t <= Final - y
    BY <1>3, <1>4, MsFacts
  <2>2. Final - t \in S /\ \A y \in S : Final - t >= y
    BY <2>1, <1>3
  <2>3. QED BY <2>2
<1>6. QED BY <1>5 DEF Max

LEMMA AtLeastZero ==
  ASSUME NEW n \in Int
  PROVE  Max({0, n}) \in Int
<1>1. \E z \in {0, n} : \A y \in {0, n} : z >= y
  OBVIOUS
<1>2. QED BY <1>1 DEF Max

LEMMA SixComponents ==
  /\ Components = {"design", "infra", "implementation", "hardening", "final", "defence"}
  /\ Weight["design"] = 4 /\ Weight["infra"] = 3 /\ Weight["implementation"] = 4
  /\ Weight["hardening"] = 4 /\ Weight["final"] = 2 /\ Weight["defence"] = 3
<1>1. Components = {"design", "infra", "implementation", "hardening", "final", "defence"}
  BY DEF Components, Weight
<1>2. QED BY <1>1 DEF Weight

LEMMA WeightOf ==
  ASSUME NEW S
  PROVE  SumWeights(S) = (IF "design" \in S THEN 4 ELSE 0) + (IF "infra" \in S THEN 3 ELSE 0)
                         + (IF "implementation" \in S THEN 4 ELSE 0) + (IF "hardening" \in S THEN 4 ELSE 0)
                         + (IF "final" \in S THEN 2 ELSE 0) + (IF "defence" \in S THEN 3 ELSE 0)
BY SixComponents DEF SumWeights, OverComponents

LEMMA HalfOf ==
  ASSUME NEW S, NEW raw
  PROVE  Half(S, raw) = (IF "design" \in S THEN raw["design"] * 4 ELSE 0)
                        + (IF "infra" \in S THEN raw["infra"] * 3 ELSE 0)
                        + (IF "implementation" \in S THEN raw["implementation"] * 4 ELSE 0)
                        + (IF "hardening" \in S THEN raw["hardening"] * 4 ELSE 0)
                        + (IF "final" \in S THEN raw["final"] * 2 ELSE 0)
                        + (IF "defence" \in S THEN raw["defence"] * 3 ELSE 0)
BY SixComponents DEF Half, OverComponents

LEMMA DivShift ==
  ASSUME NEW a \in Int, NEW d \in Nat \ {0}
  PROVE  (a + 4000 * d) \div d = (a \div d) + 4000
OBVIOUS

\* The model-graded half has weight whatever the activity says, the other
\* half has some unless everything is graded by a model.
LEMMA Weights ==
  /\ SumWeights(AiParts) \in Nat \ {0} /\ SumWeights(OwnParts) \in Nat
  /\ OwnParts # {} => SumWeights(OwnParts) # 0
<1>1. "design" \in AiParts
  BY SixComponents DEF AiParts, aiDerived, AI_COMPONENTS
<1>2. SumWeights(AiParts) \in Nat \ {0}
  BY <1>1, WeightOf
<1>3. SumWeights(OwnParts) \in Nat
  BY WeightOf
<1>4. OwnParts \subseteq Components
  BY DEF OwnParts
<1>5. OwnParts # {} => SumWeights(OwnParts) # 0
  <2>1. OwnParts # {} => \E c \in OwnParts : c \in {"design", "infra", "implementation", "hardening", "final", "defence"}
    BY <1>4, SixComponents
  <2> DEFINE S == OwnParts
  <2> HIDE DEF S
  <2>2. (\E c \in S : c \in {"design", "infra", "implementation", "hardening", "final", "defence"})
          => SumWeights(S) # 0
    BY WeightOf
  <2>3. QED BY <2>1, <2>2 DEF S
<1>6. QED BY <1>2, <1>3, <1>5

LEMMA HalfType ==
  ASSUME NEW S, NEW raw \in [Components -> Int]
  PROVE  Half(S, raw) \in Int
<1>1. \A c \in {"design", "infra", "implementation", "hardening", "final", "defence"} : raw[c] \in Int
  BY SixComponents
<1>2. QED BY <1>1, HalfOf

LEMMA RollupType ==
  ASSUME NEW raw \in [Components -> Int]
  PROVE  rollup(raw) \in Int
<1> DEFINE ai == SumWeights(AiParts)
           own == SumWeights(OwnParts)
           x == Half(AiParts, raw)
           y == Half(OwnParts, raw)
<1>1. ai \in Nat \ {0} /\ own \in Nat /\ x \in Int /\ y \in Int
  BY Weights, HalfType
<1>2. rollup(raw) = IF own = 0 THEN (2 * x + ai) \div (2 * ai)
                    ELSE (2 * (2 * own * x + 3 * ai * y) + 5 * ai * own) \div (2 * (5 * ai * own))
  BY DEF rollup
<1> HIDE DEF ai, own, x, y
<1>3. 2 * x + ai \in Int /\ 2 * ai \in Nat \ {0}
  BY <1>1
<1>4. 2 * (2 * own * x + 3 * ai * y) + 5 * ai * own \in Int
  BY <1>1
<1>5. own # 0 => 2 * (5 * ai * own) \in Nat \ {0}
  <2>1. own # 0 => ai * own \in Nat \ {0}
    BY <1>1
  <2>2. 2 * (5 * ai * own) = 10 * (ai * own)
    BY <1>1
  <2>3. QED BY <2>1, <2>2
<1>6. ASSUME NEW a \in Int, NEW b \in Nat \ {0} PROVE a \div b \in Int
  OBVIOUS
<1>7. QED BY <1>2, <1>3, <1>4, <1>5, <1>6

\* Rule R5: what the model-graded components say moves the final score by two
\* fifths of the scale, from the worst to the best they could say.
LEMMA AiShare ==
  ASSUME NEW raw \in [Components -> Int], OwnParts # {}
  PROVE  LET Said(g) == [c \in Components |-> IF c \in AiParts THEN g ELSE raw[c]]
         IN  rollup(Said(10000)) - rollup(Said(0)) <= 4000
<1> DEFINE Said(g) == [c \in Components |-> IF c \in AiParts THEN g ELSE raw[c]]
           ai == SumWeights(AiParts)
           own == SumWeights(OwnParts)
           y == Half(OwnParts, raw)
           q == 5 * ai * own
           p == 3 * ai * y
<1>1. ai \in Nat \ {0} /\ own \in Nat \ {0} /\ y \in Int
  BY Weights, HalfType
<1>2. ASSUME NEW g \in Int PROVE Half(AiParts, Said(g)) = g * ai
  <2>1. \A c \in {"design", "infra", "implementation", "hardening", "final", "defence"} :
           c \in AiParts => Said(g)[c] = g
    BY SixComponents
  <2> DEFINE r == Said(g)
             W(c, w) == IF c \in AiParts THEN w ELSE 0
             H(c, w) == IF c \in AiParts THEN r[c] * w ELSE 0
  <2>2. \A c \in {"design", "infra", "implementation", "hardening", "final", "defence"}, w \in 0 .. 4 :
          H(c, w) = g * W(c, w) /\ W(c, w) \in Nat
    <3> HIDE DEF Said
    <3>1. \A w \in 0 .. 4 : g * w = w * g /\ g * 0 = 0
      OBVIOUS
    <3>2. QED BY <2>1, <3>1
  <2>3. Half(AiParts, r) = H("design", 4) + H("infra", 3) + H("implementation", 4) + H("hardening", 4)
                           + H("final", 2) + H("defence", 3)
    BY HalfOf
  <2>4. ai = W("design", 4) + W("infra", 3) + W("implementation", 4) + W("hardening", 4)
             + W("final", 2) + W("defence", 3)
    BY WeightOf
  <2> HIDE DEF W, H, r, ai
  <2>5. ASSUME NEW a \in Nat, NEW b \in Nat, NEW c \in Nat, NEW d \in Nat, NEW e \in Nat, NEW f \in Nat
        PROVE  g * a + g * b + g * c + g * d + g * e + g * f = g * (a + b + c + d + e + f)
    OBVIOUS
  <2>6. Half(AiParts, r) = g * ai
    BY <2>2, <2>3, <2>4, <2>5
  <2>7. QED BY <2>6 DEF r
<1>3. ASSUME NEW g \in Int PROVE Half(OwnParts, Said(g)) = y
  <2>1. \A c \in {"design", "infra", "implementation", "hardening", "final", "defence"} :
           c \in OwnParts => Said(g)[c] = raw[c]
    BY SixComponents DEF OwnParts
  <2> HIDE DEF Said
  <2>2. QED BY <2>1, HalfOf
<1>4. ASSUME NEW g \in Int
      PROVE  rollup(Said(g)) = (2 * (2 * own * (g * ai) + p) + q) \div (2 * q)
  <2> HIDE DEF Said
  <2>1. QED BY <1>1, <1>2, <1>3, <1>4 DEF rollup
<1> HIDE DEF Said, ai, own, y
<1>5. /\ q \in Nat \ {0} /\ p \in Int
      /\ 2 * own * (10000 * ai) = 4000 * q /\ 2 * own * (0 * ai) = 0
  <2>1. ai * own \in Nat \ {0} /\ ai * y \in Int
    BY <1>1
  <2>2. q = 5 * (ai * own) /\ p = 3 * (ai * y) /\ 2 * own * (10000 * ai) = 20000 * (ai * own)
    BY <1>1
  <2>3. 0 * ai = 0 /\ 2 * own * 0 = 0
    BY <1>1
  <2>4. QED BY <2>1, <2>2, <2>3
<1>6. /\ rollup(Said(10000)) = (2 * (4000 * q + p) + q) \div (2 * q)
      /\ rollup(Said(0)) = (2 * (0 + p) + q) \div (2 * q)
  BY <1>4, <1>5
<1> HIDE DEF p, q
<1>7. (2 * (4000 * q + p) + q) = (2 * (0 + p) + q) + 4000 * (2 * q)
  BY <1>5
<1>8. rollup(Said(10000)) = rollup(Said(0)) + 4000
  <2>1. 2 * (0 + p) + q \in Int /\ 2 * q \in Nat \ {0}
    BY <1>5
  <2>2. ((2 * (0 + p) + q) + 4000 * (2 * q)) \div (2 * q) = ((2 * (0 + p) + q) \div (2 * q)) + 4000
    <3> DEFINE a == 2 * (0 + p) + q
               d == 2 * q
    <3> HIDE DEF a, d
    <3>1. a \in Int /\ d \in Nat \ {0}
      BY <2>1 DEF a, d
    <3>2. (a + 4000 * d) \div d = (a \div d) + 4000
      BY <3>1
    <3>3. QED BY <3>2 DEF a, d
  <2>3. QED BY <1>6, <1>7, <2>2
<1>9. rollup(Said(0)) \in Int
  <2>1. (2 * (0 + p) + q) \in Int /\ 2 * q \in Nat \ {0}
    BY <1>5
  <2>2. ASSUME NEW a \in Int, NEW b \in Nat \ {0} PROVE a \div b \in Int
    OBVIOUS
  <2>3. QED BY <1>6, <2>1, <2>2
<1>10. rollup(Said(10000)) - rollup(Said(0)) <= 4000
  BY <1>8, <1>9
<1>11. QED BY <1>10 DEF Said

\* What a FinalizeScore appends.
ScoreRow == [comps : [Ms -> Int], raw : [Components -> Int], final : Int, passed : BOOLEAN]

ScoresTyped == scores \in Seq(ScoreRow)

CompleteInv == ScoresTyped /\ ScoreInv

LEMMA DefenceType ==
  ASSUME Typed
  PROVE  defenceComponentScore \in Int
<1> DEFINE Mark == [viva : Nat, level : Int]
<1>1. marks \in Seq(Mark)
  BY DEF Typed, StateTyped
<1>2. marks # <<>> => marks[Len(marks)] \in Mark
  <2> HIDE DEF Mark
  <2> QED BY <1>1
<1>3. marks # <<>> => LevelThirds(marks[Len(marks)].level) \in Nat
  BY <1>2 DEF LevelThirds
<1>4. QED BY <1>3, Round4Type DEF defenceComponentScore

LEMMA FinalRow ==
  ASSUME Typed, ScoreInv, NEW h \in Requests, FinalizeScore(h)
  PROVE  \E s \in ScoreRow : scores' = Append(scores, s) /\ \A m \in Ms : s.comps[m] # NoScore
<1> DEFINE At(c) == IF c = "defence" THEN defenceComponentScore
                    ELSE LET found == {m \in Ms : Keys[m] = c} IN
                         IF found = {} THEN 0 ELSE Max({0, req[h].comps[Max(found)]})
           raw == [c \in Components |-> At(c)]
           s == [comps |-> req[h].comps, raw |-> raw, final |-> rollup(raw),
                 passed |-> rollup(raw) >= PASS_THRESHOLD]
<1>1. req[h].comps \in [Ms -> Int] /\ \A m \in Ms : req[h].comps[m] # NoScore
  BY DEF FinalizeScore, ScoreInv
<1>2. ASSUME NEW c PROVE At(c) \in Int
  <2> DEFINE found == {m \in Ms : Keys[m] = c}
  <2>1. found # {} => req[h].comps[Max(found)] \in Int
    <3>1. found \in SUBSET Ms
      OBVIOUS
    <3> HIDE DEF found
    <3>2. QED BY <1>1, <3>1, LastMilestone
  <2>2. found # {} => Max({0, req[h].comps[Max(found)]}) \in Int
    <3> HIDE DEF found
    <3>1. QED BY <2>1, AtLeastZero
  <2>3. QED BY <2>2, DefenceType
<1>3. raw \in [Components -> Int]
  <2> HIDE DEF At
  <2> QED BY <1>2
<1>4. scores' = Append(scores, s)
  BY DEF FinalizeScore
<1> HIDE DEF raw
<1>5. rollup(raw) \in Int /\ (rollup(raw) >= PASS_THRESHOLD) \in BOOLEAN
  BY <1>3, RollupType DEF PASS_THRESHOLD
<1>6. s \in ScoreRow
  BY <1>1, <1>3, <1>5, Zenon DEF ScoreRow
<1>7. s.comps = req[h].comps
  OBVIOUS
<1> HIDE DEF s
<1>8. QED BY <1>1, <1>4, <1>6, <1>7

LEMMA CompleteInit == Init => CompleteInv
<1> SUFFICES ASSUME Init PROVE CompleteInv
  OBVIOUS
<1>1. \A m \in Ms : ms[m].status # "LOCKED" => m = 1
  BY DEF Init
<1>2. ScoreInv
  BY <1>1, MsFacts DEF Init, ScoreInv, Idle, Past
<1>3. QED BY <1>2 DEF CompleteInv, ScoresTyped, Init

\* The score of a gate is a score.
LEMMA GateStep ==
  ASSUME Typed, OnMilestone, NEW h \in Requests, RunGate(h)
  PROVE  Others(h) /\ req'[h].pc = "apply" /\ req'[h].score \in Nat
<1> DEFINE s == spec[req[h].m]
<1>1. PICK passing \in runMilestoneValidators,
           level \in IF s.gate = "ALL_VALIDATORS_PASS" THEN {NoScore} ELSE gradeMilestoneRubric(s) :
        req' = [req EXCEPT ![h].pc = "apply", ![h].level = level,
                 ![h].out = IF GatePasses(s, passing, level) THEN "GATED_PASS" ELSE "GATED_FAIL",
                 ![h].score = computeMilestoneScore(s.gate, passing, TaskCount, level)]
  BY DEF RunGate
<1>2. s.gate \in Gates
  BY DEF RunGate, OnMilestone, Past, Typed, StateTyped
<1>3. level \in Int /\ passing \in 0 .. TaskCount
  BY ProjectAssumption DEF gradeMilestoneRubric, NoScore, runMilestoneValidators
<1>4. PICK c \in Nat : \E o :
        req' = [req EXCEPT ![h].pc = "apply", ![h].level = level, ![h].out = o, ![h].score = c]
  BY <1>1, <1>2, <1>3, GateScore, ProjectAssumption
<1>5. QED BY <1>4 DEF Typed, ReqTyped, Request, Others

\* Steps that write neither the milestones nor the scores keep ScoreInv if the
\* one request that moves stays within it.
LEMMA ScoreKept ==
  ASSUME ScoreInv, UNCHANGED <<ms, scores>>, NEW h \in Requests, Others(h),
         req'[h].pc = "apply" => req'[h].score # NoScore,
         req'[h].pc \in Past \ {"mark", "gate", "apply"} => Scored(req'[h].m),
         req'[h].pc = "defence" => /\ req'[h].comps \in [Ms -> Int]
                                   /\ \A m \in Ms : req'[h].comps[m] # NoScore
  PROVE  ScoreInv'
BY DEF ScoreInv, Others, Scored

LEMMA ScoreNext ==
  ASSUME LadderInv, CompleteInv, [Next]_vars
  PROVE  CompleteInv'
<1> USE DEF LadderInv, CompleteInv
<1>1. CASE UNCHANGED vars
  BY <1>1 DEF vars, ScoreInv, ScoresTyped, Scored
<1>2. CASE Restart
  <2>1. UNCHANGED <<ms, scores>> /\ \A g \in Requests : req'[g].pc = "idle"
    BY <1>2 DEF Restart, Idle, milestoneVars
  <2>2. QED BY <2>1 DEF ScoreInv, ScoresTyped, Scored, Past
<1>3. ASSUME NEW h \in Requests, AbortRequest(h) PROVE CompleteInv'
  <2>1. UNCHANGED <<ms, scores>> /\ Ended(h)
    BY <1>3, GotoOn DEF AbortRequest, milestoneVars
  <2>2. QED BY <2>1, ScoreKept DEF Ended, Past, ScoresTyped
<1>4. ASSUME NEW h \in Requests, markSubmitted(h) PROVE CompleteInv'
  <2>1. /\ UNCHANGED scores /\ Others(h) /\ req'[h].pc = "gate"
        /\ \A m \in Ms : (ms'[m].status # "LOCKED" => ms[m].status # "LOCKED") /\ ms'[m].score = ms[m].score
    BY <1>4, MarkStep DEF Climbed, Past
  <2>2. \A g \in Requests : req[g].pc \in Past => req[g].m \in Ms
    BY DEF OnMilestone
  <2>3. \A m \in Ms : \A k \in 1 .. m - 1 : k \in Ms
    BY MsFacts
  <2>4. QED BY <2>1, <2>2, <2>3 DEF ScoreInv, ScoresTyped, Scored, Others, Past
<1>5. ASSUME NEW h \in Requests, applyGateOutcome(h) PROVE CompleteInv'
  <2>1. CASE Ended(h) /\ UNCHANGED ms
    BY <1>5, <2>1, ScoreKept, ApplyStep DEF Ended, Past, ScoresTyped
  <2>2. CASE ~(Ended(h) /\ UNCHANGED ms)
    <3>1. /\ UNCHANGED scores /\ Onward(h, "stamp") /\ req[h].m \in Ms /\ ms'[req[h].m].score # NoScore
          /\ ms[req[h].m].status # "LOCKED"
      BY <1>5, <2>2, ApplyStep DEF ScoreInv, Climbed, Past
    <3>2. \A k \in Ms : k # req[h].m => ms'[k].score = ms[k].score
      BY <1>5, <2>2, ApplyStep
    <3>3. \A k \in Ms : Scored(k) => Scored(k)'
      BY <3>1, <3>2 DEF Scored
    <3>4. \A k \in Ms : ms'[k].status # "LOCKED" => ms[k].status # "LOCKED" \/ k = req[h].m + 1
      BY <1>5, <2>2, <3>1, ApplyStep
    <3>5. \A m \in Ms : \A k \in 1 .. m - 1 : k \in Ms
      BY MsFacts
    <3>6. \A m \in Ms : ms'[m].status # "LOCKED" => \A k \in 1 .. m - 1 : Scored(k)'
      <4>1. ASSUME NEW m \in Ms, ms[m].status # "LOCKED" PROVE \A k \in 1 .. m - 1 : Scored(k)'
        BY <3>3, <3>5, <4>1 DEF ScoreInv
      <4>2. ASSUME req[h].m + 1 \in Ms PROVE \A k \in 1 .. req[h].m : Scored(k)'
        <5>1. \A k \in 1 .. req[h].m - 1 : Scored(k)'
          BY <3>1, <4>1
        <5>2. PICK j \in Ms : j = req[h].m /\ Scored(j)'
          BY <3>1 DEF Scored
        <5>3. \A k \in 1 .. j : k \in 1 .. j - 1 \/ k = j
          BY MsFacts
        <5>4. QED BY <5>1, <5>2, <5>3
      <4>3. ASSUME NEW m \in Ms, m = req[h].m + 1 PROVE \A k \in 1 .. m - 1 : Scored(k)'
        BY <3>1, <4>2, <4>3, MsFacts
      <4>4. QED BY <3>4, <4>1, <4>3
    <3>7. \A g \in Requests :
            req'[g].pc \in Past \ {"mark", "gate", "apply"} => ms'[req'[g].m].score # NoScore
      <4>1. ASSUME NEW g \in Requests, g # h, req'[g].pc \in Past \ {"mark", "gate", "apply"}
            PROVE  ms'[req'[g].m].score # NoScore
        <5>1. req'[g] = req[g] /\ req[g].m \in Ms /\ Scored(req[g].m)
          BY <3>1, <4>1 DEF ScoreInv, OnMilestone, Onward, Others
        <5>2. QED BY <3>3, <5>1 DEF Scored
      <4>2. ms'[req'[h].m].score # NoScore
        BY <3>1 DEF Onward, OnSame
      <4>3. QED BY <4>1, <4>2
    <3>8. \A g \in Requests : /\ req'[g].pc = "apply" => req'[g].score # NoScore
                              /\ req'[g].pc = "defence" =>
                                   req'[g].comps \in [Ms -> Int] /\ \A m \in Ms : req'[g].comps[m] # NoScore
      BY <3>1 DEF ScoreInv, Onward, Others
    <3>9. ScoreInv'
      BY <3>1, <3>6, <3>7, <3>8 DEF ScoreInv, Scored
    <3>10. QED BY <3>1, <3>9 DEF ScoresTyped
  <2>3. QED BY <2>1, <2>2
<1>6. ASSUME NEW h \in Requests, stampSubmissionOutcome(h) PROVE CompleteInv'
  <2>1. UNCHANGED <<ms, scores>> /\ (GatedOn(h) \/ Onward(h, "env")) /\ Scored(req[h].m)
    BY <1>6, StampStep DEF ScoreInv, Past
  <2>2. QED BY <2>1, ScoreKept DEF GatedOn, Onward, OnSame, Ended, Past, ScoresTyped
<1>7. ASSUME NEW h \in Requests, FinalizeScore(h) PROVE CompleteInv'
  <2>1. PICK s \in ScoreRow : scores' = Append(scores, s) /\ \A m \in Ms : s.comps[m] # NoScore
    BY <1>7, FinalRow
  <2>2. UNCHANGED ms /\ Ended(h)
    BY <1>7, GotoOn DEF FinalizeScore
  <2>3. /\ scores' \in Seq(ScoreRow) /\ Len(scores') = Len(scores) + 1 /\ Len(scores) \in Nat
        /\ \A i \in 1 .. Len(scores) : scores'[i] = scores[i]
        /\ scores'[Len(scores) + 1] = s
    BY <2>1 DEF ScoresTyped
  <2>4. \A i \in 1 .. Len(scores') : \A m \in Ms : scores'[i].comps[m] # NoScore
    BY <2>1, <2>3 DEF ScoreInv
  <2>5. QED BY <2>2, <2>3, <2>4 DEF ScoreInv, ScoresTyped, Ended, Others, Past, Scored
<1>8. ASSUME NEW h \in Requests, RunGate(h) PROVE CompleteInv'
  <2>1. UNCHANGED <<ms, scores>>
    BY <1>8 DEF RunGate, milestoneVars
  <2>2. QED BY <1>8, <2>1, GateStep, ScoreKept DEF Past, ScoresTyped, NoScore
<1>9. ASSUME NEW h \in Requests, FinalizeRead(h) PROVE CompleteInv'
  <2>1. UNCHANGED <<ms, scores>> /\ req[h].pc = "rollup"
    BY <1>9 DEF FinalizeRead, milestoneVars
  <2>2. req' = [req EXCEPT ![h].pc = "defence", ![h].comps = [m \in Ms |-> ms[m].score]]
    BY <1>9 DEF FinalizeRead
  <2>3. \A m \in Ms : ms[m].score \in Int /\ ms[m].score # NoScore
    <3>1. req[h].m = Final /\ Scored(Final) /\ ms[Final].status # "LOCKED"
      BY <2>1 DEF OnMilestone, ScoreInv, Past, Climbed
    <3>2. \A k \in 1 .. Final - 1 : Scored(k)
      BY <3>1, MsFacts DEF ScoreInv
    <3>3. \A m \in Ms : m = Final \/ m \in 1 .. Final - 1
      BY MsFacts
    <3>4. \A m \in Ms : ms[m].score \in Int
      BY DEF Typed, StateTyped, Row
    <3>5. QED BY <3>1, <3>2, <3>3, <3>4 DEF Scored
  <2>4. Others(h) /\ req'[h].pc = "defence" /\ req'[h].comps = [m \in Ms |-> ms[m].score] /\ req'[h].m = req[h].m
    BY <2>2 DEF Typed, ReqTyped, Request, Others
  <2>5. Scored(req'[h].m)
    BY <2>1, <2>4 DEF ScoreInv, Past
  <2>6. QED BY <2>1, <2>3, <2>4, <2>5, ScoreKept DEF ScoresTyped
<1>10. ASSUME NEW h \in Requests, QuietAction(h), ~FinalizeScore(h), ~RunGate(h), ~FinalizeRead(h)
       PROVE  CompleteInv'
  <2>1. Quiet(h) /\ UNCHANGED ms
    BY <1>10, QuietSteps
  <2>2. UNCHANGED scores /\ req[h].pc \notin {"gate", "rollup"}
    BY <1>10 DEF QuietAction, ListMilestones, seedMilestones, SubmitCheck, EnvRead, snapshotAndSuspend,
              provisionForMilestone, AttachEnv, FirstQuestion, AskNext, scoreViva, postMessage, Submit,
              startViva, milestoneVars
  <2>3. Others(h) /\ req'[h].pc \notin {"apply", "defence"}
    BY <2>1, <2>2 DEF Quiet, Onward, Ended, GatedOn
  <2>4. req'[h].pc \in Past \ {"mark", "gate", "apply"} => Scored(req'[h].m)
    BY <2>1, <2>2, <2>3 DEF Quiet, Onward, OnSame, Ended, GatedOn, ScoreInv, Past
  <2>5. QED BY <2>1, <2>2, <2>3, <2>4, ScoreKept DEF ScoresTyped
<1>11. QED
  BY <1>1, <1>2, <1>3, <1>4, <1>5, <1>6, <1>7, <1>8, <1>9, <1>10, NextCases DEF Cases

\* finalizeProjectScore and rule R5: no milestone counts as zero for want of a
\* score, and the cap on what models decide holds for every activity.
THEOREM ScoresAreComplete == Spec => []FinalIsComplete
<1>1. Init => CompleteInv
  BY CompleteInit
<1>2. LadderInv /\ CompleteInv /\ [Next]_vars => CompleteInv'
  BY ScoreNext
<1>3. CompleteInv => FinalIsComplete
  <2> SUFFICES ASSUME CompleteInv, NEW i \in DOMAIN scores
               PROVE  LET Said(g) == [c \in Components |-> IF c \in AiParts THEN g ELSE scores[i].raw[c]]
                      IN  /\ \A m \in Ms : scores[i].comps[m] # NoScore
                          /\ OwnParts # {} => rollup(Said(10000)) - rollup(Said(0)) <= 4000
    BY DEF FinalIsComplete
  <2>1. i \in 1 .. Len(scores) /\ scores[i] \in ScoreRow
    BY DEF CompleteInv, ScoresTyped
  <2>2. \A m \in Ms : scores[i].comps[m] # NoScore
    BY <2>1 DEF CompleteInv, ScoreInv
  <2>3. scores[i].raw \in [Components -> Int]
    BY <2>1 DEF ScoreRow
  <2>4. QED BY <2>2, <2>3, AiShare
<1>4. QED BY <1>1, <1>2, <1>3, SubmissionsOnOpenMilestones, PTL DEF Spec
=============================================================================
