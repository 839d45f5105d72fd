---------------------------- MODULE TaskRecord ----------------------------
(***************************************************************************)
(* The record of one attempt: the append-only event log                    *)
(* (event-store.repository), the projections derived from it               *)
(* (attempt_task_state by replay.service, attempt_signal by the            *)
(* COMMAND_EXECUTED consumer), the hint ladder (hint.service), validation  *)
(* runs (validator-runner.service), artifacts (artifact.service) and the   *)
(* score that evaluate() computes from all of them.                        *)
(*                                                                         *)
(* An action is what a handler does between two awaits.  Events nothing    *)
(* here reads (VALIDATION_REQUESTED, VALIDATOR_RESULT, EDITOR_SAVE) are    *)
(* left out of the log; an append is one locked transaction.               *)
(***************************************************************************)
EXTENDS Scoring, SequencesExt

CONSTANTS
    Tasks,          \* tasks of the activity: required, validators (weight, blocking)
    Profiles,       \* scoring profiles the activity may name
    Histories,      \* resets, retries and time of the attempt
    MaxLevel,       \* levels of every task's hint ladder
    HintCost,       \* penalty of a hint in percent, by level
    Commands,       \* commands the shell may report
    Forbidden, GoodActions, BadActions,     \* process_signals of the activity
    Paths,          \* canonical diagnostic paths of its faults
    Requests,       \* HTTP handlers that may be in flight at once
    MaxRequests,    \* bound on reveal, guidedFallback, checkWork and artifact requests
    MaxCommands,    \* bound on COMMAND_EXECUTED messages
    MaxAborts       \* bound on requests and messages that die half way

ASSUME RecordAssumption ==
    /\ MaxLevel \in Nat /\ HintCost \in [1 .. MaxLevel -> Nat]
    /\ Forbidden \cup GoodActions \cup BadActions \subseteq Commands
    /\ {MaxRequests, MaxCommands, MaxAborts} \subseteq Nat
    /\ IsFiniteSet(Requests)
    /\ Tasks \in Seq(Range(Tasks))
    /\ \A t \in DOMAIN Tasks :
         /\ IsFiniteSet(DOMAIN Tasks[t].validators)
         /\ \A i \in DOMAIN Tasks[t].validators : Tasks[t].validators[i].weight \in Nat
    /\ \A p \in Profiles : IsProfile(p)
    /\ \A a \in Histories : {a.resets, a.retries, a.active, a.estimated} \subseteq Nat
    /\ IsFiniteSet(Paths) /\ \A p \in Paths : IsFiniteSet(DOMAIN p)

VARIABLES
    status,         \* attempt.status
    log,            \* attempt_events
    state,          \* attempt_task_state: a row for some of the tasks
    penalty,        \* attempt.hint_penalty_total, in percent
    assisted,       \* has attempt.assistance_flags 'guided_fallback'?
    signals,        \* attempt_signal
    runs,           \* validation_run rows whose trigger is not 'submit'
    artifacts,      \* artifact rows
    scores,         \* attempt_score rows
    req,            \* handlers in flight
    msg,            \* the COMMAND_EXECUTED message being handled
    used            \* requests and aborts so far

vars == <<status, log, state, penalty, assisted, signals, runs, artifacts, scores, req, msg, used>>

TaskKeys == DOMAIN Tasks
NoRow == [status |-> "PENDING", attempts |-> 0, level |-> 0, assisted |-> FALSE]
Row(t) == IF t \in DOMAIN state THEN state[t] ELSE NoRow
Put(t, row) == [u \in DOMAIN state \cup {t} |-> IF u = t THEN row ELSE state[u]]

Idle == [pc |-> "idle", task |-> 0, level |-> 0, submit |-> FALSE, results |-> <<>>,
         derived |-> <<>>, penalty |-> 0]
NoMsg == [pc |-> "idle", cmd |-> ""]

Init ==
    /\ status = "IN_PROGRESS"
    /\ log = <<>>
    /\ state = <<>>
    /\ penalty = 0
    /\ assisted = FALSE
    /\ signals = [violations |-> 0, good |-> 0, bad |-> 0]
    /\ runs = 0
    /\ artifacts = 0
    /\ scores = <<>>
    /\ req = [h \in Requests |-> Idle]
    /\ msg = NoMsg
    /\ used = [requests |-> 0, commands |-> 0, aborts |-> 0]

\* seq is the position: the advisory lock makes max(seq) + 1 and the insert one step.
append(type, task, level) == log' = Append(log, [type |-> type, task |-> task, level |-> level])

Goto(h, pc) == req' = [req EXCEPT ![h].pc = pc]
Done(h) == req' = [req EXCEPT ![h] = Idle]
projections == <<state, signals>>
ledger == <<penalty, assisted>>
outputs == <<runs, artifacts, scores>>

-----------------------------------------------------------------------------
(* HintService.  It asks nothing of the attempt's status. *)

getUsedMaxLevel(t) == Row(t).level

reveal_bug(h, t) ==
    /\ req[h].pc = "idle"
    /\ used.requests < MaxRequests
    /\ getUsedMaxLevel(t) < MaxLevel
    /\ req' = [req EXCEPT ![h].pc = "hint", ![h].task = t, ![h].level = getUsedMaxLevel(t) + 1]
    /\ used' = [used EXCEPT !.requests = @ + 1]
    /\ state' = Put(t, [Row(t) EXCEPT !.level = @ + 1])
    /\ UNCHANGED <<status, log, signals, ledger, outputs, msg>>

\* The next level is fixed by the projection as it is now.
reveal(h, t) ==
    /\ req[h].pc = "idle"
    /\ used.requests < MaxRequests
    /\ getUsedMaxLevel(t) < MaxLevel
    /\ req' = [req EXCEPT ![h].pc = "hint", ![h].task = t, ![h].level = getUsedMaxLevel(t) + 1]
    /\ used' = [used EXCEPT !.requests = @ + 1]
    /\ UNCHANGED <<status, log, projections, ledger, outputs, msg>>

RevealEvent_bug(h) ==
    /\ req[h].pc = "hint"
    /\ IF req[h].level > Row(req[h].task).level
       THEN append("HINT_REQUESTED", req[h].task, req[h].level)
       ELSE UNCHANGED log
    /\ Goto(h, "charge")
    /\ UNCHANGED <<status, projections, ledger, outputs, msg, used>>

RevealEvent(h) ==
    /\ req[h].pc = "hint"
    /\ append("HINT_REQUESTED", req[h].task, req[h].level)
    /\ Goto(h, "charge")
    /\ UNCHANGED <<status, projections, ledger, outputs, msg, used>>

\* One transaction: the level overwrites what the row has by now.
RevealCharge(h) ==
    /\ req[h].pc = "charge"
    /\ state' = Put(req[h].task, [Row(req[h].task) EXCEPT !.level = req[h].level])
    /\ penalty' = penalty + HintCost[req[h].level]
    /\ Done(h)
    /\ UNCHANGED <<status, log, signals, assisted, outputs, msg, used>>

\* Refused while the ladder has a level left; nothing more to do once the
\* attempt is flagged.
guidedFallback(h, t) ==
    /\ req[h].pc = "idle"
    /\ used.requests < MaxRequests
    /\ getUsedMaxLevel(t) >= MaxLevel
    /\ ~assisted
    /\ req' = [req EXCEPT ![h].pc = "tell", ![h].task = t]
    /\ used' = [used EXCEPT !.requests = @ + 1]
    /\ UNCHANGED <<status, log, projections, ledger, outputs, msg>>

FallbackEvent(h) ==
    /\ req[h].pc = "tell"
    /\ append("SOLUTION_VIEWED", req[h].task, 0)
    /\ Goto(h, "flag")
    /\ UNCHANGED <<status, projections, ledger, outputs, msg, used>>

FallbackFlag(h) ==
    /\ req[h].pc = "flag"
    /\ assisted' = TRUE
    /\ state' = Put(req[h].task, [Row(req[h].task) EXCEPT !.assisted = TRUE])
    /\ Done(h)
    /\ UNCHANGED <<status, log, signals, penalty, outputs, msg, used>>

-----------------------------------------------------------------------------
(* ValidatorRunnerService.run, for checkWork and for evaluate *)

\* Three tries; the first that is neither an ERROR nor a timeout counts.
executeWithTimeoutAndRetry(tries) ==
    LET answered == {i \in 1 .. 3 : tries[i] \in {"PASS", "FAIL"}}
    IN IF answered = {} THEN "ERROR" ELSE tries[Min(answered)]

Answers == {executeWithTimeoutAndRetry(tries) : tries \in [1 .. 3 -> {"PASS", "FAIL", "ERROR", "timeout"}]}

checkWork(h) ==
    /\ req[h].pc = "idle"
    /\ used.requests < MaxRequests
    /\ status = "IN_PROGRESS"
    /\ runs' = runs + 1
    /\ used' = [used EXCEPT !.requests = @ + 1]
    /\ req' = [req EXCEPT ![h].pc = "run"]
    /\ UNCHANGED <<status, log, projections, ledger, artifacts, scores, msg>>

submit(h) ==
    /\ req[h].pc = "idle"
    /\ status = "IN_PROGRESS"
    /\ status' = "SUBMITTED"
    /\ req' = [req EXCEPT ![h].pc = "evaluate"]
    /\ UNCHANGED <<log, projections, ledger, outputs, msg, used>>

\* evaluate() reads the row, with the penalty accrued by now, and runs all
\* validators once more.
evaluate(h) ==
    /\ req[h].pc = "evaluate"
    /\ status = "SUBMITTED"
    /\ req' = [req EXCEPT ![h].pc = "run", ![h].submit = TRUE, ![h].penalty = penalty]
    /\ UNCHANGED <<status, log, projections, ledger, outputs, msg, used>>

\* The tasks one after the other, the validators of one in parallel.
RunTask(h) ==
    LET t == Len(req[h].results) + 1
        vs == Tasks[t].validators
    IN
    /\ req[h].pc = "run"
    /\ t \in TaskKeys
    /\ \E answer \in [DOMAIN vs -> Answers] :
         LET results == [i \in DOMAIN vs |-> [status |-> answer[i], weight |-> vs[i].weight,
                                              blocking |-> vs[i].blocking]]
         IN /\ append(IF taskPassed(results) THEN "TASK_PASSED" ELSE "TASK_FAILED", t, 0)
            /\ req' = [req EXCEPT ![h].results = Append(@, results)]
    /\ UNCHANGED <<status, projections, ledger, outputs, msg, used>>

-----------------------------------------------------------------------------
(* ReplayService *)

Folded_bug(s, event) ==
    LET t == event.task
        row == IF t \in DOMAIN s THEN s[t] ELSE NoRow
        Ensure(r) == [u \in DOMAIN s \cup {t} |-> IF u = t THEN r ELSE s[u]]
    IN CASE event.type = "TASK_PASSED" -> Ensure([row EXCEPT !.attempts = @ + 1, !.status = "PASSED"])
         [] event.type = "TASK_FAILED" -> Ensure([row EXCEPT !.attempts = @ + 1, !.status = "FAILED"])
         [] event.type = "HINT_REQUESTED" -> Ensure([row EXCEPT !.level = Max({@, event.level})])
         [] OTHER -> s

Folded(s, event) ==
    LET t == event.task
        row == IF t \in DOMAIN s THEN s[t] ELSE NoRow
        Ensure(r) == [u \in DOMAIN s \cup {t} |-> IF u = t THEN r ELSE s[u]]
    IN CASE event.type = "TASK_PASSED" ->
              Ensure([row EXCEPT !.attempts = @ + 1, !.status = "PASSED"])
         [] event.type = "TASK_FAILED" ->
              Ensure([row EXCEPT !.attempts = @ + 1, !.status = IF @ = "PASSED" THEN @ ELSE "FAILED"])
         [] event.type = "HINT_REQUESTED" ->
              Ensure([row EXCEPT !.level = Max({@, event.level})])
         [] OTHER -> s

deriveTaskState(events) ==
    LET after[n \in 0 .. Len(events)] == IF n = 0 THEN <<>> ELSE Folded(after[n - 1], events[n])
    IN after[Len(events)]

\* rebuildForAttempt reads the log ...
RebuildRead(h) ==
    /\ req[h].pc = "run"
    /\ Len(req[h].results) = Len(Tasks)
    /\ req' = [req EXCEPT ![h].pc = "rebuild", ![h].derived = deriveTaskState(log)]
    /\ UNCHANGED <<status, log, projections, ledger, outputs, msg, used>>

\* ... and replaces the rows by what it derived, in one transaction.
rebuildForAttempt(h) ==
    /\ req[h].pc = "rebuild"
    /\ state' = req[h].derived
    /\ req' = [req EXCEPT ![h] = IF @.submit THEN [@ EXCEPT !.pc = "score", !.derived = <<>>] ELSE Idle]
    /\ UNCHANGED <<status, log, signals, ledger, outputs, msg, used>>

-----------------------------------------------------------------------------
(* CommandExecutedConsumer: one message at a time *)

handleCommand(cmd) ==
    /\ msg.pc = "idle"
    /\ used.commands < MaxCommands
    /\ append("COMMAND_EXECUTED", cmd, 0)
    /\ msg' = [pc |-> "signals", cmd |-> cmd]
    /\ used' = [used EXCEPT !.commands = @ + 1]
    /\ UNCHANGED <<status, projections, ledger, outputs, req>>

incrementSignal ==
    LET One(S) == IF msg.cmd \in S THEN 1 ELSE 0
    IN
    /\ msg.pc = "signals"
    /\ signals' = [violations |-> signals.violations + One(Forbidden),
                   good |-> signals.good + One(GoodActions),
                   bad |-> signals.bad + One(BadActions)]
    /\ msg' = NoMsg
    /\ UNCHANGED <<status, log, state, ledger, outputs, req, used>>

-----------------------------------------------------------------------------
(* The rest of evaluate() *)

Events(type) == SelectSeq(log, LAMBDA e : e.type = type)

\* What the criteria see; resets, retries and time are those of the row.
CriterionInput(h, history) ==
    LET commands == Events("COMMAND_EXECUTED")
    IN [tasks |-> [t \in TaskKeys |-> [required |-> Tasks[t].required, validators |-> req[h].results[t]]],
        hints |-> req[h].penalty, resets |-> history.resets, retries |-> history.retries,
        active |-> history.active, estimated |-> history.estimated,
        preSubmitRuns |-> runs, violations |-> signals.violations, good |-> signals.good,
        bad |-> signals.bad, commands |-> [i \in DOMAIN commands |-> commands[i].task], paths |-> Paths]

\* attempt_score, EVALUATED and the verdict.
EvaluateScore(h) ==
    /\ req[h].pc = "score"
    /\ \E profile \in Profiles, history \in Histories :
         LET in == CriterionInput(h, history)
         IN /\ scores' = Append(scores, [in |-> in, profile |-> profile, final |-> score(in, profile)])
            /\ status' = IF passes(in, profile) THEN "PASSED" ELSE "FAILED"
    /\ Goto(h, "grade")
    /\ UNCHANGED <<log, projections, ledger, runs, artifacts, msg, used>>

\* gradeArtifact takes the newest artifact; without one there is nothing to
\* grade, and an error of the grader is only logged.
gradeArtifact(h) ==
    /\ req[h].pc = "grade"
    /\ \/ artifacts > 0 /\ append("AI_MESSAGE", artifacts, 0)
       \/ UNCHANGED log
    /\ Done(h)
    /\ UNCHANGED <<status, projections, ledger, outputs, msg, used>>

submitArtifact(h) ==
    /\ req[h].pc = "idle"
    /\ used.requests < MaxRequests
    /\ artifacts' = artifacts + 1
    /\ used' = [used EXCEPT !.requests = @ + 1]
    /\ UNCHANGED <<status, log, projections, ledger, runs, scores, req, msg>>

-----------------------------------------------------------------------------
AbortRequest(h) ==
    /\ req[h].pc # "idle"
    /\ used.aborts < MaxAborts
    /\ used' = [used EXCEPT !.aborts = @ + 1]
    /\ Done(h)
    /\ UNCHANGED <<status, log, projections, ledger, outputs, msg>>

\* consume() drops a message whose handler throws.
DropMessage ==
    /\ msg.pc # "idle"
    /\ used.aborts < MaxAborts
    /\ used' = [used EXCEPT !.aborts = @ + 1]
    /\ msg' = NoMsg
    /\ UNCHANGED <<status, log, projections, ledger, outputs, req>>

NewRequest(h) ==
    \/ \E t \in TaskKeys : reveal(h, t) \/ guidedFallback(h, t)
    \/ checkWork(h) \/ submit(h) \/ submitArtifact(h)

Continue(h) ==
    \/ RevealEvent(h)   \/ RevealCharge(h)  \/ FallbackEvent(h) \/ FallbackFlag(h)
    \/ evaluate(h)      \/ RunTask(h)       \/ RebuildRead(h)   \/ rebuildForAttempt(h)
    \/ EvaluateScore(h) \/ gradeArtifact(h)

Next ==
    \/ \E h \in Requests : NewRequest(h) \/ Continue(h) \/ AbortRequest(h)
    \/ (\E cmd \in Commands : handleCommand(cmd)) \/ incrementSignal \/ DropMessage

Spec == Init /\ [][Next]_vars

-----------------------------------------------------------------------------
(* Properties *)

Hints(t) == {i \in DOMAIN log : log[i].type = "HINT_REQUESTED" /\ log[i].task = t}

\* hint.service.ts, reveal and guidedFallback: double clicks and rebuilds from
\* a stale read may reveal a level twice, but none is revealed before the one
\* below it, and the answer is told only to a learner who was shown every level
\* of the task's ladder, whatever rebuilds have made of the projection both
\* checks read.
LadderInOrder ==
    LET Shown(t, l, i) == \E j \in Hints(t) : j < i /\ log[j].level = l
    IN /\ \A t \in TaskKeys : \A i \in Hints(t) : log[i].level > 1 => Shown(t, log[i].level - 1, i)
       /\ \A i \in DOMAIN log : log[i].type = "SOLUTION_VIEWED" =>
              \A l \in 1 .. MaxLevel : Shown(log[i].task, l, i)

HintEvents == {i \in DOMAIN log : log[i].type = "HINT_REQUESTED"}
HintTotal == SumFunction([i \in HintEvents |-> HintCost[log[i].level]])
Charging == {h \in Requests : req[h].pc = "charge"}

CommandCount(S) == Cardinality({i \in DOMAIN log : log[i].type = "COMMAND_EXECUTED" /\ log[i].task \in S})

\* hint.service.ts and command-executed.consumer.ts: the event comes first and
\* the counter follows, so the learner never pays for a hint, and no signal
\* counts a command, that the log does not have; and a counter is the log's once
\* its writers are done and none has died half way.
CountersMatchLog ==
    LET Agrees(n, total) == n <= total /\ (used.aborts = 0 => n = total)
        Owed == SumFunction([h \in Charging |-> HintCost[req[h].level]])
        Lag(S) == IF msg.pc = "signals" /\ msg.cmd \in S THEN 1 ELSE 0
    IN /\ Agrees(penalty + Owed, HintTotal)
       /\ Agrees(signals.violations + Lag(Forbidden), CommandCount(Forbidden))
       /\ Agrees(signals.good + Lag(GoodActions), CommandCount(GoodActions))
       /\ Agrees(signals.bad + Lag(BadActions), CommandCount(BadActions))

\* The verdicts on a task among the first k events.
Verdicts(events, t, k) == {i \in 1 .. k : events[i].type \in {"TASK_PASSED", "TASK_FAILED"} /\ events[i].task = t}

\* replay.service.ts, deriveTaskState: whatever rebuilds and hints interleave,
\* a row tells the truth about some prefix of the log, and status and attempts
\* about the same one: it counts the prefix's runs of the task, and is PASSED
\* exactly if one of them had passed.  It does not say of which prefix: a rebuild
\* from a stale read puts back what an earlier one said, a PASSED row to FAILED
\* included, though the comment at :100 calls a pass sticky once achieved.
RowIsTrueOfSomePast ==
    \A t \in DOMAIN state : \E k \in 0 .. Len(log) :
        /\ state[t].attempts = Cardinality(Verdicts(log, t, k))
        /\ (state[t].status = "PASSED") <=> \E i \in Verdicts(log, t, k) : log[i].type = "TASK_PASSED"

\* scoring-engine.service.ts: no penalty takes a solution that works below the
\* guard, and an attempt that needed hints, resets, retries or forbidden
\* commands never scores more than the same work without them.
ScoreIsFair ==
    \A i \in DOMAIN scores :
        LET in == scores[i].in
            profile == scores[i].profile
            clean == [in EXCEPT !.hints = 0, !.resets = 0, !.retries = 0, !.violations = 0]
        IN /\ weightedSum(in, profile) >= Percent(profile.pass) => scores[i].final >= Percent(profile.guard)
           /\ scores[i].final <= score(clean, profile)
=============================================================================
