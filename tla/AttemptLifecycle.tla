-------------------------- MODULE AttemptLifecycle --------------------------
(***************************************************************************)
(* The attempt row of practice-core and everything that writes it:         *)
(* AttemptService, EvaluationService.evaluate, the ENV_DESTROYED consumer  *)
(* and the cache sweep, against the teardown callers of the orchestrator.  *)
(*                                                                         *)
(* Every request handler is a process that reads the row, awaits, and      *)
(* writes it with AttemptRepository.transition, an update guarded by the   *)
(* version it read.  A read and the event appended right after it are one  *)
(* step here (the append touches only the log, so it commutes with every   *)
(* other process); each await that a concurrent writer can fall into       *)
(* separates two steps.  All attempts belong to one learner, and an        *)
(* attempt stands for its own idempotency key.                             *)
(***************************************************************************)
EXTENDS Naturals, Sequences, FiniteSets

CONSTANTS
  Attempts,       \* attempt rows (and idempotency keys) of one learner
  Handlers,       \* concurrent requests and sweep runs of practice-core
  Envs,           \* environment ids the orchestrator can hand out
  Reapers,        \* background teardown callers: idle, budget, reaper
  NoEnv,          \* the SQL NULL of environment_id
  NoAttempt,      \* a process that is working on no attempt
  Quota,          \* MAX_CONCURRENT_ENVIRONMENTS_PER_LEARNER
  MaxVersion,     \* bound: no new request on a row at this version, less one per abort
  MaxAborts       \* bound: exceptions, process deaths and lost messages

ASSUME BoundsAssumption ==
  Quota \in Nat /\ MaxVersion \in Nat /\ MaxAborts \in Nat

ASSUME NamesAssumption ==
  NoEnv \notin Envs /\ NoAttempt \notin Attempts /\ "submit" \notin Reapers

VARIABLES
  row,            \* attempt.attempt: status, version, environment_id
  log,            \* attempt_events: which event was appended on which version read
  scores,         \* attempt_score: for each row, the SUBMITTED version it scores
  activityState,  \* learner_activity_state.status
  env,            \* the orchestrator's environments: phase and owning attempt
  killers,        \* destroyers of an environment past their existence check
  msgs,           \* ENV_DESTROYED messages in flight
  proc,           \* the request handlers
  consumer,       \* the ENV_DESTROYED consumer
  aborts          \* exceptions, deaths and losses so far

vars == <<row, log, scores, activityState, env, killers, msgs, proc, consumer, aborts>>

-----------------------------------------------------------------------------
\* Status groups.

Verdicts == {"PASSED", "FAILED"}

Statuses == {"CREATED", "PROVISIONING", "READY", "IN_PROGRESS", "SUBMITTED",
             "EVALUATING", "PASSED", "FAILED", "COMPLETED", "PROVISION_FAILED",
             "SUSPENDED", "EVAL_FAILED", "EXPIRED", "ABANDONED", "CACHED"}

TERMINAL == {"PASSED", "FAILED", "COMPLETED", "PROVISION_FAILED", "EVAL_FAILED",
             "EXPIRED", "ABANDONED"}

REACTIVATABLE_STATUSES == {"SUSPENDED", "CACHED", "PROVISION_FAILED"}

\* The statuses in which an attempt holds the learner's environment slot.
HoldsSlot == {"PROVISIONING", "READY", "IN_PROGRESS", "SUBMITTED", "EVALUATING"}

ActiveAttempts == {a \in Attempts : row[a].status \in HoldsSlot}

Reasons == Reapers \union {"submit"}

Events == {"ATTEMPT_CREATED", "ENV_REQUESTED", "ENV_READY", "ENV_FAILED",
           "ATTEMPT_STARTED", "SUBMITTED", "EVALUATED", "SNAPSHOT_TAKEN",
           "SUSPENDED", "RESUMED"}

PCs == {"idle", "create", "created", "reactivate", "provision", "requested",
        "calling", "called", "failed", "ready", "unready", "start", "submit",
        "evaluate", "score", "record", "verdict", "state", "destroy", "cache"}

Idle == [pc |-> "idle", a |-> NoAttempt, ver |-> 0, env |-> NoEnv, sub |-> 0,
         verdict |-> "FAILED"]

Free == [busy |-> FALSE, a |-> NoAttempt, ver |-> 0, reason |-> "submit"]

Init ==
  /\ row = [a \in Attempts |-> [status |-> "NONE", version |-> 0, env |-> NoEnv]]
  /\ log = [a \in Attempts |-> {}]
  /\ scores = [a \in Attempts |-> << >>]
  /\ activityState = [a \in Attempts |-> "none"]
  /\ env = [e \in Envs |-> [phase |-> "unused", owner |-> NoAttempt]]
  /\ killers = [e \in Envs |-> {}]
  /\ msgs = {}
  /\ proc = [h \in Handlers |-> Idle]
  /\ consumer = Free
  /\ aborts = 0

-----------------------------------------------------------------------------
\* The event store and the versioned row.

Append_(a, e, v) == log' = [log EXCEPT ![a] = @ \union {<<e, v>>}]

AppendBoth(a, e, f, v) == log' = [log EXCEPT ![a] = @ \union {<<e, v>>, <<f, v>>}]

At(h, pc) == proc[h].pc = pc

Goto(h, pc) == proc' = [proc EXCEPT ![h].pc = pc]

Return(h) == proc' = [proc EXCEPT ![h] = Idle]

\* The WHERE clause of transition(): the row still has the version read.
Matches_bug(a, v) == TRUE
Matches(a, v) == row[a].version = v

\* transition() of handler h: on a match the row moves and the handler goes
\* on at next; on a mismatch the ConflictException ends the request.
Transition(h, status, e, next) ==
  LET a == proc[h].a
      v == proc[h].ver
  IN  IF Matches(a, v)
      THEN /\ row' = [row EXCEPT ![a] = [status |-> status, version |-> v + 1, env |-> e]]
           /\ next
      ELSE UNCHANGED row /\ Return(h)

\* A handler starts on attempt a after reading version v.
Enter(h, a, pc) ==
  proc' = [proc EXCEPT ![h] = [Idle EXCEPT !.pc = pc, !.a = a, !.ver = row[a].version]]

\* A new request: the handler is free and the bound on versions is not reached.
Admit(h, a) == At(h, "idle") /\ row[a].version + aborts < MaxVersion

-----------------------------------------------------------------------------
\* createAttempt: eligibility, then the row, then its event.

CreateCheck(h, a) ==
  /\ Admit(h, a)
  /\ Cardinality(ActiveAttempts) < Quota
  /\ Enter(h, a, "create")
  /\ UNCHANGED <<row, log, scores, activityState, env, killers, msgs, consumer, aborts>>

CreateRow(h) ==
  /\ At(h, "create")
  /\ row' = [row EXCEPT ![proc[h].a] =
       IF @.status = "NONE" THEN [status |-> "CREATED", version |-> 1, env |-> NoEnv] ELSE @]
  /\ Goto(h, "created")
  /\ UNCHANGED <<log, scores, activityState, env, killers, msgs, consumer, aborts>>

CreateEvent(h) ==
  /\ At(h, "created")
  /\ Append_(proc[h].a, "ATTEMPT_CREATED", 0)
  /\ Return(h)
  /\ UNCHANGED <<row, scores, activityState, env, killers, msgs, consumer, aborts>>

-----------------------------------------------------------------------------
\* POST /provision: reactivate(), then provision().

ReactivateRead(h, a) ==
  /\ Admit(h, a) /\ row[a].status # "NONE"
  /\ IF row[a].status \in REACTIVATABLE_STATUSES
     THEN Enter(h, a, "reactivate") /\ Append_(a, "RESUMED", row[a].version)
     ELSE Enter(h, a, "provision") /\ UNCHANGED log
  /\ UNCHANGED <<row, scores, activityState, env, killers, msgs, consumer, aborts>>

ReactivateCommit(h) ==
  /\ At(h, "reactivate")
  /\ Transition(h, "CREATED", NoEnv, Goto(h, "provision"))
  /\ UNCHANGED <<log, scores, activityState, env, killers, msgs, consumer, aborts>>

ProvisionRead(h) ==
  LET a == proc[h].a
  IN  /\ At(h, "provision")
      /\ IF row[a].status = "CREATED"
         THEN Enter(h, a, "requested") /\ Append_(a, "ENV_REQUESTED", row[a].version)
         ELSE Return(h) /\ UNCHANGED log
      /\ UNCHANGED <<row, scores, activityState, env, killers, msgs, consumer, aborts>>

ProvisionCommit(h) ==
  /\ At(h, "requested")
  /\ Transition(h, "PROVISIONING", row[proc[h].a].env, Goto(h, "calling"))
  /\ UNCHANGED <<log, scores, activityState, env, killers, msgs, consumer, aborts>>

\* The Provision RPC creates an environment owned by the attempt.
Launch(h, e) ==
  /\ env[e].phase = "unused"
  /\ env' = [env EXCEPT ![e] = [phase |-> "live", owner |-> proc[h].a]]

OrchestratorReady(h, e) ==
  /\ At(h, "calling")
  /\ Launch(h, e)
  /\ proc' = [proc EXCEPT ![h].pc = "called", ![h].env = e]
  /\ UNCHANGED <<row, log, scores, activityState, killers, msgs, consumer, aborts>>

OrchestratorNotReady(h) ==
  /\ At(h, "calling")
  /\ Goto(h, "failed")
  /\ UNCHANGED <<row, log, scores, activityState, env, killers, msgs, consumer, aborts>>

\* The RPC returns an error: before it made anything, or (the health gate)
\* after.  provision() has no catch, so the request just ends.
OrchestratorError(h) ==
  /\ At(h, "calling")
  /\ \/ UNCHANGED env
     \/ \E e \in Envs : Launch(h, e)
  /\ Return(h)
  /\ UNCHANGED <<row, log, scores, activityState, killers, msgs, consumer, aborts>>

\* The row is read again for its version; its status is not looked at.
ProvisionReread(h) ==
  LET a == proc[h].a
      v == row[a].version
  IN  /\ \/ At(h, "called") /\ Append_(a, "ENV_READY", v)
            /\ proc' = [proc EXCEPT ![h].pc = "ready", ![h].ver = v]
         \/ At(h, "failed") /\ Append_(a, "ENV_FAILED", v)
            /\ proc' = [proc EXCEPT ![h].pc = "unready", ![h].ver = v]
      /\ UNCHANGED <<row, scores, activityState, env, killers, msgs, consumer, aborts>>

ProvisionFinish(h) ==
  /\ \/ At(h, "ready") /\ Transition(h, "READY", proc[h].env, Return(h))
     \/ At(h, "unready") /\ Transition(h, "PROVISION_FAILED", row[proc[h].a].env, Return(h))
  /\ UNCHANGED <<log, scores, activityState, env, killers, msgs, consumer, aborts>>

-----------------------------------------------------------------------------
\* markStarted.

MarkStartedRead(h, a) ==
  /\ Admit(h, a) /\ row[a].status = "READY"
  /\ Enter(h, a, "start")
  /\ Append_(a, "ATTEMPT_STARTED", row[a].version)
  /\ UNCHANGED <<row, scores, activityState, env, killers, msgs, consumer, aborts>>

MarkStartedCommit(h) ==
  /\ At(h, "start")
  /\ Transition(h, "IN_PROGRESS", row[proc[h].a].env, Return(h))
  /\ UNCHANGED <<log, scores, activityState, env, killers, msgs, consumer, aborts>>

-----------------------------------------------------------------------------
\* submit and evaluate.

SubmitRead(h, a) ==
  /\ Admit(h, a) /\ row[a].status = "IN_PROGRESS"
  /\ Enter(h, a, "submit")
  /\ Append_(a, "SUBMITTED", row[a].version)
  /\ UNCHANGED <<row, scores, activityState, env, killers, msgs, consumer, aborts>>

SubmitCommit(h) ==
  /\ At(h, "submit")
  /\ Transition(h, "SUBMITTED", row[proc[h].a].env,
       proc' = [proc EXCEPT ![h].pc = "evaluate", ![h].sub = proc[h].ver + 1])
  /\ UNCHANGED <<log, scores, activityState, env, killers, msgs, consumer, aborts>>

EvaluateRead(h) ==
  LET r == row[proc[h].a]
  IN  /\ At(h, "evaluate")
      /\ IF r.status \in {"SUBMITTED", "EVALUATING"}
         THEN proc' = [proc EXCEPT ![h].pc = "score", ![h].ver = r.version]
         ELSE Return(h)
      /\ UNCHANGED <<row, log, scores, activityState, env, killers, msgs, consumer, aborts>>

\* The attempt_score row, for the verdict the scoring engine computed.
EvaluateScore_bug(h) ==
  /\ At(h, "score")
  /\ scores' = [scores EXCEPT ![proc[h].a] = Append(@, proc[h].sub)]
  /\ \E v \in {"COMPLETED", "FAILED"} : proc' = [proc EXCEPT ![h].pc = "record", ![h].verdict = v]
  /\ UNCHANGED <<row, log, activityState, env, killers, msgs, consumer, aborts>>

EvaluateScore(h) ==
  /\ At(h, "score")
  /\ scores' = [scores EXCEPT ![proc[h].a] = Append(@, proc[h].sub)]
  /\ \E v \in Verdicts : proc' = [proc EXCEPT ![h].pc = "record", ![h].verdict = v]
  /\ UNCHANGED <<row, log, activityState, env, killers, msgs, consumer, aborts>>

\* The EVALUATED event, then artifact grading, Elo and mastery evidence,
\* which write tables no property here looks at.
EvaluateRecord_bug(h) ==
  /\ At(h, "record")
  /\ Goto(h, "verdict")
  /\ UNCHANGED <<row, log, scores, activityState, env, killers, msgs, consumer, aborts>>

EvaluateRecord(h) ==
  /\ At(h, "record")
  /\ Append_(proc[h].a, "EVALUATED", proc[h].ver)
  /\ Goto(h, "verdict")
  /\ UNCHANGED <<row, scores, activityState, env, killers, msgs, consumer, aborts>>

\* The bug PLAN.md S7 fixed: a raw update whose mismatch goes unnoticed.
EvaluateCommit_bug(h) ==
  /\ At(h, "verdict")
  /\ row' = IF Matches(proc[h].a, proc[h].ver)
            THEN [row EXCEPT ![proc[h].a].status = proc[h].verdict, ![proc[h].a].version = @ + 1]
            ELSE row
  /\ Goto(h, "state")
  /\ UNCHANGED <<log, scores, activityState, env, killers, msgs, consumer, aborts>>

EvaluateCommit(h) ==
  /\ At(h, "verdict")
  /\ Transition(h, proc[h].verdict, row[proc[h].a].env, Goto(h, "state"))
  /\ UNCHANGED <<log, scores, activityState, env, killers, msgs, consumer, aborts>>

\* learner_activity_state, with the cooldown that follows from the verdict.
EvaluateState(h) ==
  /\ At(h, "state")
  /\ activityState' = [activityState EXCEPT ![proc[h].a] = proc[h].verdict]
  /\ Goto(h, "destroy")
  /\ UNCHANGED <<row, log, scores, env, killers, msgs, consumer, aborts>>

\* submit() reads the row once more and asks for its environment's teardown.
SubmitDestroy(h) ==
  LET e == row[proc[h].a].env
  IN  /\ At(h, "destroy")
      /\ killers' = IF e # NoEnv /\ env[e].phase = "live"
                    THEN [killers EXCEPT ![e] = @ \union {"submit"}]
                    ELSE killers
      /\ Return(h)
      /\ UNCHANGED <<row, log, scores, activityState, env, msgs, consumer, aborts>>

-----------------------------------------------------------------------------
\* The cache sweep: SUSPENDED -> CACHED.

CacheRead(h, a) ==
  /\ Admit(h, a) /\ row[a].status = "SUSPENDED"
  /\ Enter(h, a, "cache")
  /\ AppendBoth(a, "SNAPSHOT_TAKEN", "SUSPENDED", row[a].version)
  /\ UNCHANGED <<row, scores, activityState, env, killers, msgs, consumer, aborts>>

CacheCommit(h) ==
  /\ At(h, "cache")
  /\ Transition(h, "CACHED", row[proc[h].a].env, Return(h))
  /\ UNCHANGED <<log, scores, activityState, env, killers, msgs, consumer, aborts>>

-----------------------------------------------------------------------------
\* The orchestrator's Destroyer, called by r.  Its existence check and its
\* publish are separate steps, so two callers can both pass the check; an
\* environment can go before the request that made it has its answer.

DestroyCheck(e, r) ==
  /\ env[e].phase = "live" /\ r \notin killers[e]
  /\ killers' = [killers EXCEPT ![e] = @ \union {r}]
  /\ UNCHANGED <<row, log, scores, activityState, env, msgs, proc, consumer, aborts>>

DestroyPublish(e, r) ==
  /\ r \in killers[e]
  /\ killers' = [killers EXCEPT ![e] = @ \ {r}]
  /\ env' = [env EXCEPT ![e].phase = "gone"]
  /\ msgs' = msgs \union {[env |-> e, reason |-> r]}
  /\ UNCHANGED <<row, log, scores, activityState, proc, consumer, aborts>>

-----------------------------------------------------------------------------
\* The consumer: one message at a time; an exception drops the message.

\* The early returns of handleEnvironmentDestroyed.
Ignores_bug(status, reason) ==
  status \in {"SUSPENDED", "CACHED"} /\ reason # "submit"

Ignores(status, reason) ==
  \/ status \in TERMINAL
  \/ status \in {"SUSPENDED", "CACHED"} /\ reason # "submit"

ConsumerRead(m) ==
  LET a == env[m.env].owner
  IN  /\ ~consumer.busy /\ m \in msgs
      /\ msgs' = msgs \ {m}
      /\ consumer' = IF Ignores(row[a].status, m.reason) THEN Free
                     ELSE [busy |-> TRUE, a |-> a, ver |-> row[a].version, reason |-> m.reason]
      /\ UNCHANGED <<row, log, scores, activityState, env, killers, proc, aborts>>

ConsumerCommit ==
  LET a == consumer.a
      next == IF consumer.reason = "submit" THEN "EVALUATING" ELSE "SUSPENDED"
  IN  /\ consumer.busy
      /\ row' = IF Matches(a, consumer.ver)
                THEN [row EXCEPT ![a] =
                        [status |-> next, version |-> consumer.ver + 1, env |-> NoEnv]]
                ELSE row
      /\ consumer' = Free
      /\ UNCHANGED <<log, scores, activityState, env, killers, msgs, proc, aborts>>

-----------------------------------------------------------------------------
\* Failures: a request that throws or dies, and a message that is lost
\* (published while practice-core is not subscribed, or half handled).

AbortRequest(h) ==
  /\ ~At(h, "idle") /\ aborts < MaxAborts
  /\ Return(h)
  /\ aborts' = aborts + 1
  /\ UNCHANGED <<row, log, scores, activityState, env, killers, msgs, consumer>>

LoseMessage ==
  /\ aborts < MaxAborts
  /\ aborts' = aborts + 1
  /\ \/ \E m \in msgs : msgs' = msgs \ {m} /\ UNCHANGED consumer
     \/ consumer.busy /\ consumer' = Free /\ UNCHANGED msgs
  /\ UNCHANGED <<row, log, scores, activityState, env, killers, proc>>

-----------------------------------------------------------------------------
NewRequest(h, a) ==
  \/ CreateCheck(h, a) \/ ReactivateRead(h, a) \/ MarkStartedRead(h, a)
  \/ SubmitRead(h, a) \/ CacheRead(h, a)

Continue(h) ==
  \/ CreateRow(h) \/ CreateEvent(h) \/ ReactivateCommit(h)
  \/ ProvisionRead(h) \/ ProvisionCommit(h)
  \/ (\E e \in Envs : OrchestratorReady(h, e))
  \/ OrchestratorNotReady(h) \/ OrchestratorError(h)
  \/ ProvisionReread(h) \/ ProvisionFinish(h) \/ MarkStartedCommit(h)
  \/ SubmitCommit(h) \/ EvaluateRead(h) \/ EvaluateScore(h) \/ EvaluateRecord(h)
  \/ EvaluateCommit(h) \/ EvaluateState(h) \/ SubmitDestroy(h) \/ CacheCommit(h)

Orchestrator ==
  \E e \in Envs : \/ (\E r \in Reapers : DestroyCheck(e, r))
                  \/ (\E r \in Reasons : DestroyPublish(e, r))

Consumer == (\E m \in msgs : ConsumerRead(m)) \/ ConsumerCommit

Next ==
  \/ \E h \in Handlers : (\E a \in Attempts : NewRequest(h, a)) \/ Continue(h) \/ AbortRequest(h)
  \/ Orchestrator \/ Consumer \/ LoseMessage

Spec == Init /\ [][Next]_vars

-----------------------------------------------------------------------------
\* Correctness.

RowType == [status : Statuses \union {"NONE"}, version : Nat, env : Envs \union {NoEnv}]

EnvType == [phase : {"unused", "live", "gone"}, owner : Attempts \union {NoAttempt}]

ProcType == [pc : PCs, a : Attempts \union {NoAttempt}, ver : Nat,
             env : Envs \union {NoEnv}, sub : Nat, verdict : Verdicts]

ConsumerType == [busy : BOOLEAN, a : Attempts \union {NoAttempt}, ver : Nat, reason : Reasons]

\* Type invariant of the row, the log, the tables and the processes.
TypeOK ==
  /\ row \in [Attempts -> RowType]
  /\ log \in [Attempts -> SUBSET (Events \X Nat)]
  /\ scores \in [Attempts -> Seq(Nat)]
  /\ activityState \in [Attempts -> Verdicts \union {"none"}]
  /\ env \in [Envs -> EnvType]
  /\ killers \in [Envs -> SUBSET Reasons]
  /\ msgs \subseteq [env : Envs, reason : Reasons]
  /\ proc \in [Handlers -> ProcType]
  /\ consumer \in ConsumerType
  /\ aborts \in Nat

\* The event that explains how a row came to have a status.
ExplainedBy ==
  [CREATED |-> "RESUMED", PROVISIONING |-> "ENV_REQUESTED", READY |-> "ENV_READY",
   PROVISION_FAILED |-> "ENV_FAILED", IN_PROGRESS |-> "ATTEMPT_STARTED",
   SUBMITTED |-> "SUBMITTED", PASSED |-> "EVALUATED", FAILED |-> "EVALUATED",
   CACHED |-> "SUSPENDED", SUSPENDED |-> "SUSPENDED", EVALUATING |-> "SUBMITTED"]

\* The row moved into its present status with the event of exactly that
\* transition (same version read) already in the log.
Explained(a) ==
  row[a].version > 1 => <<ExplainedBy[row[a].status], row[a].version - 1>> \in log[a]

\* Every transition a request makes finds its event in the log: whatever
\* interleaving, abort or lost race happens, the status column is never ahead
\* of the event of exactly that transition (AttemptService, evaluate).  "Every
\* state transition is event-sourced first" (attempt.service.ts:41) says more
\* than the code does: handleEnvironmentDestroyed appends no event of its own
\* and the row of a new attempt comes before ATTEMPT_CREATED.
RequestsAreLogged ==
  \A a \in Attempts : row[a].status \notin {"SUSPENDED", "EVALUATING"} => Explained(a)

\* One successful submit is scored at most once: no two attempt_score rows
\* come from the same SUBMITTED transition, however many submits race.
ScoredOncePerSubmit ==
  \A a \in Attempts : \A i, j \in DOMAIN scores[a] :
    scores[a][i] = scores[a][j] => i = j

\* An ENV_DESTROYED message, however late, never moves an attempt out of
\* PASSED or FAILED (the race described at handleEnvironmentDestroyed).
DestroyNeverRegressesVerdict ==
  [][ConsumerCommit => \A a \in Attempts : row[a].status \in Verdicts => row'[a] = row[a]]_vars

\* The orchestrator never runs two environments for one attempt.
OneEnvironmentPerAttempt ==
  \A e, f \in Envs :
    env[e].phase = "live" /\ env[f].phase = "live" /\ env[e].owner = env[f].owner => e = f

\* provision() answered late, on a row that had its verdict by then (it
\* looks at the version of the row it reads again, not at its status).
Unsettled(a) ==
  \E x, y \in log[a] :
    x[1] = "EVALUATED" /\ y[1] \in {"ENV_READY", "ENV_FAILED"} /\ y[2] = x[2] + 1

\* learner_activity_state shows the verdict the row carries: an evaluation
\* that lost the version race never reaches it, and nothing but a late answer
\* of provision() takes the row out of its verdict afterwards.
ActivityStateIsVerdict ==
  \A a \in Attempts :
    activityState[a] # "none" => row[a].status = activityState[a] \/ Unsettled(a)

=============================================================================
