# A TLA+ model of the hands-on practice platform

The platform runs guided labs, simulations and projects for learners. Its two
services share no code and no tables: **practice-core** (TypeScript, NestJS,
Postgres) owns attempts, events, scores and mastery; the **orchestrator** (Go)
owns environments: Kubernetes namespaces, warm pods and, for projects, sandbox
cloud accounts. They meet in a gRPC API (`contracts/orchestrator.proto`) and in
one NATS subject, `env.telemetry.ENV_DESTROYED`. A browser
client (**web**) polls practice-core, and scripts beside it seed skills and
curricula, publish content and check labs in CI. Hardly anything holds a lock
across two statements, so what keeps the system right is a version column,
guarded updates, the order of writes and a few background loops. That is what
this project models.

## Inventory

| component | state | operations | talks to | hard because | correct when |
|---|---|---|---|---|---|
| attempt lifecycle (`attempt.service.ts`, `attempt.repository.ts`) | `attempt.attempt`: status, version, environment_id | create, reactivate, provision, markStarted, submit, cache, handleEnvironmentDestroyed | event store, orchestrator RPCs, evaluation, NATS | each handler awaits between its read and its guarded write | one environment (not held), one score per submit, a verdict is not undone by a teardown |
| eligibility | none (counts rows) | check | attempt table, mastery | checked before the row it would count exists | prerequisites and cooldown gate what is started |
| evaluation | attempt_score, learner_activity_state, mastery | evaluate | validators, mastery, attempt row | five writes, no transaction, the guard comes late | what it shows agrees with the row |
| event store, replay, hints, scoring | attempt_events, its projections, penalties, signals | append, reveal, guidedFallback, checkWork, rebuild, score | every writer | append, projection and counter are separate writes; rebuild replaces rows from an older read | counters agree with the log, the ladder is climbed in order, a score is fair |
| ENV_DESTROYED and COMMAND_EXECUTED consumers | none | one message at a time | attempt service, signals | at-most-once delivery, exceptions drop the message | a dead environment frees its slot, a signal counts logged commands |
| mastery, Elo, BKT, cooldown, recommendation | skill_mastery, evidence, difficulty, cooldowns | recordEloMatch, recordEvidence, settle, recommend | evaluation | row locks taken in different orders, rows that do not exist yet | no match is lost, evidence explains mastery, struggle is answered |
| projects, defence | milestones, submissions, scores, an in-memory question queue | seed, submit, gate, roll up, viva | orchestrator, LLM | unguarded updates, two submissions gated at once, a queue a restart forgets | milestones open in order, the final score is complete, one score per viva |
| mentor, LLM gateway, authoring assistant | ledger, breaker, prompt cache (memory) | reply, draft, call | providers, event store | check before and charge after an await; answers shared through a cache | spend is bounded and recorded, nothing above the ceiling is shown, a question ends |
| catalog, review, seeding scripts | activity versions, skills, edges, closure, courses, topics | draft, review, publish, seed | eligibility, web | reads and writes of a transaction are apart; scripts are killed and repeated | published is frozen and was approved, racing reviews conflict (not held), the catalog is honest |
| validators, graders, content CI | validation runs, grades, environments of CI | run, retry, grade, checkActivity | orchestrator shell, LLM | a timed-out execution goes on; the workspace changes under the checks | a verdict rests on what was read; CI leaves nothing behind |
| web: attempt page | cached attempt, terminal chains, editor, hint preview | poll, click, connect, save, reveal | practice-core, WS gateway | late answers to panes that are gone, stale caches | one terminal, no file gets another one's text, costs are asked for, waits end |
| orchestrator server, destroyer | env.environment | Provision, Destroy, Snapshot, Restore | k8s, reaper, NATS | several teardown callers, early return | every teardown is announced once |
| reaper, orphan sweep, idle detector, warm pool, cost meter | Redis deadlines, maps, warm list | sweep, tick, claim, fill | destroyer | clocks, stale readings, shared entries | no live environment is reaped, no dead one is claimed |
| account pool (`accountpool`) | env.cloud_account, a Redis set | Claim, ReclaimForAttempt, Release, quarantine, Filler.tick | AWS, T3 driver | a nuke takes half an hour, and processes restart inside it | an account changes hands through the pool alone, a quarantine is held (not held), the pool heals |
| nightly sweeper (`cloudnuke`) | none (a list) | sweepOnce | account pool's table | its list is hours old, its update has no guard | what it quarantines stays quarantined (not held) |
| T3 driver, snapshot/restore, credential broker, budget enforcer | brokers, `acted` | Provision, Destroy, Restore, HandleBreach | account pool | order of pod, row, broker and release | a teardown frees the account of its own attempt (not held) |
| analytics, privacy, experiments, auth, other pages, content, infra | - | queries, UI, data | - | - | not modelled |

`PROJECT.json` lists the hazards at their lines; the properties below are aimed
at them.

## Modules

Which module composes which:

```
MilestoneLadder <= Project          (refinement)      MCProject
Scoring -> TaskRecord                                 MCTaskRecord
SkillModel -> Mastery -> Recommendation               MCMastery
Disclosure -> Mentor                                  MCMentor
Catalog -> ContentScripts                             MCContent
Checks -> ValidatorRunner \
          Grader, ContentCi  -> Validation            MCValidation
AttemptPage -> WorkspaceTerminal, WorkspaceEditor, HintPanel -> Client   MCClient
AttemptLifecycle                                      MCAttempt
AccountPool                                           MCAccountPool
```

In every module an action is the stretch of a handler between two awaits, or one
SQL statement or transaction where the database interleaves them; an operator
named like a function of the code models that function. Operators whose names
end in `_bug` are the plausible mistakes the properties are tried against.

### `AttemptLifecycle`

One action per stretch of a handler between two awaits. A handler (`proc[h]`)
holds what its TypeScript closure holds: the attempt, the version it read, the
environment it was given, the submit it evaluates, the verdict it computed.

| model | code |
|---|---|
| `row` | the attempt row; `Transition` is `AttemptRepository.transition`, with `Matches` its WHERE clause; a mismatch ends the request (ConflictException) |
| `log` | attempt_events; each event is tagged with the row version its handler had read, which ties it to one transition |
| `CreateCheck`, `CreateRow`, `CreateEvent` | createAttempt: eligibility, the row (an existing row is returned for the same idempotency key), ATTEMPT_CREATED |
| `ReactivateRead/Commit`, `ProvisionRead/Commit`, `Orchestrator*`, `ProvisionReread`, `ProvisionFinish` | POST /provision: reactivate(), then provision() |
| `MarkStarted*`, `Submit*`, `Evaluate*`, `SubmitDestroy` | markStarted; submit with evaluate() inside it and the teardown request after it |
| `CacheRead/Commit` | the cache sweep |
| `DestroyCheck`, `DestroyPublish` | the orchestrator's Destroyer for any caller: existence check, then delete and publish |
| `ConsumerRead/Commit` | handleEnvironmentDestroyed, one message at a time |
| `AbortRequest`, `LoseMessage` | a request that throws or dies; a message published while nobody listens |

Abstractions: a read and the append right after it are one step (the append only
touches the log); the score is a free choice between PASSED and FAILED; every
attempt is of another activity, so `activityState` is indexed by attempt; an
attempt stands for its idempotency key.

With the orchestrator of this repository PROVISION_FAILED is never answered (the
server returns READY or an error), but the client maps it and provision()
handles it, so the model keeps it. An RPC that throws, having launched the
environment or not, ends the request and leaves the row in PROVISIONING; a
teardown may come before provision() returns, and any number of callers may
announce one environment (`killers`).

### `AccountPool`

The pool of one region, one step per SQL or Redis statement. `acct` is
env.cloud_account, `avail` the Redis set. `claim[a]` is the Claim or Restore an
attempt is in, `rel[r]` a running Release of the attempt's failed claim, of its
teardown, or of the Filler; `home[a]` the account named by the attempt's
environment row and snapshot, which is never cleared; `ending` remembers that a
teardown of the pod has begun, over restarts. Provision and Restore start the pod
(`StartPod`), then work in it, for minutes in a Restore (`applying`), and only then
write the row (`WriteRow`): in between, a Destroy reads the account of before and
releases it, whoever holds it. A Provision that fails takes its pod down and
releases (`ProvisionFails`); a Restore that fails leaves the account held, a pod
that is up, and the old row (`RestoreFails`). Releases of one account may overlap,
the sweeper, the reaper on cloud environments and the budget enforcer always run,
and the process may restart anywhere.

Abstractions: one region; database and Redis errors end a call as a restart
does; every environment of an attempt after its first is a Restore; at most one
Release per caller at a time; AWS calls of Claim are one step that succeeds or
rolls back; what is in an account, and who still has credentials for it, is left
out: a nuke verifies or does not.

### `Project` and `MilestoneLadder`

`MilestoneLadder` says what the gates promise whoever submits what and when:
milestones open one by one and from the bottom, none is locked again, a project
is scored only when all are open. `Project` implements it with `open` the
milestones that are not LOCKED and `scored` whether an attempt_score row exists
(`ClimbsTheLadder`). Its rows are `ms` (project_milestone_state), `subs`
(project_submission, keyed by milestone and attempt number), `scores`, `envId`
and `live`; `req[h]` is what a handler of submitMilestone, listMilestones,
startViva or postMessage holds; `viva` is the question queue, which lives in
memory and which `Restart` forgets. Gate answers (validators passing, rubric
level) and the number of questions are free choices. Scores are integers in
ten-thousandths, as round4 leaves them, and `rollup` is the exact quotient the
code computes in floating point. `scores` keeps the components a roll-up read,
so that `FinalIsComplete` can speak of them.

### `Scoring` and `TaskRecord`

`Scoring` is the arithmetic: criteria, penalties, bonus, floor, in exact
fractions of a percent. `TaskRecord` is one attempt's event log with everybody who writes it:
reveal and guidedFallback (event, then charge or flag), checkWork and evaluate
(one TASK_ event per task, then a rebuild that reads the log and replaces the
rows later), the COMMAND_EXECUTED consumer (event, then counters), artifacts.
Validator answers are what three tries may leave. The score row keeps the input
it was computed from (`in`), so `ScoreIsFair` compares it with the same work
without hints, resets, retries and violations.

### `SkillModel`, `Mastery`, `Recommendation`

`SkillModel` has BKT, Elo, the review calendar and the prerequisite closure as
operators over integers (thousandths, percent, hours). `Mastery` interleaves
evaluations statement by statement: `locks` are the row locks PostgreSQL holds
until commit, `LockLearner` finds nothing to lock when the row does not exist,
and the upsert that follows takes the row after the activity's.
`played`, `seeded` and `remediated` are history. `Recommendation` only reads these
tables, failures of the last thirty days among them: `recommend` gives the lists its filter, weights and unstable cut may
return, and the property quantifies over them in every state Mastery reaches.

### `Disclosure` and `Mentor`

A text is the set of revealing things in it, by how they are written: code blocks
of several lengths, commands in the forms that the guardrail's patterns find, in
the forms they do not (a second command in the prose of a line, one of two words,
one of a tool that is not listed), names the learner typed after the kind of the
resource, and other names. `Disclosure` resolves the ceiling of a message and what
the guardrail lets through. `Mentor` has the calls in flight
with the shared ledger, the breaker, the prompt cache and the failover over the
providers. The cache is a set of at most MAX_ENTRIES entries, each with its place
(`at`) in the Map's insertion order, which an exact hit and a put renew. `billed`
and `logged` are what was charged and what the AI_MESSAGE events say, by attempt
and handler. Days and months are the ledger's periods, one and two
ticks.

### `Catalog` and `ContentScripts`

`Catalog` has versions of activities in several tenants, drafted, reviewed and
published by admins whose read and write are two steps; the database trigger
that freezes published versions is part of `transitionVersionStatus`.
`ContentScripts` adds the scripts, one statement at a time, alone, killed
anywhere (`Killed`) and run again in any order. What a learner sees is
`listSkillDrivenCatalog`, with its three left joins, and `getCourseTree`.

### `Checks`, `ValidatorRunner`, `Grader`, `ContentCi`, `Validation`

`Checks` has each executor as the commands it runs (`Program`) and the status it
draws from what they answered so far; the read-only calls of one cloud check are
one command. `ValidatorRunner` runs them: `execs` are the executions by run and
attempt, also those a timeout has given up, `bad` the aspects of the
workspace that are wrong now, `world` what commands leave behind (reports,
summaries, chaos). A command takes as long as it likes: `execs[k].saw` are the
states of the work since the present command of an execution began, it may judge
any of them, and it leaves its report when it ends, also if it was given up long
before. `run.seen` are the states of `bad` during this run and those that the
executions still going on when it began have met. A command that the platform
could not run leaves nothing, and the exit code of a suite follows its pass rate. `Grader` is
the choice of a backend, the samples and their reconciliation; `ContentCi` the
stages of one lab. `Validation` takes one of the three at a time, because each has
an environment of its own.

### `AttemptPage`, `WorkspaceTerminal`, `WorkspaceEditor`, `HintPanel`, `Client`

`AttemptPage` is the attempt in the query cache (`view`), the fetch that may be
under way, the button calls (`calls`, with where the page that sent them is now)
and the row at the server (`status`), which moves by itself (`Elsewhere`). The
three panes come and go with the status shown, counted by `mounts`: the
terminal's chains of connect, socket and reconnect timer; the editor with its
reads, writes, what it has cached and the content Monaco was mounted with (`held`
is history: the contents a file has had); the hint panel with its cached previews. `Client` puts one pane at a time
beside the page; the panes share nothing with each other.

The `MC` modules add the constants and symmetry sets for TLC.

## Runs

| run | properties | bounds | distinct states |
|---|---|---|---|
| `AttemptSafety` | TypeOK, RequestsAreLogged, ScoredOncePerSubmit, ActivityStateIsVerdict, DestroyNeverRegressesVerdict | 1 attempt, 2 requests, 2 environments, 2 background teardown callers, version up to 7, 1 abort or loss | 1.29M |
| `Pool` | NukingResolves, AvailableIsIndexed, ChangesHandsInThePool | 1 account, 1 attempt, 1 restart | 336k |
| `ProjectGates` | ClimbsTheLadder, UnlockIsRecorded, FinalIsComplete, OneScorePerViva | 2 milestones of 3 kinds of gate, 2 requests, 2 submissions started, 3 defence messages, 1 viva, 1 death or restart | 727k |
| `TaskRecord` | LadderInOrder, CountersMatchLog, RowIsTrueOfSomePast, ScoreIsFair | 1 task, 2 hint levels, 2 requests at once and 3 in all beside the submission, 1 command, 1 abort, both scoring profiles | 1.75M |
| `Mastery` | RatingCountsEveryMatch, EvidenceExplainsMastery, DeadlockNeedsFirstMatch, StruggleIsAnswered | 2 skills, 3 activities, 2 attempts evaluated at once, 1 abort, a learner with a row for one of the skills, two waits of 400 hours, a list of 1 | 1.05M |
| `Mentor` | SpendIsAccounted, ShownWithinCeiling, EveryQuestionEnds | 2 callers, 2 providers, 3 questions, a cache of 1, limits of 3 to 6, texts that give nothing or everything away, 1 failed append | 295k |
| `Content` | CatalogIsHonest, SeededMeansGated, PublishedWasApproved | 2 tenants, 1 activity in 2 versions, 2 admins, 2 seeds that depend on each other | 1.37M |
| `Validation` | VerdictIsEarned, GradeIsHonest, CiRunIsSound | 16 validators, 2 runs of 2 attempts, 1 edit, 2 late executions at once; 3 flake runs; sample counts 0, 2, 9 and NaN | 497k |
| `Client` | OneTerminal, SavedIsSaved, CostIsAskedFor, WaitsEnd | 4 moves of the server, 1 lost answer or reload, 1 visit elsewhere, 2 files, 2 edits, 2 hints | 716k |
| `SecondEnvironment` | OneEnvironmentPerAttempt, violated | 1 attempt, 1 request at a time, 3 environments, 2 background teardown callers | - |
| `QuarantineReturns` | QuarantineIsHeld, violated | 1 account, 1 attempt, no restart | - |
| `RacingReview` | RacesConflict, violated | 1 activity in 1 version, 2 admins | - |

Why the bounds are enough for the cases of interest:

- version 7 allows an attempt to be provisioned, started, submitted and scored,
  or suspended, resumed and ready again; two requests and the consumer are
  three writers on one row, and two teardown callers announce one environment
  twice; the cases beyond are covered by the theorems;
- one attempt and one account have every step of the pool and its healing, and an
  attempt that meets its own stale entry, row, release or sweep; what several
  attempts do to one account is covered by HandsChangeInThePool, which is
  inductive for any number of both;
- two milestones have the one that opens another and the last one; two
  requests meet at every unguarded write; the death falls between any two steps;
- three requests on two hint levels allow a level to be revealed twice and the
  ladder to be exhausted while a check rebuilds from a stale read;
- two evaluations are all that a lost update, a lost evidence or a deadlock on the
  rows of two skills needs; the deadlock that the code does have, on a first match,
  needs a third, which has written the row meanwhile: it is excepted by name, and
  the theorem covers it; the skill with a row is matched by two activities, the one
  without by the first match of a third;
- two callers pass a limit together that none passes alone, and a cache of one
  entry is filled by one of them and read by the other;
- two versions have a published one while the next is drafted, and two admins
  decide on one draft with stale reads;
- two attempts in two runs leave executions behind in their own run and in the
  next, two at once; `Window` and the flake runs are lengths of loops whose rounds are alike;
- four moves of the server take the terminal through suspend and resume; the
  other parts have one (`Beside`), because they need one remount, and the editor
  is remounted by the visit elsewhere, beside which the server rests;
- a wait of 400 hours twice passes the thirty days of the struggle, and a list of
  one is full with one candidate.

Runs say CHECK_DEADLOCK FALSE because a bound is reached, or everything asked for
is done, and nothing has to follow. The pool never stops, and is checked.

No run switches a behaviour of the code off; where the code does not do what is
said of it, the property says less, by name, or the run expects a violation.
Two attempts of one learner can also both pass the quota check before either
provisions.

Properties name the places they except, each of which is a behaviour of the code:
`RequestsAreLogged` (creation and teardowns), `ActivityStateIsVerdict` (`Unsettled`:
provision() answered late), `VerdictIsEarned` (`Blind` and `Harsh`: a scanner or load
test that did not run, a report of an earlier run, a policy that could not be read, a
load test or probe beside another execution), `CiRunIsSound` (an ERROR that hides a
vacuous validator, an environment that never became READY), `SavedIsSaved` (what is
typed while a save runs), `CostIsAskedFor` (a remount, a lost answer or a second tab
makes the price stale) and `WaitsEnd` (a lost answer to a submission is noticed only
at the next focus or reload).

### Disagreements between the code and what is said of it

Three runs expect a violation, and `PROJECT.json` lists what they find:

| run | said | what TLC finds |
|---|---|---|
| `SecondEnvironment` | attempt.service.ts:629, "repeated clicks never spawn a second environment" | handleEnvironmentDestroyed does not look at environment_id: a second ENV_DESTROYED of an old environment suspends an attempt that is provisioning or has a new one, and the next click starts another |
| `QuarantineReturns` | contracts/events.md:74, a quarantined account is "held for human review, never returned to the pool" | a claim fails after the sweeper has quarantined its account, and rollbackClaim writes NUKING over the quarantine; a Release may then free it |
| `RacingReview` | catalog.repository.ts:213, a stale transition "fails with a conflict rather than silently applying anyway" | the status is read without a lock and the update asks for the id alone: an approval is written over a rejection, and a publication over that |

Three more properties are defined in their modules and not held. To see the
behaviour, take the cfg, change what is named, and add the property.

| cfg, change | property | what TLC finds |
|---|---|---|
| `ProjectGates`, `Keys <- ThreeKeys`, `Requests = {h1}`, `Envs = {e1, e2}`, `Levels = {4}`, `Questions = {1}`, `Specs <- GradedOrNot`, `MaxSubmits = 4`, no turns, vivas or deaths | LearnerCanIterate | project.service.ts:584 keeps "an environment available so the learner can iterate", but after a suspend the row keeps environment_id and nothing is provisioned |
| `Mastery`, `MaxAborts = 0` | NoMatchIsLost | FOR UPDATE locks nothing for a learner's first match of a skill; of two, the upsert keeps one (mastery.service.ts:75 says the lock "serialises concurrent matches") |
| `Mentor`, `Handlers = {h1}`, `MaxQuestions = 1`, `MaxNow = 0`, `MaxDeaths = 0` | CommandsNeedHints | disclosure-policy.ts:99, "GiveCommand only after hint level 3": low mastery and ten minutes without progress raise the ceiling without a hint |

And these follow from steps of the models; no property claims the contrary:

- *Attempts*. "Every state transition is (a) event-sourced first"
  (attempt.service.ts:41), but handleEnvironmentDestroyed appends no event and
  createAttempt inserts the row before ATTEMPT_CREATED. A Provision RPC that
  throws (:218) leaves the attempt in PROVISIONING, which no click leaves. A
  provision() that is answered late reads only the version again (:231), so its
  READY replaces whatever the row says by then, a verdict included. A teardown
  during evaluate() leaves the score of an attempt that is then resumed, and a
  version conflict drops an ENV_DESTROYED for good, so that the slot stays taken.
- *Task records*. "Pass state is sticky once achieved within an attempt"
  (replay.service.ts:101) holds of one fold; a rebuild from a stale read
  (:134) puts a PASSED row back to FAILED until the next rebuild.
- *Account pool*. Two attempts may work in one account, though "two concurrent
  Provision(tier=T3) calls never receive the same account"
  (accountpool.go:8): a Release that the Filler repeats while the first still
  nukes, a Destroy in the window in which a Restore has a new account and the row
  the old one, or one repeated after a restart, frees an account that somebody
  else has claimed since; a breach while a Restore re-arms does so too. Nukes,
  those of the sweeper's old list included, then hit an account in service. A
  crash inside Claim leaves the account IN_USE, which neither "Filler / the
  sweeper" (accountpool.go:166) look at. Credentials work for up to an hour after
  their broker stopped (t3driver.go:230, cloudbudget.go:114) and the pod is deleted
  after the release, so what is AVAILABLE need not stay clean. cloudbudget.go:123
  says ResetActed is "called when an account is released back to the pool", but
  only a test calls it: the second breach of an account is ignored.
- *Mentor*. The guardrail's pattern for commands in prose is not global and wants
  three words of a listed tool (output-guardrail.ts:93), and names come only from
  "pod x"-like pieces of the last thirty commands (mentor.service.ts:275): other
  forms are shown whatever the ceiling.
- *Recommendation*. Offers are merged by raw score before the weights of their
  sources apply, so another source may take a remediation candidate over and
  weigh it less, and a list of three or eight may be full of UNBLOCKING ones.
- *Validators*. A command that was given up writes its report when it ends, under a
  fixed name, where the next run reads it: a verdict may be about work that the
  learner has mended, or broken, since. Two load tests at once slow each other.
- *Grader*. "Malformed output is retried then escalated" (ai-grader.interface.ts:27),
  but a sample that parseAndValidate refuses is thrown out of grade()
  (claude-ai-grader.service.ts:129), with the samples before it: nothing is retried.
- *Editor*. A file that is opened again shows what was cached of it, under
  "Saved", also after a save of it or the shell has changed the file: Monaco takes
  its defaultValue once. Text typed while a save runs is shown as saved.

### Fairness

`AccountPool`: goroutines run, and the tickers of the sweeper and of the Filler fire.
The Filler is started only where ACCOUNT_POOL_TARGETS names a region
(cloudlifecycle.go:118, empty by default), so the two liveness properties of the
pool are about such a deployment. Nobody has to ask for an
environment, end one, or clear a quarantine. `Mentor`: a call in flight goes on;
the SDKs of the providers end every request with an answer or a timeout.
`Client`: the poll timer fires, a request that is under way and its answer arrive
(or are lost, which is a step too), the callback of an answered submission runs,
and so do the terminal's timers and connects. Clicks, the focus and moves of the
server need not happen. Weak fairness suffices: no step in flight is ever
disabled for good by another process, only delayed. The other modules state no
liveness and assume no fairness.

## Proofs

A theorem holds for every value of the constants: any number of requests,
attempts, accounts, tasks, milestones or seeds, every bound, every length of the
logs. Each `*_proofs` module extends the module it is about.

| module | theorem | states | inductive invariant |
|---|---|---|---|
| `AttemptLifecycle_proofs` | TypeCorrect, DestroySafe, ScoredOnce, RequestsLogged, ActivityShowsVerdict | TypeOK, DestroyNeverRegressesVerdict, ScoredOncePerSubmit, RequestsAreLogged, ActivityStateIsVerdict | `Typed`, `ConsumerFresh`, `ScoreInv`, `EventInv`, `VerdictInv` |
| `Project_proofs` | SubmissionsOnOpenMilestones, GatesImplementLadder, UnlocksAreRecorded, VivasScoredOnce, ScoresAreComplete | LadderInv, ClimbsTheLadder, UnlockIsRecorded, OneScorePerViva, FinalIsComplete | `LadderInv`, `RecordInv`, `VivaInv`, `CompleteInv` |
| `AccountPool_proofs` | PoolTypes, HandsChangeInThePool | TypeOK, ChangesHandsInThePool | `Named`, `PoolIsUnheld` |
| `TaskRecord_proofs` | LaddersInOrder, RowsAreTrueOfSomePast, CountersFollowLog, ScoresAreFair | LadderInOrder, RowIsTrueOfSomePast, CountersMatchLog, ScoreIsFair | `RecordInv`, `CountInv`, `ScoreInv` |
| `Mastery_proofs` | DeadlocksNeedFirstMatch, RatingsCountEveryMatch, EvidenceExplains, CooldownsAreEarned, StrugglesAreAnswered | DeadlockNeedsFirstMatch, RatingCountsEveryMatch, EvidenceExplainsMastery, CooldownIsEarned, StruggleIsAnswered | `TableInv`, `LockInv`, `EvidenceInv`, `CooldownInv` |
| `Content_proofs` | PublishedWereApproved, CatalogsAreHonest, SeededIsGated, CiSound, VerdictsAreEarned | PublishedWasApproved, CatalogIsHonest, SeededMeansGated, CiRunIsSound, VerdictIsEarned | `ReviewInv`, `ScriptInv`, `CourseInv`, `SeedInv`, `CiInv`, `RunnerInv` |
| `Llm_proofs` | ShownSafe, SpendSafe, GradesHonest | ShownWithinCeiling, SpendIsAccounted, GradeIsHonest | `PromptInv`, `SpendInv`, `GradeInv` |
| `Client_proofs` | TerminalIsOne, SavedIsTrue, CostsAreAskedFor | OneTerminal, SavedIsSaved, CostIsAskedFor | `TerminalInv`, `EditorInv`, `HintInv` |

The arguments:

- *Attempt lifecycle*. TypeOK lacks one fact, that a busy process works on an
  attempt and a live environment has an owner; `Typed` adds it. DestroySafe
  speaks of a commit whose decision was taken at the read: `ConsumerFresh` says
  that while the row still has the version the consumer read, its status is one
  the handler does not ignore, and every other writer raises the version.
  ScoredOnce: `ScoreInv` says that no two handlers evaluate the same version and
  that a handler yet to score finds no score for it. RequestsLogged: `EventInv`
  says that a handler about to commit has put the event of the version it read
  into the log. ActivityShowsVerdict: `VerdictInv` says of
  every handler about to commit what the row still is if it has the version that
  was read (`FreshAt`), so that on a row with a verdict only the write of a late
  provision() still matches, and that one has left its ENV_READY or ENV_FAILED
  right behind the verdict's event, which is `Unsettled`.
- *Projects*. A submission checks its milestone once and unlocks the next one
  several awaits later, without a guard. `Climbed` says why that is safe: what is
  open stays open and is a prefix, so the milestone a submission is on is still
  open when it opens the next. This is also the step simulation of
  GatesImplementLadder, a refinement (`INSTANCE MilestoneLadder WITH`). A row of
  project_submission belongs to one request until it is stamped (`SubsInv`);
  what has a score, or will get it, is closed (`VivaInv`); the milestones below
  an open one have scores (`ScoreInv`), so the roll-up finds them all.
- *Account pool*. `Named`: whatever is under way works on an account that exists.
  `PoolIsUnheld`: a row that is AVAILABLE has no holder. The updates that hand an
  account out ask for AVAILABLE in the same statement, the only updates that clear
  the holder make the row AVAILABLE, and those without a guard (rollbackClaim,
  both quarantines) leave the holder alone; so the property holds through stale
  indexes, overlapping releases, sweeps, breaches and restarts. It is about the
  table: who still works in an account is another matter (see the disagreements).
- *Task records*. The log explains everything. `RecordInv`: every level up to
  that of a row, and below that of a request under way, is in the log; every row,
  and every row a rebuild is about to write, is true of some prefix of the log.
  That deriveTaskState makes such rows is the lemma `DerivedIsTrue`, for logs of
  any length. `CountInv` is CountersMatchLog over sums: an event that is not
  paid for yet is owed by exactly one handler. ScoresAreFair is arithmetic
  (`FinalIsMonotone`, `FinalIsGuarded`) over inputs that `ScoreInv` shows
  complete and typed: every task has its results when the engine runs.
- *Mastery*. `LockInv` says who can hold a row lock and that what was read under
  it is still there, hence no lost match; a waiting cycle then needs a match that
  found no row to lock. `EvidenceInv` adds that a skill without a row has no
  evidence, so that the upsert starts at one. `CooldownInv`: whoever is about to
  clear the cooldowns of sibling activities has passed one of them for good.
  StrugglesAreAnswered needs no invariant: the merge never drops an activity, and
  what the filter lets through is missing only from a full list of candidates
  that weigh at least as much (`ListedOrOutweighed`), for every Limit.
- *Content*. `ReviewInv`: what is APPROVED, or about to be published by a request
  on a stale read, has been approved at some time. `CourseInv`: there is one course and every
  binding leads to it. `SeedInv`: a seed under way has all it has come to, and
  those that ran to their end have their edges within what they could see.
  `CiInv` follows one lab through its stages: what each has established so far,
  and that an environment is live only between Provision and Destroy.
- *Validators*. The log of an execution is what the runner judges. `Tells` says
  what each answer reveals of the work at some moment of the run; `LogInv` adds
  what the files and the chaos in the shared workspace reveal, since an
  execution that was given up writes into them too. For each of the executors a
  lemma (`IacJudged`, `CloudJudged`, `StaticJudged`, `TestJudged`, `PerfJudged`,
  `ChaosJudged`, `GrpcJudged`) shows that a status drawn from such a log is
  earned. `RunnerInv` carries `LogInv` through commands of this and of other
  executions, edits, timeouts and retries: without `crowded` no other execution
  is active, and the attempts to come have empty logs; what the present command of
  any execution has met is part of what the run has seen, so a report that arrives
  late tells of one of those states.
- *Mentor and grader*. `PromptInv`: what a request, a reply or a cache entry
  holds never exceeds what its prompt was allowed, and entries are served only
  for the same system prompt. `SpendInv`: the property
  is inductive once the counters and costs are typed; its count of the requests in
  flight is what makes it so: a request that passes the check adds one where the
  counter leaves room for it, and a charge moves one reply from the flight to the
  counter. `GradeInv`: at least one sample is asked for, and each one kept has a
  level of the rubric for every criterion.
- *Client*. `TerminalInv`: one chain per mount, and sockets only in the current
  one. `EditorInv`: while a save of this pane runs, the editor is dirty and shows
  what is written, or something was typed since; and what was read, cached,
  mounted or written is a content that the file has had (`EditorHeld`). `HintInv`: an undisturbed panel
  is level with the server, and a preview under way is that of the key shown.

The proofs assume the ASSUMEs of the modules, which TLC evaluates in every run:
finite sets of requests, tasks and paths, costs and weights that are natural
numbers, activities and edges over declared skills, seeds whose edges link two
skills, profiles of the shape `IsProfile`, validators of the shape `IsValidator`,
at least one provider and limits that admit one estimate, a rubric with levels,
a finite catalog.
They are what the tables, the types and the seed data of the code provide. No
theorem has a hypothesis beside them.

The provers cannot instantiate the library's induction rules, but a smallest
counterexample can be picked: `LeastNatural` (every non-empty set of naturals
has a least element) carries the inductions over logs and over finite sums.

Only model-checked:

- the liveness properties (fairness and ENABLED are out of the prover's reach);
- the numbers themselves: that cooldown and decay double and halve (powers are
  not supported by the solver) is evaluated in `MCMastery` and by the runs.

## Plan

1. *Environment*: the Destroyer's steps (delete, row, unregister, publish), the
   reaper and orphan sweep with their Redis deadlines, the idle detector, the
   warm pool. Abstract specification: every environment goes from live to gone
   once and is announced. Then a composition in which the attempt lifecycle
   sees that module's messages.
2. *Project* composed with `AccountPool`: suspend and resume through Snapshot and
   Restore.

## Not modelled

The warm pool, the cost meter and the clocks of reaper and idle detector (see
the plan); session streams and recordings (byte streams; their client is
`WorkspaceTerminal`); fixtures and fault injection (they run commands in a
cluster and keep no state of their own); the git hosting client (nothing writes a
repo_ref, so no project reaches it); what language models answer (free choices);
analytics, privacy, experiments and authentication (queries, single-statement
writes and token checks); the read-only pages of the web client; content and
infrastructure files.
