----------------------- MODULE AttemptLifecycle_proofs -----------------------
(***************************************************************************)
(* Proofs about AttemptLifecycle, for any attempts, handlers, environments *)
(* and, up to the last section, any teardown callers.  Most rest on one    *)
(* fact about the versioned row: a row that changes gets a larger version, *)
(* so a version that still matches is a row that did not move.             *)
(***************************************************************************)
EXTENDS AttemptLifecycle, TLAPS

-----------------------------------------------------------------------------
\* Type correctness.

\* A process at work names an attempt, and so does an environment that is
\* running, being torn down or announced as destroyed.
ProcTyped ==
  /\ proc \in [Handlers -> ProcType]
  /\ \A h \in Handlers : proc[h].pc # "idle" => proc[h].a \in Attempts

ConsumerTyped == consumer \in ConsumerType /\ (consumer.busy => consumer.a \in Attempts)

EnvTyped ==
  /\ env \in [Envs -> EnvType]
  /\ killers \in [Envs -> SUBSET Reasons]
  /\ msgs \subseteq [env : Envs, reason : Reasons]
  /\ \A e \in Envs : env[e].phase = "live" \/ killers[e] # {} => env[e].owner \in Attempts
  /\ \A m \in msgs : env[m.env].owner \in Attempts

RowTyped == row \in [Attempts -> RowType]

LogTyped == log \in [Attempts -> SUBSET (Events \X Nat)]

TablesTyped ==
  /\ scores \in [Attempts -> Seq(Nat)]
  /\ activityState \in [Attempts -> Verdicts \union {"none"}]
  /\ aborts \in Nat

Typed == RowTyped /\ LogTyped /\ TablesTyped /\ EnvTyped /\ ProcTyped /\ ConsumerTyped

LEMMA TypedImpliesTypeOK == Typed => TypeOK
  BY DEF Typed, TypeOK, RowTyped, LogTyped, TablesTyped, EnvTyped, ProcTyped, ConsumerTyped

LEMMA InitTyped == Init => Typed
<1> SUFFICES ASSUME Init PROVE Typed
  OBVIOUS
<1>1. Idle \in ProcType /\ Idle.pc = "idle"
  BY DEF Idle, ProcType, PCs, Verdicts
<1>2. Free \in ConsumerType /\ ~Free.busy
  BY DEF Free, ConsumerType, Reasons
<1>3. RowTyped /\ LogTyped /\ TablesTyped /\ EnvTyped
  BY DEF Init, RowTyped, RowType, LogTyped, TablesTyped, EnvTyped, EnvType, Statuses, Verdicts
<1>4. ProcTyped
  BY <1>1 DEF Init, ProcTyped
<1>5. ConsumerTyped
  BY <1>2 DEF Init, ConsumerTyped
<1>6. QED BY <1>3, <1>4, <1>5 DEF Typed

\* What each way of moving a handler does to the types.
LEMMA EnterTyped ==
  ASSUME Typed, NEW h \in Handlers, NEW a \in Attempts, NEW pc \in PCs, Enter(h, a, pc)
  PROVE  ProcTyped'
<1> DEFINE r == [Idle EXCEPT !.pc = pc, !.a = a, !.ver = row[a].version]
<1>1. r \in ProcType /\ r.a = a
  BY DEF Typed, RowTyped, RowType, Idle, ProcType, Verdicts
<1>2. QED BY <1>1 DEF Enter, Typed, ProcTyped

LEMMA ReturnTyped ==
  ASSUME Typed, NEW h \in Handlers, Return(h)
  PROVE  ProcTyped'
<1>1. Idle \in ProcType /\ Idle.pc = "idle"
  BY DEF Idle, ProcType, PCs, Verdicts
<1>2. QED BY <1>1 DEF Return, Typed, ProcTyped

LEMMA GotoTyped ==
  ASSUME Typed, NEW h \in Handlers, proc[h].pc # "idle", NEW pc \in PCs, Goto(h, pc)
  PROVE  ProcTyped'
BY DEF Goto, Typed, ProcTyped, ProcType

LEMMA AppendTyped ==
  ASSUME Typed, NEW a \in Attempts, NEW e \in Events, NEW v \in Nat, Append_(a, e, v)
  PROVE  LogTyped'
BY DEF Append_, Typed, LogTyped

\* The row after transition(); the handler's continuation is its business.
LEMMA TransitionRow ==
  ASSUME Typed, NEW h \in Handlers, proc[h].pc # "idle", NEW s \in Statuses,
         NEW e \in Envs \union {NoEnv}, NEW ACTION next, Transition(h, s, e, next)
  PROVE  RowTyped'
<1>1. proc[h].a \in Attempts /\ proc[h].ver + 1 \in Nat
  BY DEF Typed, ProcTyped, ProcType
<1>2. [status |-> s, version |-> proc[h].ver + 1, env |-> e] \in RowType
  BY <1>1 DEF RowType
<1>3. QED BY <1>1, <1>2 DEF Transition, Typed, RowTyped

\* A handler that is not idle works on an attempt of the right type.
LEMMA AtWork ==
  ASSUME Typed, NEW h \in Handlers, proc[h].pc # "idle"
  PROVE  /\ proc[h].a \in Attempts /\ proc[h].ver \in Nat /\ proc[h].sub \in Nat
         /\ proc[h].env \in Envs \union {NoEnv} /\ proc[h].verdict \in Verdicts
         /\ row[proc[h].a] \in RowType /\ row[proc[h].a].env \in Envs \union {NoEnv}
         /\ row[proc[h].a].version \in Nat
BY DEF Typed, ProcTyped, ProcType, RowTyped, RowType

LEMMA NewRequestTyped ==
  ASSUME Typed, NEW h \in Handlers, NEW a \in Attempts, NewRequest(h, a)
  PROVE  Typed'
<1>1. row[a].version \in Nat
  BY DEF Typed, RowTyped, RowType
<1>2. CASE CreateCheck(h, a)
  <2>1. ProcTyped'
    BY <1>2, EnterTyped DEF CreateCheck, PCs
  <2>2. QED BY <1>2, <2>1 DEF CreateCheck, Typed, RowTyped, LogTyped, TablesTyped, EnvTyped, ConsumerTyped
<1>3. CASE ReactivateRead(h, a)
  <2>1. ProcTyped'
    BY <1>3, EnterTyped DEF ReactivateRead, PCs
  <2>2. LogTyped'
    BY <1>1, <1>3, AppendTyped DEF ReactivateRead, Events, Typed, LogTyped
  <2>3. QED BY <1>3, <2>1, <2>2 DEF ReactivateRead, Typed, RowTyped, TablesTyped, EnvTyped, ConsumerTyped
<1>4. CASE MarkStartedRead(h, a)
  <2>1. ProcTyped'
    BY <1>4, EnterTyped DEF MarkStartedRead, PCs
  <2>2. LogTyped'
    BY <1>1, <1>4, AppendTyped DEF MarkStartedRead, Events
  <2>3. QED BY <1>4, <2>1, <2>2 DEF MarkStartedRead, Typed, RowTyped, TablesTyped, EnvTyped, ConsumerTyped
<1>5. CASE SubmitRead(h, a)
  <2>1. ProcTyped'
    BY <1>5, EnterTyped DEF SubmitRead, PCs
  <2>2. LogTyped'
    BY <1>1, <1>5, AppendTyped DEF SubmitRead, Events
  <2>3. QED BY <1>5, <2>1, <2>2 DEF SubmitRead, Typed, RowTyped, TablesTyped, EnvTyped, ConsumerTyped
<1>6. CASE CacheRead(h, a)
  <2>1. ProcTyped'
    BY <1>6, EnterTyped DEF CacheRead, PCs
  <2>2. LogTyped'
    BY <1>1, <1>6 DEF CacheRead, AppendBoth, Events, Typed, LogTyped
  <2>3. QED BY <1>6, <2>1, <2>2 DEF CacheRead, Typed, RowTyped, TablesTyped, EnvTyped, ConsumerTyped
<1>7. QED BY <1>2, <1>3, <1>4, <1>5, <1>6 DEF NewRequest

\* A handler that commits with transition() and touches nothing else.
LEMMA CommitTyped ==
  ASSUME Typed, NEW h \in Handlers, proc[h].pc # "idle", NEW s \in Statuses,
         NEW e \in Envs \union {NoEnv}, NEW ACTION next, next => ProcTyped',
         Transition(h, s, e, next),
         UNCHANGED <<log, scores, activityState, env, killers, msgs, consumer, aborts>>
  PROVE  Typed'
<1>1. RowTyped'
  BY TransitionRow
<1>2. ProcTyped'
  BY ReturnTyped DEF Transition
<1>3. QED BY <1>1, <1>2 DEF Typed, LogTyped, TablesTyped, EnvTyped, ConsumerTyped

LEMMA CreateTyped ==
  ASSUME Typed, NEW h \in Handlers, CreateRow(h) \/ CreateEvent(h)
  PROVE  Typed'
<1>1. CASE CreateRow(h)
  <2>1. proc[h].pc # "idle" /\ proc[h].a \in Attempts
    BY <1>1, AtWork DEF CreateRow, At
  <2>2. RowTyped'
    BY <1>1, <2>1 DEF CreateRow, Typed, RowTyped, RowType, Statuses
  <2>3. ProcTyped'
    BY <1>1, <2>1, GotoTyped DEF CreateRow, PCs
  <2>4. QED BY <1>1, <2>2, <2>3 DEF CreateRow, Typed, LogTyped, TablesTyped, EnvTyped, ConsumerTyped
<1>2. CASE CreateEvent(h)
  <2>1. proc[h].a \in Attempts
    BY <1>2, AtWork DEF CreateEvent, At
  <2>2. LogTyped'
    BY <1>2, <2>1, AppendTyped DEF CreateEvent, Events
  <2>3. ProcTyped'
    BY <1>2, ReturnTyped DEF CreateEvent
  <2>4. QED BY <1>2, <2>2, <2>3 DEF CreateEvent, Typed, RowTyped, TablesTyped, EnvTyped, ConsumerTyped
<1>3. QED BY <1>1, <1>2

LEMMA ProvisionReadTyped ==
  ASSUME Typed, NEW h \in Handlers, ProvisionRead(h) \/ ProvisionReread(h)
  PROVE  Typed'
<1>1. proc[h].pc # "idle"
  BY DEF ProvisionRead, ProvisionReread, At
<1>2. proc[h].a \in Attempts /\ row[proc[h].a].version \in Nat
  BY <1>1, AtWork
<1>3. CASE ProvisionRead(h)
  <2>1. ProcTyped'
    BY <1>2, <1>3, EnterTyped, ReturnTyped DEF ProvisionRead, PCs
  <2>2. LogTyped'
    BY <1>2, <1>3, AppendTyped DEF ProvisionRead, Events, Typed, LogTyped
  <2>3. QED BY <1>3, <2>1, <2>2 DEF ProvisionRead, Typed, RowTyped, TablesTyped, EnvTyped, ConsumerTyped
<1>4. CASE ProvisionReread(h)
  <2>1. ProcTyped'
    BY <1>2, <1>4 DEF ProvisionReread, At, Typed, ProcTyped, ProcType, PCs
  <2>2. LogTyped'
    BY <1>2, <1>4, AppendTyped DEF ProvisionReread, Events
  <2>3. QED BY <1>4, <2>1, <2>2 DEF ProvisionReread, Typed, RowTyped, TablesTyped, EnvTyped, ConsumerTyped
<1>5. QED BY <1>3, <1>4

LEMMA LaunchTyped ==
  ASSUME Typed, NEW h \in Handlers, proc[h].pc # "idle", NEW e \in Envs, Launch(h, e),
         UNCHANGED <<killers, msgs>>
  PROVE  EnvTyped'
<1>1. proc[h].a \in Attempts
  BY AtWork
<1>2. [phase |-> "live", owner |-> proc[h].a] \in EnvType
  BY <1>1 DEF EnvType
<1>3. env' \in [Envs -> EnvType] /\ killers' \in [Envs -> SUBSET Reasons]
      /\ msgs' \subseteq [env : Envs, reason : Reasons]
  BY <1>2 DEF Launch, Typed, EnvTyped
<1>4. \A x \in Envs : env'[x] = env[x] \/ env'[x].owner \in Attempts
  BY <1>1 DEF Launch, Typed, EnvTyped
<1>5. QED BY <1>3, <1>4 DEF Typed, EnvTyped

LEMMA OrchestratorTyped ==
  ASSUME Typed, NEW h \in Handlers,
         (\E e \in Envs : OrchestratorReady(h, e)) \/ OrchestratorNotReady(h) \/ OrchestratorError(h)
  PROVE  Typed'
<1>1. CASE \E e \in Envs : OrchestratorReady(h, e)
  <2>1. PICK e \in Envs : OrchestratorReady(h, e)
    BY <1>1
  <2>2. EnvTyped'
    BY <2>1, LaunchTyped DEF OrchestratorReady, At
  <2>3. ProcTyped'
    <3>1. "called" \in PCs /\ proc[h].pc # "idle"
      BY <2>1 DEF PCs, OrchestratorReady, At
    <3>2. proc' = [proc EXCEPT ![h].pc = "called", ![h].env = e]
      BY <2>1 DEF OrchestratorReady
    <3>3. QED BY <3>1, <3>2 DEF Typed, ProcTyped, ProcType
  <2>4. QED BY <2>1, <2>2, <2>3 DEF OrchestratorReady, Typed, RowTyped, LogTyped, TablesTyped, ConsumerTyped
<1>2. CASE OrchestratorNotReady(h)
  <2>1. ProcTyped'
    BY <1>2, GotoTyped DEF OrchestratorNotReady, At, PCs
  <2>2. QED BY <1>2, <2>1
          DEF OrchestratorNotReady, Typed, RowTyped, LogTyped, TablesTyped, EnvTyped, ConsumerTyped
<1>3. CASE OrchestratorError(h)
  <2>1. ProcTyped'
    BY <1>3, ReturnTyped DEF OrchestratorError
  <2>2. CASE UNCHANGED env
    BY <1>3, <2>1, <2>2
       DEF OrchestratorError, Typed, RowTyped, LogTyped, TablesTyped, EnvTyped, ConsumerTyped
  <2>3. CASE \E e \in Envs : Launch(h, e)
    <3>1. EnvTyped'
      BY <1>3, <2>3, LaunchTyped DEF OrchestratorError, At
    <3>2. QED BY <1>3, <2>1, <3>1
            DEF OrchestratorError, Typed, RowTyped, LogTyped, TablesTyped, ConsumerTyped
  <2>4. QED BY <1>3, <2>2, <2>3 DEF OrchestratorError
<1>4. QED BY <1>1, <1>2, <1>3

\* The handlers' commits: one transition() each.
LEMMA CommitsTyped ==
  ASSUME Typed, NEW h \in Handlers,
         \/ ReactivateCommit(h) \/ ProvisionCommit(h) \/ ProvisionFinish(h) \/ MarkStartedCommit(h)
         \/ SubmitCommit(h) \/ EvaluateCommit(h) \/ CacheCommit(h)
  PROVE  Typed'
<1>1. proc[h].pc # "idle"
  BY DEF ReactivateCommit, ProvisionCommit, ProvisionFinish, MarkStartedCommit, SubmitCommit,
         EvaluateCommit, CacheCommit, At
<1>2. /\ proc[h].a \in Attempts /\ proc[h].env \in Envs \union {NoEnv}
      /\ row[proc[h].a].env \in Envs \union {NoEnv} /\ proc[h].verdict \in Statuses
  BY <1>1, AtWork DEF Verdicts, Statuses
<1>3. Return(h) => ProcTyped'
  BY ReturnTyped
<1>4. /\ Goto(h, "provision") => ProcTyped'
      /\ Goto(h, "calling") => ProcTyped'
      /\ Goto(h, "state") => ProcTyped'
  BY <1>1, GotoTyped DEF PCs
<1>5. CASE ReactivateCommit(h)
  BY <1>1, <1>4, <1>5, CommitTyped DEF ReactivateCommit, Statuses
<1>6. CASE ProvisionCommit(h)
  BY <1>1, <1>2, <1>4, <1>6, CommitTyped DEF ProvisionCommit, Statuses
<1>7. CASE ProvisionFinish(h)
  BY <1>1, <1>2, <1>3, <1>7, CommitTyped DEF ProvisionFinish, Statuses
<1>8. CASE MarkStartedCommit(h)
  BY <1>1, <1>2, <1>3, <1>8, CommitTyped DEF MarkStartedCommit, Statuses
<1>9. CASE SubmitCommit(h)
  <2> DEFINE next == proc' = [proc EXCEPT ![h].pc = "evaluate", ![h].sub = proc[h].ver + 1]
  <2>1. next => ProcTyped'
    <3>1. "evaluate" \in PCs /\ proc[h].ver + 1 \in Nat
      BY <1>1, AtWork DEF PCs
    <3>2. HAVE next
    <3>3. proc' \in [Handlers -> ProcType]
      BY <3>1, <3>2 DEF Typed, ProcTyped, ProcType
    <3>4. \A k \in Handlers : proc'[k].a = proc[k].a /\ (k # h => proc'[k] = proc[k])
      BY <3>2 DEF Typed, ProcTyped, ProcType
    <3>5. QED BY <1>1, <3>3, <3>4 DEF Typed, ProcTyped
  <2>2. Transition(h, "SUBMITTED", row[proc[h].a].env, next)
    BY <1>9 DEF SubmitCommit
  <2> HIDE DEF next
  <2>3. QED BY <1>1, <1>2, <1>9, <2>1, <2>2, CommitTyped DEF SubmitCommit, Statuses
<1>10. CASE EvaluateCommit(h)
  BY <1>1, <1>2, <1>4, <1>10, CommitTyped DEF EvaluateCommit
<1>11. CASE CacheCommit(h)
  BY <1>1, <1>2, <1>3, <1>11, CommitTyped DEF CacheCommit, Statuses
<1>12. QED BY <1>5, <1>6, <1>7, <1>8, <1>9, <1>10, <1>11

LEMMA EvaluateTyped ==
  ASSUME Typed, NEW h \in Handlers,
         \/ EvaluateRead(h) \/ EvaluateScore(h) \/ EvaluateRecord(h) \/ EvaluateState(h)
         \/ SubmitDestroy(h)
  PROVE  Typed'
<1>1. proc[h].pc # "idle"
  BY DEF EvaluateRead, EvaluateScore, EvaluateRecord, EvaluateState, SubmitDestroy, At
<1>2. /\ proc[h].a \in Attempts /\ proc[h].ver \in Nat /\ proc[h].sub \in Nat
      /\ proc[h].verdict \in Verdicts /\ row[proc[h].a].version \in Nat
      /\ row[proc[h].a].env \in Envs \union {NoEnv}
  BY <1>1, AtWork
<1>3. CASE EvaluateRead(h)
  <2>1. ProcTyped'
    <3>1. CASE Return(h)
      BY <3>1, ReturnTyped
    <3>2. CASE proc' = [proc EXCEPT ![h].pc = "score", ![h].ver = row[proc[h].a].version]
      <4>1. "score" \in PCs
        BY DEF PCs
      <4>2. QED BY <1>1, <1>2, <3>2, <4>1, ZenonT(30) DEF Typed, ProcTyped, ProcType
    <3>3. QED BY <1>3, <3>1, <3>2 DEF EvaluateRead
  <2>2. QED BY <1>3, <2>1
          DEF EvaluateRead, Typed, RowTyped, LogTyped, TablesTyped, EnvTyped, ConsumerTyped
<1>4. CASE EvaluateScore(h)
  <2>1. ProcTyped'
    <3>1. PICK v \in Verdicts : proc' = [proc EXCEPT ![h].pc = "record", ![h].verdict = v]
      BY <1>4 DEF EvaluateScore
    <3>2. "record" \in PCs
      BY DEF PCs
    <3>3. QED BY <1>1, <3>1, <3>2 DEF Typed, ProcTyped, ProcType
  <2>2. TablesTyped'
    BY <1>2, <1>4 DEF EvaluateScore, Typed, TablesTyped
  <2>3. QED BY <1>4, <2>1, <2>2 DEF EvaluateScore, Typed, RowTyped, LogTyped, EnvTyped, ConsumerTyped
<1>5. CASE EvaluateRecord(h)
  <2>1. ProcTyped'
    BY <1>1, <1>5, GotoTyped DEF EvaluateRecord, PCs
  <2>2. LogTyped'
    BY <1>2, <1>5, AppendTyped DEF EvaluateRecord, Events
  <2>3. QED BY <1>5, <2>1, <2>2 DEF EvaluateRecord, Typed, RowTyped, TablesTyped, EnvTyped, ConsumerTyped
<1>6. CASE EvaluateState(h)
  <2>1. ProcTyped'
    BY <1>1, <1>6, GotoTyped DEF EvaluateState, PCs
  <2>2. TablesTyped'
    BY <1>2, <1>6 DEF EvaluateState, Typed, TablesTyped
  <2>3. QED BY <1>6, <2>1, <2>2 DEF EvaluateState, Typed, RowTyped, LogTyped, EnvTyped, ConsumerTyped
<1>7. CASE SubmitDestroy(h)
  <2>1. ProcTyped'
    BY <1>7, ReturnTyped DEF SubmitDestroy
  <2>2. EnvTyped'
    BY <1>2, <1>7 DEF SubmitDestroy, Typed, EnvTyped, Reasons
  <2>3. QED BY <1>7, <2>1, <2>2 DEF SubmitDestroy, Typed, RowTyped, LogTyped, TablesTyped, ConsumerTyped
<1>8. QED BY <1>3, <1>4, <1>5, <1>6, <1>7

LEMMA ContinueTyped ==
  ASSUME Typed, NEW h \in Handlers, Continue(h)
  PROVE  Typed'
BY CreateTyped, ProvisionReadTyped, OrchestratorTyped, CommitsTyped, EvaluateTyped DEF Continue

LEMMA TeardownTyped == Typed /\ Orchestrator => Typed'
<1> SUFFICES ASSUME Typed, NEW e \in Envs, NEW r \in Reasons,
                    (r \in Reapers /\ DestroyCheck(e, r)) \/ DestroyPublish(e, r)
             PROVE  Typed'
  BY DEF Orchestrator, Reasons
<1>1. CASE DestroyCheck(e, r)
  <2>1. EnvTyped'
    BY <1>1 DEF DestroyCheck, Typed, EnvTyped
  <2>2. QED BY <1>1, <2>1
          DEF DestroyCheck, Typed, RowTyped, LogTyped, TablesTyped, ProcTyped, ConsumerTyped
<1>2. CASE DestroyPublish(e, r)
  <2>1. env' \in [Envs -> EnvType] /\ \A x \in Envs : env'[x].owner = env[x].owner
                                /\ (env'[x].phase = "live" => env[x].phase = "live")
    BY <1>2 DEF DestroyPublish, Typed, EnvTyped, EnvType
  <2>2. killers' \in [Envs -> SUBSET Reasons] /\ \A x \in Envs : killers'[x] \subseteq killers[x]
    BY <1>2 DEF DestroyPublish, Typed, EnvTyped
  <2>3. msgs' = msgs \union {[env |-> e, reason |-> r]} /\ killers[e] # {}
    BY <1>2 DEF DestroyPublish
  <2>4. EnvTyped'
    BY <2>1, <2>2, <2>3 DEF Typed, EnvTyped
  <2>5. QED BY <1>2, <2>4
          DEF DestroyPublish, Typed, RowTyped, LogTyped, TablesTyped, ProcTyped, ConsumerTyped
<1>3. QED BY <1>1, <1>2

LEMMA ConsumerStepTyped == Typed /\ Consumer => Typed'
<1>1. Free \in ConsumerType /\ ~Free.busy
  BY DEF Free, ConsumerType, Reasons
<1>2. ASSUME Typed, NEW m \in msgs, ConsumerRead(m) PROVE Typed'
  <2>1. EnvTyped'
    BY <1>2 DEF ConsumerRead, Typed, EnvTyped
  <2>2. ConsumerTyped'
    <3> DEFINE a == env[m.env].owner
    <3>1. a \in Attempts /\ m.reason \in Reasons /\ row[a].version \in Nat
      BY <1>2 DEF Typed, EnvTyped, RowTyped, RowType
    <3>2. [busy |-> TRUE, a |-> a, ver |-> row[a].version, reason |-> m.reason] \in ConsumerType
      BY <3>1 DEF ConsumerType
    <3>3. QED BY <1>1, <1>2, <3>1, <3>2 DEF ConsumerRead, ConsumerTyped
  <2>3. QED BY <1>2, <2>1, <2>2 DEF ConsumerRead, Typed, RowTyped, LogTyped, TablesTyped, ProcTyped
<1>3. ASSUME Typed, ConsumerCommit PROVE Typed'
  <2>1. consumer.a \in Attempts /\ consumer.ver + 1 \in Nat
    BY <1>3 DEF ConsumerCommit, Typed, ConsumerTyped, ConsumerType
  <2>2. RowTyped'
    BY <1>3, <2>1 DEF ConsumerCommit, Typed, RowTyped, RowType, Statuses
  <2>3. ConsumerTyped'
    BY <1>1, <1>3 DEF ConsumerCommit, ConsumerTyped
  <2>4. QED BY <1>3, <2>2, <2>3 DEF ConsumerCommit, Typed, LogTyped, TablesTyped, ProcTyped, EnvTyped
<1>4. QED BY <1>2, <1>3 DEF Consumer

LEMMA FailureTyped ==
  ASSUME Typed, LoseMessage \/ \E h \in Handlers : AbortRequest(h)
  PROVE  Typed'
<1>1. CASE LoseMessage
  <2>1. EnvTyped'
    BY <1>1 DEF LoseMessage, Typed, EnvTyped
  <2>2. Free \in ConsumerType /\ ~Free.busy
    BY DEF Free, ConsumerType, Reasons
  <2>3. ConsumerTyped'
    BY <1>1, <2>2 DEF LoseMessage, Typed, ConsumerTyped
  <2>4. TablesTyped'
    BY <1>1 DEF LoseMessage, Typed, TablesTyped
  <2>5. QED BY <1>1, <2>1, <2>3, <2>4 DEF LoseMessage, Typed, RowTyped, LogTyped, ProcTyped
<1>2. CASE \E h \in Handlers : AbortRequest(h)
  <2>1. ProcTyped'
    BY <1>2, ReturnTyped DEF AbortRequest
  <2>2. TablesTyped'
    BY <1>2 DEF AbortRequest, Typed, TablesTyped
  <2>3. QED BY <1>2, <2>1, <2>2 DEF AbortRequest, Typed, RowTyped, LogTyped, EnvTyped, ConsumerTyped
<1>3. QED BY <1>1, <1>2

LEMMA StutterTyped == Typed /\ UNCHANGED vars => Typed'
  BY DEF vars, Typed, RowTyped, LogTyped, TablesTyped, EnvTyped, ProcTyped, ConsumerTyped

LEMMA TypedStep == Typed /\ [Next]_vars => Typed'
  BY NewRequestTyped, ContinueTyped, TeardownTyped, ConsumerStepTyped, FailureTyped, StutterTyped
     DEF Next

LEMMA TypedInvariant == Spec => []Typed
  BY InitTyped, TypedStep, PTL DEF Spec

\* Whatever requests, teardowns, failures and late messages interleave, the
\* attempt row, its tables and every handler stay within their types.
THEOREM TypeCorrect == Spec => []TypeOK
BY TypedInvariant, TypedImpliesTypeOK, PTL

-----------------------------------------------------------------------------
\* The versioned row.

NoneIsFresh == \A a \in Attempts : row[a].status = "NONE" => row[a].version = 0

\* What one transition() of handler h to status s does to the rows.
Moved(h, s) ==
  \A a \in Attempts :
    \/ row'[a] = row[a]
    \/ /\ a = proc[h].a /\ proc[h].ver = row[a].version
       /\ row'[a].version = row[a].version + 1 /\ row'[a].status = s

VersionsGrow ==
  \A a \in Attempts : row'[a] = row[a] \/ row'[a].version > row[a].version

LEMMA TransitionMoves ==
  ASSUME Typed, NEW h \in Handlers, proc[h].pc # "idle", NEW s \in Statuses,
         NEW e \in Envs \union {NoEnv}, NEW ACTION next, Transition(h, s, e, next)
  PROVE  Moved(h, s)
<1>1. proc[h].a \in Attempts /\ proc[h].ver \in Nat
  BY AtWork
<1>2. CASE Matches(proc[h].a, proc[h].ver)
  <2>1. row' = [row EXCEPT ![proc[h].a] = [status |-> s, version |-> proc[h].ver + 1, env |-> e]]
    BY <1>2 DEF Transition
  <2>2. QED BY <1>1, <1>2, <2>1 DEF Matches, Moved, Typed, RowTyped, RowType
<1>3. CASE ~Matches(proc[h].a, proc[h].ver)
  BY <1>3 DEF Transition, Moved
<1>4. QED BY <1>2, <1>3

\* Which transition each commit of a handler is.
LEMMA CommitMoves ==
  ASSUME Typed, NEW h \in Handlers
  PROVE  /\ ReactivateCommit(h) => Moved(h, "CREATED")
         /\ ProvisionCommit(h) => Moved(h, "PROVISIONING")
         /\ ProvisionFinish(h) => \/ proc[h].pc = "ready" /\ Moved(h, "READY")
                                  \/ proc[h].pc = "unready" /\ Moved(h, "PROVISION_FAILED")
         /\ MarkStartedCommit(h) => Moved(h, "IN_PROGRESS")
         /\ SubmitCommit(h) => Moved(h, "SUBMITTED")
         /\ EvaluateCommit(h) => Moved(h, proc[h].verdict)
         /\ CacheCommit(h) => Moved(h, "CACHED")
<1>1. proc[h].pc # "idle" => /\ row[proc[h].a].env \in Envs \union {NoEnv}
                             /\ proc[h].env \in Envs \union {NoEnv}
                             /\ proc[h].verdict \in Statuses
  BY AtWork DEF Verdicts, Statuses
<1>2. ReactivateCommit(h) => Moved(h, "CREATED")
  BY TransitionMoves DEF ReactivateCommit, At, Statuses
<1>3. ProvisionCommit(h) => Moved(h, "PROVISIONING")
  BY <1>1, TransitionMoves DEF ProvisionCommit, At, Statuses
<1>4. ProvisionFinish(h) => \/ proc[h].pc = "ready" /\ Moved(h, "READY")
                            \/ proc[h].pc = "unready" /\ Moved(h, "PROVISION_FAILED")
  BY <1>1, TransitionMoves DEF ProvisionFinish, At, Statuses
<1>5. MarkStartedCommit(h) => Moved(h, "IN_PROGRESS")
  BY <1>1, TransitionMoves DEF MarkStartedCommit, At, Statuses
<1>6. SubmitCommit(h) => Moved(h, "SUBMITTED")
  BY <1>1, TransitionMoves DEF SubmitCommit, At, Statuses
<1>7. EvaluateCommit(h) => Moved(h, proc[h].verdict)
  BY <1>1, TransitionMoves DEF EvaluateCommit, At
<1>8. CacheCommit(h) => Moved(h, "CACHED")
  BY <1>1, TransitionMoves DEF CacheCommit, At, Statuses
<1>9. QED BY <1>2, <1>3, <1>4, <1>5, <1>6, <1>7, <1>8

\* The handlers' steps that leave the rows alone.
RowQuiet(h) ==
  \/ CreateEvent(h) \/ ProvisionRead(h) \/ (\E e \in Envs : OrchestratorReady(h, e))
  \/ OrchestratorNotReady(h) \/ OrchestratorError(h) \/ ProvisionReread(h)
  \/ EvaluateRead(h) \/ EvaluateScore(h) \/ EvaluateRecord(h) \/ EvaluateState(h)
  \/ SubmitDestroy(h)

RowCommit(h) ==
  \/ ReactivateCommit(h) \/ ProvisionCommit(h) \/ ProvisionFinish(h) \/ MarkStartedCommit(h)
  \/ SubmitCommit(h) \/ EvaluateCommit(h) \/ CacheCommit(h)

LEMMA ContinueCases ==
  ASSUME NEW h \in Handlers
  PROVE  Continue(h) <=> CreateRow(h) \/ RowQuiet(h) \/ RowCommit(h)
BY DEF Continue, RowQuiet, RowCommit

LEMMA QuietRow ==
  /\ \A h \in Handlers : RowQuiet(h) \/ AbortRequest(h) => UNCHANGED row
  /\ \A h \in Handlers, a \in Attempts : NewRequest(h, a) => UNCHANGED row
  /\ Orchestrator \/ LoseMessage \/ (\E m \in msgs : ConsumerRead(m)) => UNCHANGED row
<1>1. ASSUME NEW h \in Handlers, RowQuiet(h) \/ AbortRequest(h) PROVE UNCHANGED row
  BY <1>1 DEF RowQuiet, AbortRequest, CreateEvent, ProvisionRead, OrchestratorReady,
       OrchestratorNotReady, OrchestratorError, ProvisionReread, EvaluateRead, EvaluateScore,
       EvaluateRecord, EvaluateState, SubmitDestroy
<1>2. ASSUME NEW h \in Handlers, NEW a \in Attempts, NewRequest(h, a) PROVE UNCHANGED row
  BY <1>2 DEF NewRequest, CreateCheck, ReactivateRead, MarkStartedRead, SubmitRead, CacheRead
<1>3. ASSUME Orchestrator \/ LoseMessage \/ (\E m \in msgs : ConsumerRead(m)) PROVE UNCHANGED row
  BY <1>3 DEF Orchestrator, DestroyCheck, DestroyPublish, LoseMessage, ConsumerRead
<1>4. QED BY <1>1, <1>2, <1>3

\* Every step that changes a row gives it a larger version, and a row never
\* returns to "not inserted yet".
LEMMA RowsMove ==
  ASSUME Typed, NoneIsFresh, [Next]_vars
  PROVE  VersionsGrow /\ NoneIsFresh'
<1> USE DEF VersionsGrow
<1>1. CASE UNCHANGED row
  BY <1>1 DEF NoneIsFresh
<1>2. ASSUME NEW h \in Handlers, CreateRow(h) PROVE VersionsGrow /\ NoneIsFresh'
  <2>1. proc[h].a \in Attempts
    BY <1>2, AtWork DEF CreateRow, At
  <2>2. QED BY <1>2, <2>1 DEF CreateRow, NoneIsFresh, Typed, RowTyped, RowType
<1>3. ASSUME NEW h \in Handlers, RowCommit(h) PROVE VersionsGrow /\ NoneIsFresh'
  <2>1. PICK s \in Statuses : Moved(h, s)
    <3>1. proc[h].verdict \in Statuses
      BY DEF Typed, ProcTyped, ProcType, Verdicts, Statuses
    <3>2. QED BY <1>3, <3>1, CommitMoves DEF RowCommit, Statuses
  <2>2. s # "NONE"
    BY DEF Statuses
  <2>3. QED BY <2>1, <2>2 DEF Moved, NoneIsFresh, Typed, RowTyped, RowType
<1>4. CASE ConsumerCommit
  BY <1>4 DEF ConsumerCommit, Matches, NoneIsFresh, Typed, RowTyped, RowType, ConsumerTyped, ConsumerType
<1>5. QED BY <1>1, <1>2, <1>3, <1>4, QuietRow, ContinueCases DEF Next, Consumer, vars

LEMMA NoneIsFreshInvariant == Spec => []NoneIsFresh
<1>1. Init => NoneIsFresh
  BY DEF Init, NoneIsFresh
<1>2. Typed /\ NoneIsFresh /\ [Next]_vars => NoneIsFresh'
  BY RowsMove
<1>3. QED BY <1>1, <1>2, TypedInvariant, PTL DEF Spec

-----------------------------------------------------------------------------
\* A teardown message never moves a finished attempt.

\* While the version the consumer read still matches, the row is one that
\* handleEnvironmentDestroyed did not return early on.
ConsumerFresh ==
  consumer.busy =>
    /\ consumer.ver <= row[consumer.a].version
    /\ consumer.ver = row[consumer.a].version => row[consumer.a].status \notin TERMINAL

LEMMA ConsumerQuiet ==
  /\ \A h \in Handlers : Continue(h) \/ AbortRequest(h) => UNCHANGED consumer
  /\ \A h \in Handlers, a \in Attempts : NewRequest(h, a) => UNCHANGED consumer
  /\ Orchestrator => UNCHANGED consumer
<1>1. ASSUME NEW h \in Handlers, Continue(h) \/ AbortRequest(h) PROVE UNCHANGED consumer
  BY <1>1 DEF Continue, AbortRequest, CreateRow, CreateEvent, ReactivateCommit, ProvisionRead,
       ProvisionCommit, OrchestratorReady, OrchestratorNotReady, OrchestratorError,
       ProvisionReread, ProvisionFinish, MarkStartedCommit, SubmitCommit, EvaluateRead,
       EvaluateScore, EvaluateRecord, EvaluateCommit, EvaluateState, SubmitDestroy, CacheCommit
<1>2. ASSUME NEW h \in Handlers, NEW a \in Attempts, NewRequest(h, a) PROVE UNCHANGED consumer
  BY <1>2 DEF NewRequest, CreateCheck, ReactivateRead, MarkStartedRead, SubmitRead, CacheRead
<1>3. Orchestrator => UNCHANGED consumer
  BY DEF Orchestrator, DestroyCheck, DestroyPublish
<1>4. QED BY <1>1, <1>2, <1>3

LEMMA ConsumerFreshStep ==
  ASSUME Typed, NoneIsFresh, ConsumerFresh, [Next]_vars
  PROVE  ConsumerFresh'
<1>0. Typed'
  BY TypedStep
<1>1. VersionsGrow
  BY RowsMove
<1>2. CASE UNCHANGED consumer
  <2> SUFFICES ASSUME consumer.busy
               PROVE  /\ consumer.ver <= row'[consumer.a].version
                      /\ consumer.ver = row'[consumer.a].version => row'[consumer.a].status \notin TERMINAL
    BY <1>2 DEF ConsumerFresh
  <2>1. consumer.a \in Attempts /\ consumer.ver \in Nat
    BY DEF Typed, ConsumerTyped, ConsumerType
  <2>2. row[consumer.a].version \in Nat /\ row'[consumer.a].version \in Nat
    BY <1>0, <2>1 DEF Typed, RowTyped, RowType
  <2>3. QED BY <1>1, <2>1, <2>2 DEF VersionsGrow, ConsumerFresh
<1>3. CASE consumer' = Free
  BY <1>3 DEF Free, ConsumerFresh
<1>4. ASSUME NEW m \in msgs, ConsumerRead(m) PROVE ConsumerFresh'
  <2>1. CASE Ignores(row[env[m.env].owner].status, m.reason)
    BY <1>3, <1>4, <2>1 DEF ConsumerRead
  <2>2. CASE ~Ignores(row[env[m.env].owner].status, m.reason)
    <3>1. row[env[m.env].owner].version \in Nat
      BY <1>4 DEF Typed, EnvTyped, RowTyped, RowType
    <3>2. QED BY <1>4, <2>2, <3>1 DEF ConsumerRead, Ignores, ConsumerFresh
  <2>3. QED BY <2>1, <2>2
<1>5. QED BY <1>2, <1>3, <1>4, ConsumerQuiet DEF Next, Consumer, ConsumerCommit, LoseMessage, vars

\* handleEnvironmentDestroyed, for however many teardown callers, duplicate
\* and late messages: its update never hits a PASSED or FAILED row.
THEOREM DestroySafe == Spec => DestroyNeverRegressesVerdict
<1>1. Init => ConsumerFresh
  BY DEF Init, Free, ConsumerFresh
<1>2. ASSUME Typed, ConsumerFresh, ConsumerCommit
      PROVE  \A a \in Attempts : row[a].status \in Verdicts => row'[a] = row[a]
  <2>1. consumer.a \in Attempts
    BY <1>2 DEF ConsumerCommit, Typed, ConsumerTyped
  <2>2. Matches(consumer.a, consumer.ver) => row[consumer.a].status \notin Verdicts
    BY <1>2 DEF ConsumerCommit, ConsumerFresh, Matches, TERMINAL, Verdicts
  <2>3. QED BY <1>2, <2>1, <2>2 DEF ConsumerCommit, Typed, RowTyped
<1>3. Typed /\ ConsumerFresh /\ [Next]_vars =>
        [ConsumerCommit => \A a \in Attempts : row[a].status \in Verdicts => row'[a] = row[a]]_vars
  BY <1>2
<1>4. QED BY <1>1, <1>3, TypedInvariant, NoneIsFreshInvariant, ConsumerFreshStep, PTL
         DEF Spec, DestroyNeverRegressesVerdict

-----------------------------------------------------------------------------
\* A successful submit is scored at most once.

\* Handler h carries a submit that it may still score.
Pending(h) == proc[h].pc \in {"evaluate", "score"}

\* Scored and pending submits are distinct versions the row has reached.
ScoreInv ==
  /\ \A a \in Attempts : \A i \in DOMAIN scores[a] : scores[a][i] <= row[a].version
  /\ \A h \in Handlers : Pending(h) =>
       /\ proc[h].sub <= row[proc[h].a].version
       /\ \A i \in DOMAIN scores[proc[h].a] : scores[proc[h].a][i] # proc[h].sub
  /\ \A h, k \in Handlers :
       Pending(h) /\ Pending(k) /\ proc[h].a = proc[k].a /\ proc[h].sub = proc[k].sub => h = k
  /\ ScoredOncePerSubmit

\* No handler starts to carry a submit.
NoneStarts ==
  \A k \in Handlers :
    Pending(k)' => Pending(k) /\ proc'[k].a = proc[k].a /\ proc'[k].sub = proc[k].sub

LEMMA GotoStartsNone ==
  ASSUME Typed, NEW h \in Handlers, NEW pc, pc \notin {"evaluate", "score"}, Goto(h, pc)
  PROVE  NoneStarts
BY DEF Goto, NoneStarts, Pending, Typed, ProcTyped, ProcType

LEMMA ReturnStartsNone ==
  ASSUME Typed, NEW h \in Handlers, Return(h)
  PROVE  NoneStarts
BY DEF Return, Idle, NoneStarts, Pending, Typed, ProcTyped, ProcType

LEMMA EnterStartsNone ==
  ASSUME Typed, NEW h \in Handlers, NEW a, NEW pc, pc \notin {"evaluate", "score"}, Enter(h, a, pc)
  PROVE  NoneStarts
BY DEF Enter, Idle, NoneStarts, Pending, Typed, ProcTyped, ProcType

LEMMA TransitionStartsNone ==
  ASSUME Typed, NEW h \in Handlers, NEW s, NEW e, NEW ACTION next, next => NoneStarts,
         Transition(h, s, e, next)
  PROVE  NoneStarts
BY ReturnStartsNone DEF Transition

\* Every step but the commit of a submit and the insertion of a score.
LEMMA OthersStartNone ==
  ASSUME Typed, Next,
         ~ \E h \in Handlers : SubmitCommit(h) \/ EvaluateScore(h)
  PROVE  NoneStarts /\ UNCHANGED scores
<1>1. ASSUME NEW h \in Handlers, NEW a \in Attempts, NewRequest(h, a)
      PROVE  NoneStarts /\ UNCHANGED scores
  BY <1>1, EnterStartsNone
     DEF NewRequest, CreateCheck, ReactivateRead, MarkStartedRead, SubmitRead, CacheRead
<1>2. ASSUME NEW h \in Handlers,
             \/ CreateRow(h) \/ CreateEvent(h) \/ ProvisionRead(h) \/ OrchestratorNotReady(h)
             \/ OrchestratorError(h) \/ EvaluateRecord(h) \/ EvaluateState(h) \/ SubmitDestroy(h)
             \/ AbortRequest(h)
      PROVE  NoneStarts /\ UNCHANGED scores
  BY <1>2, EnterStartsNone, GotoStartsNone, ReturnStartsNone
     DEF CreateRow, CreateEvent, ProvisionRead, OrchestratorNotReady, OrchestratorError,
         EvaluateRecord, EvaluateState, SubmitDestroy, AbortRequest
<1>3. ASSUME NEW h \in Handlers, \E e \in Envs : OrchestratorReady(h, e)
      PROVE  NoneStarts /\ UNCHANGED scores
  BY <1>3 DEF OrchestratorReady, NoneStarts, Pending, Typed, ProcTyped, ProcType
<1>4. ASSUME NEW h \in Handlers, ProvisionReread(h)
      PROVE  NoneStarts /\ UNCHANGED scores
  BY <1>4 DEF ProvisionReread, NoneStarts, Pending, Typed, ProcTyped, ProcType
<1>5. ASSUME NEW h \in Handlers, EvaluateRead(h)
      PROVE  NoneStarts /\ UNCHANGED scores
  <2>1. CASE Return(h)
    BY <1>5, <2>1, ReturnStartsNone DEF EvaluateRead
  <2>2. CASE proc' = [proc EXCEPT ![h].pc = "score", ![h].ver = row[proc[h].a].version]
    BY <1>5, <2>2 DEF EvaluateRead, At, NoneStarts, Pending, Typed, ProcTyped, ProcType
  <2>3. QED BY <1>5, <2>1, <2>2 DEF EvaluateRead
<1>6. ASSUME NEW h \in Handlers,
             \/ ReactivateCommit(h) \/ ProvisionCommit(h) \/ ProvisionFinish(h)
             \/ MarkStartedCommit(h) \/ EvaluateCommit(h) \/ CacheCommit(h)
      PROVE  NoneStarts /\ UNCHANGED scores
  <2>1. /\ Return(h) => NoneStarts
        /\ Goto(h, "provision") => NoneStarts
        /\ Goto(h, "calling") => NoneStarts
        /\ Goto(h, "state") => NoneStarts
    BY ReturnStartsNone, GotoStartsNone
  <2>2. QED BY <1>6, <2>1, TransitionStartsNone
          DEF ReactivateCommit, ProvisionCommit, ProvisionFinish, MarkStartedCommit,
              EvaluateCommit, CacheCommit
<1>7. ASSUME Orchestrator \/ Consumer \/ LoseMessage
      PROVE  NoneStarts /\ UNCHANGED scores
  BY <1>7 DEF Orchestrator, DestroyCheck, DestroyPublish, Consumer, ConsumerRead,
       ConsumerCommit, LoseMessage, NoneStarts, Pending
<1>8. QED BY <1>1, <1>2, <1>3, <1>4, <1>5, <1>6, <1>7 DEF Next, Continue

LEMMA ScoreInvInit == Init => ScoreInv
  BY DEF Init, Idle, ScoreInv, Pending, ScoredOncePerSubmit

\* A step that starts nothing and scores nothing only lets versions grow.
LEMMA ScoreInvQuiet ==
  ASSUME Typed, Typed', ScoreInv, VersionsGrow, NoneStarts, UNCHANGED scores
  PROVE  ScoreInv'
<1>1. \A a \in Attempts : /\ row[a].version \in Nat /\ row'[a].version \in Nat
                          /\ row[a].version <= row'[a].version
  BY DEF Typed, RowTyped, RowType, VersionsGrow
<1>2. \A a \in Attempts : \A i \in DOMAIN scores[a] : scores[a][i] \in Nat
  BY DEF Typed, TablesTyped
<1>3. \A h \in Handlers : Pending(h) => proc[h].a \in Attempts /\ proc[h].sub \in Nat
  BY AtWork DEF Pending
<1>4. \A a \in Attempts : \A i \in DOMAIN scores'[a] : scores'[a][i] <= row'[a].version
  BY <1>1, <1>2 DEF ScoreInv
<1>5. \A h \in Handlers : Pending(h)' =>
        /\ proc'[h].sub <= row'[proc'[h].a].version
        /\ \A i \in DOMAIN scores'[proc'[h].a] : scores'[proc'[h].a][i] # proc'[h].sub
  BY <1>1, <1>3 DEF NoneStarts, ScoreInv
<1>6. \A h, k \in Handlers :
        Pending(h)' /\ Pending(k)' /\ proc'[h].a = proc'[k].a /\ proc'[h].sub = proc'[k].sub => h = k
  BY DEF NoneStarts, ScoreInv
<1>7. ScoredOncePerSubmit'
  BY DEF ScoreInv, ScoredOncePerSubmit
<1>8. QED BY <1>4, <1>5, <1>6, <1>7 DEF ScoreInv

\* The commit of a submit takes a version no submit ever had.
LEMMA ScoreInvSubmit ==
  ASSUME Typed, Typed', ScoreInv, VersionsGrow, NEW h \in Handlers, SubmitCommit(h)
  PROVE  ScoreInv'
<1>1. proc[h].a \in Attempts /\ proc[h].ver \in Nat
  BY AtWork DEF SubmitCommit, At
<1>2. UNCHANGED scores
  BY DEF SubmitCommit
<1>3. CASE Return(h)
  BY <1>2, <1>3, ReturnStartsNone, ScoreInvQuiet
<1>4. CASE ~Return(h)
  <2> DEFINE a == proc[h].a
             n == proc[h].ver + 1
  <2>1. /\ Matches(a, proc[h].ver)
        /\ proc' = [proc EXCEPT ![h].pc = "evaluate", ![h].sub = n]
        /\ row' = [row EXCEPT ![a] = [status |-> "SUBMITTED", version |-> n, env |-> row[a].env]]
    BY <1>4 DEF SubmitCommit, Transition
  <2>2. row[a].version = proc[h].ver /\ row'[a].version = n /\ n > row[a].version /\ n \in Nat
    BY <1>1, <2>1 DEF Matches, Typed, RowTyped, RowType
  <2>3. proc'[h].a = a /\ proc'[h].sub = n /\ Pending(h)'
    BY <2>1 DEF Pending, Typed, ProcTyped, ProcType
  <2>4. \A k \in Handlers : k # h => proc'[k] = proc[k]
    BY <2>1 DEF Typed, ProcTyped, ProcType
  <2>5. \A k \in Handlers : k # h /\ Pending(k)' => Pending(k) /\ proc[k].a \in Attempts
                                                 /\ proc[k].sub \in Nat
    BY <2>4, AtWork DEF Pending
  <2>6. \A b \in Attempts : /\ row[b].version \in Nat /\ row'[b].version \in Nat
                            /\ row[b].version <= row'[b].version
    BY DEF Typed, RowTyped, RowType, VersionsGrow
  <2>7. \A b \in Attempts : \A i \in DOMAIN scores[b] : scores[b][i] \in Nat
    BY DEF Typed, TablesTyped
  <2>8. \A b \in Attempts : \A i \in DOMAIN scores'[b] : scores'[b][i] <= row'[b].version
    BY <1>2, <2>6, <2>7 DEF ScoreInv
  <2>9. \A k \in Handlers : Pending(k)' =>
          /\ proc'[k].sub <= row'[proc'[k].a].version
          /\ \A i \in DOMAIN scores'[proc'[k].a] : scores'[proc'[k].a][i] # proc'[k].sub
    <3>1. ASSUME NEW k \in Handlers, Pending(k)', k = h
          PROVE  /\ proc'[k].sub <= row'[proc'[k].a].version
                 /\ \A i \in DOMAIN scores'[proc'[k].a] : scores'[proc'[k].a][i] # proc'[k].sub
      BY <1>1, <1>2, <2>2, <2>3, <2>7, <3>1 DEF ScoreInv
    <3>2. ASSUME NEW k \in Handlers, Pending(k)', k # h
          PROVE  /\ proc'[k].sub <= row'[proc'[k].a].version
                 /\ \A i \in DOMAIN scores'[proc'[k].a] : scores'[proc'[k].a][i] # proc'[k].sub
      <4>1. proc'[k] = proc[k] /\ Pending(k) /\ proc[k].a \in Attempts /\ proc[k].sub \in Nat
        BY <2>4, <2>5, <3>2
      <4>2. /\ proc[k].sub <= row[proc[k].a].version
            /\ \A i \in DOMAIN scores[proc[k].a] : scores[proc[k].a][i] # proc[k].sub
        BY <4>1 DEF ScoreInv
      <4>3. QED BY <1>2, <2>6, <4>1, <4>2
    <3>3. QED BY <3>1, <3>2
  <2>10. \A j, k \in Handlers :
           Pending(j)' /\ Pending(k)' /\ proc'[j].a = proc'[k].a /\ proc'[j].sub = proc'[k].sub => j = k
    <3>1. \A k \in Handlers : k # h /\ Pending(k)' /\ proc'[k].a = a => proc'[k].sub < n
      <4> SUFFICES ASSUME NEW k \in Handlers, k # h, Pending(k)', proc'[k].a = a
                   PROVE  proc'[k].sub < n
        OBVIOUS
      <4>1. proc'[k] = proc[k] /\ Pending(k) /\ proc[k].a = a /\ proc[k].sub \in Nat
        BY <2>4, <2>5
      <4>2. proc[k].sub <= row[a].version
        BY <4>1 DEF ScoreInv
      <4>3. QED BY <1>1, <2>2, <4>1, <4>2
    <3>2. QED BY <2>2, <2>3, <2>4, <2>5, <3>1 DEF ScoreInv
  <2>11. ScoredOncePerSubmit'
    BY <1>2 DEF ScoreInv, ScoredOncePerSubmit
  <2>12. QED BY <2>8, <2>9, <2>10, <2>11 DEF ScoreInv
<1>5. QED BY <1>3, <1>4

\* Scoring uses up the submit the handler carried.
LEMMA ScoreInvScore ==
  ASSUME Typed, Typed', ScoreInv, NEW h \in Handlers, EvaluateScore(h)
  PROVE  ScoreInv'
<1> DEFINE a == proc[h].a
           n == proc[h].sub
<1>1. a \in Attempts /\ n \in Nat /\ Pending(h)
  BY AtWork DEF EvaluateScore, At, Pending
<1>2. n <= row[a].version /\ \A i \in DOMAIN scores[a] : scores[a][i] # n
  BY <1>1 DEF ScoreInv
<1>3. UNCHANGED row /\ scores' = [scores EXCEPT ![a] = Append(@, n)]
  BY DEF EvaluateScore
<1>4. ~Pending(h)' /\ \A k \in Handlers : k # h => proc'[k] = proc[k]
  BY DEF EvaluateScore, Pending, Typed, ProcTyped, ProcType
<1>5. scores[a] \in Seq(Nat) /\ scores'[a] = Append(scores[a], n)
  BY <1>1, <1>3 DEF Typed, TablesTyped
<1>6. \A b \in Attempts : b # a => scores'[b] = scores[b]
  BY <1>3 DEF Typed, TablesTyped
<1>7. /\ DOMAIN scores[a] = 1..Len(scores[a]) /\ DOMAIN scores'[a] = 1..(Len(scores[a]) + 1)
      /\ Len(scores[a]) \in Nat
      /\ \A i \in 1..Len(scores[a]) : scores'[a][i] = scores[a][i]
      /\ scores'[a][Len(scores[a]) + 1] = n
  BY <1>1, <1>5
<1>8. \A i \in DOMAIN scores'[a] : (i \in DOMAIN scores[a] /\ scores'[a][i] = scores[a][i])
                                  \/ (i = Len(scores[a]) + 1 /\ scores'[a][i] = n)
  BY <1>7
<1>9. \A b \in Attempts : \A i \in DOMAIN scores'[b] : scores'[b][i] <= row'[b].version
  BY <1>1, <1>2, <1>3, <1>6, <1>8 DEF ScoreInv
<1>10. \A k \in Handlers : Pending(k)' =>
         /\ proc'[k].sub <= row'[proc'[k].a].version
         /\ \A i \in DOMAIN scores'[proc'[k].a] : scores'[proc'[k].a][i] # proc'[k].sub
  <2> SUFFICES ASSUME NEW k \in Handlers, Pending(k)'
               PROVE  /\ proc[k].sub <= row[proc[k].a].version
                      /\ \A i \in DOMAIN scores'[proc[k].a] : scores'[proc[k].a][i] # proc[k].sub
    BY <1>3, <1>4
  <2>1. Pending(k) /\ k # h /\ proc[k].a \in Attempts
    BY <1>4, AtWork DEF Pending
  <2>2. CASE proc[k].a = a
    BY <1>1, <1>8, <2>1, <2>2 DEF ScoreInv
  <2>3. CASE proc[k].a # a
    BY <1>6, <2>1, <2>3 DEF ScoreInv
  <2>4. QED BY <2>2, <2>3
<1>11. \A j, k \in Handlers :
         Pending(j)' /\ Pending(k)' /\ proc'[j].a = proc'[k].a /\ proc'[j].sub = proc'[k].sub => j = k
  BY <1>4 DEF ScoreInv, Pending
<1>12. ScoredOncePerSubmit'
  <2> SUFFICES ASSUME NEW b \in Attempts, NEW i \in DOMAIN scores'[b], NEW j \in DOMAIN scores'[b],
                      scores'[b][i] = scores'[b][j]
               PROVE  i = j
    BY DEF ScoredOncePerSubmit
  <2>1. CASE b = a
    BY <1>1, <1>2, <1>8, <2>1 DEF ScoreInv, ScoredOncePerSubmit
  <2>2. CASE b # a
    BY <1>6, <2>2 DEF ScoreInv, ScoredOncePerSubmit
  <2>3. QED BY <2>1, <2>2
<1>13. QED BY <1>9, <1>10, <1>11, <1>12 DEF ScoreInv

LEMMA ScoreInvStep ==
  ASSUME Typed, NoneIsFresh, ScoreInv, [Next]_vars
  PROVE  ScoreInv'
<1>1. Typed' /\ VersionsGrow
  BY TypedStep, RowsMove
<1>2. CASE \E h \in Handlers : SubmitCommit(h)
  BY <1>1, <1>2, ScoreInvSubmit
<1>3. CASE \E h \in Handlers : EvaluateScore(h)
  BY <1>1, <1>3, ScoreInvScore
<1>4. CASE UNCHANGED vars
  BY <1>1, <1>4, ScoreInvQuiet DEF vars, NoneStarts, Pending
<1>5. QED BY <1>1, <1>2, <1>3, <1>4, OthersStartNone, ScoreInvQuiet

\* No two attempt_score rows come from one SUBMITTED transition, however
\* many submits, evaluations, teardowns and failures race.
THEOREM ScoredOnce == Spec => []ScoredOncePerSubmit
<1>1. ScoreInv => ScoredOncePerSubmit
  BY DEF ScoreInv
<1>2. QED BY <1>1, ScoreInvInit, ScoreInvStep, TypedInvariant, NoneIsFreshInvariant, PTL DEF Spec

-----------------------------------------------------------------------------
\* The event of a request's transition is in the log before the row moves.

Logged(h, e) == <<e, proc[h].ver>> \in log[proc[h].a]

\* A handler about to commit has its event in the log, at the version it read.
Announced(h) ==
  /\ proc[h].pc = "reactivate" => Logged(h, "RESUMED")
  /\ proc[h].pc = "requested" => Logged(h, "ENV_REQUESTED")
  /\ proc[h].pc = "ready" => Logged(h, "ENV_READY")
  /\ proc[h].pc = "unready" => Logged(h, "ENV_FAILED")
  /\ proc[h].pc = "start" => Logged(h, "ATTEMPT_STARTED")
  /\ proc[h].pc = "submit" => Logged(h, "SUBMITTED")
  /\ proc[h].pc = "verdict" => Logged(h, "EVALUATED")
  /\ proc[h].pc = "cache" => Logged(h, "SUSPENDED")

EventInv == RequestsAreLogged /\ \A h \in Handlers : Announced(h)

\* The pcs at which nothing has been announced.
Silent == PCs \ {"reactivate", "requested", "ready", "unready", "start", "submit", "verdict", "cache"}

LogGrows == \A a \in Attempts : log[a] \subseteq log'[a]

LEMMA AppendGrows ==
  ASSUME Typed, NEW a \in Attempts, NEW e, NEW v, Append_(a, e, v)
  PROVE  LogGrows /\ <<e, v>> \in log'[a]
BY DEF Append_, LogGrows, Typed, LogTyped

\* One handler moves; the others keep what they announced.
LEMMA AnnouncedStays ==
  ASSUME Typed, NEW h \in Handlers, \A k \in Handlers : Announced(k), LogGrows,
         \A k \in Handlers : k # h => proc'[k] = proc[k], Announced(h)'
  PROVE  \A k \in Handlers : Announced(k)'
<1> SUFFICES ASSUME NEW k \in Handlers, k # h PROVE Announced(k)'
  OBVIOUS
<1>1. CASE proc[k].pc = "idle"
  BY <1>1 DEF Announced
<1>2. CASE proc[k].pc # "idle"
  <2>1. proc[k].a \in Attempts
    BY <1>2, AtWork
  <2>2. QED BY <2>1 DEF Announced, Logged, LogGrows
<1>3. QED BY <1>1, <1>2

LEMMA EnterMoves ==
  ASSUME Typed, NEW h \in Handlers, NEW a, NEW pc, Enter(h, a, pc)
  PROVE  /\ proc'[h].pc = pc /\ proc'[h].a = a /\ proc'[h].ver = row[a].version
         /\ \A k \in Handlers : k # h => proc'[k] = proc[k]
BY DEF Enter, Idle, Typed, ProcTyped

LEMMA ReturnMoves ==
  ASSUME Typed, NEW h \in Handlers, Return(h)
  PROVE  proc'[h].pc = "idle" /\ \A k \in Handlers : k # h => proc'[k] = proc[k]
BY DEF Return, Idle, Typed, ProcTyped

LEMMA GotoMoves ==
  ASSUME Typed, NEW h \in Handlers, NEW pc, Goto(h, pc)
  PROVE  /\ proc'[h].pc = pc /\ proc'[h].a = proc[h].a /\ proc'[h].ver = proc[h].ver
         /\ \A k \in Handlers : k # h => proc'[k] = proc[k]
BY DEF Goto, Typed, ProcTyped, ProcType

\* A handler step that leaves the log alone and ends at a silent pc.
LEMMA SilentStep ==
  ASSUME Typed, NEW h \in Handlers, \A k \in Handlers : Announced(k), UNCHANGED log,
         \A k \in Handlers : k # h => proc'[k] = proc[k], proc'[h].pc \in Silent
  PROVE  \A k \in Handlers : Announced(k)'
<1>1. Announced(h)'
  BY DEF Announced, Silent
<1>2. LogGrows
  BY DEF LogGrows
<1>3. QED BY <1>1, <1>2, AnnouncedStays

\* The requests that read the row and append their event.
LEMMA ReadsAnnounce ==
  ASSUME Typed, NEW h \in Handlers, NEW a \in Attempts, NewRequest(h, a),
         \A k \in Handlers : Announced(k)
  PROVE  LogGrows /\ \A k \in Handlers : Announced(k)'
<1>1. CASE CreateCheck(h, a)
  BY <1>1, EnterMoves, SilentStep DEF CreateCheck, Silent, PCs, LogGrows
<1>2. CASE ReactivateRead(h, a)
  <2>1. CASE row[a].status \in REACTIVATABLE_STATUSES
    <3>1. Announced(h)' /\ LogGrows
      BY <1>2, <2>1, EnterMoves, AppendGrows DEF ReactivateRead, Announced, Logged
    <3>2. QED BY <1>2, <2>1, <3>1, EnterMoves, AnnouncedStays DEF ReactivateRead
  <2>2. CASE row[a].status \notin REACTIVATABLE_STATUSES
    BY <1>2, <2>2, EnterMoves, SilentStep DEF ReactivateRead, Silent, PCs, LogGrows
  <2>3. QED BY <2>1, <2>2
<1>3. CASE MarkStartedRead(h, a)
  <2>1. Announced(h)' /\ LogGrows
    BY <1>3, EnterMoves, AppendGrows DEF MarkStartedRead, Announced, Logged
  <2>2. QED BY <1>3, <2>1, EnterMoves, AnnouncedStays DEF MarkStartedRead
<1>4. CASE SubmitRead(h, a)
  <2>1. Announced(h)' /\ LogGrows
    BY <1>4, EnterMoves, AppendGrows DEF SubmitRead, Announced, Logged
  <2>2. QED BY <1>4, <2>1, EnterMoves, AnnouncedStays DEF SubmitRead
<1>5. CASE CacheRead(h, a)
  <2>1. LogGrows /\ <<"SUSPENDED", row[a].version>> \in log'[a]
    BY <1>5 DEF CacheRead, AppendBoth, LogGrows, Typed, LogTyped
  <2>2. Announced(h)'
    BY <1>5, <2>1, EnterMoves DEF CacheRead, Announced, Logged
  <2>3. QED BY <1>5, <2>1, <2>2, EnterMoves, AnnouncedStays DEF CacheRead
<1>6. QED BY <1>1, <1>2, <1>3, <1>4, <1>5 DEF NewRequest

\* The steps of a request in flight that append an event of their own.
LEMMA AppendsAnnounce ==
  ASSUME Typed, NEW h \in Handlers, \A k \in Handlers : Announced(k),
         CreateEvent(h) \/ ProvisionRead(h) \/ ProvisionReread(h) \/ EvaluateRecord(h)
  PROVE  LogGrows /\ \A k \in Handlers : Announced(k)'
<1>1. proc[h].a \in Attempts
  BY AtWork DEF CreateEvent, ProvisionRead, ProvisionReread, EvaluateRecord, At
<1>2. CASE CreateEvent(h)
  <2>1. LogGrows
    BY <1>1, <1>2, AppendGrows DEF CreateEvent
  <2>2. proc'[h].pc = "idle" /\ \A k \in Handlers : k # h => proc'[k] = proc[k]
    BY <1>2, ReturnMoves DEF CreateEvent
  <2>3. Announced(h)'
    BY <2>2 DEF Announced
  <2>4. QED BY <2>1, <2>2, <2>3, AnnouncedStays
<1>3. CASE ProvisionRead(h)
  <2>1. CASE row[proc[h].a].status = "CREATED"
    <3>1. Announced(h)' /\ LogGrows
      BY <1>1, <1>3, <2>1, EnterMoves, AppendGrows DEF ProvisionRead, Announced, Logged
    <3>2. QED BY <1>3, <2>1, <3>1, EnterMoves, AnnouncedStays DEF ProvisionRead
  <2>2. CASE row[proc[h].a].status # "CREATED"
    BY <1>3, <2>2, ReturnMoves, SilentStep DEF ProvisionRead, Silent, PCs, LogGrows
  <2>3. QED BY <2>1, <2>2
<1>4. CASE ProvisionReread(h)
  <2> DEFINE a == proc[h].a
             v == row[a].version
  <2>1. \A k \in Handlers : k # h => proc'[k] = proc[k]
    BY <1>4 DEF ProvisionReread, Typed, ProcTyped
  <2>2. proc'[h].a = a /\ proc'[h].ver = v
    BY <1>4 DEF ProvisionReread, Typed, ProcTyped, ProcType
  <2>3. \/ proc'[h].pc = "ready" /\ Append_(a, "ENV_READY", v)
        \/ proc'[h].pc = "unready" /\ Append_(a, "ENV_FAILED", v)
    BY <1>4 DEF ProvisionReread, Typed, ProcTyped, ProcType
  <2>4. LogGrows /\ Announced(h)'
    BY <1>1, <2>2, <2>3, AppendGrows DEF Announced, Logged
  <2>5. QED BY <2>1, <2>4, AnnouncedStays
<1>5. CASE EvaluateRecord(h)
  <2>1. Announced(h)' /\ LogGrows
    BY <1>1, <1>5, GotoMoves, AppendGrows DEF EvaluateRecord, Announced, Logged
  <2>2. QED BY <1>5, <2>1, GotoMoves, AnnouncedStays DEF EvaluateRecord
<1>6. QED BY <1>2, <1>3, <1>4, <1>5

\* transition() ends at a silent pc on both of its outcomes.
LEMMA TransitionSilent ==
  ASSUME Typed, NEW h \in Handlers, \A k \in Handlers : Announced(k), UNCHANGED log,
         NEW s, NEW e, NEW ACTION next,
         next => proc'[h].pc \in Silent /\ \A k \in Handlers : k # h => proc'[k] = proc[k],
         Transition(h, s, e, next)
  PROVE  \A k \in Handlers : Announced(k)'
<1>1. Return(h) => proc'[h].pc \in Silent /\ \A k \in Handlers : k # h => proc'[k] = proc[k]
  BY ReturnMoves DEF Silent, PCs
<1>2. proc'[h].pc \in Silent /\ \A k \in Handlers : k # h => proc'[k] = proc[k]
  BY <1>1 DEF Transition
<1>3. QED BY <1>2, SilentStep

LEMMA CommitsSilent ==
  ASSUME Typed, NEW h \in Handlers, \A k \in Handlers : Announced(k), RowCommit(h)
  PROVE  UNCHANGED log /\ \A k \in Handlers : Announced(k)'
<1>1. UNCHANGED log
  BY DEF RowCommit, ReactivateCommit, ProvisionCommit, ProvisionFinish, MarkStartedCommit,
         SubmitCommit, EvaluateCommit, CacheCommit
<1> DEFINE Ends == proc'[h].pc \in Silent /\ \A k \in Handlers : k # h => proc'[k] = proc[k]
           submitted == proc' = [proc EXCEPT ![h].pc = "evaluate", ![h].sub = proc[h].ver + 1]
<1>2. Return(h) => Ends
  BY ReturnMoves DEF Silent, PCs
<1>3. Goto(h, "provision") \/ Goto(h, "calling") \/ Goto(h, "state") => Ends
  BY GotoMoves DEF Silent, PCs
<1>4. submitted => Ends
  BY DEF Typed, ProcTyped, ProcType, Silent, PCs
<1>5. CASE SubmitCommit(h)
  <2>1. Transition(h, "SUBMITTED", row[proc[h].a].env, submitted)
    BY <1>5 DEF SubmitCommit
  <2> HIDE DEF submitted
  <2>2. QED BY <1>1, <1>4, <2>1, TransitionSilent
<1> HIDE DEF submitted
<1>6. CASE ~SubmitCommit(h)
  BY <1>1, <1>2, <1>3, <1>6, TransitionSilent
     DEF RowCommit, ReactivateCommit, ProvisionCommit, ProvisionFinish, MarkStartedCommit,
         EvaluateCommit, CacheCommit
<1>7. QED BY <1>1, <1>5, <1>6

\* The remaining steps append nothing and announce nothing.
LEMMA OthersSilent ==
  ASSUME Typed, NEW h \in Handlers, \A k \in Handlers : Announced(k),
         \/ CreateRow(h) \/ (\E e \in Envs : OrchestratorReady(h, e)) \/ OrchestratorNotReady(h)
         \/ OrchestratorError(h) \/ EvaluateRead(h) \/ EvaluateScore(h) \/ EvaluateState(h)
         \/ SubmitDestroy(h) \/ AbortRequest(h)
  PROVE  UNCHANGED log /\ \A k \in Handlers : Announced(k)'
<1>1. UNCHANGED log
  BY DEF CreateRow, OrchestratorReady, OrchestratorNotReady, OrchestratorError, EvaluateRead,
         EvaluateScore, EvaluateState, SubmitDestroy, AbortRequest
<1> DEFINE Ends == proc'[h].pc \in Silent /\ \A k \in Handlers : k # h => proc'[k] = proc[k]
<1>2. Return(h) \/ Goto(h, "created") \/ Goto(h, "failed") \/ Goto(h, "destroy") => Ends
  BY ReturnMoves, GotoMoves DEF Silent, PCs
<1>3. (\E e \in Envs : OrchestratorReady(h, e)) => Ends
  <2> SUFFICES ASSUME NEW e \in Envs, proc' = [proc EXCEPT ![h].pc = "called", ![h].env = e]
               PROVE  Ends
    BY DEF OrchestratorReady
  <2>1. proc'[h].pc = "called" /\ \A k \in Handlers : k # h => proc'[k] = proc[k]
    BY DEF Typed, ProcTyped, ProcType
  <2>2. QED BY <2>1 DEF Silent, PCs
<1>4. EvaluateRead(h) => Ends
  <2>1. proc' = [proc EXCEPT ![h].pc = "score", ![h].ver = row[proc[h].a].version] => Ends
    BY DEF Typed, ProcTyped, ProcType, Silent, PCs
  <2>2. QED BY <1>2, <2>1 DEF EvaluateRead
<1>5. EvaluateScore(h) => Ends
  <2> SUFFICES ASSUME NEW v \in Verdicts, proc' = [proc EXCEPT ![h].pc = "record", ![h].verdict = v]
               PROVE  Ends
    BY DEF EvaluateScore
  <2>1. proc'[h].pc = "record" /\ \A k \in Handlers : k # h => proc'[k] = proc[k]
    BY DEF Typed, ProcTyped, ProcType
  <2>2. QED BY <2>1 DEF Silent, PCs
<1>6. Ends
  BY <1>2, <1>3, <1>4, <1>5
     DEF CreateRow, OrchestratorNotReady, OrchestratorError, EvaluateState, SubmitDestroy, AbortRequest
<1>7. QED BY <1>1, <1>6, SilentStep

\* RequestsAreLogged survives a step that moves no row.
LEMMA LoggedQuiet ==
  ASSUME RequestsAreLogged, UNCHANGED row, LogGrows
  PROVE  RequestsAreLogged'
BY DEF RequestsAreLogged, Explained, LogGrows

\* A transition whose event is in the log keeps RequestsAreLogged.
LEMMA LoggedMove ==
  ASSUME Typed, RequestsAreLogged, NEW h \in Handlers, NEW s, Moved(h, s), UNCHANGED log,
         Logged(h, ExplainedBy[s])
  PROVE  RequestsAreLogged'
<1> SUFFICES ASSUME NEW a \in Attempts, row'[a].status \notin {"SUSPENDED", "EVALUATING"},
                    row'[a].version > 1
             PROVE  <<ExplainedBy[row'[a].status], row'[a].version - 1>> \in log[a]
  BY DEF RequestsAreLogged, Explained
<1>1. CASE row'[a] = row[a]
  BY <1>1 DEF RequestsAreLogged, Explained
<1>2. CASE row'[a] # row[a]
  <2>1. /\ a = proc[h].a /\ proc[h].ver = row[a].version /\ row'[a].status = s
        /\ row'[a].version = row[a].version + 1
    BY <1>2 DEF Moved
  <2>2. row'[a].version - 1 = proc[h].ver
    BY <2>1 DEF Typed, RowTyped, RowType
  <2>3. QED BY <2>1, <2>2 DEF Logged
<1>3. QED BY <1>1, <1>2

LEMMA ExplainedByFacts ==
  /\ ExplainedBy["CREATED"] = "RESUMED" /\ ExplainedBy["PROVISIONING"] = "ENV_REQUESTED"
  /\ ExplainedBy["READY"] = "ENV_READY" /\ ExplainedBy["PROVISION_FAILED"] = "ENV_FAILED"
  /\ ExplainedBy["IN_PROGRESS"] = "ATTEMPT_STARTED" /\ ExplainedBy["SUBMITTED"] = "SUBMITTED"
  /\ ExplainedBy["PASSED"] = "EVALUATED" /\ ExplainedBy["FAILED"] = "EVALUATED"
  /\ ExplainedBy["CACHED"] = "SUSPENDED"
BY DEF ExplainedBy

LEMMA LoggedCommit ==
  ASSUME Typed, EventInv, NEW h \in Handlers, RowCommit(h), UNCHANGED log
  PROVE  RequestsAreLogged'
<1>1. Announced(h) /\ RequestsAreLogged
  BY DEF EventInv
<1>2. CASE ReactivateCommit(h)
  <2>1. Moved(h, "CREATED")
    BY <1>2, CommitMoves
  <2>2. Logged(h, ExplainedBy["CREATED"])
    BY <1>1, <1>2, ExplainedByFacts DEF ReactivateCommit, At, Announced
  <2>3. QED BY <1>1, <2>1, <2>2, LoggedMove
<1>3. CASE ProvisionCommit(h)
  <2>1. Moved(h, "PROVISIONING")
    BY <1>3, CommitMoves
  <2>2. Logged(h, ExplainedBy["PROVISIONING"])
    BY <1>1, <1>3, ExplainedByFacts DEF ProvisionCommit, At, Announced
  <2>3. QED BY <1>1, <2>1, <2>2, LoggedMove
<1>4. CASE ProvisionFinish(h)
  <2>1. CASE proc[h].pc = "ready" /\ Moved(h, "READY")
    BY <1>1, <2>1, LoggedMove, ExplainedByFacts DEF Announced
  <2>2. CASE proc[h].pc = "unready" /\ Moved(h, "PROVISION_FAILED")
    BY <1>1, <2>2, LoggedMove, ExplainedByFacts DEF Announced
  <2>3. QED BY <1>4, <2>1, <2>2, CommitMoves
<1>5. CASE MarkStartedCommit(h)
  <2>1. Moved(h, "IN_PROGRESS")
    BY <1>5, CommitMoves
  <2>2. Logged(h, ExplainedBy["IN_PROGRESS"])
    BY <1>1, <1>5, ExplainedByFacts DEF MarkStartedCommit, At, Announced
  <2>3. QED BY <1>1, <2>1, <2>2, LoggedMove
<1>6. CASE SubmitCommit(h)
  <2>1. Moved(h, "SUBMITTED")
    BY <1>6, CommitMoves
  <2>2. Logged(h, ExplainedBy["SUBMITTED"])
    BY <1>1, <1>6, ExplainedByFacts DEF SubmitCommit, At, Announced
  <2>3. QED BY <1>1, <2>1, <2>2, LoggedMove
<1>7. CASE EvaluateCommit(h)
  <2>1. proc[h].verdict \in {"PASSED", "FAILED"}
    BY DEF Typed, ProcTyped, ProcType, Verdicts
  <2>2. QED BY <1>1, <1>7, <2>1, CommitMoves, LoggedMove, ExplainedByFacts
          DEF EvaluateCommit, At, Announced
<1>8. CASE CacheCommit(h)
  <2>1. Moved(h, "CACHED")
    BY <1>8, CommitMoves
  <2>2. Logged(h, ExplainedBy["CACHED"])
    BY <1>1, <1>8, ExplainedByFacts DEF CacheCommit, At, Announced
  <2>3. QED BY <1>1, <2>1, <2>2, LoggedMove
<1>9. QED BY <1>2, <1>3, <1>4, <1>5, <1>6, <1>7, <1>8 DEF RowCommit

LEMMA EventInvStep ==
  ASSUME Typed, EventInv, [Next]_vars
  PROVE  EventInv'
<1>1. RequestsAreLogged /\ \A k \in Handlers : Announced(k)
  BY DEF EventInv
<1>2. ASSUME UNCHANGED log PROVE LogGrows
  BY <1>2 DEF LogGrows
<1>3. ASSUME NEW h \in Handlers, NEW a \in Attempts, NewRequest(h, a) PROVE EventInv'
  BY <1>1, <1>3, ReadsAnnounce, QuietRow, LoggedQuiet DEF EventInv
<1>4. ASSUME NEW h \in Handlers, RowCommit(h) PROVE EventInv'
  BY <1>1, <1>4, CommitsSilent, LoggedCommit DEF EventInv
<1>5. ASSUME NEW h \in Handlers, CreateRow(h) PROVE EventInv'
  <2>1. UNCHANGED log /\ \A k \in Handlers : Announced(k)'
    BY <1>1, <1>5, OthersSilent
  <2>2. proc[h].a \in Attempts
    BY <1>5, AtWork DEF CreateRow, At
  <2>3. \A a \in Attempts : row'[a] = row[a] \/ row'[a].version = 1
    BY <1>5, <2>2 DEF CreateRow, Typed, RowTyped
  <2>4. RequestsAreLogged'
    BY <1>1, <2>1, <2>3 DEF RequestsAreLogged, Explained
  <2>5. QED BY <2>1, <2>4 DEF EventInv
<1>6. ASSUME NEW h \in Handlers, RowQuiet(h) \/ AbortRequest(h) PROVE EventInv'
  <2>1. LogGrows /\ \A k \in Handlers : Announced(k)'
    BY <1>1, <1>2, <1>6, AppendsAnnounce, OthersSilent DEF RowQuiet
  <2>2. QED BY <1>1, <1>6, <2>1, QuietRow, LoggedQuiet DEF EventInv
<1>7. ASSUME ConsumerCommit PROVE EventInv'
  <2>1. UNCHANGED <<log, proc>>
    BY <1>7 DEF ConsumerCommit
  <2>2. \A a \in Attempts : row'[a] = row[a] \/ row'[a].status \in {"SUSPENDED", "EVALUATING"}
    BY <1>7 DEF ConsumerCommit, Typed, RowTyped, ConsumerTyped
  <2>3. RequestsAreLogged'
    BY <1>1, <2>1, <2>2 DEF RequestsAreLogged, Explained
  <2>4. QED BY <1>1, <2>1, <2>3 DEF EventInv, Announced, Logged
<1>8. ASSUME UNCHANGED <<row, log, proc>> PROVE EventInv'
  BY <1>8 DEF EventInv, RequestsAreLogged, Explained, Announced, Logged
<1>9. Orchestrator \/ LoseMessage \/ (\E m \in msgs : ConsumerRead(m)) \/ UNCHANGED vars
        => UNCHANGED <<row, log, proc>>
  BY DEF Orchestrator, DestroyCheck, DestroyPublish, LoseMessage, ConsumerRead, vars
<1>10. QED BY <1>3, <1>4, <1>5, <1>6, <1>7, <1>8, <1>9, ContinueCases DEF Next, Consumer

\* attempt.service.ts and evaluate: every transition a request makes finds its
\* event in the log, whatever interleaves and wherever a request dies (what the
\* ENV_DESTROYED consumer writes has no event and is not covered).
THEOREM RequestsLogged == Spec => []RequestsAreLogged
<1>1. Init => EventInv
  BY DEF Init, Idle, EventInv, RequestsAreLogged, Explained, Announced
<1>2. EventInv => RequestsAreLogged
  BY DEF EventInv
<1>3. QED BY <1>1, <1>2, EventInvStep, TypedInvariant, PTL DEF Spec

-----------------------------------------------------------------------------
\* The learner's activity state shows the verdict of the row.

\* While the version a handler read still matches, the row has the status
\* that the handler found; and the verdict a handler committed stands until
\* provision() answers late.
FreshAt(h) ==
  /\ proc[h].pc \in {"reactivate", "requested", "start", "submit", "score", "record", "verdict", "cache"} =>
       proc[h].ver <= row[proc[h].a].version
  /\ proc[h].ver = row[proc[h].a].version =>
       /\ proc[h].pc = "reactivate" => row[proc[h].a].status \in REACTIVATABLE_STATUSES
       /\ proc[h].pc = "requested" => row[proc[h].a].status = "CREATED"
       /\ proc[h].pc = "start" => row[proc[h].a].status = "READY"
       /\ proc[h].pc = "submit" => row[proc[h].a].status = "IN_PROGRESS"
       /\ proc[h].pc \in {"score", "record", "verdict"} => row[proc[h].a].status \in {"SUBMITTED", "EVALUATING"}
       /\ proc[h].pc = "cache" => row[proc[h].a].status = "SUSPENDED"
  /\ proc[h].pc = "state" =>
       row[proc[h].a].status = proc[h].verdict \/ Unsettled(proc[h].a)

\* A row that exists has a version, and a verdict is never the first one.
Versioned ==
  \A a \in Attempts : /\ row[a].status # "NONE" => row[a].version >= 1
                      /\ row[a].status \in Verdicts => row[a].version > 1

VerdictInv == ActivityStateIsVerdict /\ Versioned /\ \A h \in Handlers : FreshAt(h)

\* No step takes an event out of the log.
LEMMA LogOnlyGrows ==
  ASSUME Typed, [Next]_vars
  PROVE  LogGrows
<1>1. ASSUME UNCHANGED log PROVE LogGrows
  BY <1>1 DEF LogGrows
<1>2. ASSUME NEW h \in Handlers, NEW a \in Attempts, NewRequest(h, a) PROVE LogGrows
  BY <1>1, <1>2, AppendGrows DEF NewRequest, CreateCheck, ReactivateRead, MarkStartedRead, SubmitRead, CacheRead,
     AppendBoth, LogGrows, Typed, LogTyped
<1>3. ASSUME NEW h \in Handlers, Continue(h) PROVE LogGrows
  <2>1. proc[h].pc # "idle" => proc[h].a \in Attempts
    BY AtWork
  <2>2. CASE CreateEvent(h) \/ ProvisionRead(h) \/ ProvisionReread(h) \/ EvaluateRecord(h)
    <3>1. proc[h].pc # "idle"
      BY <2>2 DEF CreateEvent, ProvisionRead, ProvisionReread, EvaluateRecord, At
    <3>2. QED BY <1>1, <2>1, <2>2, <3>1, AppendGrows
            DEF CreateEvent, ProvisionRead, ProvisionReread, EvaluateRecord
  <2>3. QED BY <1>1, <1>3, <2>2 DEF Continue, CreateRow, ReactivateCommit, ProvisionCommit, OrchestratorReady,
          OrchestratorNotReady, OrchestratorError, ProvisionFinish, MarkStartedCommit, SubmitCommit, EvaluateRead,
          EvaluateScore, EvaluateCommit, EvaluateState, SubmitDestroy, CacheCommit
<1>4. Orchestrator \/ Consumer \/ LoseMessage \/ (\E h \in Handlers : AbortRequest(h)) \/ UNCHANGED vars
        => UNCHANGED log
  BY DEF Orchestrator, DestroyCheck, DestroyPublish, Consumer, ConsumerRead, ConsumerCommit, LoseMessage,
         AbortRequest, vars
<1>5. QED BY <1>1, <1>2, <1>3, <1>4 DEF Next

LEMMA UnsettledStays ==
  ASSUME LogGrows, NEW a \in Attempts, Unsettled(a)
  PROVE  Unsettled(a)'
BY DEF LogGrows, Unsettled

\* A row leaves its verdict only by the answer of a late provision().
LEMMA VerdictStands ==
  ASSUME Typed, ConsumerFresh, EventInv, VerdictInv, [Next]_vars, NEW a \in Attempts, row[a].status \in Verdicts
  PROVE  row'[a].status = row[a].status \/ Unsettled(a)'
<1>1. CASE UNCHANGED row
  BY <1>1
<1>2. ASSUME NEW h \in Handlers, CreateRow(h) PROVE row'[a] = row[a]
  BY <1>2 DEF CreateRow, Verdicts, Typed, RowTyped
<1>3. ASSUME NEW h \in Handlers, RowCommit(h), row'[a] # row[a]
      PROVE  Unsettled(a)'
  <2>1. proc[h].a = a /\ proc[h].ver = row[a].version
    BY <1>3, CommitMoves DEF RowCommit, Moved
  <2>2. FreshAt(h) /\ Announced(h) /\ RequestsAreLogged /\ Versioned
    BY DEF VerdictInv, EventInv
  <2>3. proc[h].pc \in {"ready", "unready"}
    BY <1>3, <2>1, <2>2 DEF RowCommit, ReactivateCommit, ProvisionCommit, ProvisionFinish, MarkStartedCommit,
       SubmitCommit, EvaluateCommit, CacheCommit, At, FreshAt, REACTIVATABLE_STATUSES, Verdicts
  <2>4. \E e \in {"ENV_READY", "ENV_FAILED"} : <<e, row[a].version>> \in log[a]
    BY <2>1, <2>2, <2>3 DEF Announced, Logged
  <2>5. row[a].status \notin {"SUSPENDED", "EVALUATING"} /\ row[a].version > 1
    BY <2>2 DEF Versioned, Verdicts
  <2>6. <<ExplainedBy[row[a].status], row[a].version - 1>> \in log[a]
    BY <2>2, <2>5 DEF RequestsAreLogged, Explained
  <2>7. <<"EVALUATED", row[a].version - 1>> \in log[a]
    BY <2>6, ExplainedByFacts DEF Verdicts
  <2>8. (row[a].version - 1) + 1 = row[a].version
    BY DEF Typed, RowTyped, RowType
  <2>9. Unsettled(a)
    BY <2>4, <2>7, <2>8 DEF Unsettled
  <2>10. QED BY <2>9, LogOnlyGrows, UnsettledStays
<1>4. ASSUME ConsumerCommit PROVE row'[a] = row[a]
  <2>1. consumer.a \in Attempts
    BY <1>4 DEF ConsumerCommit, Typed, ConsumerTyped
  <2>2. Matches(consumer.a, consumer.ver) => row[consumer.a].status \notin Verdicts
    BY <1>4 DEF ConsumerCommit, ConsumerFresh, Matches, TERMINAL, Verdicts
  <2>3. QED BY <1>4, <2>1, <2>2 DEF ConsumerCommit, Typed, RowTyped
<1>5. QED BY <1>1, <1>2, <1>3, <1>4, QuietRow, ContinueCases DEF Next, Consumer, vars

\* A handler that does not move keeps what it read.
LEMMA FreshStays ==
  ASSUME Typed, Typed', NoneIsFresh, ConsumerFresh, EventInv, VerdictInv, [Next]_vars,
         NEW k \in Handlers, proc'[k] = proc[k]
  PROVE  FreshAt(k)'
<1>1. CASE proc[k].pc = "idle"
  BY <1>1 DEF FreshAt
<1>2. CASE proc[k].pc # "idle"
  <2>1. proc[k].a \in Attempts /\ proc[k].ver \in Nat /\ proc[k].verdict \in Verdicts
    BY <1>2, AtWork
  <2>2. row[proc[k].a].version \in Nat /\ row'[proc[k].a].version \in Nat
    BY <2>1 DEF Typed, RowTyped, RowType
  <2>3. row'[proc[k].a] = row[proc[k].a] \/ row'[proc[k].a].version > row[proc[k].a].version
    BY <2>1, RowsMove DEF VersionsGrow
  <2>4. FreshAt(k)
    BY DEF VerdictInv
  <2>5. proc[k].pc = "state" => row'[proc[k].a].status = proc[k].verdict \/ Unsettled(proc[k].a)'
    BY <2>1, <2>4, VerdictStands, LogOnlyGrows, UnsettledStays DEF FreshAt
  <2>6. QED BY <2>1, <2>2, <2>3, <2>4, <2>5 DEF FreshAt
<1>3. QED BY <1>1, <1>2

Others(h) == \A k \in Handlers : k # h => proc'[k] = proc[k]

\* Where a handler that reads nothing is.
Plain == {"idle", "create", "created", "provision", "calling", "called", "failed", "ready", "unready",
          "evaluate", "destroy"}

LEMMA PlainFresh ==
  ASSUME NEW h \in Handlers, proc'[h].pc \in Plain
  PROVE  FreshAt(h)'
BY DEF FreshAt, Plain

LEMMA EnterFresh ==
  ASSUME Typed, NEW h \in Handlers, NEW a \in Attempts, NEW pc, Enter(h, a, pc), UNCHANGED row,
         \/ pc \in {"create", "provision"}
         \/ pc = "reactivate" /\ row[a].status \in REACTIVATABLE_STATUSES
         \/ pc = "requested" /\ row[a].status = "CREATED"
         \/ pc = "start" /\ row[a].status = "READY"
         \/ pc = "submit" /\ row[a].status = "IN_PROGRESS"
         \/ pc = "cache" /\ row[a].status = "SUSPENDED"
  PROVE  Others(h) /\ FreshAt(h)'
<1>1. Others(h) /\ proc'[h].pc = pc /\ proc'[h].a = a /\ proc'[h].ver = row[a].version
  BY EnterMoves DEF Others
<1>2. row[a].version \in Nat
  BY DEF Typed, RowTyped, RowType
<1>3. QED BY <1>1, <1>2 DEF FreshAt

LEMMA ReturnFresh ==
  ASSUME Typed, NEW h \in Handlers, Return(h)
  PROVE  Others(h) /\ FreshAt(h)'
BY ReturnMoves, PlainFresh DEF Others, Plain

\* The steps of a handler that move no row.
LEMMA QuietFresh ==
  ASSUME Typed, VerdictInv, NEW h \in Handlers, RowQuiet(h) \/ AbortRequest(h) \/ CreateRow(h)
  PROVE  Others(h) /\ FreshAt(h)'
<1>1. CASE CreateEvent(h) \/ OrchestratorError(h) \/ SubmitDestroy(h) \/ AbortRequest(h)
  BY <1>1, ReturnFresh DEF CreateEvent, OrchestratorError, SubmitDestroy, AbortRequest
<1>2. CASE CreateRow(h) \/ OrchestratorNotReady(h) \/ EvaluateState(h)
  BY <1>2, GotoMoves, PlainFresh DEF CreateRow, OrchestratorNotReady, EvaluateState, Others, Plain
<1>3. CASE ProvisionRead(h)
  <2>1. proc[h].a \in Attempts
    BY <1>3, AtWork DEF ProvisionRead, At
  <2>2. QED BY <1>3, <2>1, ReturnFresh, EnterFresh DEF ProvisionRead
<1>4. CASE (\E e \in Envs : OrchestratorReady(h, e)) \/ ProvisionReread(h)
  <2>1. Others(h) /\ proc'[h].pc \in {"called", "ready", "unready"}
    BY <1>4 DEF OrchestratorReady, ProvisionReread, Others, Typed, ProcTyped, ProcType
  <2>2. QED BY <2>1, PlainFresh DEF Plain
<1>5. CASE EvaluateRead(h)
  <2>1. proc[h].a \in Attempts /\ row[proc[h].a].version \in Nat
    BY <1>5, AtWork DEF EvaluateRead, At
  <2>2. CASE row[proc[h].a].status \in {"SUBMITTED", "EVALUATING"}
    <3>1. /\ Others(h) /\ proc'[h].pc = "score" /\ proc'[h].a = proc[h].a /\ UNCHANGED row
          /\ proc'[h].ver = row[proc[h].a].version
      BY <1>5, <2>1, <2>2 DEF EvaluateRead, Others, Typed, ProcTyped, ProcType
    <3>2. QED BY <2>1, <2>2, <3>1 DEF FreshAt
  <2>3. CASE row[proc[h].a].status \notin {"SUBMITTED", "EVALUATING"}
    BY <1>5, <2>3, ReturnFresh DEF EvaluateRead
  <2>4. QED BY <2>2, <2>3
<1>6. CASE EvaluateScore(h) \/ EvaluateRecord(h)
  <2>1. /\ Others(h) /\ proc[h].pc \in {"score", "record"} /\ proc'[h].pc \in {"record", "verdict"}
        /\ proc'[h].a = proc[h].a /\ proc'[h].ver = proc[h].ver /\ UNCHANGED row
    <3>1. CASE EvaluateScore(h)
      <4>1. PICK v \in Verdicts : proc' = [proc EXCEPT ![h].pc = "record", ![h].verdict = v]
        BY <3>1 DEF EvaluateScore
      <4>2. proc[h].pc = "score" /\ UNCHANGED row
        BY <3>1 DEF EvaluateScore, At
      <4>3. QED BY <4>1, <4>2 DEF Others, Typed, ProcTyped, ProcType
    <3>2. CASE EvaluateRecord(h)
      BY <3>2, GotoMoves DEF EvaluateRecord, At, Others
    <3>3. QED BY <1>6, <3>1, <3>2
  <2>2. FreshAt(h)
    BY DEF VerdictInv
  <2>3. QED BY <2>1, <2>2 DEF FreshAt
<1>7. QED BY <1>1, <1>2, <1>3, <1>4, <1>5, <1>6 DEF RowQuiet

\* transition(): the request ends, or goes on at its next pc.
LEMMA CommitFresh ==
  ASSUME Typed, NEW h \in Handlers, RowCommit(h)
  PROVE  Others(h) /\ FreshAt(h)'
<1>1. proc[h].pc # "idle"
  BY DEF RowCommit, ReactivateCommit, ProvisionCommit, ProvisionFinish, MarkStartedCommit, SubmitCommit,
         EvaluateCommit, CacheCommit, At
<1>2. proc[h].a \in Attempts /\ proc[h].ver \in Nat
  BY <1>1, AtWork
<1>3. CASE Return(h) \/ Goto(h, "provision") \/ Goto(h, "calling")
  BY <1>3, ReturnFresh, GotoMoves, PlainFresh DEF Others, Plain
<1>4. CASE proc' = [proc EXCEPT ![h].pc = "evaluate", ![h].sub = proc[h].ver + 1]
  <2>1. Others(h) /\ proc'[h].pc = "evaluate"
    BY <1>4 DEF Others, Typed, ProcTyped, ProcType
  <2>2. QED BY <2>1, PlainFresh DEF Plain
<1>5. CASE EvaluateCommit(h) /\ ~Return(h)
  <2>1. /\ row' = [row EXCEPT ![proc[h].a] = [status |-> proc[h].verdict, version |-> proc[h].ver + 1,
                                             env |-> row[proc[h].a].env]]
        /\ Goto(h, "state")
    BY <1>5 DEF EvaluateCommit, Transition
  <2>2. row'[proc[h].a].status = proc[h].verdict
    BY <1>2, <2>1 DEF Typed, RowTyped
  <2>3. /\ Others(h) /\ proc'[h].pc = "state" /\ proc'[h].a = proc[h].a /\ proc'[h].verdict = proc[h].verdict
    BY <2>1 DEF Goto, Others, Typed, ProcTyped, ProcType
  <2>4. QED BY <2>2, <2>3 DEF FreshAt
<1>6. QED BY <1>3, <1>4, <1>5 DEF RowCommit, ReactivateCommit, ProvisionCommit, ProvisionFinish,
        MarkStartedCommit, SubmitCommit, EvaluateCommit, CacheCommit, Transition

LEMMA VersionedStep ==
  ASSUME Typed, VerdictInv, ConsumerFresh, [Next]_vars
  PROVE  Versioned'
<1>0. Versioned /\ \A h \in Handlers : FreshAt(h)
  BY DEF VerdictInv
<1>1. CASE UNCHANGED row
  BY <1>0, <1>1 DEF Versioned
<1>2. ASSUME NEW h \in Handlers, CreateRow(h) PROVE Versioned'
  <2>1. proc[h].a \in Attempts
    BY <1>2, AtWork DEF CreateRow, At
  <2>2. QED BY <1>0, <1>2, <2>1 DEF CreateRow, Versioned, Verdicts, Typed, RowTyped
<1>3. ASSUME NEW h \in Handlers, RowCommit(h) PROVE Versioned'
  <2>1. \A a \in Attempts : row[a].version \in Nat
    BY DEF Typed, RowTyped, RowType
  <2>2. CASE EvaluateCommit(h)
    <3>1. Moved(h, proc[h].verdict) /\ proc[h].pc = "verdict"
      BY <2>2, CommitMoves DEF EvaluateCommit, At
    <3>2. proc[h].ver = row[proc[h].a].version => row[proc[h].a].status \in {"SUBMITTED", "EVALUATING"}
      BY <1>0, <3>1 DEF FreshAt
    <3>3. QED BY <1>0, <2>1, <3>1, <3>2 DEF Moved, Versioned
  <2>3. CASE ~EvaluateCommit(h)
    <3>1. PICK s \in Statuses \ Verdicts : Moved(h, s)
      BY <1>3, <2>3, CommitMoves DEF RowCommit, Statuses, Verdicts
    <3>2. QED BY <1>0, <2>1, <3>1 DEF Moved, Versioned
  <2>4. QED BY <2>2, <2>3
<1>4. CASE ConsumerCommit
  <2>1. consumer.a \in Attempts /\ consumer.ver \in Nat
    BY <1>4 DEF ConsumerCommit, Typed, ConsumerTyped, ConsumerType
  <2>2. \A a \in Attempts : \/ row'[a] = row[a]
                           \/ /\ row'[a].version = consumer.ver + 1
                              /\ row'[a].status \in {"SUSPENDED", "EVALUATING"}
    <3>1. CASE Matches(consumer.a, consumer.ver)
      <4>1. PICK s \in {"SUSPENDED", "EVALUATING"} :
              row' = [row EXCEPT ![consumer.a] = [status |-> s, version |-> consumer.ver + 1, env |-> NoEnv]]
        BY <1>4, <3>1 DEF ConsumerCommit
      <4>2. QED BY <2>1, <4>1 DEF Typed, RowTyped
    <3>2. CASE ~Matches(consumer.a, consumer.ver)
      BY <1>4, <3>2 DEF ConsumerCommit
    <3>3. QED BY <3>1, <3>2
  <2>3. QED BY <1>0, <2>1, <2>2 DEF Versioned, Verdicts
<1>5. QED BY <1>1, <1>2, <1>3, <1>4, QuietRow, ContinueCases DEF Next, Consumer, vars

\* Only EvaluateState writes learner_activity_state.
LEMMA StateWriter ==
  ASSUME [Next]_vars
  PROVE  UNCHANGED activityState \/ \E h \in Handlers : EvaluateState(h)
<1>1. ASSUME NEW h \in Handlers, Continue(h) PROVE UNCHANGED activityState \/ EvaluateState(h)
  BY <1>1 DEF Continue, CreateRow, CreateEvent, ReactivateCommit, ProvisionRead,
       ProvisionCommit, OrchestratorReady, OrchestratorNotReady, OrchestratorError,
       ProvisionReread, ProvisionFinish, MarkStartedCommit, SubmitCommit, EvaluateRead,
       EvaluateScore, EvaluateRecord, EvaluateCommit, SubmitDestroy, CacheCommit
<1>2. ASSUME NEW h \in Handlers, NEW a \in Attempts, NewRequest(h, a) PROVE UNCHANGED activityState
  BY <1>2 DEF NewRequest, CreateCheck, ReactivateRead, MarkStartedRead, SubmitRead, CacheRead
<1>3. Orchestrator \/ Consumer \/ LoseMessage \/ (\E h \in Handlers : AbortRequest(h)) \/ UNCHANGED vars
        => UNCHANGED activityState
  BY DEF Orchestrator, DestroyCheck, DestroyPublish, Consumer, ConsumerRead, ConsumerCommit, LoseMessage,
         AbortRequest, vars
<1>4. QED BY <1>1, <1>2, <1>3 DEF Next

LEMMA VerdictStep ==
  ASSUME Typed, NoneIsFresh, ConsumerFresh, EventInv, VerdictInv, [Next]_vars
  PROVE  VerdictInv'
<1>0. Typed' /\ LogGrows /\ Versioned'
  BY TypedStep, LogOnlyGrows, VersionedStep
<1>1. \A h \in Handlers : FreshAt(h)'
  <2>1. ASSUME NEW h \in Handlers, Others(h), FreshAt(h)' PROVE \A k \in Handlers : FreshAt(k)'
    BY <1>0, <2>1, FreshStays DEF Others
  <2>2. ASSUME NEW h \in Handlers, NEW a \in Attempts, NewRequest(h, a) PROVE Others(h) /\ FreshAt(h)'
    BY <2>2, EnterFresh DEF NewRequest, CreateCheck, ReactivateRead, MarkStartedRead, SubmitRead, CacheRead
  <2>3. ASSUME NEW h \in Handlers, Continue(h) \/ AbortRequest(h) PROVE Others(h) /\ FreshAt(h)'
    BY <2>3, QuietFresh, CommitFresh, ContinueCases
  <2>4. CASE UNCHANGED proc
    BY <1>0, <2>4, FreshStays
  <2>5. Orchestrator \/ Consumer \/ LoseMessage \/ UNCHANGED vars => UNCHANGED proc
    BY DEF Orchestrator, DestroyCheck, DestroyPublish, Consumer, ConsumerRead, ConsumerCommit, LoseMessage, vars
  <2>6. QED BY <2>1, <2>2, <2>3, <2>4, <2>5 DEF Next
<1>2. ActivityStateIsVerdict'
  <2> SUFFICES ASSUME NEW a \in Attempts, activityState'[a] # "none"
               PROVE  row'[a].status = activityState'[a] \/ Unsettled(a)'
    BY DEF ActivityStateIsVerdict
  <2>1. CASE activityState'[a] = activityState[a]
    <3>1. row[a].status = activityState[a] \/ Unsettled(a)
      BY <2>1 DEF VerdictInv, ActivityStateIsVerdict
    <3>2. activityState[a] \in Verdicts
      BY <2>1 DEF Typed, TablesTyped
    <3>3. QED BY <1>0, <2>1, <3>1, <3>2, VerdictStands, UnsettledStays
  <2>2. CASE activityState'[a] # activityState[a]
    <3>1. PICK h \in Handlers : EvaluateState(h)
      BY <2>2, StateWriter
    <3>2. proc[h].pc = "state" /\ UNCHANGED row
      BY <3>1 DEF EvaluateState, At
    <3>3. a = proc[h].a /\ activityState'[a] = proc[h].verdict
      BY <2>2, <3>1, <3>2, AtWork DEF EvaluateState, Typed, TablesTyped
    <3>4. row[a].status = proc[h].verdict \/ Unsettled(a)
      BY <3>2, <3>3 DEF VerdictInv, FreshAt
    <3>5. QED BY <1>0, <3>2, <3>3, <3>4, UnsettledStays
  <2>3. QED BY <2>1, <2>2
<1>3. QED BY <1>0, <1>1, <1>2 DEF VerdictInv

\* evaluation.service.ts, evaluate: learner_activity_state shows the verdict
\* the row carries, for any number of requests, environments and teardown
\* callers, failing RPCs and late messages: only a provision() whose answer
\* comes after the verdict takes the row out of it.
THEOREM ActivityShowsVerdict == Spec => []ActivityStateIsVerdict
<1>1. Init => ConsumerFresh /\ EventInv /\ VerdictInv
  <2> SUFFICES ASSUME Init PROVE ConsumerFresh /\ EventInv /\ VerdictInv
    OBVIOUS
  <2>1. ConsumerFresh
    BY DEF Init, Free, ConsumerFresh
  <2>2. EventInv
    BY DEF Init, Idle, EventInv, RequestsAreLogged, Explained, Announced
  <2>3. \A h \in Handlers : FreshAt(h)
    BY DEF Init, Idle, FreshAt
  <2>4. ActivityStateIsVerdict /\ Versioned
    BY DEF Init, ActivityStateIsVerdict, Versioned, Verdicts
  <2>5. QED BY <2>1, <2>2, <2>3, <2>4 DEF VerdictInv
<1>2. VerdictInv => ActivityStateIsVerdict
  BY DEF VerdictInv
<1>3. QED BY <1>1, <1>2, VerdictStep, EventInvStep, ConsumerFreshStep, TypedInvariant, NoneIsFreshInvariant, PTL
        DEF Spec
=============================================================================
