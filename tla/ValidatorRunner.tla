-------------------------- MODULE ValidatorRunner --------------------------
(***************************************************************************)
(* The validator runner at a submission (validator-runner.service): it     *)
(* races each execution of a validator against a timer and retries it; an  *)
(* execution that lost the race goes on running commands in the learner's  *)
(* environment, and the learner goes on working there.                     *)
(***************************************************************************)
EXTENDS Checks

CONSTANTS
    Validators,     \* the validators to try
    maxAttempts,    \* 3 in the code
    MaxRuns,        \* bound on validation runs
    MaxEdits,       \* bound on what the learner does meanwhile
    MaxLate         \* bound on executions that go on at once after they were given up

ASSUME RunnerAssumption ==
    /\ {maxAttempts, Window} \subseteq Nat \ {0}
    /\ {MaxRuns, MaxEdits, MaxLate} \subseteq Nat
    /\ \A u \in Validators : IsValidator(u)

VARIABLES
    v,              \* the validator (never changes)
    bad,            \* what of it the learner's work gets wrong
    world,          \* what executions leave behind: [summary, report, chaos, blip]
    execs,          \* executions by run and attempt: [log, saw, active]
    run,            \* the validation run under way, or the last one
    runs, edits     \* runs and edits so far

runnerVars == <<v, bad, world, execs, run, runs, edits>>

\* An execution: the answers it has, the states of the work that its present
\* command has met since it began, and whether it goes on.
Unused == [log |-> <<>>, saw |-> {}, active |-> FALSE]
Begun == [log |-> <<>>, saw |-> {bad}, active |-> TRUE]
Execs == (1 .. MaxRuns) \X (1 .. maxAttempts)
NoRun == [pc |-> "none"]

\* What the validator asks of the work.
Aspects(u) == IF u.type \in {"IAC_STATE", "CLOUD_ASSERT"} THEN ToSet(u.checks) ELSE {u.type}

RunnerInit ==
    /\ v \in Validators
    /\ bad \in {{}} \cup {{a} : a \in Aspects(v)}
    /\ world = [summary |-> "none", report |-> "none", chaos |-> FALSE, blip |-> FALSE]
    /\ execs = [k \in Execs |-> Unused]
    /\ run = NoRun
    /\ runs = 0
    /\ edits = 0

\* No runner in this environment.
Absent ==
    /\ v = (CHOOSE u \in Validators : TRUE) /\ bad = {}
    /\ world = [summary |-> "none", report |-> "none", chaos |-> FALSE, blip |-> FALSE]
    /\ execs = [k \in Execs |-> Unused]
    /\ run = NoRun /\ runs = MaxRuns /\ edits = MaxEdits

-----------------------------------------------------------------------------
(* ValidatorRunnerService *)

\* The answers a command may give, external to the code: what the work it met
\* deserves, or a failure of the platform.
Answer(cmd, met) ==
    LET if(aspect, dirty, clean) == {IF aspect \in met THEN dirty ELSE clean}
        work == v.type \in met
    IN CASE cmd.name = "plan" -> {"infra", "missing", "1"} \cup if("no_drift", "2", "0")
         [] cmd.name = "pull" -> {"infra", "missing", "fail"} \cup if("forbid_secrets_in_state", "secret", "clean")
         [] cmd.name = "ls" -> {"infra"} \cup if("require_remote_backend", "LOCAL", "REMOTE")
         [] cmd.name = "aws" -> {"infra", "missing", "error"} \cup if(cmd.check, "dirty", "clean") \cup
                                (IF cmd.check \in Detailed THEN {"unread"} ELSE {})
         [] cmd.name = "tool" -> {"infra", "missing", "crash"} \cup
                                 (IF work THEN {"dirty", "unrated"} ELSE {"clean"})
         [] cmd.name = "test" -> {"infra", "missing", "crash"} \cup {IF work THEN "1" ELSE "0"}
         [] cmd.name = "cat" -> {"infra", world.report}
         [] cmd.name = "write" -> {"infra", "missing", "ok"}
         [] cmd.name = "k6" -> {"infra", "missing", "crash", "ran"}
         [] cmd.name = "summary" -> {"infra", world.summary}
         [] cmd.name = "chaos" -> {"infra", "fail", "applied"}
         [] cmd.name = "curl" -> {"infra", IF work /\ world.chaos THEN "503" ELSE "200"} \cup
                                 (IF world.blip THEN {"503"} ELSE {})
         [] OTHER -> {"infra", Judge(~work)} \cup (IF v.type = "NO_REGRESSION" THEN {} ELSE {"ERROR"})

\* What a command leaves in the workspace when it ends.  Nothing takes the
\* chaos back, and the files have fixed names; a service that survives the
\* chaos may still fail the next probe, and one under the load of two
\* executions may be slow.
Leaves(cmd, met, answer) ==
    CASE cmd.name = "test" /\ answer \in {"0", "1"} ->
           {[world EXCEPT !.report = t] : t \in IF answer = "0" THEN {"enough", "garbage"}
                                                ELSE {"toofew", "allskipped", "garbage"}}
      [] cmd.name = "k6" /\ answer = "ran" ->
           {[world EXCEPT !.summary = s] : s \in {"flat", IF v.type \in met THEN "slow" ELSE "fast"} \cup
                                                 (IF run.crowded THEN {"slow"} ELSE {})}
      [] cmd.name = "chaos" /\ answer = "applied" -> {[world EXCEPT !.chaos = TRUE, !.blip = TRUE]}
      [] cmd.name = "curl" /\ answer # "infra" -> {[world EXCEPT !.blip = FALSE]}
      [] OTHER -> {world}

Lasting == v.type \in {"TEST_SUITE", "PERF_BENCH", "CHAOS_PROBE"}
Current == <<runs, run.attempt>>

StartRun ==
    /\ run.pc # "executing"
    /\ runs < MaxRuns
    /\ runs' = runs + 1
    /\ run' = [pc |-> "executing", attempt |-> 1,
               seen |-> {bad} \cup UNION {execs[k].saw : k \in Execs},
               crowded |-> \E k \in Execs : execs[k].active]
    /\ execs' = [execs EXCEPT ![<<runs + 1, 1>>] = Begun]
    /\ UNCHANGED <<v, bad, world, edits>>

\* One command of an execution ends and the next one begins.  It may have taken
\* minutes and judged the work as it was at any moment of them.  An execution
\* that ends late is heard by nobody.
RunCommand(k) ==
    LET log == execs[k].log
        cmd == Program(v)[Len(log) + 1]
        current == run.pc = "executing" /\ k = Current IN
    /\ execs[k].active
    /\ execute(v, log) = "RUNNING"
    /\ \E met \in execs[k].saw : \E answer \in Answer(cmd, met) :
         /\ world' \in Leaves(cmd, met, answer)
         /\ execs' = [execs EXCEPT ![k] =
              IF ~current /\ execute(v, Append(log, answer)) # "RUNNING" THEN Unused
              ELSE [Begun EXCEPT !.log = Append(log, answer)]]
    /\ UNCHANGED <<v, bad, run, runs, edits>>

Record(status, log) ==
    run' = [pc |-> "recorded", status |-> status, log |-> log, seen |-> run.seen, crowded |-> run.crowded]

\* An execution given up goes on; it is kept here if its commands change
\* something.
GiveUp(e) == IF Lasting /\ execute(v, e.log) = "RUNNING" THEN e ELSE Unused

\* The next attempt, while an attempt that timed out goes on.
retry(k) ==
    /\ execs' = [execs EXCEPT ![k] = GiveUp(@), ![<<k[1], k[2] + 1>>] = Begun]
    /\ run' = [run EXCEPT !.attempt = @ + 1, !.crowded = @ \/ execute(v, execs[k].log) = "RUNNING"]

\* The execution answered in time: ERROR is tried again.
Settle ==
    LET k == Current
        status == execute(v, execs[k].log) IN
    /\ run.pc = "executing"
    /\ status # "RUNNING"
    /\ IF status = "ERROR" /\ run.attempt < maxAttempts
       THEN retry(k)
       ELSE Record(status, execs[k].log) /\ execs' = [execs EXCEPT ![k] = Unused]
    /\ UNCHANGED <<v, bad, world, runs, edits>>

Timeout ==
    LET k == Current IN
    /\ run.pc = "executing"
    /\ Cardinality({j \in Execs : execs[j].active}) <= MaxLate
    /\ execute(v, execs[k].log) = "RUNNING"
    /\ IF run.attempt < maxAttempts
       THEN retry(k)
       ELSE Record("ERROR", <<>>) /\ execs' = [execs EXCEPT ![k] = GiveUp(@)]
    /\ UNCHANGED <<v, bad, world, runs, edits>>

\* The learner goes on working.
Edit ==
    /\ edits < MaxEdits
    /\ edits' = edits + 1
    /\ bad' \in {b \in {{}} \cup {{a} : a \in Aspects(v)} : b # bad}
    /\ run' = IF run.pc = "executing" THEN [run EXCEPT !.seen = @ \cup {bad'}] ELSE run
    /\ execs' = [k \in Execs |-> IF execs[k].active THEN [execs[k] EXCEPT !.saw = @ \cup {bad'}] ELSE execs[k]]
    /\ UNCHANGED <<v, world, runs>>

-----------------------------------------------------------------------------
RunnerNext == StartRun \/ (\E k \in Execs : RunCommand(k)) \/ Settle \/ Timeout \/ Edit

RunnerSpec == RunnerInit /\ [][RunnerNext]_runnerVars

-----------------------------------------------------------------------------
(* Properties *)

Said(name) == Answers(Program(v), run.log, name)

Unread(check) == \E i \in DOMAIN run.log : Program(v)[i].check = check /\ run.log[i] = "unread"
NotRun(name) == Said(name) \cap {"missing", "crash"} # {}

\* The places where an executor looks away: a scanner that did not run, an
\* unrated finding, a policy that could not be read, a report or a summary
\* that this run did not write or that lacks the numbers.
Blind ==
    \/ NotRun("tool") \/ "unrated" \in Said("tool")
    \/ Unread("no_wildcard_admin_policy")
    \/ v.report /\ NotRun("test")
    \/ NotRun("k6") \/ "flat" \in Said("summary")

\* And where it blames the learner for the platform: terraform, the tests or
\* the load test not run, a bucket that could not be read, a probe that could
\* not run, a single probe for the recovery, the load or the chaos of an
\* execution given up.
Harsh ==
    \/ NotRun("plan") \/ NotRun("test")
    \/ Unread("no_public_s3")
    \/ NotRun("k6") \/ "flat" \in Said("summary")
    \/ v.type = "PERF_BENCH" /\ run.crowded
    \/ v.type = "CHAOS_PROBE" /\ ("infra" \in ToSet(run.log) \/ run.crowded \/ Window = 1)

\* validator-executor.interface.ts and shell-runner.ts ("never scored against
\* the learner"): apart from the places named above, whatever times out, is
\* retried or overlaps, a PASS is recorded only if all that the validator asks
\* for was right at some moment, though not all at the same one, and a FAIL
\* only if something was wrong at one.  The moments are those of the run and
\* of the commands that earlier runs gave up and that were still going on when
\* it began: the run may read the report of such a command, so that the
\* verdict may be about work the learner has mended, or broken, since.
VerdictIsEarned ==
    run.pc = "recorded" =>
        /\ run.status = "PASS" => Blind \/ \A a \in Aspects(v) : \E b \in run.seen : a \notin b
        /\ run.status = "FAIL" => Harsh \/ \E b \in run.seen : b # {}
=============================================================================
