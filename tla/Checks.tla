------------------------------- MODULE Checks -------------------------------
(***************************************************************************)
(* The validator executors of modules/evaluation/t3 and the gRPC executor. *)
(* An executor runs a few commands in the learner's workspace, one after   *)
(* the other, and judges what they answer.  Program(v) is the list of its  *)
(* commands, and run...(v, log) its status once the first Len(log) of them *)
(* have answered: "RUNNING" while it wants the next one.                   *)
(*                                                                         *)
(* "infra" is a command that the ShellRunner could not run; "missing" one  *)
(* that ExecShell ran in a pod without the binary: exit 127, no output and *)
(* no infraError.                                                          *)
(***************************************************************************)
EXTENDS Integers, Sequences, FiniteSets, FiniteSetsExt, SequencesExt

\* A validator: type and configuration.  `checks` lists what it asks for,
\* `report` whether it names a report file, `script` a load script.
\* `limit` is max_findings, `rate` min_pass_rate in percent.
NoLimit == -1
IacChecks == {"no_drift", "require_remote_backend", "forbid_secrets_in_state"}

Cmd(name) == [name |-> name, check |-> ""]
When(c, s) == IF c THEN s ELSE <<>>
Asks(v, check) == check \in ToSet(v.checks)

IsValidator(v) ==
    /\ v.checks \in Seq(STRING) /\ {v.report, v.script} \subseteq BOOLEAN
    /\ v.limit \in Nat \cup {NoLimit} /\ v.rate \in 1 .. 100
    /\ v.type = "IAC_STATE" => ToSet(v.checks) \subseteq IacChecks

\* The answers of the commands of a program called name.
Answers(program, log, name) == {log[i] : i \in {j \in DOMAIN log : program[j].name = name}}

Judge(ok) == IF ok THEN "PASS" ELSE "FAIL"
Status(error, running, ok) == IF error THEN "ERROR" ELSE IF running THEN "RUNNING" ELSE Judge(ok)

-----------------------------------------------------------------------------
(* IAC_STATE *)

IacProgram(v) ==
    When(Asks(v, "no_drift"), <<Cmd("plan")>>) \o
    When(Asks(v, "require_remote_backend") \/ Asks(v, "forbid_secrets_in_state"), <<Cmd("pull")>>) \o
    When(Asks(v, "require_remote_backend"), <<Cmd("ls")>>)

runIacState_bug(v, log) ==
    LET of(name) == Answers(IacProgram(v), log, name) IN
    Status(v.checks = <<>> \/ "infra" \in of("pull") \cup of("ls") \/ of("pull") \cap {"fail", "missing"} # {},
           Len(log) < Len(IacProgram(v)),
           /\ of("plan") \subseteq {"0"}
           /\ of("ls") \subseteq {"REMOTE"}
           /\ Asks(v, "forbid_secrets_in_state") => of("pull") = {"clean"})

\* terraform plan answers 0 for no change, 2 for changes and 1 for an error;
\* any other exit code is drift.
runIacState(v, log) ==
    LET of(name) == Answers(IacProgram(v), log, name) IN
    Status(v.checks = <<>> \/ "infra" \in ToSet(log) \/ "1" \in of("plan") \/ of("pull") \cap {"fail", "missing"} # {},
           Len(log) < Len(IacProgram(v)),
           /\ of("plan") \subseteq {"0"}
           /\ of("ls") \subseteq {"REMOTE"}
           /\ Asks(v, "forbid_secrets_in_state") => of("pull") = {"clean"})

-----------------------------------------------------------------------------
(* CLOUD_ASSERT *)

\* These two ask again about each resource they find.
Detailed == {"no_public_s3", "no_wildcard_admin_policy"}
CHECKS == Detailed \cup {"rds_encrypted_at_rest", "no_world_open_admin_ports", "non_default_vpc_present"}

\* The calls of one check are one step: they change nothing.
CloudProgram(v) == [i \in DOMAIN v.checks |-> [name |-> "aws", check |-> v.checks[i]]]

\* awsJson throws unless the CLI answers JSON.  A detail that cannot be had
\* ("unread") is caught: a bucket then counts as public, a policy as harmless.
CheckPasses(cmd, answer) == answer = "clean" \/ (cmd.check = "no_wildcard_admin_policy" /\ answer = "unread")

runCloudAssert(v, log) ==
    Status(v.checks = <<>> \/ ~ ToSet(v.checks) \subseteq CHECKS \/ ToSet(log) \cap {"infra", "missing", "error"} # {},
           Len(log) < Len(CloudProgram(v)),
           \A i \in DOMAIN log : CheckPasses(CloudProgram(v)[i], log[i]))

-----------------------------------------------------------------------------
(* STATIC_ANALYSIS *)

SEVERITY_ORDER == [NONE |-> 0, LOW |-> 1, MEDIUM |-> 2, HIGH |-> 3, CRITICAL |-> 4]

\* A severity that is not in the list ranks as NONE.
sevRank(s) == IF s \in DOMAIN SEVERITY_ORDER THEN SEVERITY_ORDER[s] ELSE 0

StaticProgram(v) == <<Cmd("tool")>>

\* The findings in the tool's JSON, how many and how severe; output that is no
\* JSON has none.
runTool(v, answer) ==
    LET many(severity) == [severity |-> severity, count |-> Max({0, v.limit}) + 1] IN
    CASE answer = "unrated" -> many("UNKNOWN")
      [] answer = "dirty" -> many("HIGH")
      [] OTHER -> [severity |-> "NONE", count |-> 0]

runStaticAnalysis(v, log) ==
    LET findings == runTool(v, log[1])
        overThreshold == IF sevRank(findings.severity) > sevRank("NONE") THEN findings.count ELSE 0 IN
    Status("infra" \in ToSet(log),
           log = <<>>,
           overThreshold <= IF v.limit = NoLimit THEN 0 ELSE v.limit)

-----------------------------------------------------------------------------
(* TEST_SUITE *)

TestProgram(v) == <<Cmd("test")>> \o When(v.report, <<Cmd("cat")>>)

\* What a report says of the tests: just enough of a hundred pass, or one too
\* few, or all are skipped; "garbage" no parser can read.
parseReport(v, text) ==
    CASE text = "enough" -> [total |-> 100, passed |-> v.rate, skipped |-> 0]
      [] text = "toofew" -> [total |-> 100, passed |-> v.rate - 1, skipped |-> 0]
      [] text = "allskipped" -> [total |-> 100, passed |-> 0, skipped |-> 100]
      [] OTHER -> [total |-> 0, passed |-> 0, skipped |-> 0]

\* Without a report file the report is what the command printed, and the
\* command is taken to fail when too few of its tests pass.
Printed(test) == CASE test = "0" -> "enough" [] test = "1" -> "toofew" [] OTHER -> "garbage"

runTestSuite(v, log) ==
    LET counts == parseReport(v, IF v.report THEN log[2] ELSE Printed(log[1])) IN
    Status("infra" \in ToSet(log) \/ (Len(log) = 2 /\ log[2] = "none"),
           Len(log) < Len(TestProgram(v)),
           IF counts.total = 0 THEN log[1] = "0"
           ELSE 100 * counts.passed >= v.rate * Max({1, counts.total - counts.skipped}))

-----------------------------------------------------------------------------
(* PERF_BENCH *)

PerfProgram(v) == When(~v.script, <<Cmd("write")>>) \o <<Cmd("k6"), Cmd("summary")>>

\* k6's exit code is not looked at.  A summary without the p95 fails a gate
\* on it; one without the error rate passes.
runPerfBench(v, log) ==
    LET of(name) == Answers(PerfProgram(v), log, name) IN
    Status("infra" \in ToSet(log) \/ "missing" \in of("write") \/ "none" \in of("summary"),
           Len(log) < Len(PerfProgram(v)),
           of("summary") = {"fast"} \/ (of("summary") = {"flat"} /\ ~Asks(v, "p95_ms_max")))

-----------------------------------------------------------------------------
(* CHAOS_PROBE *)

CONSTANT Window     \* health probes in recovery_timeout_ms

ChaosProgram(v) == <<Cmd("curl"), Cmd("chaos")>> \o [i \in 1 .. Window |-> Cmd("curl")]

\* A probe that cannot run ends the window; one failed probe is forgiven.
runChaosProbe(v, log) ==
    LET probes == 3 .. Len(log)
        results == {i \in probes : log[i] # "infra"}
        badCount == Cardinality({i \in results : log[i] # "200"})
        endGreen == \E i \in results : log[i] = "200" /\ \A j \in results : j <= i IN
    Status(v.checks = <<>> \/ (Len(log) >= 1 /\ log[1] # "200") \/ (Len(log) >= 2 /\ log[2] # "applied"),
           Len(log) < Len(ChaosProgram(v)) /\ results = probes,
           badCount <= 1 /\ endGreen)

-----------------------------------------------------------------------------
(* GrpcValidatorExecutor: ExecValidator, or CheckRegression *)

GrpcProgram(v) == <<Cmd("rpc")>>

executeGrpc(v, log) == Status(ToSet(log) \cap {"infra", "ERROR"} # {}, log = <<>>, log[1] = "PASS")

\* A regression is a FAIL; without a snapshot key or a baseline it is an ERROR.
executeNoRegression(v, log) == Status(v.checks = <<>> \/ "infra" \in ToSet(log), log = <<>>, log[1] = "PASS")

-----------------------------------------------------------------------------
(* T3ValidatorExecutor *)

Program(v) ==
    CASE v.type = "IAC_STATE" -> IacProgram(v)
      [] v.type = "CLOUD_ASSERT" -> CloudProgram(v)
      [] v.type = "STATIC_ANALYSIS" -> StaticProgram(v)
      [] v.type = "TEST_SUITE" -> TestProgram(v)
      [] v.type = "PERF_BENCH" -> PerfProgram(v)
      [] v.type = "CHAOS_PROBE" -> ChaosProgram(v)
      [] OTHER -> GrpcProgram(v)

execute(v, log) ==
    CASE v.type = "IAC_STATE" -> runIacState(v, log)
      [] v.type = "CLOUD_ASSERT" -> runCloudAssert(v, log)
      [] v.type = "STATIC_ANALYSIS" -> runStaticAnalysis(v, log)
      [] v.type = "TEST_SUITE" -> runTestSuite(v, log)
      [] v.type = "PERF_BENCH" -> runPerfBench(v, log)
      [] v.type = "CHAOS_PROBE" -> runChaosProbe(v, log)
      [] v.type = "NO_REGRESSION" -> executeNoRegression(v, log)
      [] OTHER -> executeGrpc(v, log)
=============================================================================
