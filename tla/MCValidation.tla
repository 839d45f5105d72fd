---------------------------- MODULE MCValidation ----------------------------
(* A small instance of Validation for TLC. *)
EXTENDS Validation

Plain(type) == [type |-> type, checks |-> <<type>>, report |-> FALSE, script |-> FALSE,
                limit |-> NoLimit, rate |-> 100]
Asking(type, checks) == [Plain(type) EXCEPT !.checks = checks]

SomeValidators ==
    {Asking("IAC_STATE", <<"no_drift", "require_remote_backend", "forbid_secrets_in_state">>),
     Asking("IAC_STATE", <<"forbid_secrets_in_state">>), Asking("IAC_STATE", <<>>),
     Asking("CLOUD_ASSERT", <<"no_public_s3", "rds_encrypted_at_rest">>),
     Asking("CLOUD_ASSERT", <<"no_wildcard_admin_policy">>), Asking("CLOUD_ASSERT", <<"no_such_check">>),
     Plain("STATIC_ANALYSIS"), [Plain("STATIC_ANALYSIS") EXCEPT !.limit = 1],
     Plain("TEST_SUITE"), [Plain("TEST_SUITE") EXCEPT !.report = TRUE, !.rate = 80],
     Asking("PERF_BENCH", <<"p95_ms_max">>), [Asking("PERF_BENCH", <<>>) EXCEPT !.script = TRUE],
     Plain("CHAOS_PROBE"), Plain("K8S_ASSERT"), Plain("NO_REGRESSION"), Asking("NO_REGRESSION", <<>>)}
RubricLevels == <<1, 2>>
CountsTried == {0, 2, 9, NaN}
=============================================================================
