----------------------------- MODULE MCMastery -----------------------------
(* Small instances of Mastery and Recommendation for TLC. *)
EXTENDS Recommendation, TLC

TwoSkills == {"linux", "docker"}
BuildsOn == {[from |-> "linux", to |-> "docker", type |-> "BUILDS_ON"]}
ThreeActivities ==
    [shell |-> [primary |-> "linux", weights |-> [linux |-> 100], level |-> "L1",
                status |-> "PUBLISHED", topics |-> [basics |-> 100]],
     image |-> [primary |-> "docker", weights |-> [docker |-> 70, linux |-> 30], level |-> "L2",
                status |-> "PUBLISHED", topics |-> [containers |-> 100]],
     build |-> [primary |-> "docker", weights |-> [docker |-> 100], level |-> "L3",
                status |-> "PUBLISHED", topics |-> [containers |-> 50]]]
PassOrFail == {[score |-> 40, genuine |-> TRUE], [score |-> 100, genuine |-> TRUE],
               [score |-> 100, genuine |-> FALSE]}
OnlyDocker == {{"docker"}}

\* cooldown.ts: min(24h * 2^retry, 7d).
ASSUME BackoffDoubles == \A retry \in 0 .. 20 : CooldownHours(retry) = Min({24 * 2 ^ retry, 7 * 24})

HandlerSymmetry == Permutations(Handlers)
=============================================================================
