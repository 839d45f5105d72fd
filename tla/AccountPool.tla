----------------------------- MODULE AccountPool -----------------------------
(***************************************************************************)
(* The orchestrator's pool of sandbox cloud accounts in one region:        *)
(* accountpool.Manager (Claim, ReclaimForAttempt, Release), its Filler,    *)
(* the nightly sweeper, the budget enforcer, and the T3 driver's Provision *)
(* and Destroy, Snapshot and Restore that call them.                       *)
(*                                                                         *)
(* The table env.cloud_account is authoritative and the Redis set is an    *)
(* index of it; every statement on either is one step, because every call  *)
(* runs in its own goroutine and nothing locks across statements.          *)
(* Every environment of an attempt after its first is a Restore of it,     *)
(* which keeps the id and the namespace of the first.  What is in an       *)
(* account, and who still has credentials for it, is left out: a nuke      *)
(* either verifies or does not.                                            *)
(***************************************************************************)
EXTENDS Naturals, FiniteSets

CONSTANTS
  Accounts,         \* vended accounts
  Attempts,         \* attempts that use a cloud environment
  NoAccount,        \* no account
  NoAttempt,        \* the SQL NULL of attempt_id
  MaxCrashes        \* bound: restarts of the orchestrator

ASSUME BoundAssumption == MaxCrashes \in Nat

ASSUME NamesAssumption == NoAccount \notin Accounts /\ NoAttempt \notin Attempts

VARIABLES
  acct,       \* env.cloud_account: state and attempt_id
  avail,      \* the Redis set accountpool:available:<region>
  claim,      \* the Claim or Restore each attempt is in
  env,        \* the account of each attempt's workspace pod
  ending,     \* attempts whose workspace pod is to go: its teardown has begun
  home,       \* the account named by each attempt's environment row and snapshot
  rel,        \* the Releases in flight
  filler,     \* Filler.tick
  sweep,      \* sweepOnce
  acted,      \* Enforcer.acted
  crashes     \* restarts so far

vars == <<acct, avail, claim, env, ending, home, rel, filler, sweep, acted, crashes>>

States == {"AVAILABLE", "IN_USE", "NUKING", "QUARANTINED"}

\* Who runs a Release: a failed claim or the teardown of an attempt, or tick.
Releasers == (Attempts \X {"claim", "destroy"}) \union {<<NoAttempt, "filler">>}

TheFiller == <<NoAttempt, "filler">>

NoClaim == [pc |-> "idle", c |-> NoAccount, restore |-> FALSE]

NoRelease == [pc |-> "idle", c |-> NoAccount]

NoTick == [pc |-> "idle", found |-> {}, stuck |-> {}]

NoSweep == [pc |-> "idle", todo |-> {}, c |-> NoAccount]

Init ==
  /\ acct = [c \in Accounts |-> [state |-> "AVAILABLE", holder |-> NoAttempt]]
  /\ avail = Accounts
  /\ claim = [a \in Attempts |-> NoClaim]
  /\ env = [a \in Attempts |-> NoAccount]
  /\ ending = {}
  /\ home = [a \in Attempts |-> NoAccount]
  /\ rel = [r \in Releasers |-> NoRelease]
  /\ filler = NoTick
  /\ sweep = NoSweep
  /\ acted = {}
  /\ crashes = 0

-----------------------------------------------------------------------------
SetState(c, s) == acct' = [acct EXCEPT ![c].state = s]

\* Release(c) begins in r, whoever else is releasing c.
StartRelease(r, c) ==
  /\ rel[r].pc = "idle"
  /\ rel' = [rel EXCEPT ![r] = [pc |-> "mark", c |-> c]]

\* The attempt's environment is up and nobody is tearing it down.
Serving(a) == env[a] # NoAccount /\ a \notin ending

-----------------------------------------------------------------------------
\* Claim: pop the Redis set, then the guarded update, then the AWS calls.

ClaimAt(a, pc) == claim[a].pc = pc

ClaimGoto(a, pc) == claim' = [claim EXCEPT ![a].pc = pc]

\* No Provision, Restore or teardown of the attempt is in flight.
MayStart(a) == ClaimAt(a, "idle") /\ rel[<<a, "destroy">>].pc = "idle"

\* A Restore is asked for when the pod is gone, or again after a Restore that
\* failed with its pod up.
MayRestore(a) ==
  MayStart(a) /\ home[a] # NoAccount /\ (env[a] = NoAccount \/ env[a] # home[a])

\* SPop, of a new Provision or of a Restore that could not get its account.
Pop(a, restore) ==
  \E c \in avail :
    /\ avail' = avail \ {c}
    /\ claim' = [claim EXCEPT ![a] = [pc |-> "popped", c |-> c, restore |-> restore]]

ClaimPop(a) ==
  /\ MayStart(a) /\ env[a] = NoAccount /\ home[a] = NoAccount /\ Pop(a, FALSE)
  /\ UNCHANGED <<acct, env, ending, home, rel, filler, sweep, acted, crashes>>

ClaimUpdate_bug(a) ==
  /\ ClaimAt(a, "popped")
  /\ acct' = [acct EXCEPT ![claim[a].c] = [state |-> "IN_USE", holder |-> a]]
  /\ ClaimGoto(a, "arming")
  /\ UNCHANGED <<avail, env, ending, home, rel, filler, sweep, acted, crashes>>

ClaimUpdate(a) ==
  LET c == claim[a].c
  IN  /\ ClaimAt(a, "popped")
      /\ IF acct[c].state = "AVAILABLE"
         THEN /\ acct' = [acct EXCEPT ![c] = [state |-> "IN_USE", holder |-> a]]
              /\ ClaimGoto(a, "arming")
         ELSE UNCHANGED acct /\ claim' = [claim EXCEPT ![a] = NoClaim]
      /\ UNCHANGED <<avail, env, ending, home, rel, filler, sweep, acted, crashes>>

\* Budget, baseline and tag are in place.
ClaimArm(a) ==
  /\ ClaimAt(a, "arming")
  /\ ClaimGoto(a, "starting")
  /\ UNCHANGED <<acct, avail, env, ending, home, rel, filler, sweep, acted, crashes>>

\* One of the AWS calls fails: an update without a guard, then a Release.
rollbackClaim(a) ==
  /\ claim[a].pc \in {"arming", "rearm"}
  /\ SetState(claim[a].c, "NUKING")
  /\ StartRelease(<<a, "claim">>, claim[a].c)
  /\ claim' = [claim EXCEPT ![a] = NoClaim]
  /\ UNCHANGED <<avail, env, ending, home, filler, sweep, acted, crashes>>

-----------------------------------------------------------------------------
\* The workspace pod, and what Provision and Restore do after it: Provision
\* starts the credential broker, Restore runs terraform apply, for minutes.
\* Only then does the environment row name the account.

\* The pod is created in a namespace that is gone.
StartPod(a) ==
  /\ ClaimAt(a, "starting") /\ env[a] = NoAccount
  /\ env' = [env EXCEPT ![a] = claim[a].c]
  /\ ClaimGoto(a, "applying")
  /\ UNCHANGED <<acct, avail, ending, home, rel, filler, sweep, acted, crashes>>

\* The row is written, or the write fails and is only logged.
WriteRow(a) ==
  /\ ClaimAt(a, "applying")
  /\ home' \in {home, [home EXCEPT ![a] = claim[a].c]}
  /\ claim' = [claim EXCEPT ![a] = NoClaim]
  /\ UNCHANGED <<acct, avail, env, ending, rel, filler, sweep, acted, crashes>>

\* Provision deletes its pod, if it got that far, and releases the account.
ProvisionFails(a) ==
  /\ claim[a].pc \in {"starting", "applying"} /\ ~claim[a].restore
  /\ env' = IF ClaimAt(a, "applying") THEN [env EXCEPT ![a] = NoAccount] ELSE env
  /\ StartRelease(<<a, "claim">>, claim[a].c)
  /\ claim' = [claim EXCEPT ![a] = NoClaim]
  /\ UNCHANGED <<acct, avail, ending, home, filler, sweep, acted, crashes>>

\* Restore just returns the error: the account stays held, a pod that is up
\* stays up, and the row still names the account of before.
RestoreFails(a) ==
  /\ claim[a].pc \in {"starting", "applying"} /\ claim[a].restore
  /\ claim' = [claim EXCEPT ![a] = NoClaim]
  /\ UNCHANGED <<acct, avail, env, ending, home, rel, filler, sweep, acted, crashes>>

-----------------------------------------------------------------------------
\* ReclaimForAttempt: the account of the snapshot if it can be had.

\* A retried Restore finds the account already held by the attempt.
ReclaimHeld(a) ==
  LET c == home[a]
  IN  /\ MayRestore(a)
      /\ acct[c] = [state |-> "IN_USE", holder |-> a]
      /\ claim' = [claim EXCEPT ![a] = [pc |-> "starting", c |-> c, restore |-> TRUE]]
      /\ UNCHANGED <<acct, avail, env, ending, home, rel, filler, sweep, acted, crashes>>

ReclaimUpdate(a) ==
  LET c == home[a]
  IN  /\ MayRestore(a) /\ acct[c].state = "AVAILABLE"
      /\ acct' = [acct EXCEPT ![c] = [state |-> "IN_USE", holder |-> a]]
      /\ claim' = [claim EXCEPT ![a] = [pc |-> "srem", c |-> c, restore |-> TRUE]]
      /\ UNCHANGED <<avail, env, ending, home, rel, filler, sweep, acted, crashes>>

ReclaimSRem(a) ==
  /\ ClaimAt(a, "srem")
  /\ avail' = avail \ {claim[a].c}
  /\ ClaimGoto(a, "rearm")
  /\ UNCHANGED <<acct, env, ending, home, rel, filler, sweep, acted, crashes>>

\* Only the budget is armed again; the baseline is taken to be there.
ReclaimArm(a) ==
  /\ ClaimAt(a, "rearm")
  /\ ClaimGoto(a, "starting")
  /\ UNCHANGED <<acct, avail, env, ending, home, rel, filler, sweep, acted, crashes>>

ReclaimFallback(a) ==
  /\ MayRestore(a)
  /\ acct[home[a]].state # "AVAILABLE" /\ acct[home[a]] # [state |-> "IN_USE", holder |-> a]
  /\ Pop(a, TRUE)
  /\ UNCHANGED <<acct, env, ending, home, rel, filler, sweep, acted, crashes>>

-----------------------------------------------------------------------------
\* Release: NUKING, nuke and verify, then AVAILABLE or QUARANTINED.

Then(r, pc) == rel' = [rel EXCEPT ![r].pc = pc]

Done(r) == rel' = [rel EXCEPT ![r] = NoRelease]

\* Release returns; a teardown goes on to delete the pod.
Finish(r) == IF r[2] = "destroy" THEN Then(r, "pod") ELSE Done(r)

RelMark(r) ==
  /\ rel[r].pc = "mark"
  /\ IF acct[rel[r].c].state \in {"IN_USE", "NUKING"}
     THEN SetState(rel[r].c, "NUKING") /\ Then(r, "nuke")
     ELSE UNCHANGED acct /\ Finish(r)
  /\ UNCHANGED <<avail, claim, env, ending, home, filler, sweep, acted, crashes>>

\* RunNuke and its verification: clean, or not clean, or an error.
RelNuke(r) ==
  /\ rel[r].pc = "nuke"
  /\ Then(r, "free") \/ Then(r, "quarantine")
  /\ UNCHANGED <<acct, avail, claim, env, ending, home, filler, sweep, acted, crashes>>

\* quarantine(): an update without a guard.
quarantine(r) ==
  /\ rel[r].pc = "quarantine"
  /\ SetState(rel[r].c, "QUARANTINED")
  /\ Finish(r)
  /\ UNCHANGED <<avail, claim, env, ending, home, filler, sweep, acted, crashes>>

RelFree(r) ==
  LET c == rel[r].c
  IN  /\ rel[r].pc = "free"
      /\ acct' = IF acct[c].state = "NUKING"
                 THEN [acct EXCEPT ![c] = [state |-> "AVAILABLE", holder |-> NoAttempt]]
                 ELSE acct
      /\ Then(r, "readd")
      /\ UNCHANGED <<avail, claim, env, ending, home, filler, sweep, acted, crashes>>

\* SAdd, whatever the update before it found.
RelReadd(r) ==
  /\ rel[r].pc = "readd"
  /\ avail' = avail \union {rel[r].c}
  /\ Finish(r)
  /\ UNCHANGED <<acct, claim, env, ending, home, filler, sweep, acted, crashes>>

RelPod(r) ==
  /\ rel[r].pc = "pod"
  /\ env' = [env EXCEPT ![r[1]] = NoAccount]
  /\ ending' = ending \ {r[1]}
  /\ Done(r)
  /\ UNCHANGED <<acct, avail, claim, home, filler, sweep, acted, crashes>>

-----------------------------------------------------------------------------
\* Teardown: the T3 driver's Destroy, or the generic Destroyer.

\* The driver's Destroy releases the account that the environment row names,
\* whoever holds it by now.
TearDown(a) ==
  /\ StartRelease(<<a, "destroy">>, home[a])
  /\ ending' = ending \union {a}

\* The Destroy RPC: an environment whose namespace is gone is left alone,
\* and one without a row has no owner who may ask.
Destroy(a) ==
  /\ env[a] # NoAccount /\ home[a] # NoAccount /\ TearDown(a)
  /\ UNCHANGED <<acct, avail, claim, env, home, filler, sweep, acted, crashes>>

\* Provision or Restore has returned: the attempt knows its environment and
\* the reaper has it registered.
Recorded(a) == ClaimAt(a, "idle") /\ home[a] # NoAccount

\* Snapshot for a suspend drops the pod before it tears the rest down.
Snapshot(a) ==
  /\ Serving(a) /\ Recorded(a) /\ TearDown(a)
  /\ env' = [env EXCEPT ![a] = NoAccount]
  /\ UNCHANGED <<acct, avail, claim, home, filler, sweep, acted, crashes>>

\* The generic Destroyer deletes the pod and knows nothing of the account.
ReaperDestroy(a) ==
  /\ Serving(a) /\ Recorded(a)
  /\ env' = [env EXCEPT ![a] = NoAccount]
  /\ UNCHANGED <<acct, avail, claim, ending, home, rel, filler, sweep, acted, crashes>>

\* A budget alarm, perhaps late, of an account that somebody has spent in.
MayAlarm(c) == \E a \in Attempts : home[a] = c

\* An alarm at or above 100%: once per account, tear down the environment of
\* the holder's latest row, if the account has a holder with a row.
HandleBreach(c) ==
  LET a == acct[c].holder
  IN  /\ MayAlarm(c) /\ c \notin acted
      /\ acted' = acted \union {c}
      /\ \/ (IF a = NoAttempt THEN TRUE ELSE home[a] = NoAccount) /\ UNCHANGED <<ending, rel>>
         \/ a # NoAttempt /\ home[a] # NoAccount /\ TearDown(a)
      /\ UNCHANGED <<acct, avail, claim, env, home, filler, sweep, crashes>>

\* A repeated alarm finds the account marked and does nothing.
BreachIgnored(c) == MayAlarm(c) /\ c \in acted /\ UNCHANGED vars

-----------------------------------------------------------------------------
\* Filler.tick: rebuild the Redis set, then release what is stuck in NUKING.

TickQuery ==
  /\ filler.pc = "idle"
  /\ filler' = [filler EXCEPT !.pc = "sync", !.found = {c \in Accounts : acct[c].state = "AVAILABLE"}]
  /\ UNCHANGED <<acct, avail, claim, env, ending, home, rel, sweep, acted, crashes>>

TickSync_bug ==
  /\ filler.pc = "sync"
  /\ filler' = [filler EXCEPT !.pc = "list", !.found = {}]
  /\ UNCHANGED <<acct, avail, claim, env, ending, home, rel, sweep, acted, crashes>>

\* The set is rebuilt only when some account was found.
TickSync ==
  /\ filler.pc = "sync"
  /\ avail' = IF filler.found = {} THEN avail ELSE filler.found
  /\ filler' = [filler EXCEPT !.pc = "list", !.found = {}]
  /\ UNCHANGED <<acct, claim, env, ending, home, rel, sweep, acted, crashes>>

\* NUKING for ten minutes, which a nuke may outlast.
TickList ==
  /\ filler.pc = "list"
  /\ filler' = [filler EXCEPT !.pc = "redrive",
                  !.stuck = {c \in Accounts : acct[c].state = "NUKING"}]
  /\ UNCHANGED <<acct, avail, claim, env, ending, home, rel, sweep, acted, crashes>>

TickRedrive_bug ==
  /\ filler.pc = "redrive" /\ filler' = NoTick
  /\ UNCHANGED <<acct, avail, claim, env, ending, home, rel, sweep, acted, crashes>>

TickRedrive ==
  /\ filler.pc = "redrive" /\ rel[TheFiller].pc = "idle"
  /\ IF filler.stuck = {} THEN filler' = NoTick /\ UNCHANGED rel
     ELSE \E c \in filler.stuck :
            /\ filler' = [filler EXCEPT !.stuck = @ \ {c}]
            /\ rel' = [rel EXCEPT ![TheFiller] = [pc |-> "mark", c |-> c]]
  /\ UNCHANGED <<acct, avail, claim, env, ending, home, sweep, acted, crashes>>

-----------------------------------------------------------------------------
\* sweepOnce: the list is read once, and no account is looked at again.

SweepList ==
  /\ sweep.pc = "idle"
  /\ sweep' = [sweep EXCEPT !.pc = "nuke",
                 !.todo = {c \in Accounts : acct[c].state \in {"AVAILABLE", "QUARANTINED"}}]
  /\ UNCHANGED <<acct, avail, claim, env, ending, home, rel, filler, acted, crashes>>

SweepNuke ==
  /\ sweep.pc = "nuke"
  /\ \/ sweep.todo = {} /\ sweep' = NoSweep
     \/ \E c \in sweep.todo :
          \/ sweep' = [sweep EXCEPT !.todo = @ \ {c}]
          \/ sweep' = [pc |-> "mark", todo |-> sweep.todo \ {c}, c |-> c]
  /\ UNCHANGED <<acct, avail, claim, env, ending, home, rel, filler, acted, crashes>>

\* markQuarantined: an update without a guard.
SweepMark ==
  /\ sweep.pc = "mark"
  /\ SetState(sweep.c, "QUARANTINED")
  /\ sweep' = [sweep EXCEPT !.pc = "nuke", !.c = NoAccount]
  /\ UNCHANGED <<avail, claim, env, ending, home, rel, filler, acted, crashes>>

-----------------------------------------------------------------------------
\* RegisterAvailableAccount, by a human who has cleaned a quarantined
\* account that nobody works in (the quarantine runbook).
Register(c) ==
  /\ acct[c].state = "QUARANTINED"
  /\ \A r \in Releasers : rel[r].c # c
  /\ \A a \in Attempts : env[a] # c /\ claim[a].c # c
  /\ acct' = [acct EXCEPT ![c] = [state |-> "AVAILABLE", holder |-> NoAttempt]]
  /\ avail' = avail \union {c}
  /\ UNCHANGED <<claim, env, ending, home, rel, filler, sweep, acted, crashes>>

\* The process restarts: every goroutine and every map in memory is gone.
Crash ==
  /\ crashes < MaxCrashes
  /\ crashes' = crashes + 1
  /\ claim' = [a \in Attempts |-> NoClaim]
  /\ rel' = [r \in Releasers |-> NoRelease]
  /\ filler' = NoTick /\ sweep' = NoSweep /\ acted' = {}
  /\ ending' = {a \in ending : env[a] # NoAccount}
  /\ UNCHANGED <<acct, avail, env, home>>

-----------------------------------------------------------------------------
Request(a) == ClaimPop(a) \/ ReclaimHeld(a) \/ ReclaimUpdate(a) \/ ReclaimFallback(a)

ClaimStep(a) ==
  \/ ClaimUpdate(a) \/ ClaimArm(a) \/ rollbackClaim(a) \/ ReclaimSRem(a) \/ ReclaimArm(a)
  \/ StartPod(a) \/ WriteRow(a) \/ ProvisionFails(a) \/ RestoreFails(a)

ReleaseStep(r) ==
  \/ RelMark(r) \/ RelNuke(r) \/ quarantine(r) \/ RelFree(r) \/ RelReadd(r) \/ RelPod(r)

Tick == TickQuery \/ TickSync \/ TickList \/ TickRedrive

Sweep == SweepList \/ SweepNuke \/ SweepMark

Next ==
  \/ \E a \in Attempts : \/ Request(a) \/ ClaimStep(a) \/ Destroy(a) \/ Snapshot(a)
                         \/ ReaperDestroy(a)
  \/ \E r \in Releasers : ReleaseStep(r)
  \/ \E c \in Accounts : HandleBreach(c) \/ BreachIgnored(c) \/ Register(c)
  \/ Tick \/ Sweep \/ Crash

Spec == Init /\ [][Next]_vars

\* Goroutines that run keep running, the nightly sweeper keeps being started,
\* and so does the Filler, in a deployment that sets ACCOUNT_POOL_TARGETS;
\* nobody has to ask for an environment, tear one down or clear a quarantine.
Fairness ==
  /\ \A a \in Attempts : WF_vars(ClaimStep(a))
  /\ \A r \in Releasers : WF_vars(ReleaseStep(r))
  /\ WF_vars(Tick) /\ WF_vars(Sweep)

FairSpec == Spec /\ Fairness

-----------------------------------------------------------------------------
\* Correctness.

\* Type invariant of the table, the index and the processes.
TypeOK ==
  /\ acct \in [Accounts -> [state : States, holder : Attempts \union {NoAttempt}]]
  /\ avail \subseteq Accounts
  /\ claim \in [Attempts -> [pc : {"idle", "popped", "arming", "starting", "applying", "srem",
                                   "rearm"},
                             c : Accounts \union {NoAccount}, restore : BOOLEAN]]
  /\ env \in [Attempts -> Accounts \union {NoAccount}]
  /\ ending \subseteq Attempts
  /\ home \in [Attempts -> Accounts \union {NoAccount}]
  /\ rel \in [Releasers -> [pc : {"idle", "mark", "nuke", "quarantine", "free", "readd", "pod"},
                            c : Accounts \union {NoAccount}]]
  /\ filler \in [pc : {"idle", "sync", "list", "redrive"}, found : SUBSET Accounts,
                 stuck : SUBSET Accounts]
  /\ sweep \in [pc : {"idle", "nuke", "mark"}, todo : SUBSET Accounts,
                c : Accounts \union {NoAccount}]
  /\ acted \subseteq Accounts
  /\ crashes \in Nat

\* An account changes hands through the pool alone: an attempt gets one whose
\* row is AVAILABLE and nobody's, however stale the index it was popped
\* from, and the row forgets its attempt only at the end of a Release or when
\* a human registers the account.
ChangesHandsInThePool ==
  [][\A c \in Accounts : acct'[c].holder # acct[c].holder =>
       IF acct'[c].holder = NoAttempt
       THEN acct[c].state = "NUKING" \/ Register(c)
       ELSE acct[c] = [state |-> "AVAILABLE", holder |-> NoAttempt]]_vars

\* A quarantined account leaves quarantine only through a human: "held for
\* human review, never returned to the pool" (contracts/events.md).
QuarantineIsHeld ==
  [][\A c \in Accounts :
       acct[c].state = "QUARANTINED" => acct'[c].state = "QUARANTINED" \/ Register(c)]_vars

\* The Filler heals the pool: no account stays in NUKING, a crash in the
\* middle of a Release included.
NukingResolves ==
  \A c \in Accounts : (acct[c].state = "NUKING") ~> (acct[c].state # "NUKING")

\* The Filler heals the index: an account that is AVAILABLE is claimable
\* again in the end, whatever popped it, rebuilt the set or crashed.
AvailableIsIndexed ==
  \A c \in Accounts : (acct[c].state = "AVAILABLE") ~> (c \in avail \/ acct[c].state # "AVAILABLE")

=============================================================================
