-------------------------- MODULE AccountPool_proofs --------------------------
(***************************************************************************)
(* Proofs about the account pool, for any number of accounts and attempts, *)
(* with everybody at work: overlapping Releases, the sweeper, the reaper,  *)
(* the budget enforcer and restarts.                                       *)
(***************************************************************************)
EXTENDS AccountPool, TLAPS

-----------------------------------------------------------------------------
(* Types *)

ClaimRows == [pc : {"idle", "popped", "arming", "starting", "applying", "srem", "rearm"},
              c : Accounts \union {NoAccount}, restore : BOOLEAN]
RelRows == [pc : {"idle", "mark", "nuke", "quarantine", "free", "readd", "pod"},
            c : Accounts \union {NoAccount}]
AcctRows == [state : States, holder : Attempts \union {NoAttempt}]

LEMMA ReleaserIs ==
  /\ \A a \in Attempts : <<a, "claim">> \in Releasers /\ <<a, "destroy">> \in Releasers
  /\ TheFiller \in Releasers
  /\ \A r \in Releasers : \/ r = TheFiller
                          \/ \E a \in Attempts : r = <<a, "claim">> \/ r = <<a, "destroy">>
BY DEF Releasers, TheFiller

LEMMA Blanks ==
  /\ NoClaim \in ClaimRows /\ NoClaim.pc = "idle" /\ NoClaim.c = NoAccount
  /\ NoRelease \in RelRows /\ NoRelease.pc = "idle" /\ NoRelease.c = NoAccount
BY DEF NoClaim, NoRelease, ClaimRows, RelRows

\* What runs has an account: Release never re-adds the empty name to the set.
Named ==
  /\ \A a \in Attempts : claim[a].pc # "idle" => claim[a].c # NoAccount
  /\ \A r \in Releasers : rel[r].pc # "idle" => rel[r].c # NoAccount

LEMMA TypeInit == Init => TypeOK /\ Named
BY ReleaserIs DEF Init, TypeOK, Named, States, NoClaim, NoRelease, NoTick, NoSweep

LEMMA SetStateTyped ==
  ASSUME acct \in [Accounts -> AcctRows], NEW c, NEW s \in States, SetState(c, s)
  PROVE  acct' \in [Accounts -> AcctRows]
BY DEF SetState, AcctRows

LEMMA StartReleaseTyped ==
  ASSUME TypeOK, NEW r, NEW c \in Accounts \union {NoAccount}, StartRelease(r, c)
  PROVE  rel' \in [Releasers -> RelRows]
BY DEF StartRelease, TypeOK, RelRows

LEMMA ThenTyped ==
  ASSUME TypeOK, NEW r, NEW pc \in {"idle", "mark", "nuke", "quarantine", "free", "readd", "pod"},
         Then(r, pc) \/ Done(r) \/ Finish(r)
  PROVE  rel' \in [Releasers -> RelRows]
BY DEF Then, Done, Finish, NoRelease, TypeOK, RelRows

LEMMA GotoTyped ==
  ASSUME TypeOK, NEW a, NEW pc \in {"idle", "popped", "arming", "starting", "applying", "srem", "rearm"},
         ClaimGoto(a, pc) \/ claim' = [claim EXCEPT ![a] = NoClaim]
  PROVE  claim' \in [Attempts -> ClaimRows]
<1>1. claim \in [Attempts -> ClaimRows] /\ NoClaim \in ClaimRows
  BY DEF TypeOK, ClaimRows, NoClaim
<1>2. ASSUME a \in Attempts PROVE [claim[a] EXCEPT !.pc = pc] \in ClaimRows
  BY <1>1, <1>2 DEF ClaimRows
<1>3. CASE ClaimGoto(a, pc)
  BY <1>1, <1>2, <1>3 DEF ClaimGoto
<1>4. CASE claim' = [claim EXCEPT ![a] = NoClaim]
  BY <1>1, <1>4
<1>5. QED BY <1>3, <1>4

LEMMA TypeNext ==
  ASSUME TypeOK, Named, [Next]_vars
  PROVE  TypeOK'
<1> USE DEF ClaimRows, RelRows, AcctRows
<1>1. ASSUME NEW a \in Attempts, Request(a) PROVE TypeOK'
  <2>1. \A pc \in {"popped", "starting", "srem"}, c \in Accounts \union {NoAccount}, b \in BOOLEAN :
          [pc |-> pc, c |-> c, restore |-> b] \in ClaimRows
    OBVIOUS
  <2>2. \A b \in BOOLEAN : Pop(a, b) => claim' \in [Attempts -> ClaimRows] /\ avail' \subseteq Accounts
    BY <2>1 DEF Pop, TypeOK
  <2>3. CASE ClaimPop(a) \/ ReclaimFallback(a)
    BY <2>2, <2>3 DEF ClaimPop, ReclaimFallback, TypeOK
  <2>4. CASE ReclaimHeld(a)
    <3>1. claim' \in [Attempts -> ClaimRows]
      BY <2>1, <2>4 DEF ReclaimHeld, TypeOK
    <3>2. QED BY <2>4, <3>1 DEF ReclaimHeld, TypeOK
  <2>5. CASE ReclaimUpdate(a)
    <3>1. claim' \in [Attempts -> ClaimRows]
      BY <2>1, <2>5 DEF ReclaimUpdate, TypeOK
    <3>2. acct' \in [Accounts -> AcctRows]
      BY <2>5 DEF ReclaimUpdate, TypeOK, States
    <3>3. QED BY <2>5, <3>1, <3>2 DEF ReclaimUpdate, TypeOK
  <2>6. QED BY <1>1, <2>3, <2>4, <2>5 DEF Request
<1>2. ASSUME NEW a \in Attempts, ClaimStep(a) PROVE TypeOK'
  <2>1. CASE ClaimUpdate(a)
    <3>1. claim' \in [Attempts -> ClaimRows]
      BY <2>1, GotoTyped DEF ClaimUpdate, TypeOK
    <3>2. acct' \in [Accounts -> AcctRows]
      BY <2>1 DEF ClaimUpdate, TypeOK, States
    <3>3. QED BY <2>1, <3>1, <3>2 DEF ClaimUpdate, TypeOK
  <2>2. CASE ClaimArm(a) \/ ReclaimSRem(a) \/ ReclaimArm(a)
    BY <2>2, GotoTyped DEF ClaimArm, ReclaimSRem, ReclaimArm, TypeOK
  <2>3. CASE rollbackClaim(a)
    <3>1. claim[a].c \in Accounts \union {NoAccount} /\ "NUKING" \in States
      BY DEF TypeOK, States
    <3>2. acct' \in [Accounts -> AcctRows] /\ rel' \in [Releasers -> RelRows] /\ claim' \in [Attempts -> ClaimRows]
      BY <2>3, <3>1, SetStateTyped, StartReleaseTyped, GotoTyped DEF rollbackClaim, TypeOK
    <3>3. QED BY <2>3, <3>2 DEF rollbackClaim, TypeOK
  <2>4. CASE StartPod(a)
    BY <2>4, GotoTyped DEF StartPod, TypeOK
  <2>5. CASE WriteRow(a)
    BY <2>5, GotoTyped DEF WriteRow, TypeOK
  <2>6. CASE ProvisionFails(a)
    <3>1. claim[a].c \in Accounts \union {NoAccount}
      BY DEF TypeOK
    <3>2. rel' \in [Releasers -> RelRows] /\ claim' \in [Attempts -> ClaimRows]
      BY <2>6, <3>1, StartReleaseTyped, GotoTyped DEF ProvisionFails, TypeOK
    <3>3. QED BY <2>6, <3>2 DEF ProvisionFails, TypeOK
  <2>7. CASE RestoreFails(a)
    BY <2>7, GotoTyped DEF RestoreFails, TypeOK
  <2>8. QED BY <1>2, <2>1, <2>2, <2>3, <2>4, <2>5, <2>6, <2>7 DEF ClaimStep
<1>3. ASSUME NEW a \in Attempts, Destroy(a) \/ Snapshot(a) PROVE TypeOK'
  <2>1. home[a] \in Accounts \union {NoAccount} /\ TearDown(a)
    BY <1>3 DEF TypeOK, Destroy, Snapshot
  <2>2. rel' \in [Releasers -> RelRows]
    BY <2>1, StartReleaseTyped DEF TearDown
  <2>3. QED BY <1>3, <2>1, <2>2 DEF Destroy, Snapshot, TearDown, TypeOK
<1>4. ASSUME NEW a \in Attempts, ReaperDestroy(a) PROVE TypeOK'
  BY <1>4 DEF ReaperDestroy, TypeOK
<1>5. ASSUME NEW r \in Releasers, ReleaseStep(r) PROVE TypeOK'
  <2>1. rel' \in [Releasers -> RelRows]
    BY <1>5, ThenTyped DEF ReleaseStep, RelMark, RelNuke, quarantine, RelFree, RelReadd, RelPod, TypeOK
  <2>2. acct' \in [Accounts -> AcctRows]
    BY <1>5 DEF ReleaseStep, RelMark, RelNuke, quarantine, RelFree, RelReadd, RelPod, SetState, TypeOK, States
  <2>3. CASE RelMark(r) \/ quarantine(r) \/ RelFree(r)
    BY <2>1, <2>2, <2>3 DEF RelMark, quarantine, RelFree, TypeOK
  <2>4. CASE RelNuke(r)
    BY <2>1, <2>2, <2>4 DEF RelNuke, TypeOK
  <2>5. CASE RelReadd(r)
    BY <2>1, <2>2, <2>5, NamesAssumption DEF RelReadd, TypeOK, Named
  <2>6. CASE RelPod(r)
    BY <2>1, <2>2, <2>6 DEF RelPod, TypeOK
  <2>7. QED BY <1>5, <2>3, <2>4, <2>5, <2>6 DEF ReleaseStep
<1>6. ASSUME NEW c \in Accounts, HandleBreach(c) PROVE TypeOK'
  <2>1. acct[c].holder # NoAttempt => acct[c].holder \in Attempts /\ home[acct[c].holder] \in Accounts \union {NoAccount}
    BY DEF TypeOK
  <2>2. rel' \in [Releasers -> RelRows]
    BY <1>6, <2>1, StartReleaseTyped DEF HandleBreach, TearDown, TypeOK
  <2>3. QED BY <1>6, <2>1, <2>2 DEF HandleBreach, TearDown, TypeOK
<1>7. ASSUME NEW c \in Accounts, BreachIgnored(c) \/ Register(c) PROVE TypeOK'
  <2>1. CASE BreachIgnored(c)
    BY <2>1 DEF BreachIgnored, TypeOK, vars
  <2>2. CASE Register(c)
    <3>1. acct' \in [Accounts -> AcctRows] /\ avail' \subseteq Accounts
      BY <2>2 DEF Register, TypeOK, States
    <3>2. QED BY <2>2, <3>1 DEF Register, TypeOK
  <2>3. QED BY <1>7, <2>1, <2>2
<1>8. CASE Tick
  <2>1. CASE TickQuery \/ TickSync \/ TickList
    <3>1. filler' \in [pc : {"idle", "sync", "list", "redrive"}, found : SUBSET Accounts,
                       stuck : SUBSET Accounts]
      <4>1. {c \in Accounts : acct[c].state = "AVAILABLE"} \in SUBSET Accounts
            /\ {c \in Accounts : acct[c].state = "NUKING"} \in SUBSET Accounts
        OBVIOUS
      <4>2. QED BY <2>1, <4>1 DEF TickQuery, TickSync, TickList, TypeOK
    <3>2. QED BY <2>1, <3>1 DEF TickQuery, TickSync, TickList, TypeOK
  <2>2. CASE TickRedrive
    <3>1. CASE filler.stuck = {}
      BY <2>2, <3>1 DEF TickRedrive, NoTick, TypeOK
    <3>2. CASE filler.stuck # {}
      <4>1. PICK c \in filler.stuck : /\ filler' = [filler EXCEPT !.stuck = @ \ {c}]
                                     /\ rel' = [rel EXCEPT ![TheFiller] = [pc |-> "mark", c |-> c]]
        BY <2>2, <3>2 DEF TickRedrive
      <4>2. [pc |-> "mark", c |-> c] \in RelRows
        BY DEF TypeOK
      <4>3. rel' \in [Releasers -> RelRows]
        BY <4>1, <4>2 DEF TypeOK
      <4>4. QED BY <2>2, <4>1, <4>3 DEF TickRedrive, TypeOK
    <3>3. QED BY <3>1, <3>2
  <2>3. QED BY <1>8, <2>1, <2>2 DEF Tick
<1>9. CASE Sweep
  <2>1. CASE SweepList
    BY <2>1 DEF SweepList, TypeOK
  <2>2. CASE SweepNuke
    <3>1. sweep' \in [pc : {"idle", "nuke", "mark"}, todo : SUBSET Accounts, c : Accounts \union {NoAccount}]
      BY <2>2 DEF SweepNuke, NoSweep, TypeOK
    <3>2. QED BY <2>2, <3>1 DEF SweepNuke, TypeOK
  <2>3. CASE SweepMark
    <3>1. acct' \in [Accounts -> AcctRows]
      BY <2>3, SetStateTyped DEF SweepMark, TypeOK, States
    <3>2. QED BY <2>3, <3>1 DEF SweepMark, TypeOK
  <2>4. QED BY <1>9, <2>1, <2>2, <2>3 DEF Sweep
<1>10. CASE Crash
  BY <1>10 DEF Crash, NoClaim, NoRelease, NoTick, NoSweep, TypeOK
<1>11. CASE UNCHANGED vars
  BY <1>11 DEF vars, TypeOK
<1>12. QED BY <1>1, <1>2, <1>3, <1>4, <1>5, <1>6, <1>7, <1>8, <1>9, <1>10, <1>11 DEF Next

\* A claim in flight goes on with the same account, or ends.
LEMMA ClaimMoves ==
  ASSUME TypeOK, NEW a \in Attempts, ClaimStep(a)
  PROVE  /\ claim[a].pc # "idle"
         /\ \A g \in Attempts : g # a => claim'[g] = claim[g]
         /\ \/ claim'[a] = NoClaim
            \/ claim'[a].c = claim[a].c /\ claim'[a].restore = claim[a].restore
<1>1. \A pc : ClaimGoto(a, pc) =>
        /\ \A g \in Attempts : g # a => claim'[g] = claim[g]
        /\ claim'[a].c = claim[a].c /\ claim'[a].restore = claim[a].restore
  BY DEF ClaimGoto, TypeOK
<1>2. claim' = [claim EXCEPT ![a] = NoClaim] =>
        claim'[a] = NoClaim /\ \A g \in Attempts : g # a => claim'[g] = claim[g]
  BY DEF TypeOK
<1>3. QED
  BY <1>1, <1>2 DEF ClaimStep, ClaimUpdate, ClaimArm, rollbackClaim, StartPod, WriteRow, ProvisionFails, RestoreFails, ReclaimSRem,
                    ReclaimArm, ClaimAt

LEMMA ReleaseNamed ==
  ASSUME TypeOK, Named, NEW r, NEW c, c # NoAccount, StartRelease(r, c)
  PROVE  \A q \in Releasers : rel'[q].pc # "idle" => rel'[q].c # NoAccount
BY DEF StartRelease, Named, TypeOK

LEMMA FinishNamed ==
  ASSUME TypeOK, Named, NEW r \in Releasers, rel[r].pc # "idle", Finish(r) \/ Then(r, "nuke")
  PROVE  \A q \in Releasers : rel'[q].pc # "idle" => rel'[q].c # NoAccount
<1>1. CASE Done(r)
  <2>1. NoRelease.pc = "idle"
    BY DEF NoRelease
  <2>2. rel'[r] = NoRelease /\ \A q \in Releasers : q # r => rel'[q] = rel[q]
    BY <1>1 DEF Done, TypeOK
  <2>3. QED BY <2>1, <2>2 DEF Named
<1>2. ASSUME NEW pc, Then(r, pc) PROVE \A q \in Releasers : rel'[q].pc # "idle" => rel'[q].c # NoAccount
  <2>1. rel'[r].c = rel[r].c /\ \A q \in Releasers : q # r => rel'[q] = rel[q]
    BY <1>2 DEF Then, TypeOK
  <2>2. QED BY <2>1 DEF Named
<1>3. QED BY <1>1, <1>2 DEF Finish

LEMMA NamedNext ==
  ASSUME TypeOK, Named, [Next]_vars
  PROVE  Named'
<1> USE DEF Named
<1>1. ASSUME NEW a \in Attempts, Request(a) PROVE Named'
  <2>1. \A b \in BOOLEAN : Pop(a, b) => \A g \in Attempts : claim'[g].pc # "idle" => claim'[g].c # NoAccount
    BY NamesAssumption DEF Pop, TypeOK
  <2>2. CASE ClaimPop(a) \/ ReclaimFallback(a)
    BY <2>1, <2>2 DEF ClaimPop, ReclaimFallback
  <2>3. CASE ReclaimHeld(a)
    BY <2>3, SMTT(30) DEF ReclaimHeld, MayRestore, TypeOK
  <2>4. CASE ReclaimUpdate(a)
    BY <2>4, SMTT(30) DEF ReclaimUpdate, MayRestore, TypeOK
  <2>5. QED BY <1>1, <2>2, <2>3, <2>4 DEF Request
<1>2. ASSUME NEW a \in Attempts, ClaimStep(a) PROVE Named'
  <2>1. \A g \in Attempts : claim'[g].pc # "idle" => claim'[g].c # NoAccount
    BY <1>2, ClaimMoves DEF NoClaim
  <2>3. UNCHANGED rel \/ (claim[a].c # NoAccount /\ StartRelease(<<a, "claim">>, claim[a].c))
    BY <1>2 DEF ClaimStep, ClaimUpdate, ClaimArm, rollbackClaim, StartPod, WriteRow, ProvisionFails, RestoreFails, ReclaimSRem,
                ReclaimArm, ClaimAt
  <2>4. QED BY <2>1, <2>3, ReleaseNamed
<1>3. ASSUME NEW a \in Attempts, Destroy(a) \/ Snapshot(a) PROVE Named'
  <2>1. home[a] # NoAccount /\ StartRelease(<<a, "destroy">>, home[a])
    BY <1>3 DEF Destroy, Snapshot, Recorded, TearDown
  <2>2. QED BY <1>3, <2>1, ReleaseNamed DEF Destroy, Snapshot, TypeOK
<1>4. ASSUME NEW a \in Attempts, ReaperDestroy(a) PROVE Named'
  BY <1>4 DEF ReaperDestroy, TypeOK
<1>5. ASSUME NEW r \in Releasers, ReleaseStep(r) PROVE Named'
  <2> USE DEF Then, Done, NoRelease, TypeOK
  <2>1. CASE RelMark(r)
    <3>1. UNCHANGED <<claim, env, home>> /\ rel[r].pc # "idle" /\ (Finish(r) \/ Then(r, "nuke"))
      BY <2>1 DEF RelMark
    <3>2. QED BY <3>1, FinishNamed
  <2>2. CASE RelNuke(r)
    BY <2>2, SMTT(30) DEF RelNuke
  <2>3. CASE quarantine(r)
    BY <2>3, SMTT(30) DEF quarantine, Finish
  <2>4. CASE RelFree(r)
    BY <2>4, SMTT(30) DEF RelFree
  <2>5. CASE RelReadd(r)
    <3>1. UNCHANGED <<claim, env, home>> /\ rel[r].pc # "idle" /\ Finish(r)
      BY <2>5 DEF RelReadd
    <3>2. QED BY <3>1, FinishNamed
  <2>6. CASE RelPod(r)
    BY <2>6, SMTT(30) DEF RelPod
  <2>7. QED BY <1>5, <2>1, <2>2, <2>3, <2>4, <2>5, <2>6 DEF ReleaseStep
<1>6. ASSUME NEW c \in Accounts, HandleBreach(c) PROVE Named'
  <2>1. UNCHANGED rel \/ (home[acct[c].holder] # NoAccount /\ StartRelease(<<acct[c].holder, "destroy">>, home[acct[c].holder]))
    BY <1>6 DEF HandleBreach, TearDown
  <2>2. QED BY <1>6, <2>1, ReleaseNamed DEF HandleBreach
<1>7. ASSUME NEW c \in Accounts, BreachIgnored(c) \/ Register(c) PROVE Named'
  BY <1>7 DEF BreachIgnored, Register, vars
<1>8. CASE Tick
  <2>1. CASE TickQuery \/ TickSync \/ TickList
    BY <2>1 DEF TickQuery, TickSync, TickList
  <2>2. CASE TickRedrive
    <3>1. UNCHANGED claim
      BY <2>2 DEF TickRedrive
    <3>2. CASE UNCHANGED rel
      BY <3>1, <3>2
    <3>3. CASE ~UNCHANGED rel
      <4>1. PICK c \in filler.stuck : rel' = [rel EXCEPT ![TheFiller] = [pc |-> "mark", c |-> c]]
        BY <2>2, <3>3 DEF TickRedrive
      <4>2. c # NoAccount
        BY NamesAssumption DEF TypeOK
      <4>3. \A q \in Releasers : rel'[q] = rel[q] \/ rel'[q] = [pc |-> "mark", c |-> c]
        BY <4>1 DEF TypeOK
      <4>4. QED BY <3>1, <4>2, <4>3
    <3>4. QED BY <3>2, <3>3
  <2>3. QED BY <1>8, <2>1, <2>2 DEF Tick
<1>9. CASE Sweep \/ UNCHANGED vars
  BY <1>9 DEF Sweep, SweepList, SweepNuke, SweepMark, vars
<1>10. CASE Crash
  BY <1>10 DEF Crash, NoClaim, NoRelease, TypeOK
<1>11. QED BY <1>1, <1>2, <1>3, <1>4, <1>5, <1>6, <1>7, <1>8, <1>9, <1>10 DEF Next

\* The table, the Redis index and the goroutines stay of their types, with the
\* sweeper, the reaper, the enforcer, overlapping Releases and restarts.
THEOREM PoolTypes == Spec => []TypeOK
<1>1. Spec => [](TypeOK /\ Named)
  BY TypeInit, TypeNext, NamedNext, PTL DEF Spec
<1>2. QED BY <1>1, PTL

-----------------------------------------------------------------------------
(* Changing hands *)

\* What is in the pool is nobody's.
PoolIsUnheld == \A c \in Accounts : acct[c].state = "AVAILABLE" => acct[c].holder = NoAttempt

\* How a step may write the row of c.
RowStep(c) ==
  \/ acct'[c].holder = acct[c].holder /\ (acct'[c].state = acct[c].state \/ acct'[c].state # "AVAILABLE")
  \/ /\ acct[c].state = "AVAILABLE" /\ acct'[c].state = "IN_USE"
  \/ /\ acct[c].state = "NUKING" \/ Register(c)
     /\ acct'[c] = [state |-> "AVAILABLE", holder |-> NoAttempt]

LEMMA MarkedRow ==
  ASSUME TypeOK, NEW d, NEW s \in States \ {"AVAILABLE"}, SetState(d, s)
  PROVE  \A c \in Accounts : RowStep(c)
BY DEF SetState, RowStep, TypeOK

LEMMA TakenRow ==
  ASSUME TypeOK, NEW d, NEW a, d \in Accounts => acct[d].state = "AVAILABLE",
         acct' = [acct EXCEPT ![d] = [state |-> "IN_USE", holder |-> a]]
  PROVE  \A c \in Accounts : RowStep(c)
BY DEF RowStep, TypeOK

LEMMA RowNext ==
  ASSUME TypeOK, [Next]_vars
  PROVE  \A c \in Accounts : RowStep(c)
<1>1. CASE UNCHANGED acct
  BY <1>1 DEF RowStep
<1>2. ASSUME NEW a \in Attempts, ClaimUpdate(a) \/ ReclaimUpdate(a)
      PROVE  \A c \in Accounts : RowStep(c)
  BY <1>1, <1>2, TakenRow DEF ClaimUpdate, ReclaimUpdate
<1>3. "NUKING" \in States \ {"AVAILABLE"} /\ "QUARANTINED" \in States \ {"AVAILABLE"}
  BY DEF States
<1>4. ASSUME NEW a \in Attempts, rollbackClaim(a)
      PROVE  \A c \in Accounts : RowStep(c)
  BY <1>3, <1>4, MarkedRow DEF rollbackClaim
<1>5. ASSUME NEW r \in Releasers, RelMark(r) \/ quarantine(r)
      PROVE  \A c \in Accounts : RowStep(c)
  BY <1>1, <1>3, <1>5, MarkedRow DEF RelMark, quarantine
<1>6. ASSUME NEW r \in Releasers, RelFree(r)
      PROVE  \A c \in Accounts : RowStep(c)
  BY <1>6 DEF RelFree, RowStep, TypeOK
<1>7. ASSUME NEW d \in Accounts, Register(d)
      PROVE  \A c \in Accounts : RowStep(c)
  <2>1. \A c \in Accounts : c # d => acct'[c] = acct[c]
    BY <1>7 DEF Register, TypeOK
  <2>2. acct'[d] = [state |-> "AVAILABLE", holder |-> NoAttempt]
    BY <1>7 DEF Register, TypeOK
  <2>3. QED BY <1>7, <2>1, <2>2 DEF RowStep
<1>8. CASE SweepMark
  BY <1>3, <1>8, MarkedRow DEF SweepMark
<1>9. QED
  BY <1>1, <1>2, <1>4, <1>5, <1>6, <1>7, <1>8
     DEF Next, Request, ClaimStep, ReleaseStep, Tick, Sweep, ClaimPop, ReclaimHeld, ReclaimFallback, ClaimArm,
         ReclaimSRem, ReclaimArm, StartPod, WriteRow, ProvisionFails, RestoreFails, Destroy, Snapshot,
         ReaperDestroy, RelNuke, RelReadd, RelPod, HandleBreach, BreachIgnored, TickQuery, TickSync,
         TickList, TickRedrive, SweepList, SweepNuke, Crash, vars

LEMMA UnheldNext ==
  ASSUME PoolIsUnheld, \A c \in Accounts : RowStep(c)
  PROVE  PoolIsUnheld'
BY DEF PoolIsUnheld, RowStep

\* An account goes from one attempt to the next only through a row that is
\* AVAILABLE and nobody's: Claim's and ReclaimForAttempt's guarded updates
\* hold it against stale pops, rebuilt indexes, unguarded marks, overlapping
\* Releases and restarts.  What makes it inductive: an AVAILABLE row has no
\* attempt, since only the two updates that clear it write AVAILABLE.
THEOREM HandsChangeInThePool == Spec => ChangesHandsInThePool
<1>1. Init => PoolIsUnheld
  BY DEF Init, PoolIsUnheld
<1>2. TypeOK /\ PoolIsUnheld /\ [Next]_vars => PoolIsUnheld'
  BY RowNext, UnheldNext
<1>3. TypeOK /\ PoolIsUnheld /\ [Next]_vars =>
        [\A c \in Accounts : acct'[c].holder # acct[c].holder =>
           IF acct'[c].holder = NoAttempt
           THEN acct[c].state = "NUKING" \/ Register(c)
           ELSE acct[c] = [state |-> "AVAILABLE", holder |-> NoAttempt]]_vars
  <2>1. SUFFICES ASSUME TypeOK, PoolIsUnheld, [Next]_vars, NEW c \in Accounts, acct'[c].holder # acct[c].holder
                 PROVE  IF acct'[c].holder = NoAttempt
                        THEN acct[c].state = "NUKING" \/ Register(c)
                        ELSE acct[c] = [state |-> "AVAILABLE", holder |-> NoAttempt]
    OBVIOUS
  <2>2. RowStep(c)
    BY <2>1, RowNext
  <2>3. CASE acct[c].state = "AVAILABLE" /\ acct'[c].state = "IN_USE"
    <3>1. acct[c].holder = NoAttempt
      BY <2>1, <2>3 DEF PoolIsUnheld
    <3>2. acct[c] = [state |-> "AVAILABLE", holder |-> NoAttempt]
      BY <2>1, <2>3, <3>1 DEF TypeOK
    <3>3. QED BY <2>1, <3>1, <3>2
  <2>4. CASE (acct[c].state = "NUKING" \/ Register(c)) /\ acct'[c] = [state |-> "AVAILABLE", holder |-> NoAttempt]
    BY <2>4
  <2>5. QED BY <2>1, <2>2, <2>3, <2>4 DEF RowStep
<1>4. QED BY <1>1, <1>2, <1>3, PoolTypes, PTL DEF Spec, ChangesHandsInThePool

=============================================================================
