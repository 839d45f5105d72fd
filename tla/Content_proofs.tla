--------------------------- MODULE Content_proofs ---------------------------
(***************************************************************************)
(* Proofs about the catalog, the review of its versions and the scripts    *)
(* that seed it, for any tenants, activities, editors, seeds and kills,    *)
(* about the script that checks one lab before it is published, and about  *)
(* the validators a lab declares, for any of them and any number of runs,  *)
(* attempts and edits.                                                     *)
(***************************************************************************)
EXTENDS ContentScripts, ContentCi, ValidatorRunner, FiniteSetTheorems, SequenceTheorems, TLAPS

-----------------------------------------------------------------------------
(* The inductive invariants *)

Writers == Editors \cup {Cli}

\* A request that inserts a version asks for a draft or publishes at once.
InsertFields == {"pc", "tenant", "act", "spec", "status"}
Inserting(r) == DOMAIN r = InsertFields /\ r.status \in {"DRAFT", "PUBLISHED"}

\* A version is approved, or about to be published, only after a reviewer's
\* approval.
ReviewInv ==
    /\ DOMAIN req = Writers /\ \A h \in Writers : "pc" \in DOMAIN req[h]
    /\ \A h \in Writers : req[h].pc \in {"next", "insert"} => Inserting(req[h])
    /\ \A id \in DOMAIN versions : DOMAIN versions[id] = {"status", "skill", "topic"}
    /\ \A id \in DOMAIN versions : versions[id].status = "APPROVED" => id \in approvals
    /\ \A h \in Writers : req[h].pc = "move" =>
         req[h].id \in DOMAIN versions /\ (req[h].to = "PUBLISHED" => req[h].id \in approvals)

SeedFields == {"name", "seed", "pc", "k"}

\* What a script has to be to be at its step.
ScriptInv ==
    /\ script.name \in {"none", "seed", "curriculum", "publish"}
    /\ script.name = "seed" =>
         /\ DOMAIN script = SeedFields /\ script.seed \in DOMAIN Seeds /\ script.k \in Nat \ {0}
         /\ script.pc \in {"skills", "edges", "closure"}
    /\ script.name = "curriculum" =>
         /\ script.pc \in {"course", "topic", "map"}
         /\ script.pc # "course" => DOMAIN script = {"name", "pc", "course"}
    /\ script.name = "publish" => DOMAIN script = {"name", "todo"}

\* There is one course, and every topic hangs from it.
CourseInv ==
    /\ courses \in {<<>>, <<SLUG>>}
    /\ topics \in Seq({topics[t] : t \in DOMAIN topics})
    /\ \A t \in DOMAIN topics : DOMAIN topics[t] = {"course", "mapped"} /\ topics[t].course = 1
    /\ topics # <<>> => courses = <<SLUG>>
    /\ script.name = "curriculum" /\ script.pc # "course" => courses = <<SLUG>>
    /\ script.name = "curriculum" /\ script.pc = "topic" => script.course = 1
    /\ script.name = "curriculum" /\ script.pc = "map" => topics # <<>>
    /\ \A id \in DOMAIN versions : versions[id].topic \in {NoTopic} \cup DOMAIN topics

Ends(e) == {e.from, e.to}
Before(list, n) == UNION {SeedSkills(list[m]) : m \in 1 .. n - 1}
Reach(i, before) == IF Seeds[i].requery THEN SeedSkills(i) \cup before ELSE SeedSkills(i)

\* The first k - 1 edges of a seed within its reach are in E.
EdgesUpTo(E, i, k, before) ==
    \A j \in DOMAIN Seeds[i].edges :
        j < k /\ Ends(Seeds[i].edges[j]) \subseteq Reach(i, before) => Seeds[i].edges[j] \in E
AllEdges(E, i, before) == EdgesUpTo(E, i, Len(Seeds[i].edges) + 1, before)

\* The seeds of the list have their skills and edges.
Finished(E, S, list) ==
    \A n \in DOMAIN list : SeedSkills(list[n]) \subseteq S /\ AllEdges(E, list[n], Before(list, n))

\* A seed under way has the skills and edges it has come to.
UnderWay ==
    script.name = "seed" =>
        /\ script.pc = "skills" => \A j \in DOMAIN Seeds[script.seed].skills :
                                      j < script.k => Seeds[script.seed].skills[j] \in skills
        /\ script.pc # "skills" => SeedSkills(script.seed) \subseteq skills
        /\ script.pc = "edges" => EdgesUpTo(edges, script.seed, script.k, Before(seeded, Len(seeded) + 1))
        /\ script.pc = "closure" => AllEdges(edges, script.seed, Before(seeded, Len(seeded) + 1))

SeedInv ==
    /\ IsFiniteSet(skills)
    /\ seeded \in Seq(DOMAIN Seeds)
    /\ Finished(edges, skills, seeded)
    /\ UnderWay

-----------------------------------------------------------------------------
(* Review *)

\* A step of a writer leaves the others where they are.
Waiting ==
    /\ DOMAIN req = Writers /\ \A h \in Writers : "pc" \in DOMAIN req[h]
    /\ \A h \in Writers : req[h].pc \in {"next", "insert"} => Inserting(req[h])
    /\ \A h \in Writers : req[h].pc = "move" =>
         req[h].id \in DOMAIN versions /\ (req[h].to = "PUBLISHED" => req[h].id \in approvals)

LEMMA WriterMoves ==
  ASSUME ReviewInv, NEW h \in Writers, NEW r, req' = [req EXCEPT ![h] = r], "pc" \in DOMAIN r,
         r.pc \in {"next", "insert"} => Inserting(r),
         r.pc = "move" => r.id \in DOMAIN versions' /\ (r.to = "PUBLISHED" => r.id \in approvals'),
         DOMAIN versions \subseteq DOMAIN versions', approvals \subseteq approvals'
  PROVE  Waiting'
<1>1. DOMAIN req' = Writers /\ req'[h] = r /\ \A g \in Writers \ {h} : req'[g] = req[g]
  BY DEF ReviewInv
<1>2. QED BY <1>1 DEF ReviewInv, Waiting

LEMMA IdleIs == "pc" \in DOMAIN Idle /\ Idle.pc = "idle"
BY DEF Idle

LEMMA WritersWait ==
  ASSUME ReviewInv, UNCHANGED <<req, versions, approvals>>
  PROVE  ReviewInv'
BY DEF ReviewInv

\* A step that writes no version.
LEMMA NothingWritten ==
  ASSUME ReviewInv, Waiting', UNCHANGED <<versions, approvals>>
  PROVE  ReviewInv'
BY DEF ReviewInv, Waiting

Respected ==
    \A id \in DOMAIN versions :
        IF versions[id].status = "PUBLISHED" THEN versions'[id] = versions[id]
        ELSE versions'[id].status = "PUBLISHED" => id \in approvals

LEMMA PublishSpecStep ==
  ASSUME ReviewInv, NEW h \in Writers, NEW t, NEW a, NEW status \in {"DRAFT", "PUBLISHED"}, publishSpec(h, t, a, status)
  PROVE  ReviewInv' /\ UNCHANGED versions
<1> DEFINE r == [pc |-> "next", tenant |-> t, act |-> a, spec |-> file[a], status |-> status]
<1>1. req' = [req EXCEPT ![h] = r] /\ UNCHANGED <<versions, approvals>>
  BY DEF publishSpec
<1>2. "pc" \in DOMAIN r /\ r.pc = "next" /\ Inserting(r)
  BY DEF Inserting, InsertFields
<1> HIDE DEF r
<1>3. Waiting'
  BY <1>1, <1>2, WriterMoves
<1>4. QED BY <1>1, <1>3, NothingWritten

LEMMA NextVersionStep ==
  ASSUME ReviewInv, NEW h \in Writers, nextVersion(h)
  PROVE  ReviewInv' /\ UNCHANGED versions
<1> DEFINE r == [req[h] EXCEPT !.pc = "insert"]
<1>1. UNCHANGED <<versions, approvals>> /\ req[h].pc = "next"
  BY DEF nextVersion
<1>2. "pc" \in DOMAIN r /\ r.pc = "insert" /\ Inserting(r)
  BY <1>1 DEF ReviewInv, Inserting, InsertFields
<1>3. req' = [req EXCEPT ![h] = r] \/ req' = [req EXCEPT ![h] = Idle]
  BY DEF nextVersion, Done
<1> HIDE DEF r
<1>4. Waiting'
  BY <1>1, <1>2, <1>3, IdleIs, WriterMoves
<1>5. QED BY <1>1, <1>4, NothingWritten

LEMMA InsertStep ==
  ASSUME ReviewInv, NEW h \in Writers, insertVersion(h)
  PROVE  ReviewInv' /\ Respected
<1> DEFINE id == Id(req[h].tenant, req[h].act, req[h].spec.version)
<1>1. UNCHANGED approvals /\ req' = [req EXCEPT ![h] = Idle] /\ req[h].status # "APPROVED"
  BY DEF insertVersion, Done, ReviewInv, Inserting
<1>2. CASE UNCHANGED versions
  BY <1>1, <1>2, IdleIs, WriterMoves, NothingWritten DEF Respected
<1>3. CASE ~UNCHANGED versions
  <2>1. PICK topic : /\ id \notin DOMAIN versions
                     /\ versions' = Row(id, [status |-> req[h].status, skill |-> req[h].spec.skill, topic |-> topic])
    BY <1>3 DEF insertVersion, Insertable
  <2> DEFINE row == [status |-> req[h].status, skill |-> req[h].spec.skill, topic |-> topic]
  <2>2. row.status # "APPROVED" /\ DOMAIN row = {"status", "skill", "topic"}
    BY <1>1
  <2>3. versions' = Row(id, row)
    BY <2>1
  <2> HIDE DEF row, id
  <2>4. /\ DOMAIN versions' = DOMAIN versions \cup {id} /\ versions'[id] = row
        /\ \A i \in DOMAIN versions : versions'[i] = versions[i]
    BY <2>1, <2>3 DEF Row
  <2>5. Waiting'
    BY <1>1, <2>4, IdleIs, WriterMoves
  <2>6. QED BY <1>1, <2>2, <2>4, <2>5 DEF ReviewInv, Waiting, Respected
<1>4. QED BY <1>2, <1>3

LEMMA MoveStep ==
  ASSUME ReviewInv, NEW h \in Writers, NEW id \in DOMAIN versions, NEW from, NEW to, Move(h, id, from, to),
         from = "APPROVED" \/ to # "PUBLISHED"
  PROVE  ReviewInv' /\ UNCHANGED versions
<1> DEFINE r == [pc |-> "move", id |-> id, to |-> to]
<1>1. req' = [req EXCEPT ![h] = r] /\ UNCHANGED <<versions, approvals>> /\ versions[id].status = from
  BY DEF Move
<1>2. "pc" \in DOMAIN r /\ r.pc = "move" /\ r.id = id /\ r.to = to
  OBVIOUS
<1>3. to = "PUBLISHED" => id \in approvals
  BY <1>1 DEF ReviewInv
<1> HIDE DEF r
<1>4. Waiting'
  BY <1>1, <1>2, <1>3, WriterMoves
<1>5. QED BY <1>1, <1>4, NothingWritten

LEMMA TransitionStep ==
  ASSUME ReviewInv, NEW h \in Writers, transitionVersionStatus(h)
  PROVE  ReviewInv' /\ Respected
<1> DEFINE id == req[h].id
<1>1. req' = [req EXCEPT ![h] = Idle] /\ req[h].pc = "move"
  BY DEF transitionVersionStatus, Done
<1>2. id \in DOMAIN versions /\ (req[h].to = "PUBLISHED" => id \in approvals)
  BY <1>1 DEF ReviewInv
<1>3. CASE versions[id].status = "PUBLISHED"
  <2>1. UNCHANGED <<versions, approvals>>
    BY <1>3 DEF transitionVersionStatus
  <2>2. QED BY <1>1, <2>1, IdleIs, WriterMoves, NothingWritten DEF Respected
<1>4. CASE versions[id].status # "PUBLISHED"
  <2>1. /\ versions' = [versions EXCEPT ![id].status = req[h].to]
        /\ approvals' = IF req[h].to = "APPROVED" THEN approvals \cup {id} ELSE approvals
    BY <1>4 DEF transitionVersionStatus
  <2>2. DOMAIN versions[id] = {"status", "skill", "topic"}
    BY <1>2 DEF ReviewInv
  <2> HIDE DEF id
  <2>3. /\ DOMAIN versions' = DOMAIN versions /\ \A i \in DOMAIN versions \ {id} : versions'[i] = versions[i]
        /\ versions'[id].status = req[h].to /\ DOMAIN versions'[id] = {"status", "skill", "topic"}
    BY <1>2, <2>1, <2>2
  <2>4. approvals \subseteq approvals' /\ (req[h].to = "APPROVED" => id \in approvals')
    BY <2>1
  <2>5. Waiting'
    BY <1>1, <2>3, <2>4, IdleIs, WriterMoves
  <2>6. QED BY <1>2, <1>4, <2>3, <2>4, <2>5 DEF ReviewInv, Waiting, Respected
<1>5. QED BY <1>3, <1>4

\* What a step can be for the versions: a writer's, or none.
WriterStep(h) ==
    \/ \E t, a : \E status \in {"DRAFT", "PUBLISHED"} : publishSpec(h, t, a, status)
    \/ nextVersion(h) \/ insertVersion(h) \/ transitionVersionStatus(h)
    \/ \E id \in DOMAIN versions : \E from, to :
         Move(h, id, from, to) /\ (from = "APPROVED" \/ to # "PUBLISHED")

LEMMA StepsOfWriters ==
  ASSUME Next
  PROVE  \/ \E h \in Writers : WriterStep(h)
         \/ UNCHANGED <<req, versions, approvals>>
         \/ req' = [req EXCEPT ![Cli] = Idle] /\ UNCHANGED <<versions, approvals>>
<1>1. ASSUME NEW h \in Editors, Editing(h) PROVE WriterStep(h)
  <2>1. CASE \E t \in Tenants, a \in Activities, status \in {"DRAFT", "PUBLISHED"} : publishSpec(h, t, a, status)
    BY <2>1 DEF WriterStep
  <2>2. CASE \E id \in DOMAIN versions : submitForReview(h, id) \/ reviewDecision(h, id) \/ publishApprovedVersion(h, id)
    <3>1. PICK id \in DOMAIN versions : submitForReview(h, id) \/ reviewDecision(h, id) \/ publishApprovedVersion(h, id)
      BY <2>2
    <3>2. \E from, to : Move(h, id, from, to) /\ (from = "APPROVED" \/ to # "PUBLISHED")
      <4>1. CASE submitForReview(h, id)
        BY <4>1 DEF submitForReview
      <4>2. CASE reviewDecision(h, id)
        BY <4>2 DEF reviewDecision
      <4>3. CASE publishApprovedVersion(h, id)
        BY <4>3 DEF publishApprovedVersion
      <4>4. QED BY <3>1, <4>1, <4>2, <4>3
    <3>3. QED BY <3>2 DEF WriterStep
  <2>3. QED BY <1>1, <2>1, <2>2 DEF Editing, WriterStep
<1>2. CASE Requests
  <2>1. CASE \E h \in Editors : Editing(h)
    BY <1>1, <2>1 DEF Writers
  <2>2. CASE \E a \in Activities : EditSpec(a)
    BY <2>2 DEF EditSpec
  <2>3. CASE nextVersion(Cli) \/ insertVersion(Cli)
    BY <2>3 DEF WriterStep, Writers
  <2>4. QED BY <1>2, <2>1, <2>2, <2>3 DEF Requests, CatalogNext
<1>3. CASE publishFile
  <2>1. (\E a : publishSpec(Cli, Demo, a, "PUBLISHED")) \/ UNCHANGED catalogVars
    BY <1>3 DEF publishFile
  <2>2. CASE \E a : publishSpec(Cli, Demo, a, "PUBLISHED")
    BY <2>2 DEF WriterStep, Writers
  <2>3. CASE UNCHANGED catalogVars
    BY <2>3 DEF catalogVars
  <2>4. QED BY <2>1, <2>2, <2>3
<1>4. CASE Killed
  BY <1>4 DEF Killed
<1>5. CASE (\E i \in DOMAIN Seeds : seedSkills(i)) \/ seedCurriculum \/ publishAll
  BY <1>5 DEF seedSkills, seedCurriculum, publishAll, Start
<1>6. CASE createSkill \/ addEdge \/ finishSeed \/ createCourse \/ createTopic \/ mapTopicToSkill
  BY <1>6 DEF createSkill, addEdge, finishSeed, createCourse, createTopic, mapTopicToSkill, catalogVars
<1>7. QED BY <1>2, <1>3, <1>4, <1>5, <1>6 DEF Next

LEMMA ReviewNext ==
  ASSUME ReviewInv, [Next]_vars
  PROVE  ReviewInv' /\ (Respected \/ UNCHANGED versions)
<1>1. ASSUME NEW h \in Writers, WriterStep(h) PROVE ReviewInv' /\ (Respected \/ UNCHANGED versions)
  <2>1. CASE \E t, a : \E status \in {"DRAFT", "PUBLISHED"} : publishSpec(h, t, a, status)
    BY <2>1, PublishSpecStep
  <2>2. CASE nextVersion(h) \/ insertVersion(h) \/ transitionVersionStatus(h)
    BY <2>2, NextVersionStep, InsertStep, TransitionStep
  <2>3. CASE \E id \in DOMAIN versions : \E from, to : Move(h, id, from, to) /\ (from = "APPROVED" \/ to # "PUBLISHED")
    BY <2>3, MoveStep
  <2>4. QED BY <1>1, <2>1, <2>2, <2>3 DEF WriterStep
<1>2. CASE UNCHANGED <<req, versions, approvals>>
  BY <1>2, WritersWait
<1>3. CASE req' = [req EXCEPT ![Cli] = Idle] /\ UNCHANGED <<versions, approvals>>
  <2>1. Waiting'
    BY <1>3, IdleIs, WriterMoves DEF Writers
  <2>2. QED BY <1>3, <2>1, NothingWritten
<1>4. CASE UNCHANGED vars
  BY <1>2, <1>4 DEF vars, catalogVars
<1>5. QED BY <1>1, <1>2, <1>3, <1>4, StepsOfWriters

LEMMA ReviewInit == Init => ReviewInv
<1>1. SUFFICES ASSUME Init PROVE ReviewInv
  OBVIOUS
<1>2. DOMAIN versions = {} /\ req = [h \in Writers |-> Idle]
  BY <1>1 DEF Init, CatalogInit, Writers
<1>3. QED BY <1>2, IdleIs DEF ReviewInv

\* catalog.repository.ts, transitionVersionStatus, and admin.controller.ts: for
\* any number of authors, admins and scripts at once, whatever they still do on
\* a stale read, a PUBLISHED version never changes and a draft becomes one only
\* if a reviewer has approved it at some time.
THEOREM PublishedWereApproved == Spec => PublishedWasApproved
<1>1. ReviewInv /\ [Next]_vars => ReviewInv'
  BY ReviewNext
<1>2. ReviewInv /\ [Next]_vars => [Respected]_versions
  BY ReviewNext
<1>3. Spec => []ReviewInv
  BY <1>1, ReviewInit, PTL DEF Spec
<1>4. Spec => [][Respected]_versions
  BY <1>2, <1>3, PTL DEF Spec
<1>5. QED BY <1>4 DEF PublishedWasApproved, Respected

-----------------------------------------------------------------------------
(* What a learner browses *)

\* The rows of one skill.
Joined(s) == {id \in DOMAIN versions : versions[id].skill = s}
Listed(t, s, id) ==
    [skill |-> s,
     act |-> IF versions[id].status = "PUBLISHED" /\ id.tenant = t THEN {id.act} ELSE {},
     ver |-> IF versions[id].status = "PUBLISHED" THEN {id} ELSE {}]
Unlisted(s) == [skill |-> s, act |-> {}, ver |-> {}]
RowsOf(t, s) == IF Joined(s) = {} THEN {Unlisted(s)} ELSE {Listed(t, s, id) : id \in Joined(s)}

LEMMA ListedIs ==
  ASSUME NEW t, NEW s, NEW id
  PROVE  /\ Listed(t, s, id).skill = s
         /\ startable(Listed(t, s, id)) <=> versions[id].status = "PUBLISHED" /\ id.tenant = t
BY DEF Listed, startable

LEMMA UnlistedIs ==
  ASSUME NEW s
  PROVE  Unlisted(s).skill = s /\ ~startable(Unlisted(s))
BY DEF Unlisted, startable

LEMMA CatalogRows ==
  ASSUME NEW t
  PROVE  listSkillDrivenCatalog(t) = UNION {RowsOf(t, s) : s \in skills}
BY DEF listSkillDrivenCatalog, RowsOf, Joined, Listed, Unlisted

\* For any versions, published by anyone: a skill is listed, and startable
\* exactly through a published version of the caller's tenant.
LEMMA ListingIsHonest ==
  ASSUME NEW t, NEW s \in skills
  PROVE  /\ \E row \in listSkillDrivenCatalog(t) : row.skill = s
         /\ (\E row \in listSkillDrivenCatalog(t) : row.skill = s /\ startable(row))
              <=> \E id \in Published(t) : versions[id].skill = s
<1>1. RowsOf(t, s) \subseteq listSkillDrivenCatalog(t)
  BY CatalogRows
<1>2. ASSUME NEW row \in listSkillDrivenCatalog(t), row.skill = s
      PROVE  row \in RowsOf(t, s)
  <2>1. PICK z \in skills : row \in RowsOf(t, z)
    BY CatalogRows
  <2>2. row.skill = z
    BY <2>1, ListedIs, UnlistedIs DEF RowsOf
  <2>3. QED BY <1>2, <2>1, <2>2
<1>3. \E row \in RowsOf(t, s) : row.skill = s
  BY ListedIs, UnlistedIs DEF RowsOf
<1>4. (\E row \in RowsOf(t, s) : row.skill = s /\ startable(row))
        <=> \E id \in Joined(s) : versions[id].status = "PUBLISHED" /\ id.tenant = t
  BY ListedIs, UnlistedIs DEF RowsOf
<1>5. (\E id \in Joined(s) : versions[id].status = "PUBLISHED" /\ id.tenant = t)
        <=> \E id \in Published(t) : versions[id].skill = s
  BY DEF Joined, Published
<1>6. QED BY <1>1, <1>2, <1>3, <1>4, <1>5

LEMMA RequestsWrite ==
  ASSUME Requests
  PROVE  UNCHANGED <<script, edges, closure, courses, seeded, skills, topics>>
<1>1. ASSUME NEW h, Editing(h) PROVE UNCHANGED <<skills, topics>>
  <2>1. ASSUME NEW id, NEW from, NEW to, Move(h, id, from, to) PROVE UNCHANGED <<skills, topics>>
    BY <2>1 DEF Move
  <2>2. QED BY <1>1, <2>1 DEF Editing, publishSpec, nextVersion, insertVersion, transitionVersionStatus,
                             submitForReview, reviewDecision, publishApprovedVersion
<1>2. QED BY <1>1 DEF Requests, CatalogNext, EditSpec, nextVersion, insertVersion

LEMMA PublishFileWrites ==
  ASSUME publishFile
  PROVE  UNCHANGED <<edges, closure, courses, seeded, skills, topics>>
BY DEF publishFile, publishSpec, catalogVars

LEMMA NoScriptIs == NoScript.name = "none"
BY DEF NoScript

LEMMA ScriptNext ==
  ASSUME ScriptInv, [Next]_vars
  PROVE  ScriptInv'
<1>1. CASE Requests \/ UNCHANGED vars
  <2>1. UNCHANGED script
    BY <1>1, RequestsWrite DEF vars
  <2>2. QED BY <2>1 DEF ScriptInv
<1>2. ASSUME script' = NoScript PROVE ScriptInv'
  BY <1>2, NoScriptIs DEF ScriptInv
<1>3. ASSUME NEW i \in DOMAIN Seeds, seedSkills(i) PROVE ScriptInv'
  BY <1>3 DEF seedSkills, Start, ScriptInv, SeedFields
<1>4. CASE createSkill
  <2>1. /\ Seeding("skills")
        /\ \/ script' = [script EXCEPT !.pc = "edges", !.k = 1]
           \/ script' = [script EXCEPT !.k = @ + 1]
           \/ script' = NoScript
    BY <1>4 DEF createSkill
  <2>2. CASE script' = [script EXCEPT !.pc = "edges", !.k = 1] \/ script' = [script EXCEPT !.k = @ + 1]
    <3>1. /\ script.name = "seed" /\ script.pc = "skills" /\ DOMAIN script = SeedFields
          /\ script.seed \in DOMAIN Seeds /\ script.k \in Nat \ {0}
      BY <2>1 DEF Seeding, ScriptInv
    <3>2. /\ DOMAIN script' = SeedFields /\ script'.name = "seed" /\ script'.seed = script.seed
          /\ script'.pc \in {"skills", "edges"} /\ script'.k \in {1, script.k + 1}
      BY <2>2, <3>1 DEF SeedFields
    <3>3. QED BY <3>1, <3>2 DEF ScriptInv
  <2>3. QED BY <1>2, <2>1, <2>2
<1>5. CASE addEdge
  BY <1>5 DEF addEdge, Seeding, ScriptInv, SeedFields
<1>6. CASE seedCurriculum
  BY <1>6 DEF seedCurriculum, Start, ScriptInv
<1>7. CASE createCourse
  BY <1>7 DEF createCourse, ScriptInv
<1>8. CASE createTopic
  BY <1>8 DEF createTopic, InCurriculum, ScriptInv
<1>9. CASE publishAll
  BY <1>9 DEF publishAll, Start, ScriptInv
<1>10. CASE publishFile
  BY <1>2, <1>10 DEF publishFile, ScriptInv
<1>11. CASE finishSeed \/ mapTopicToSkill \/ Killed
  BY <1>2, <1>11 DEF finishSeed, mapTopicToSkill, Killed
<1>12. QED BY <1>1, <1>3, <1>4, <1>5, <1>6, <1>7, <1>8, <1>9, <1>10, <1>11 DEF Next

\* A version is bound to a topic that was there.
LEMMA VersionsAreBound ==
  ASSUME ReviewInv, CourseInv, [Next]_vars
  PROVE  \A id \in DOMAIN versions' : versions'[id].topic \in {NoTopic} \cup DOMAIN topics
<1>1. CASE UNCHANGED versions
  BY <1>1 DEF CourseInv
<1>2. ASSUME NEW h \in Writers, insertVersion(h), ~UNCHANGED versions
      PROVE  \A id \in DOMAIN versions' : versions'[id].topic \in {NoTopic} \cup DOMAIN topics
  <2> DEFINE id == Id(req[h].tenant, req[h].act, req[h].spec.version)
  <2>1. PICK topic \in Topics : 
          versions' = Row(id, [status |-> req[h].status, skill |-> req[h].spec.skill, topic |-> topic])
    BY <1>2 DEF insertVersion
  <2> HIDE DEF id
  <2>2. topic \in {NoTopic} \cup DOMAIN topics
    BY DEF Topics
  <2>3. DOMAIN versions' = DOMAIN versions \cup {id} /\ versions'[id].topic = topic
        /\ \A i \in DOMAIN versions \ {id} : versions'[i] = versions[i]
    BY <2>1 DEF Row
  <2>4. QED BY <2>2, <2>3 DEF CourseInv
<1>3. ASSUME NEW h \in Writers, transitionVersionStatus(h), ~UNCHANGED versions
      PROVE  \A id \in DOMAIN versions' : versions'[id].topic \in {NoTopic} \cup DOMAIN topics
  <2> DEFINE id == req[h].id
  <2>1. versions' = [versions EXCEPT ![id].status = req[h].to] /\ req[h].pc = "move"
    BY <1>3 DEF transitionVersionStatus
  <2>2. id \in DOMAIN versions /\ DOMAIN versions[id] = {"status", "skill", "topic"}
    BY <2>1 DEF ReviewInv
  <2> HIDE DEF id
  <2>3. DOMAIN versions' = DOMAIN versions /\ \A i \in DOMAIN versions : versions'[i].topic = versions[i].topic
    BY <2>1, <2>2
  <2>4. QED BY <2>3 DEF CourseInv
<1>4. UNCHANGED versions \/ \E h \in Writers : insertVersion(h) \/ transitionVersionStatus(h)
  <2>1. CASE UNCHANGED vars
    BY <2>1 DEF vars, catalogVars
  <2>2. CASE Next
    BY <2>2, StepsOfWriters DEF WriterStep, publishSpec, nextVersion, Move
  <2>3. QED BY <2>1, <2>2
<1>5. QED BY <1>1, <1>2, <1>3, <1>4

\* A step that leaves the curriculum alone, but for the versions.
LEMMA CurriculumWaits ==
  ASSUME CourseInv, UNCHANGED <<topics, courses>>, UNCHANGED script \/ script'.name # "curriculum",
         \A id \in DOMAIN versions' : versions'[id].topic \in {NoTopic} \cup DOMAIN topics
  PROVE  CourseInv'
BY DEF CourseInv

LEMMA CourseNext ==
  ASSUME ReviewInv, ScriptInv, CourseInv, [Next]_vars
  PROVE  CourseInv'
<1> DEFINE Bound == \A id \in DOMAIN versions' : versions'[id].topic \in {NoTopic} \cup DOMAIN topics
<1>1. Bound
  BY VersionsAreBound
<1>2. ASSUME UNCHANGED <<topics, courses>>, UNCHANGED script \/ script'.name # "curriculum" PROVE CourseInv'
  BY <1>1, <1>2, CurriculumWaits
<1> HIDE DEF Bound
<1>3. CASE Requests \/ UNCHANGED vars
  BY <1>2, <1>3, RequestsWrite DEF vars, catalogVars
<1>4. CASE (\E i \in DOMAIN Seeds : seedSkills(i)) \/ publishAll
  BY <1>2, <1>4 DEF seedSkills, publishAll, Start
<1>5. CASE createSkill \/ addEdge \/ finishSeed
  <2>1. UNCHANGED <<topics, courses>> /\ script.name = "seed"
    BY <1>5 DEF createSkill, addEdge, finishSeed, Seeding, catalogVars
  <2>2. script'.name # "curriculum"
    <3>1. DOMAIN script = SeedFields
      BY <2>1 DEF ScriptInv
    <3>2. \/ script' = [script EXCEPT !.pc = "edges", !.k = 1] \/ script' = [script EXCEPT !.k = @ + 1]
          \/ script' = [script EXCEPT !.pc = "closure"] \/ script' = NoScript
      BY <1>5 DEF createSkill, addEdge, finishSeed
    <3>3. QED BY <2>1, <3>1, <3>2, NoScriptIs DEF SeedFields
  <2>3. QED BY <1>2, <2>1, <2>2
<1>6. CASE publishFile
  <2>1. script'.name # "curriculum"
    BY <1>6, NoScriptIs DEF publishFile, ScriptInv
  <2>2. QED BY <1>2, <1>6, <2>1, PublishFileWrites
<1>7. CASE Killed
  BY <1>2, <1>7, NoScriptIs DEF Killed
<1>8. CASE seedCurriculum
  BY <1>1, <1>8 DEF seedCurriculum, Start, CourseInv, Bound
<1>9. CASE createCourse
  <2>1. /\ courses' = <<SLUG>> /\ UNCHANGED topics
        /\ script' = [name |-> "curriculum", pc |-> "topic", course |-> 1]
    <3>1. CASE courses = <<>>
      <4>1. {k \in DOMAIN courses : courses[k] = SLUG} = {}
        BY <3>1
      <4>2. QED BY <1>9, <3>1, <4>1 DEF createCourse, catalogVars
    <3>2. CASE courses = <<SLUG>>
      <4>1. {k \in DOMAIN courses : courses[k] = SLUG} = {1}
        BY <3>2
      <4>2. Min({1}) = 1
        BY DEF Min
      <4>3. QED BY <1>9, <3>2, <4>1, <4>2 DEF createCourse, catalogVars
    <3>3. QED BY <3>1, <3>2 DEF CourseInv
  <2>2. QED BY <1>1, <2>1 DEF CourseInv, Bound
<1>10. CASE createTopic
  <2> DEFINE row == [course |-> script.course, mapped |-> {}]
  <2>1. /\ topics' = Append(topics, row) /\ UNCHANGED courses /\ courses = <<SLUG>> /\ script.course = 1
        /\ script' = [script EXCEPT !.pc = "map"] /\ DOMAIN script = {"name", "pc", "course"}
        /\ script.name = "curriculum"
    BY <1>10 DEF createTopic, InCurriculum, CourseInv, ScriptInv
  <2>2. script'.pc = "map" /\ script'.name = "curriculum"
    BY <2>1
  <2>3. topics \in Seq({topics[t] : t \in DOMAIN topics})
    BY DEF CourseInv
  <2>4. row.course = 1 /\ DOMAIN row = {"course", "mapped"}
    BY <2>1
  <2> HIDE DEF row
  <2>5. /\ DOMAIN topics' = DOMAIN topics \cup {Len(topics) + 1} /\ topics'[Len(topics) + 1] = row
        /\ \A t \in DOMAIN topics : topics'[t] = topics[t]
        /\ topics' \in Seq({topics[t] : t \in DOMAIN topics} \cup {row})
    BY <2>1, <2>3
  <2>6. topics' # <<>>
    BY <2>5
  <2>7. topics' \in Seq({topics'[t] : t \in DOMAIN topics'})
    <3>1. DOMAIN topics' = 1 .. Len(topics') /\ Len(topics') \in Nat /\ topics' = [t \in DOMAIN topics' |-> topics'[t]]
      BY <2>5
    <3>2. QED BY <3>1, IsASeq
  <2>8. \A t \in DOMAIN topics' : DOMAIN topics'[t] = {"course", "mapped"} /\ topics'[t].course = 1
    BY <2>4, <2>5 DEF CourseInv
  <2>9. \A id \in DOMAIN versions' : versions'[id].topic \in {NoTopic} \cup DOMAIN topics'
    BY <1>1, <2>5 DEF Bound
  <2>10. QED BY <2>1, <2>2, <2>6, <2>7, <2>8, <2>9 DEF CourseInv
<1>11. CASE mapTopicToSkill
  <2>1. /\ topics' = [topics EXCEPT ![Len(topics)].mapped = Skills \cap skills] /\ UNCHANGED courses
        /\ script'.name = "none" /\ topics # <<>>
    BY <1>11, NoScriptIs DEF mapTopicToSkill, InCurriculum, CourseInv
  <2>2. topics \in Seq({topics[t] : t \in DOMAIN topics})
    BY DEF CourseInv
  <2>3. Len(topics) \in DOMAIN topics /\ DOMAIN topics = 1 .. Len(topics) /\ Len(topics) \in Nat
    BY <2>1, <2>2
  <2>4. /\ DOMAIN topics' = DOMAIN topics /\ topics' = [t \in DOMAIN topics |-> topics'[t]]
        /\ \A t \in DOMAIN topics : DOMAIN topics'[t] = {"course", "mapped"} /\ topics'[t].course = 1
    BY <2>1, <2>3 DEF CourseInv
  <2>5. topics' \in Seq({topics'[t] : t \in DOMAIN topics'})
    BY <2>3, <2>4, IsASeq
  <2>6. topics' # <<>>
    BY <2>3, <2>4
  <2>7. QED BY <1>1, <2>1, <2>4, <2>5 DEF CourseInv, Bound
<1>12. QED BY <1>3, <1>4, <1>5, <1>6, <1>7, <1>8, <1>9, <1>10, <1>11 DEF Next

\* catalog.repository.ts and curriculum.repository.ts: for any tenants,
\* activities, editors and seeds, at any number of requests and killed or
\* repeated scripts, what a learner browses is what the own tenant has
\* published, and the course tree contains every version bound to a topic.
THEOREM CatalogsAreHonest == Spec => []CatalogIsHonest
<1> DEFINE Inv == ReviewInv /\ ScriptInv /\ CourseInv
<1>1. Init => Inv
  <2>1. SUFFICES ASSUME Init PROVE ScriptInv /\ CourseInv
    BY ReviewInit
  <2>2. script.name = "none" /\ courses = <<>> /\ topics = <<>> /\ DOMAIN versions = {}
    BY <2>1, NoScriptIs DEF Init, CatalogInit
  <2>3. QED BY <2>2 DEF ScriptInv, CourseInv
<1>2. Inv /\ [Next]_vars => Inv'
  BY ReviewNext, ScriptNext, CourseNext
<1>3. Inv => CatalogIsHonest
  <2>1. SUFFICES ASSUME Inv, NEW id \in DOMAIN versions, versions[id].topic # NoTopic
                 PROVE  versions[id].topic \in getCourseTree
    BY ListingIsHonest DEF CatalogIsHonest
  <2>2. versions[id].topic \in DOMAIN topics
    BY <2>1 DEF CourseInv
  <2>3. courses = <<SLUG>> /\ \A t \in DOMAIN topics : topics[t].course = 1
    BY <2>1, <2>2 DEF CourseInv
  <2>4. {k \in DOMAIN courses : courses[k] = SLUG} = {1}
    BY <2>3
  <2>5. Min({1}) = 1
    BY DEF Min
  <2>6. QED BY <2>2, <2>3, <2>4, <2>5 DEF getCourseTree
<1>4. QED BY <1>1, <1>2, <1>3, PTL DEF Spec

-----------------------------------------------------------------------------
(* The skill seeds *)

\* skill.repository.ts, rebuildClosure: an edge between two skills is a walk.
LEMMA EdgeIsLinked ==
  ASSUME NEW E, NEW S, IsFiniteSet(S), NEW e \in E, e.type = "REQUIRES", e.from # e.to, Ends(e) \subseteq S
  PROVE  \E c \in rebuildClosure(E, S) : c.ancestor = e.from /\ c.descendant = e.to
<1> DEFINE w == <<e.from, e.to>>
<1>1. e.from \in S /\ e.to \in S
  BY DEF Ends
<1>2. 2 \in 2 .. Cardinality(S)
  <2>1. IsFiniteSet({e.from}) /\ Cardinality({e.from}) = 1
    BY FS_Singleton
  <2>2. IsFiniteSet({e.from} \cup {e.to}) /\ Cardinality({e.from} \cup {e.to}) = 2
    <3>1. e.to \notin {e.from}
      OBVIOUS
    <3>2. QED BY ONLY <2>1, <3>1, FS_AddElement, SMTT(30)
  <2>3. Cardinality({e.from} \cup {e.to}) <= Cardinality(S)
    BY <1>1, <2>2, FS_Subset
  <2>4. Cardinality(S) \in Nat
    BY FS_CardinalityType
  <2>5. QED BY <2>2, <2>3, <2>4
<1>3. w \in [1 .. 2 -> S] /\ w[1] = e.from /\ w[2] = e.to /\ Len(w) = 2
  BY <1>1
<1> HIDE DEF w
<1>4. IsInjective(w)
  BY <1>3 DEF IsInjective
<1>5. w \in Injection(1 .. 2, S)
  BY <1>3, <1>4 DEF Injection
<1>6. e \in Prerequisite(E)
  BY DEF Prerequisite
<1>7. \A i \in 1 .. Len(w) - 1 : \E d \in Prerequisite(E) : d.from = w[i] /\ d.to = w[i + 1]
  BY <1>3, <1>6
<1>8. w \in UNION {Injection(1 .. n, S) : n \in 2 .. Cardinality(S)}
  BY <1>2, <1>5
<1>9. w \in Walks(E, S)
  BY <1>7, <1>8 DEF Walks
<1>10. \E types : [ancestor |-> w[1], descendant |-> w[Len(w)], types |-> types] \in rebuildClosure(E, S)
  BY <1>9 DEF rebuildClosure
<1>11. QED BY <1>3, <1>10

\* Edges and skills are only ever added.
LEMMA EdgesStay ==
  ASSUME NEW E, NEW F, E \subseteq F, NEW i, NEW k, NEW before, EdgesUpTo(E, i, k, before)
  PROVE  EdgesUpTo(F, i, k, before)
BY DEF EdgesUpTo

LEMMA FinishedStays ==
  ASSUME NEW E, NEW F, E \subseteq F, NEW S, NEW T, S \subseteq T, NEW list, Finished(E, S, list)
  PROVE  Finished(F, T, list)
BY EdgesStay DEF Finished, AllEdges

LEMMA BeforeIsKnown ==
  ASSUME SeedInv, NEW n \in 1 .. Len(seeded) + 1
  PROVE  Before(seeded, n) \subseteq skills
<1>1. seeded \in Seq(DOMAIN Seeds)
  BY DEF SeedInv
<1>2. ASSUME NEW m \in 1 .. n - 1 PROVE SeedSkills(seeded[m]) \subseteq skills
  <2>1. m \in DOMAIN seeded
    BY <1>1
  <2>2. QED BY <2>1 DEF SeedInv, Finished
<1>3. QED BY <1>2 DEF Before

\* A step that leaves the seeds alone.
LEMMA SeedsWait ==
  ASSUME SeedInv, UNCHANGED <<skills, edges, seeded>>, UNCHANGED script \/ script'.name # "seed"
  PROVE  SeedInv'
BY DEF SeedInv, UnderWay

LEMMA CreateSkillStep ==
  ASSUME SeedInv, ScriptInv, createSkill
  PROVE  SeedInv' /\ UNCHANGED <<closure, seeded>>
<1> DEFINE list == Seeds[script.seed].skills
<1>1. /\ script.name = "seed" /\ script.pc = "skills" /\ DOMAIN script = SeedFields
      /\ script.seed \in DOMAIN Seeds /\ script.k \in Nat \ {0} /\ UNCHANGED <<edges, seeded, closure>>
  BY DEF createSkill, Seeding, ScriptInv
<1>2. Len(list) \in Nat /\ DOMAIN list = 1 .. Len(list)
  BY <1>1, ScriptAssumption
<1>3. \A j \in DOMAIN list : j < script.k => list[j] \in skills
  BY <1>1 DEF SeedInv, UnderWay
<1>4. CASE script.k > Len(list)
  <2>1. script' = [script EXCEPT !.pc = "edges", !.k = 1] /\ UNCHANGED skills
    BY <1>4 DEF createSkill
  <2>2. script'.pc = "edges" /\ script'.k = 1 /\ script'.seed = script.seed
    BY <1>1, <2>1 DEF SeedFields
  <2>3. SeedSkills(script.seed) \subseteq skills
    BY <1>2, <1>3, <1>4, <1>1 DEF SeedSkills
  <2>4. ASSUME NEW before PROVE EdgesUpTo(edges, script.seed, 1, before)
    <3>1. DOMAIN Seeds[script.seed].edges \subseteq Nat \ {0}
      BY <1>1, ScriptAssumption
    <3>2. QED BY <3>1 DEF EdgesUpTo
  <2>5. QED BY <1>1, <2>1, <2>2, <2>3, <2>4 DEF SeedInv, UnderWay
<1>5. CASE ~(script.k > Len(list)) /\ list[script.k] \in skills
  <2>1. script' = NoScript /\ UNCHANGED skills
    BY <1>5 DEF createSkill
  <2>2. QED BY <1>1, <2>1, NoScriptIs, SeedsWait
<1>6. CASE ~(script.k > Len(list)) /\ list[script.k] \notin skills
  <2>1. skills' = skills \cup {list[script.k]} /\ script' = [script EXCEPT !.k = @ + 1]
    BY <1>6 DEF createSkill
  <2>2. script'.pc = "skills" /\ script'.k = script.k + 1 /\ script'.seed = script.seed
    BY <1>1, <2>1 DEF SeedFields
  <2>3. IsFiniteSet(skills')
    BY <2>1, FS_AddElement DEF SeedInv
  <2>4. Finished(edges, skills', seeded)
    BY <2>1, FinishedStays DEF SeedInv
  <2>5. \A j \in DOMAIN list : j < script.k + 1 => list[j] \in skills'
    BY <1>1, <1>2, <1>3, <2>1
  <2>6. QED BY <1>1, <2>2, <2>3, <2>4, <2>5 DEF SeedInv, UnderWay
<1>7. QED BY <1>1, <1>4, <1>5, <1>6

LEMMA AddEdgeStep ==
  ASSUME SeedInv, ScriptInv, addEdge
  PROVE  SeedInv' /\ UNCHANGED <<closure, seeded>>
<1> DEFINE list == Seeds[script.seed].edges
           known == IF Seeds[script.seed].requery THEN skills ELSE SeedSkills(script.seed)
           before == Before(seeded, Len(seeded) + 1)
<1>1. /\ script.name = "seed" /\ script.pc = "edges" /\ DOMAIN script = SeedFields
      /\ script.seed \in DOMAIN Seeds /\ script.k \in Nat \ {0} /\ UNCHANGED <<skills, seeded, closure>>
  BY DEF addEdge, Seeding, ScriptInv, catalogVars
<1>2. Len(list) \in Nat /\ DOMAIN list = 1 .. Len(list)
  BY <1>1, ScriptAssumption
<1>3. SeedSkills(script.seed) \subseteq skills /\ EdgesUpTo(edges, script.seed, script.k, before)
  BY <1>1 DEF SeedInv, UnderWay
<1>4. Reach(script.seed, before) \subseteq known
  <2>1. Len(seeded) + 1 \in 1 .. Len(seeded) + 1
    BY DEF SeedInv
  <2>2. QED BY <1>3, <2>1, BeforeIsKnown DEF Reach
<1>5. CASE script.k > Len(list)
  <2>1. script' = [script EXCEPT !.pc = "closure"] /\ UNCHANGED edges
    BY <1>5 DEF addEdge
  <2>2. script'.pc = "closure" /\ script'.seed = script.seed
    BY <1>1, <2>1 DEF SeedFields
  <2>3. AllEdges(edges, script.seed, before)
    BY <1>1, <1>2, <1>3, <1>5 DEF AllEdges, EdgesUpTo
  <2>4. QED BY <1>1, <1>3, <2>1, <2>2, <2>3 DEF SeedInv, UnderWay
<1>6. CASE ~(script.k > Len(list))
  <2>1. /\ edges' = IF Ends(list[script.k]) \subseteq known THEN edges \cup {list[script.k]} ELSE edges
        /\ script' = [script EXCEPT !.k = @ + 1]
    BY <1>6 DEF addEdge, Ends
  <2>2. script'.pc = "edges" /\ script'.k = script.k + 1 /\ script'.seed = script.seed
    BY <1>1, <2>1 DEF SeedFields
  <2>3. edges \subseteq edges'
    BY <2>1
  <2>4. Finished(edges', skills, seeded)
    BY <2>3, FinishedStays DEF SeedInv
  <2>5. EdgesUpTo(edges', script.seed, script.k + 1, before)
    <3>1. SUFFICES ASSUME NEW j \in DOMAIN list, j < script.k + 1,
                          Ends(list[j]) \subseteq Reach(script.seed, before)
                   PROVE  list[j] \in edges'
      BY DEF EdgesUpTo
    <3>2. CASE j < script.k
      BY <1>3, <2>3, <3>1, <3>2 DEF EdgesUpTo
    <3>3. CASE j = script.k
      BY <1>4, <2>1, <3>1, <3>3
    <3>4. QED BY <1>1, <1>2, <3>1, <3>2, <3>3
  <2>6. QED BY <1>1, <1>3, <2>2, <2>4, <2>5 DEF SeedInv, UnderWay
<1>7. QED BY <1>1, <1>5, <1>6

\* What the closure of finished seeds links.
LEMMA FinishedIsLinked ==
  ASSUME NEW E, NEW S, IsFiniteSet(S), NEW list \in Seq(DOMAIN Seeds), Finished(E, S, list),
         NEW n \in DOMAIN list, NEW k \in DOMAIN Seeds[list[n]].edges,
         Ends(Seeds[list[n]].edges[k]) \subseteq Reach(list[n], Before(list, n))
  PROVE  \E c \in rebuildClosure(E, S) :
            c.ancestor = Seeds[list[n]].edges[k].from /\ c.descendant = Seeds[list[n]].edges[k].to
<1> DEFINE e == Seeds[list[n]].edges[k]
<1>1. list[n] \in DOMAIN Seeds /\ n \in 1 .. Len(list) /\ Len(list) \in Nat
  OBVIOUS
<1>2. e.type = "REQUIRES" /\ e.from # e.to /\ k < Len(Seeds[list[n]].edges) + 1
  BY <1>1, ScriptAssumption
<1>3. e \in E
  BY <1>2 DEF Finished, AllEdges, EdgesUpTo
<1>4. Reach(list[n], Before(list, n)) \subseteq S
  <2>1. SeedSkills(list[n]) \subseteq S
    BY DEF Finished
  <2>2. ASSUME NEW m \in 1 .. n - 1 PROVE SeedSkills(list[m]) \subseteq S
    <3>1. m \in DOMAIN list
      BY <1>1
    <3>2. QED BY <3>1 DEF Finished
  <2>3. QED BY <2>1, <2>2 DEF Reach, Before
<1>5. Ends(e) \subseteq S
  BY <1>4
<1> HIDE DEF e
<1>6. QED BY <1>2, <1>3, <1>5, EdgeIsLinked DEF e

LEMMA FinishSeedStep ==
  ASSUME SeedInv, ScriptInv, finishSeed
  PROVE  SeedInv' /\ SeededMeansGated'
<1> DEFINE i == script.seed
<1>1. /\ script.name = "seed" /\ script.pc = "closure" /\ i \in DOMAIN Seeds
      /\ closure' = rebuildClosure(edges, skills) /\ seeded' = Append(seeded, i)
      /\ script' = NoScript /\ UNCHANGED <<skills, edges>>
  BY DEF finishSeed, Seeding, ScriptInv, catalogVars
<1>2. /\ SeedSkills(i) \subseteq skills /\ AllEdges(edges, i, Before(seeded, Len(seeded) + 1))
      /\ Finished(edges, skills, seeded) /\ seeded \in Seq(DOMAIN Seeds) /\ IsFiniteSet(skills)
  BY <1>1 DEF SeedInv, UnderWay
<1> HIDE DEF i
<1>3. /\ seeded' \in Seq(DOMAIN Seeds) /\ DOMAIN seeded = 1 .. Len(seeded) /\ Len(seeded) \in Nat
      /\ DOMAIN seeded' = 1 .. Len(seeded) + 1 /\ seeded'[Len(seeded) + 1] = i
      /\ \A n \in 1 .. Len(seeded) : seeded'[n] = seeded[n]
  BY <1>1, <1>2
<1>4. \A n \in DOMAIN seeded' : Before(seeded', n) = Before(seeded, n)
  <2>1. ASSUME NEW n \in DOMAIN seeded', NEW m \in 1 .. n - 1 PROVE seeded'[m] = seeded[m]
    BY <1>3
  <2>2. QED BY <2>1 DEF Before
<1>5. Finished(edges, skills, seeded')
  <2>1. SUFFICES ASSUME NEW n \in DOMAIN seeded'
                 PROVE  SeedSkills(seeded'[n]) \subseteq skills /\ AllEdges(edges, seeded'[n], Before(seeded', n))
    BY DEF Finished
  <2>2. CASE n \in DOMAIN seeded
    BY <1>2, <1>3, <1>4, <2>2 DEF Finished
  <2>3. CASE n = Len(seeded) + 1
    BY <1>2, <1>3, <1>4, <2>3
  <2>4. QED BY <1>3, <2>2, <2>3
<1>6. SeedInv'
  BY <1>1, <1>2, <1>3, <1>5, NoScriptIs DEF SeedInv, UnderWay
<1>7. SeededMeansGated'
  <2>1. SUFFICES ASSUME NEW n \in DOMAIN seeded', NEW k \in DOMAIN Seeds[seeded'[n]].edges,
                        Ends(Seeds[seeded'[n]].edges[k]) \subseteq Reach(seeded'[n], Before(seeded', n))
                 PROVE  \E c \in closure' : /\ c.ancestor = Seeds[seeded'[n]].edges[k].from
                                            /\ c.descendant = Seeds[seeded'[n]].edges[k].to
    BY DEF SeededMeansGated, Linked, Ends, Reach, Before, SeedSkills
  <2>2. \E c \in rebuildClosure(edges, skills) : /\ c.ancestor = Seeds[seeded'[n]].edges[k].from
                                                  /\ c.descendant = Seeds[seeded'[n]].edges[k].to
    <3>1. PICK list : list = seeded'
      OBVIOUS
    <3>2. list \in Seq(DOMAIN Seeds) /\ Finished(edges, skills, list)
      BY <1>3, <1>5, <3>1
    <3>3. /\ n \in DOMAIN list /\ k \in DOMAIN Seeds[list[n]].edges
          /\ Ends(Seeds[list[n]].edges[k]) \subseteq Reach(list[n], Before(list, n))
      BY <2>1, <3>1
    <3>4. \E c \in rebuildClosure(edges, skills) :
             c.ancestor = Seeds[list[n]].edges[k].from /\ c.descendant = Seeds[list[n]].edges[k].to
      BY <1>2, <3>2, <3>3, FinishedIsLinked
    <3>5. QED BY <3>1, <3>4
  <2>3. QED BY <1>1, <2>2
<1>8. QED BY <1>6, <1>7

LEMMA SeedNext ==
  ASSUME SeedInv, ScriptInv, SeededMeansGated, [Next]_vars
  PROVE  SeedInv' /\ SeededMeansGated'
<1>1. ASSUME UNCHANGED <<closure, seeded>> PROVE SeededMeansGated'
  BY <1>1 DEF SeededMeansGated, Linked
<1>2. ASSUME UNCHANGED <<skills, edges, closure, seeded>>, UNCHANGED script \/ script'.name # "seed"
      PROVE  SeedInv' /\ SeededMeansGated'
  BY <1>1, <1>2, SeedsWait
<1>3. CASE Requests \/ UNCHANGED vars
  BY <1>2, <1>3, RequestsWrite DEF vars, catalogVars
<1>4. ASSUME NEW i \in DOMAIN Seeds, seedSkills(i) PROVE SeedInv' /\ SeededMeansGated'
  <2>1. script' = [name |-> "seed", seed |-> i, pc |-> "skills", k |-> 1] /\ UNCHANGED <<skills, edges, closure, seeded>>
    BY <1>4 DEF seedSkills, Start
  <2>2. script'.pc = "skills" /\ script'.k = 1 /\ script'.seed = i
    BY <2>1
  <2>3. DOMAIN Seeds[i].skills \subseteq Nat \ {0}
    BY ScriptAssumption
  <2>4. UnderWay'
    BY <2>2, <2>3 DEF UnderWay
  <2>5. QED BY <1>1, <2>1, <2>4 DEF SeedInv
<1>5. CASE createSkill \/ addEdge
  BY <1>1, <1>5, CreateSkillStep, AddEdgeStep
<1>6. CASE finishSeed
  BY <1>6, FinishSeedStep
<1>7. CASE seedCurriculum \/ publishAll
  BY <1>2, <1>7 DEF seedCurriculum, publishAll, Start
<1>8. CASE createCourse \/ createTopic \/ mapTopicToSkill \/ Killed
  <2>1. UNCHANGED <<skills, edges, closure, seeded>>
    BY <1>8 DEF createCourse, createTopic, mapTopicToSkill, Killed, catalogVars
  <2>2. script'.name # "seed"
    BY <1>8, NoScriptIs DEF createCourse, createTopic, mapTopicToSkill, Killed, InCurriculum, ScriptInv
  <2>3. QED BY <1>2, <2>1, <2>2
<1>9. CASE publishFile
  <2>1. script'.name # "seed"
    BY <1>9, NoScriptIs DEF publishFile, ScriptInv
  <2>2. QED BY <1>2, <1>9, <2>1, PublishFileWrites
<1>10. QED BY <1>3, <1>4, <1>5, <1>6, <1>7, <1>8, <1>9 DEF Next

\* seed-skills*.ts and skill.repository.ts: for any seeds, in any order, killed
\* or repeated at any statement, once one has run to its end the closure that
\* eligibility gates on links each of its edges within its reach, and no later
\* seed takes that away.
THEOREM SeededIsGated == Spec => []SeededMeansGated
<1> DEFINE Inv == ScriptInv /\ SeedInv /\ SeededMeansGated
<1>1. Init => Inv
  <2>1. SUFFICES ASSUME Init PROVE Inv
    OBVIOUS
  <2>2. script.name = "none" /\ skills = {} /\ seeded = <<>>
    BY <2>1, NoScriptIs DEF Init, CatalogInit
  <2>3. DOMAIN seeded = {} /\ seeded \in Seq(DOMAIN Seeds)
    BY <2>2
  <2>4. IsFiniteSet(skills)
    BY <2>2, FS_EmptySet
  <2>5. SeedInv
    BY <2>2, <2>3, <2>4 DEF SeedInv, Finished, UnderWay
  <2>6. QED BY <2>2, <2>3, <2>5 DEF ScriptInv, SeededMeansGated
<1>2. Inv /\ [Next]_vars => Inv'
  BY ScriptNext, SeedNext
<1>3. QED BY <1>1, <1>2, PTL DEF Spec

-----------------------------------------------------------------------------
\* content-ci.ts: one lab.

CiFields == {"pc", "solution", "quality", "explicit", "ok", "statuses", "left", "hidden", "env", "stuck"}
Stages == {"classify", "provision", "null", "apply", "golden", "cost", "destroy"}

\* What each stage has established, as long as nothing has failed.
CiInv ==
    /\ DOMAIN ci = CiFields
    /\ ci.pc \in Stages \cup {"done", "cancelled"}
    /\ ci.ok \in BOOLEAN /\ ci.explicit \in BOOLEAN /\ ci.stuck \in BOOLEAN /\ ci.hidden \in BOOLEAN
    /\ ci.quality \in Qualities
    /\ ci.pc \in Stages \ {"classify"} => ci.solution = "runnable"
    /\ ci.pc \in {"classify", "provision"} => ci.env = "none"
    /\ ci.pc \in Stages => ~ci.stuck
    /\ ci.pc \in {"classify", "provision", "null", "apply"} => ci.statuses = {} /\ ci.left = FLAKE_RUNS
    /\ ci.pc \in {"apply", "golden", "cost", "destroy"} /\ ci.ok => ci.quality # "vacuous" \/ ci.hidden
    /\ ci.pc = "golden" =>
         /\ ci.left \in 1 .. FLAKE_RUNS
         /\ ci.left = FLAKE_RUNS => ci.statuses = {}
         /\ ci.ok /\ ci.left # FLAKE_RUNS => ci.statuses = {"PASS"} /\ ci.quality # "wrong"
    /\ ci.pc \in {"cost", "destroy"} /\ ci.ok => ci.statuses = {"PASS"} /\ ci.quality # "wrong"
    /\ CiRunIsSound

LEMMA SetSets ==
  ASSUME DOMAIN ci = CiFields, ci.ok \in BOOLEAN, NEW pc, NEW ok \in BOOLEAN
  PROVE  /\ DOMAIN Set(pc, ok) = CiFields
         /\ Set(pc, ok).pc = pc /\ Set(pc, ok).ok = (ci.ok /\ ok)
         /\ Set(pc, ok).solution = ci.solution /\ Set(pc, ok).quality = ci.quality
         /\ Set(pc, ok).explicit = ci.explicit /\ Set(pc, ok).statuses = ci.statuses
         /\ Set(pc, ok).left = ci.left /\ Set(pc, ok).hidden = ci.hidden
         /\ Set(pc, ok).env = ci.env /\ Set(pc, ok).stuck = ci.stuck
BY DEF Set, CiFields

LEMMA CiFirst == CiInit => CiInv
BY CiAssumption DEF CiInit, CiInv, CiFields, Stages, CiRunIsSound, Qualities

\* What the parts of a stage's new state are, unless the stage changes them.
Rest(t) == /\ DOMAIN t = CiFields /\ t.solution = ci.solution /\ t.quality = ci.quality
           /\ t.explicit = ci.explicit

LEMMA CiThrows ==
  ASSUME CiInv, ci.pc \in {"null", "apply", "golden"}, Throws
  PROVE  CiInv'
<1>1. DOMAIN ci = CiFields /\ ci.ok \in BOOLEAN
  BY DEF CiInv
<1>2. Rest(ci') /\ ci'.pc = "destroy" /\ ci'.ok = FALSE /\ ci'.hidden = ci.hidden /\ ci'.stuck = ci.stuck
  BY <1>1, SetSets DEF Throws, Rest
<1>3. QED BY <1>2 DEF CiInv, Stages, CiRunIsSound, Rest

LEMMA CiStep == CiInv /\ [CiNext]_ci => CiInv'
<1> SUFFICES ASSUME CiInv, [CiNext]_ci PROVE CiInv'
  OBVIOUS
<1>0. DOMAIN ci = CiFields /\ ci.ok \in BOOLEAN
  BY DEF CiInv
<1>1. CASE classifySolution
  <2>1. CASE ci.solution = "runnable"
    <3>1. ci' = Set("provision", TRUE) /\ ci.pc = "classify"
      BY <1>1, <2>1 DEF classifySolution, At
    <3>2. /\ Rest(ci') /\ ci'.pc = "provision" /\ ci'.ok = ci.ok /\ ci'.statuses = ci.statuses /\ ci'.left = ci.left
          /\ ci'.hidden = ci.hidden /\ ci'.env = ci.env /\ ci'.stuck = ci.stuck
      BY <1>0, <3>1, SetSets DEF Rest
    <3>3. QED BY <2>1, <3>1, <3>2 DEF CiInv, Stages, CiRunIsSound, Rest
  <2>2. CASE ci.solution # "runnable"
    <3>1. ci' = Set("done", ~ci.explicit) /\ ci.pc = "classify" /\ (~ci.explicit) \in BOOLEAN
      BY <1>1, <2>2 DEF classifySolution, At
    <3>2. /\ Rest(ci') /\ ci'.pc = "done" /\ ci'.ok = (ci.ok /\ ~ci.explicit) /\ ci'.hidden = ci.hidden
          /\ ci'.env = ci.env /\ ci'.stuck = ci.stuck
      <4>1. PICK ok \in BOOLEAN : ok = ~ci.explicit
        BY <3>1
      <4>2. ci' = Set("done", ok)
        BY <3>1, <4>1
      <4>3. QED BY <1>0, <4>1, <4>2, SetSets DEF Rest
    <3>3. QED BY <3>1, <3>2 DEF CiInv, Stages, CiRunIsSound, Rest
  <2>3. QED BY <2>1, <2>2
<1>2. CASE Provision
  <2>1. ci.pc = "provision"
    BY <1>2 DEF Provision, At
  <2>2. CASE ci' = [Set("null", TRUE) EXCEPT !.env = "live"]
    <3>1. PICK t : t = Set("null", TRUE)
      OBVIOUS
    <3>2. /\ Rest(t) /\ t.pc = "null" /\ t.ok = ci.ok /\ t.statuses = ci.statuses /\ t.left = ci.left
          /\ t.hidden = ci.hidden /\ t.stuck = ci.stuck
      BY <1>0, <3>1, SetSets DEF Rest
    <3>3. /\ Rest(ci') /\ ci'.pc = "null" /\ ci'.ok = ci.ok /\ ci'.statuses = ci.statuses /\ ci'.left = ci.left
          /\ ci'.hidden = ci.hidden /\ ci'.stuck = ci.stuck
      BY <2>2, <3>1, <3>2 DEF Rest, CiFields
    <3>4. QED BY <2>1, <3>3 DEF CiInv, Stages, CiRunIsSound, Rest
  <2>3. ASSUME NEW env \in {"none", "live"}, ci' = [Set("done", FALSE) EXCEPT !.env = env, !.stuck = TRUE]
        PROVE  CiInv'
    <3>1. PICK t : t = Set("done", FALSE)
      OBVIOUS
    <3>2. Rest(t) /\ t.pc = "done" /\ t.ok = FALSE /\ t.hidden = ci.hidden
      BY <1>0, <3>1, SetSets DEF Rest
    <3>3. Rest(ci') /\ ci'.pc = "done" /\ ci'.ok = FALSE /\ ci'.hidden = ci.hidden /\ ci'.stuck = TRUE
      BY <2>3, <3>1, <3>2 DEF Rest, CiFields
    <3>4. QED BY <3>3 DEF CiInv, Stages, CiRunIsSound, Rest
  <2>4. QED BY <1>2, <2>2, <2>3 DEF Provision
<1>3. CASE NullPath
  <2>1. ci.pc = "null"
    BY <1>3 DEF NullPath, At
  <2>2. ASSUME NEW status \in Says(FALSE),
               ci' = [Set("apply", status # "PASS") EXCEPT !.hidden = (status = "ERROR")]
        PROVE  CiInv'
    <3>1. ci.quality = "vacuous" /\ status # "PASS" => status = "ERROR"
      BY DEF Says
    <3>2. PICK t : t = Set("apply", status # "PASS")
      OBVIOUS
    <3>3. /\ Rest(t) /\ t.pc = "apply" /\ t.ok = (ci.ok /\ status # "PASS") /\ t.statuses = ci.statuses
          /\ t.left = ci.left /\ t.stuck = ci.stuck
      BY <1>0, <3>2, SetSets DEF Rest
    <3>4. /\ Rest(ci') /\ ci'.pc = "apply" /\ ci'.ok = (ci.ok /\ status # "PASS") /\ ci'.statuses = ci.statuses
          /\ ci'.left = ci.left /\ ci'.stuck = ci.stuck /\ ci'.hidden = (status = "ERROR")
      BY <2>2, <3>2, <3>3 DEF Rest, CiFields
    <3>5. QED BY <2>1, <3>1, <3>4 DEF CiInv, Stages, CiRunIsSound, Rest
  <2>3. QED BY <1>3, <2>1, <2>2, CiThrows DEF NullPath
<1>4. CASE applySolutions
  <2>1. ci.pc = "apply"
    BY <1>4 DEF applySolutions, At
  <2>2. CASE ci' = Set("golden", TRUE)
    <3>1. /\ Rest(ci') /\ ci'.pc = "golden" /\ ci'.ok = ci.ok /\ ci'.statuses = ci.statuses /\ ci'.left = ci.left
          /\ ci'.stuck = ci.stuck /\ ci'.hidden = ci.hidden
      BY <1>0, <2>2, SetSets DEF Rest
    <3>2. FLAKE_RUNS \in 1 .. FLAKE_RUNS
      BY CiAssumption
    <3>3. QED BY <2>1, <3>1, <3>2 DEF CiInv, Stages, CiRunIsSound, Rest
  <2>3. QED BY <1>4, <2>1, <2>2, CiThrows DEF applySolutions
<1>5. CASE GoldenPath
  <2>1. ci.pc = "golden" /\ ci.left \in 1 .. FLAKE_RUNS /\ FLAKE_RUNS \in Nat
    BY <1>5, CiAssumption DEF GoldenPath, At, CiInv
  <2>2. ASSUME NEW status \in Says(TRUE), NEW seen, seen = ci.statuses \cup {status},
               NEW ok \in BOOLEAN, ok = ((ci.left = FLAKE_RUNS => status = "PASS") /\ seen = {status}),
               ci' = [Set(IF ci.left = 1 THEN "cost" ELSE "golden", ok) EXCEPT !.statuses = seen, !.left = @ - 1]
        PROVE  CiInv'
    <3>1. status = "PASS" => ci.quality # "wrong"
      BY DEF Says
    <3>2. ci.ok /\ ok => seen = {"PASS"} /\ ci.quality # "wrong"
      BY <2>1, <2>2, <3>1 DEF CiInv
    <3>3. PICK pc : pc = IF ci.left = 1 THEN "cost" ELSE "golden"
      OBVIOUS
    <3>4. PICK t : t = Set(pc, ok)
      OBVIOUS
    <3>5. Rest(t) /\ t.pc = pc /\ t.ok = (ci.ok /\ ok) /\ t.left = ci.left /\ t.hidden = ci.hidden /\ t.stuck = ci.stuck
      BY <1>0, <3>4, SetSets DEF Rest
    <3>6. /\ Rest(ci') /\ ci'.pc = pc /\ ci'.ok = (ci.ok /\ ok) /\ ci'.left = ci.left - 1 /\ ci'.statuses = seen
          /\ ci'.hidden = ci.hidden /\ ci'.stuck = ci.stuck
      BY <2>2, <3>3, <3>4, <3>5 DEF Rest, CiFields
    <3>7. QED BY <2>1, <3>2, <3>3, <3>6 DEF CiInv, Stages, CiRunIsSound, Rest
  <2>3. QED BY <1>5, <2>1, <2>2, CiThrows DEF GoldenPath
<1>6. CASE Cost
  <2>1. PICK cheap \in BOOLEAN : ci' = Set("destroy", cheap) /\ ci.pc = "cost"
    BY <1>6 DEF Cost, At
  <2>2. /\ Rest(ci') /\ ci'.pc = "destroy" /\ ci'.ok = (ci.ok /\ cheap) /\ ci'.statuses = ci.statuses
        /\ ci'.hidden = ci.hidden /\ ci'.stuck = ci.stuck
    BY <1>0, <2>1, SetSets DEF Rest
  <2>3. QED BY <2>1, <2>2 DEF CiInv, Stages, CiRunIsSound, Rest
<1>7. CASE Destroy
  <2>1. ci.pc = "destroy"
    BY <1>7 DEF Destroy, At
  <2>2. CASE ci' = [Set("done", TRUE) EXCEPT !.env = "gone"]
    <3>1. PICK t : t = Set("done", TRUE)
      OBVIOUS
    <3>2. /\ Rest(t) /\ t.pc = "done" /\ t.ok = ci.ok /\ t.statuses = ci.statuses /\ t.hidden = ci.hidden
          /\ t.stuck = ci.stuck
      BY <1>0, <3>1, SetSets DEF Rest
    <3>3. /\ Rest(ci') /\ ci'.pc = "done" /\ ci'.ok = ci.ok /\ ci'.statuses = ci.statuses /\ ci'.hidden = ci.hidden
          /\ ci'.stuck = ci.stuck /\ ci'.env = "gone"
      BY <2>2, <3>1, <3>2 DEF Rest, CiFields
    <3>4. QED BY <2>1, <3>3 DEF CiInv, Stages, CiRunIsSound, Rest, Qualities
  <2>3. CASE ci' = [Set("done", FALSE) EXCEPT !.stuck = TRUE]
    <3>1. PICK t : t = Set("done", FALSE)
      OBVIOUS
    <3>2. Rest(t) /\ t.pc = "done" /\ t.ok = FALSE /\ t.hidden = ci.hidden
      BY <1>0, <3>1, SetSets DEF Rest
    <3>3. Rest(ci') /\ ci'.pc = "done" /\ ci'.ok = FALSE /\ ci'.hidden = ci.hidden /\ ci'.stuck = TRUE
      BY <2>3, <3>1, <3>2 DEF Rest, CiFields
    <3>4. QED BY <3>3 DEF CiInv, Stages, CiRunIsSound, Rest
  <2>4. QED BY <1>7, <2>2, <2>3 DEF Destroy
<1>8. CASE CancelInProgress
  <2>1. Rest(ci') /\ ci'.pc = "cancelled" /\ ci'.ok = FALSE /\ ci'.hidden = ci.hidden /\ ci'.stuck = ci.stuck
    BY <1>0, <1>8, SetSets DEF CancelInProgress, Rest
  <2>2. QED BY <2>1 DEF CiInv, Stages, CiRunIsSound, Rest
<1>9. CASE UNCHANGED ci
  BY <1>9 DEF CiInv, CiRunIsSound
<1>10. QED BY <1>1, <1>2, <1>3, <1>4, <1>5, <1>6, <1>7, <1>8, <1>9 DEF CiNext

\* content-ci.ts, checkActivity, for any number of flake runs, whatever the lab,
\* the platform and the workflow do: a lab that was named and passes has a
\* solution that ran and a validator that does not pass without it (but for a
\* hidden ERROR or a lucky flake), and a run that ends leaves no environment
\* behind unless Provision or Destroy failed.
THEOREM CiSound == CiSpec => []CiRunIsSound
<1>1. CiInv => CiRunIsSound
  BY DEF CiInv
<1>2. QED BY <1>1, CiFirst, CiStep, PTL DEF CiSpec

-----------------------------------------------------------------------------
(* Validators: what the answers tell *)

Right(a, seen) == \E b \in seen : a \notin b
Wrong(seen) == \E b \in seen : b # {}

\* What the answer x to a command says of the work, if the work was seen in
\* these states meanwhile.
Tells(u, cmd, x, seen) ==
    /\ cmd.name = "plan" => /\ x \in {"infra", "missing", "1", "0", "2"}
                            /\ x = "0" => Right("no_drift", seen)
                            /\ x = "2" => Wrong(seen)
    /\ cmd.name = "pull" => /\ x \in {"infra", "missing", "fail", "clean", "secret"}
                            /\ x = "clean" => Right("forbid_secrets_in_state", seen)
                            /\ x = "secret" => Wrong(seen)
    /\ cmd.name = "ls" => /\ x \in {"infra", "REMOTE", "LOCAL"}
                          /\ x = "REMOTE" => Right("require_remote_backend", seen)
                          /\ x = "LOCAL" => Wrong(seen)
    /\ cmd.name = "aws" => /\ x \in {"infra", "missing", "error", "clean", "dirty", "unread"}
                           /\ x = "clean" => Right(cmd.check, seen)
                           /\ x = "dirty" => Wrong(seen)
                           /\ x = "unread" => cmd.check \in Detailed
    /\ cmd.name = "tool" => /\ x \in {"infra", "missing", "crash", "clean", "dirty", "unrated"}
                            /\ x = "clean" => Right(u.type, seen)
                            /\ x \in {"dirty", "unrated"} => Wrong(seen)
    /\ cmd.name = "test" => /\ x \in {"infra", "missing", "crash", "0", "1"}
                            /\ x = "0" => Right(u.type, seen)
                            /\ x = "1" => Wrong(seen)
    /\ cmd.name = "write" => x \in {"infra", "missing", "ok"}
    /\ cmd.name = "k6" => x \in {"infra", "missing", "crash", "ran"}
    /\ cmd.name = "rpc" => /\ x \in {"infra", "ERROR", "PASS", "FAIL"}
                           /\ x = "ERROR" => u.type # "NO_REGRESSION"
                           /\ x = "PASS" => Right(u.type, seen)
                           /\ x = "FAIL" => Wrong(seen)

LEMMA AnswerTells ==
  ASSUME NEW cmd, NEW seen, NEW met \in seen, NEW x \in Answer(cmd, met)
  PROVE  Tells(v, cmd, x, seen)
<1>1. ASSUME NEW a PROVE (a \in met => Wrong(seen)) /\ (a \notin met => Right(a, seen))
  BY DEF Right, Wrong
<1>2. CASE cmd.name \in {"plan", "pull", "ls"}
  BY <1>1, <1>2 DEF Answer, Tells
<1>3. CASE cmd.name \in {"aws", "tool", "test"}
  BY <1>1, <1>3 DEF Answer, Tells
<1>4. CASE cmd.name \in {"write", "k6"}
  BY <1>4 DEF Answer, Tells
<1>5. CASE cmd.name = "rpc"
  BY <1>1, <1>5 DEF Answer, Tells, Judge
<1>6. CASE cmd.name \notin {"plan", "pull", "ls", "aws", "tool", "test", "write", "k6", "rpc"}
  BY <1>6 DEF Tells
<1>7. QED BY <1>2, <1>3, <1>4, <1>5, <1>6

LEMMA TellsMore ==
  ASSUME NEW u, NEW cmd, NEW x, NEW seen, NEW more, seen \subseteq more, Tells(u, cmd, x, seen)
  PROVE  Tells(u, cmd, x, more)
<1>1. (Wrong(seen) => Wrong(more)) /\ \A a : Right(a, seen) => Right(a, more)
  BY DEF Right, Wrong
<1> HIDE DEF Right, Wrong
<1>2. QED BY <1>1 DEF Tells

-----------------------------------------------------------------------------
(* Validators: the verdicts of the executors *)

\* Blind and Harsh of an execution's log.
SaidIn(u, log, name) == Answers(Program(u), log, name)
UnreadIn(u, log, check) == \E i \in DOMAIN log : Program(u)[i].check = check /\ log[i] = "unread"
NotRunIn(u, log, name) == SaidIn(u, log, name) \cap {"missing", "crash"} # {}
BlindIn(u, log) ==
    \/ NotRunIn(u, log, "tool") \/ "unrated" \in SaidIn(u, log, "tool")
    \/ UnreadIn(u, log, "no_wildcard_admin_policy")
    \/ u.report /\ NotRunIn(u, log, "test")
    \/ NotRunIn(u, log, "k6") \/ "flat" \in SaidIn(u, log, "summary")
HarshIn(u, log, crowded) ==
    \/ NotRunIn(u, log, "plan") \/ NotRunIn(u, log, "test")
    \/ UnreadIn(u, log, "no_public_s3")
    \/ NotRunIn(u, log, "k6") \/ "flat" \in SaidIn(u, log, "summary")
    \/ u.type = "PERF_BENCH" /\ crowded
    \/ u.type = "CHAOS_PROBE" /\ ("infra" \in ToSet(log) \/ crowded \/ Window = 1)
Earned(u, log, status, seen, crowded) ==
    /\ status = "PASS" => BlindIn(u, log) \/ \A a \in Aspects(u) : Right(a, seen)
    /\ status = "FAIL" => HarshIn(u, log, crowded) \/ Wrong(seen)

Told(u, log, seen) == \A i \in DOMAIN log : Tells(u, Program(u)[i], log[i], seen)

LEMMA SaidHas ==
  ASSUME NEW u, NEW log, NEW i \in DOMAIN log, NEW name, Program(u)[i].name = name
  PROVE  log[i] \in SaidIn(u, log, name)
BY DEF SaidIn, Answers

LEMMA InLog ==
  ASSUME NEW S, NEW log \in Seq(S), NEW i \in DOMAIN log
  PROVE  log[i] \in ToSet(log)
BY DEF ToSet

LEMMA CmdIs == \A name : Cmd(name).name = name /\ Cmd(name).check = ""
BY DEF Cmd

LEMMA ValidatorIs ==
  ASSUME NEW u, IsValidator(u)
  PROVE  /\ u.checks \in Seq(STRING) /\ u.report \in BOOLEAN /\ u.script \in BOOLEAN
         /\ u.limit \in Nat \cup {-1} /\ u.rate \in 1 .. 100
         /\ u.type = "IAC_STATE" => ToSet(u.checks) \subseteq IacChecks
<1>1. u.report \in BOOLEAN /\ u.script \in BOOLEAN
  BY Zenon DEF IsValidator
<1>2. QED BY <1>1 DEF IsValidator, NoLimit

LEMMA GrpcJudged ==
  ASSUME NEW u, IsValidator(u), NEW seen, NEW crowded, NEW S, NEW log \in Seq(S), Told(u, log, seen),
         u.type \notin {"IAC_STATE", "CLOUD_ASSERT", "STATIC_ANALYSIS", "TEST_SUITE", "PERF_BENCH", "CHAOS_PROBE"}
  PROVE  Earned(u, log, execute(u, log), seen, crowded)
<1>1. Program(u) = <<Cmd("rpc")>> /\ Aspects(u) = {u.type}
  BY DEF Program, GrpcProgram, Aspects
<1>2. execute(u, log) = IF u.type = "NO_REGRESSION" THEN executeNoRegression(u, log) ELSE executeGrpc(u, log)
  BY DEF execute
<1>3. ASSUME log # <<>>, "infra" \notin ToSet(log)
      PROVE  /\ log[1] = "PASS" => Right(u.type, seen)
             /\ log[1] # "PASS" => Wrong(seen) \/ (log[1] = "ERROR" /\ u.type # "NO_REGRESSION")
             /\ log[1] \in ToSet(log)
  <2>1. 1 \in DOMAIN log /\ log[1] \in ToSet(log)
    BY <1>3, InLog
  <2>2. Program(u)[1].name = "rpc"
    <3>1. Program(u)[1] = Cmd("rpc")
      BY <1>1
    <3>2. QED BY <3>1, CmdIs
  <2>3. Tells(u, Program(u)[1], log[1], seen)
    BY <2>1 DEF Told
  <2>4. QED BY <1>3, <2>1, <2>2, <2>3 DEF Tells
<1>4. CASE u.type = "NO_REGRESSION"
  <2>1. execute(u, log) = Status(u.checks = <<>> \/ "infra" \in ToSet(log), log = <<>>, log[1] = "PASS")
    BY <1>2, <1>4 DEF executeNoRegression
  <2>2. QED BY <1>1, <1>3, <1>4, <2>1 DEF Earned, Status, Judge
<1>5. CASE u.type # "NO_REGRESSION"
  <2>1. execute(u, log) = Status(ToSet(log) \cap {"infra", "ERROR"} # {}, log = <<>>, log[1] = "PASS")
    BY <1>2, <1>5 DEF executeGrpc
  <2>2. QED BY <1>1, <1>3, <2>1 DEF Earned, Status, Judge
<1>6. QED BY <1>4, <1>5

LEMMA CloudJudged ==
  ASSUME NEW u, IsValidator(u), NEW seen, NEW crowded, NEW S, NEW log \in Seq(S), Told(u, log, seen),
         Len(log) <= Len(Program(u)), u.type = "CLOUD_ASSERT"
  PROVE  Earned(u, log, execute(u, log), seen, crowded)
<1> DEFINE P == Program(u)
<1>1. /\ P = CloudProgram(u) /\ execute(u, log) = runCloudAssert(u, log) /\ Aspects(u) = ToSet(u.checks)
      /\ u.checks \in Seq(STRING)
  BY DEF Program, execute, Aspects, IsValidator
<1>2. /\ DOMAIN P = DOMAIN u.checks /\ Len(P) = Len(u.checks)
      /\ \A i \in DOMAIN u.checks : P[i] = [name |-> "aws", check |-> u.checks[i]]
  BY <1>1 DEF CloudProgram
<1>3. /\ \A i \in DOMAIN u.checks : P[i].name = "aws" /\ P[i].check = u.checks[i]
      /\ DOMAIN log \subseteq DOMAIN u.checks
  <2>1. DOMAIN log \subseteq DOMAIN u.checks
    BY <1>1, <1>2
  <2>2. ASSUME NEW i \in DOMAIN u.checks PROVE P[i].name = "aws" /\ P[i].check = u.checks[i]
    <3>1. PICK c : c = u.checks[i] /\ P[i] = [name |-> "aws", check |-> c]
      BY <1>2
    <3> HIDE DEF P
    <3>2. QED BY ONLY <3>1
  <2>3. QED BY <2>1, <2>2
<1> DEFINE error == u.checks = <<>> \/ ~ ToSet(u.checks) \subseteq CHECKS \/ ToSet(log) \cap {"infra", "missing", "error"} # {}
           ok == \A i \in DOMAIN log : CheckPasses(P[i], log[i])
<1>4. execute(u, log) = Status(error, Len(log) < Len(P), ok)
  BY <1>1 DEF runCloudAssert
<1> HIDE DEF P
<1>5. ASSUME NEW i \in DOMAIN log
      PROVE  /\ log[i] \in {"infra", "missing", "error", "clean", "dirty", "unread"}
             /\ log[i] = "clean" => Right(u.checks[i], seen)
             /\ log[i] = "dirty" => Wrong(seen)
             /\ log[i] = "unread" => u.checks[i] \in Detailed
             /\ log[i] \in ToSet(log)
  <2>1. Tells(u, P[i], log[i], seen)
    BY DEF Told, P
  <2>2. QED BY <1>3, <2>1, InLog DEF Tells
<1>6. ASSUME NEW i \in DOMAIN log, log[i] = "unread" PROVE UnreadIn(u, log, u.checks[i])
  BY <1>3, <1>6 DEF UnreadIn, P
<1>7. ASSUME ~error, Len(log) >= Len(P), ok, ~BlindIn(u, log), NEW a \in Aspects(u) PROVE Right(a, seen)
  <2>1. PICK i \in DOMAIN u.checks : u.checks[i] = a
    BY <1>1, <1>7 DEF ToSet
  <2>2. i \in DOMAIN log
    BY <1>1, <1>2, <1>7
  <2>3. log[i] = "clean" \/ (a = "no_wildcard_admin_policy" /\ log[i] = "unread")
    BY <1>3, <1>7, <2>1, <2>2 DEF CheckPasses
  <2>4. log[i] # "unread"
    BY <1>6, <1>7, <2>1, <2>2, <2>3 DEF BlindIn
  <2>5. QED BY <1>5, <2>1, <2>2, <2>3, <2>4
<1>8. ASSUME ~error, ~ok PROVE HarshIn(u, log, crowded) \/ Wrong(seen)
  <2>1. PICK i \in DOMAIN log : ~CheckPasses(P[i], log[i])
    BY <1>8
  <2>2. log[i] \in {"dirty", "unread"}
    BY <1>5, <1>8, <2>1 DEF CheckPasses
  <2>3. CASE log[i] = "unread"
    <3>1. u.checks[i] = "no_public_s3"
      BY <1>3, <1>5, <2>1, <2>3 DEF CheckPasses, Detailed
    <3>2. QED BY <1>6, <2>3, <3>1 DEF HarshIn
  <2>4. QED BY <1>5, <2>2, <2>3
<1> HIDE DEF error, ok
<1>9. QED BY <1>1, <1>2, <1>4, <1>7, <1>8 DEF Earned, Status, Judge

LEMMA StaticJudged ==
  ASSUME NEW u, IsValidator(u), NEW seen, NEW crowded, NEW S, NEW log \in Seq(S), Told(u, log, seen),
         u.type = "STATIC_ANALYSIS"
  PROVE  Earned(u, log, execute(u, log), seen, crowded)
<1>1. /\ Program(u) = <<Cmd("tool")>> /\ Aspects(u) = {u.type} /\ execute(u, log) = runStaticAnalysis(u, log)
      /\ u.limit \in Nat \cup {-1}
  BY DEF Program, StaticProgram, Aspects, execute, IsValidator, NoLimit
<1> DEFINE findings == runTool(u, log[1])
           over == IF sevRank(findings.severity) > sevRank("NONE") THEN findings.count ELSE 0
           ok == over <= IF u.limit = NoLimit THEN 0 ELSE u.limit
<1>2. execute(u, log) = Status("infra" \in ToSet(log), log = <<>>, ok)
  BY <1>1 DEF runStaticAnalysis
<1>3. CASE log = <<>>
  BY <1>2, <1>3 DEF Earned, Status
<1>4. CASE "infra" \in ToSet(log)
  BY <1>2, <1>4 DEF Earned, Status
<1>5. CASE log # <<>> /\ "infra" \notin ToSet(log)
  <2>1. 1 \in DOMAIN log /\ log[1] \in ToSet(log)
    BY <1>5, InLog
  <2>2. Program(u)[1].name = "tool"
    <3>1. Program(u)[1] = Cmd("tool")
      BY <1>1
    <3>2. QED BY <3>1, CmdIs
  <2>3. Tells(u, Program(u)[1], log[1], seen)
    BY <2>1 DEF Told
  <2>4. /\ log[1] \in {"missing", "crash", "clean", "dirty", "unrated"} /\ log[1] \in SaidIn(u, log, "tool")
        /\ log[1] = "clean" => Right(u.type, seen)
        /\ log[1] \in {"dirty", "unrated"} => Wrong(seen)
    BY <1>5, <2>1, <2>2, <2>3, SaidHas DEF Tells
  <2>5. log[1] \in {"missing", "crash", "unrated"} => BlindIn(u, log)
    BY <2>4 DEF BlindIn, NotRunIn
  <2>6. sevRank("NONE") = 0 /\ sevRank("HIGH") = 3
    BY DEF sevRank, SEVERITY_ORDER
  <2>7. ASSUME log[1] = "dirty" PROVE ~ok
    <3>1. Max({0, u.limit}) \in {0, u.limit} /\ Max({0, u.limit}) >= 0 /\ Max({0, u.limit}) >= u.limit
      <4>1. \E x \in {0, u.limit} : \A y \in {0, u.limit} : x >= y
        BY <1>1
      <4>2. QED BY <1>1, <4>1 DEF Max
    <3>2. findings = [severity |-> "HIGH", count |-> Max({0, u.limit}) + 1]
      BY <2>7 DEF runTool
    <3>3. findings.severity = "HIGH" /\ findings.count = Max({0, u.limit}) + 1
      BY <3>2
    <3>4. QED BY <1>1, <2>6, <3>1, <3>3 DEF NoLimit
  <2>8. ASSUME log[1] \in {"missing", "crash", "clean"} PROVE ok
    <3>1. findings = [severity |-> "NONE", count |-> 0]
      BY <2>8 DEF runTool
    <3>2. findings.severity = "NONE" /\ findings.count = 0
      BY <3>1
    <3>3. QED BY <1>1, <2>6, <3>2 DEF NoLimit
  <2> HIDE DEF ok
  <2>9. QED BY <1>1, <1>2, <1>5, <2>4, <2>5, <2>7, <2>8 DEF Earned, Status, Judge
<1>6. QED BY <1>3, <1>4, <1>5

\* What a report or a summary says of the work, if a command that met these
\* states of it wrote it.
Reported(u, report, seen) ==
    /\ report \in {"enough", "toofew", "allskipped", "garbage"}
    /\ report = "enough" => Right(u.type, seen)
    /\ report \in {"toofew", "allskipped"} => Wrong(seen)
Summed(u, summary, seen, crowded) ==
    /\ summary \in {"flat", "fast", "slow"}
    /\ summary = "fast" => Right(u.type, seen)
    /\ summary = "slow" => Wrong(seen) \/ crowded

TestTold(u, log, seen) ==
    Len(log) >= 2 /\ log[1] \in {"0", "1"} /\ log[2] # "infra" => Reported(u, log[2], seen)

LEMMA TestJudged ==
  ASSUME NEW u, IsValidator(u), NEW seen, NEW crowded, NEW S, NEW log \in Seq(S), Told(u, log, seen),
         u.type = "TEST_SUITE", u.report => TestTold(u, log, seen)
  PROVE  Earned(u, log, execute(u, log), seen, crowded)
<1>1. /\ Program(u) = TestProgram(u) /\ Aspects(u) = {u.type} /\ execute(u, log) = runTestSuite(u, log)
      /\ u.rate \in 1 .. 100 /\ u.report \in BOOLEAN
  BY ValidatorIs DEF Program, Aspects, execute
<1>2. /\ Program(u)[1] = Cmd("test") /\ Len(Program(u)) = IF u.report THEN 2 ELSE 1
  BY <1>1 DEF TestProgram, When
<1> DEFINE counts == parseReport(u, IF u.report THEN log[2] ELSE Printed(log[1]))
           error == "infra" \in ToSet(log) \/ (Len(log) = 2 /\ log[2] = "none")
           ok == IF counts.total = 0 THEN log[1] = "0"
                 ELSE 100 * counts.passed >= u.rate * Max({1, counts.total - counts.skipped})
<1>3. execute(u, log) = Status(error, Len(log) < Len(Program(u)), ok)
  BY <1>1 DEF runTestSuite
<1>4. CASE error
  BY <1>3, <1>4 DEF Earned, Status
<1>5. CASE Len(log) < Len(Program(u))
  BY <1>3, <1>5 DEF Earned, Status
<1>6. CASE ~error /\ ~(Len(log) < Len(Program(u)))
  <2>1. 1 \in DOMAIN log /\ log[1] \in ToSet(log) /\ (u.report => 2 \in DOMAIN log /\ log[2] \in ToSet(log))
    BY <1>1, <1>2, <1>6, InLog
  <2>2. Program(u)[1].name = "test"
    BY <1>2, CmdIs
  <2>3. Tells(u, Program(u)[1], log[1], seen)
    BY <2>1 DEF Told
  <2>4. /\ log[1] \in {"missing", "crash", "0", "1"} /\ log[1] \in SaidIn(u, log, "test")
        /\ log[1] = "0" => Right(u.type, seen)
        /\ log[1] = "1" => Wrong(seen)
    BY <1>6, <2>1, <2>2, <2>3, SaidHas DEF Tells
  <2>5. log[1] \in {"missing", "crash"} => HarshIn(u, log, crowded) /\ (u.report => BlindIn(u, log))
    BY <2>4 DEF BlindIn, HarshIn, NotRunIn
  <2>6. Max({1, 100}) = 100 /\ Max({1, 0}) = 1
    BY DEF Max
  <2>7. ASSUME NEW r, counts = parseReport(u, r)
        PROVE  /\ r = "enough" => ok
               /\ r \in {"toofew", "allskipped"} => ~ok
               /\ r \notin {"enough", "toofew", "allskipped"} => (ok <=> log[1] = "0")
    <3>1. CASE r = "enough"
      <4>1. counts = [total |-> 100, passed |-> u.rate, skipped |-> 0]
        BY <2>7, <3>1 DEF parseReport
      <4>2. counts.total = 100 /\ counts.passed = u.rate /\ counts.skipped = 0
        BY <4>1
      <4>3. Max({1, counts.total - counts.skipped}) = 100
        <5>1. counts.total - counts.skipped = 100
          BY <4>2
        <5>2. QED BY <2>6, <5>1
      <4>4. ok <=> 100 * u.rate >= u.rate * 100
        BY <4>2, <4>3
      <4> HIDE DEF counts, ok
      <4>5. PICK rate : rate = u.rate
        OBVIOUS
      <4>6. rate \in 1 .. 100 /\ (ok <=> 100 * rate >= rate * 100)
        BY <1>1, <4>4, <4>5
      <4>7. ok <=> TRUE
        BY ONLY <4>6
      <4>8. QED BY <3>1, <4>7
    <3>2. CASE r = "toofew"
      <4>1. counts = [total |-> 100, passed |-> u.rate - 1, skipped |-> 0]
        BY <2>7, <3>2 DEF parseReport
      <4>2. counts.total = 100 /\ counts.passed = u.rate - 1 /\ counts.skipped = 0
        BY <4>1
      <4>3. Max({1, counts.total - counts.skipped}) = 100
        <5>1. counts.total - counts.skipped = 100
          BY <4>2
        <5>2. QED BY <2>6, <5>1
      <4>4. ok <=> 100 * (u.rate - 1) >= u.rate * 100
        BY <4>2, <4>3
      <4> HIDE DEF counts, ok
      <4>5. PICK rate : rate = u.rate
        OBVIOUS
      <4>6. rate \in 1 .. 100 /\ (ok <=> 100 * (rate - 1) >= rate * 100)
        BY <1>1, <4>4, <4>5
      <4>7. ok <=> FALSE
        BY ONLY <4>6
      <4>8. QED BY <3>2, <4>7
    <3>3. CASE r = "allskipped"
      <4>1. counts = [total |-> 100, passed |-> 0, skipped |-> 100]
        BY <2>7, <3>3 DEF parseReport
      <4>2. counts.total = 100 /\ counts.passed = 0 /\ counts.skipped = 100
        BY <4>1
      <4>3. Max({1, counts.total - counts.skipped}) = 1
        <5>1. counts.total - counts.skipped = 0
          BY <4>2
        <5>2. QED BY <2>6, <5>1
      <4>4. ok <=> 100 * 0 >= u.rate * 1
        BY <4>2, <4>3
      <4> HIDE DEF counts, ok
      <4>5. PICK rate : rate = u.rate
        OBVIOUS
      <4>6. rate \in 1 .. 100 /\ (ok <=> 0 >= rate * 1)
        BY <1>1, <4>4, <4>5
      <4>7. ok <=> FALSE
        BY ONLY <4>6
      <4>8. QED BY <3>3, <4>7
    <3>4. CASE r \notin {"enough", "toofew", "allskipped"}
      <4>1. counts = [total |-> 0, passed |-> 0, skipped |-> 0]
        BY <2>7, <3>4 DEF parseReport
      <4>2. counts.total = 0
        BY <4>1
      <4>3. QED BY <3>4, <4>2
    <3>5. QED BY <3>1, <3>2, <3>3, <3>4
  <2> HIDE DEF ok, counts
  <2>8. CASE u.report
    <3>1. log[1] \in {"0", "1"} => Reported(u, log[2], seen)
      BY <1>2, <1>6, <2>1, <2>8 DEF TestTold
    <3>2. /\ log[2] = "enough" => ok
          /\ log[2] \in {"toofew", "allskipped"} => ~ok
          /\ log[2] \notin {"enough", "toofew", "allskipped"} => (ok <=> log[1] = "0")
      BY <2>7, <2>8 DEF counts
    <3>3. QED BY <1>1, <1>3, <1>6, <2>4, <2>5, <2>8, <3>1, <3>2 DEF Earned, Status, Judge, Reported
  <2>9. CASE ~u.report
    <3>1. PICK r : r = Printed(log[1])
      OBVIOUS
    <3>2. counts = parseReport(u, r)
      BY <2>9, <3>1 DEF counts
    <3>3. r = CASE log[1] = "0" -> "enough" [] log[1] = "1" -> "toofew" [] OTHER -> "garbage"
      BY <3>1 DEF Printed
    <3>4. (log[1] = "0" => ok) /\ (log[1] # "0" => ~ok)
      BY <2>7, <3>2, <3>3
    <3>5. QED BY <1>1, <1>3, <1>6, <2>4, <2>5, <3>4 DEF Earned, Status, Judge
  <2>10. QED BY <1>1, <2>8, <2>9
<1>7. QED BY <1>4, <1>5, <1>6

\* The place of k6 in the program.
Load(u) == IF u.script THEN 1 ELSE 2
PerfTold(u, log, seen, crowded) ==
    Len(log) > Load(u) /\ log[Load(u)] = "ran" /\ log[Load(u) + 1] # "infra" => Summed(u, log[Load(u) + 1], seen, crowded)

LEMMA PerfPlaces ==
  ASSUME NEW u, IsValidator(u), u.type = "PERF_BENCH"
  PROVE  /\ Len(Program(u)) = Load(u) + 1 /\ Load(u) \in {1, 2}
         /\ Program(u)[Load(u)].name = "k6" /\ Program(u)[Load(u) + 1].name = "summary"
         /\ \A i \in 1 .. Load(u) + 1 : i # Load(u) + 1 => Program(u)[i].name # "summary"
<1>1. Program(u) = When(~u.script, <<Cmd("write")>>) \o <<Cmd("k6"), Cmd("summary")>> /\ u.script \in BOOLEAN
  BY DEF Program, PerfProgram, IsValidator
<1>2. CASE u.script
  <2>1. Len(Program(u)) = 2 /\ Program(u)[1] = Cmd("k6") /\ Program(u)[2] = Cmd("summary") /\ Load(u) = 1
    BY <1>1, <1>2 DEF When, Load
  <2>2. Program(u)[1].name = "k6" /\ Program(u)[2].name = "summary"
    BY <2>1, CmdIs
  <2>3. QED BY <2>1, <2>2
<1>3. CASE ~u.script
  <2>1. /\ Len(Program(u)) = 3 /\ Program(u)[1] = Cmd("write") /\ Program(u)[2] = Cmd("k6")
        /\ Program(u)[3] = Cmd("summary") /\ Load(u) = 2
    BY <1>1, <1>3 DEF When, Load
  <2>2. Program(u)[1].name = "write" /\ Program(u)[2].name = "k6" /\ Program(u)[3].name = "summary"
    BY <2>1, CmdIs
  <2>3. QED BY <2>1, <2>2
<1>4. QED BY <1>1, <1>2, <1>3

LEMMA PerfJudged ==
  ASSUME NEW u, IsValidator(u), NEW seen, NEW crowded, NEW S, NEW log \in Seq(S), Told(u, log, seen),
         Len(log) <= Len(Program(u)), u.type = "PERF_BENCH", PerfTold(u, log, seen, crowded)
  PROVE  Earned(u, log, execute(u, log), seen, crowded)
<1> DEFINE n == Load(u)
           of(name) == SaidIn(u, log, name)
           error == "infra" \in ToSet(log) \/ "missing" \in of("write") \/ "none" \in of("summary")
           ok == of("summary") = {"fast"} \/ (of("summary") = {"flat"} /\ ~Asks(u, "p95_ms_max"))
<1>1. Program(u) = PerfProgram(u) /\ Aspects(u) = {u.type} /\ execute(u, log) = runPerfBench(u, log)
  BY DEF Program, Aspects, execute
<1>2. execute(u, log) = Status(error, Len(log) < Len(Program(u)), ok)
  BY <1>1 DEF runPerfBench, SaidIn
<1>3. CASE error
  BY <1>2, <1>3 DEF Earned, Status
<1>4. CASE Len(log) < Len(Program(u))
  BY <1>2, <1>4 DEF Earned, Status
<1>5. CASE ~error /\ ~(Len(log) < Len(Program(u)))
  <2>1. /\ n \in {1, 2} /\ Len(log) = n + 1 /\ Program(u)[n].name = "k6" /\ Program(u)[n + 1].name = "summary"
        /\ \A i \in 1 .. n + 1 : i # n + 1 => Program(u)[i].name # "summary"
    BY <1>5, PerfPlaces
  <2> HIDE DEF n
  <2>2. DOMAIN log = 1 .. n + 1 /\ n \in DOMAIN log /\ n + 1 \in DOMAIN log
    BY <2>1
  <2>3. log[n] \in ToSet(log) /\ log[n + 1] \in ToSet(log)
    BY <2>2, InLog
  <2>4. of("summary") = {log[n + 1]}
    BY <2>1, <2>2 DEF SaidIn, Answers
  <2>5. log[n] \in of("k6") /\ log[n] \in {"missing", "crash", "ran"}
    <3>1. Tells(u, Program(u)[n], log[n], seen)
      BY <2>2 DEF Told
    <3>2. QED BY <1>5, <2>1, <2>2, <2>3, <3>1, SaidHas DEF Tells
  <2>6. log[n] = "ran" => Summed(u, log[n + 1], seen, crowded)
    BY <1>5, <2>1, <2>3 DEF PerfTold, n
  <2>7. log[n] # "ran" => BlindIn(u, log) /\ HarshIn(u, log, crowded)
    BY <2>5 DEF BlindIn, HarshIn, NotRunIn
  <2>8. log[n + 1] = "flat" => BlindIn(u, log) /\ HarshIn(u, log, crowded)
    BY <2>4 DEF BlindIn, HarshIn
  <2>9. crowded => HarshIn(u, log, crowded)
    BY DEF HarshIn
  <2>10. QED BY <1>1, <1>2, <1>5, <2>4, <2>6, <2>7, <2>8, <2>9 DEF Earned, Status, Judge, Summed
<1>6. QED BY <1>3, <1>4, <1>5

LEMMA IacPlaces ==
  ASSUME NEW u, u.type = "IAC_STATE", NEW P, P = Program(u)
  PROVE  /\ Asks(u, "no_drift") => \E i \in 1 .. Len(P) : P[i].name = "plan"
         /\ Asks(u, "forbid_secrets_in_state") => \E i \in 1 .. Len(P) : P[i].name = "pull"
         /\ Asks(u, "require_remote_backend") => \E i \in 1 .. Len(P) : P[i].name = "ls"
         /\ Len(P) \in Nat
<1> DEFINE D == Asks(u, "no_drift")
           S == Asks(u, "forbid_secrets_in_state")
           R == Asks(u, "require_remote_backend")
<1>1. P = When(D, <<Cmd("plan")>>) \o When(R \/ S, <<Cmd("pull")>>) \o When(R, <<Cmd("ls")>>)
  BY DEF Program, IacProgram
<1> HIDE DEF D, S, R
<1>2. CASE D /\ R
  <2>1. Len(P) = 3 /\ P[1] = Cmd("plan") /\ P[2] = Cmd("pull") /\ P[3] = Cmd("ls")
    BY <1>1, <1>2 DEF When
  <2>2. P[1].name = "plan" /\ P[2].name = "pull" /\ P[3].name = "ls"
    BY <2>1, CmdIs
  <2>3. QED BY <2>1, <2>2
<1>3. CASE D /\ ~R /\ S
  <2>1. Len(P) = 2 /\ P[1] = Cmd("plan") /\ P[2] = Cmd("pull")
    BY <1>1, <1>3 DEF When
  <2>2. P[1].name = "plan" /\ P[2].name = "pull"
    BY <2>1, CmdIs
  <2>3. QED BY <1>3, <2>1, <2>2 DEF R
<1>4. CASE D /\ ~R /\ ~S
  <2>1. Len(P) = 1 /\ P[1] = Cmd("plan")
    BY <1>1, <1>4 DEF When
  <2>2. P[1].name = "plan"
    BY <2>1, CmdIs
  <2>3. QED BY <1>4, <2>1, <2>2 DEF R, S
<1>5. CASE ~D /\ R
  <2>1. Len(P) = 2 /\ P[1] = Cmd("pull") /\ P[2] = Cmd("ls")
    BY <1>1, <1>5 DEF When
  <2>2. P[1].name = "pull" /\ P[2].name = "ls"
    BY <2>1, CmdIs
  <2>3. QED BY <1>5, <2>1, <2>2 DEF D
<1>6. CASE ~D /\ ~R /\ S
  <2>1. Len(P) = 1 /\ P[1] = Cmd("pull")
    BY <1>1, <1>6 DEF When
  <2>2. P[1].name = "pull"
    BY <2>1, CmdIs
  <2>3. QED BY <1>6, <2>1, <2>2 DEF D, R
<1>7. CASE ~D /\ ~R /\ ~S
  <2>1. Len(P) = 0
    BY <1>1, <1>7 DEF When
  <2>2. QED BY <1>7, <2>1 DEF D, R, S
<1>8. QED BY <1>2, <1>3, <1>4, <1>5, <1>6, <1>7

LEMMA IacJudged ==
  ASSUME NEW u, IsValidator(u), NEW seen, NEW crowded, NEW S, NEW log \in Seq(S), Told(u, log, seen),
         u.type = "IAC_STATE"
  PROVE  Earned(u, log, execute(u, log), seen, crowded)
<1> DEFINE of(name) == SaidIn(u, log, name)
           error == \/ u.checks = <<>> \/ "infra" \in ToSet(log) \/ "1" \in of("plan")
                    \/ of("pull") \cap {"fail", "missing"} # {}
           ok == /\ of("plan") \subseteq {"0"}
                 /\ of("ls") \subseteq {"REMOTE"}
                 /\ Asks(u, "forbid_secrets_in_state") => of("pull") = {"clean"}
<1>1. /\ Program(u) = IacProgram(u) /\ Aspects(u) = ToSet(u.checks) /\ execute(u, log) = runIacState(u, log)
  BY DEF Program, Aspects, execute
<1>2. execute(u, log) = Status(error, Len(log) < Len(Program(u)), ok)
  BY <1>1 DEF runIacState, SaidIn
<1>3. CASE error
  BY <1>2, <1>3 DEF Earned, Status
<1>4. CASE Len(log) < Len(Program(u))
  BY <1>2, <1>4 DEF Earned, Status
<1>5. CASE ~error /\ ~(Len(log) < Len(Program(u)))
  <2>1. \A name : \A x \in of(name) : \E i \in DOMAIN log :
           log[i] = x /\ Program(u)[i].name = name /\ Tells(u, Program(u)[i], x, seen) /\ x # "infra"
    BY <1>5, InLog DEF SaidIn, Answers, Told
  <2>2. ASSUME NEW name, \E i \in 1 .. Len(Program(u)) : Program(u)[i].name = name PROVE of(name) # {}
    <3>1. PICK i \in 1 .. Len(Program(u)) : Program(u)[i].name = name
      BY <2>2
    <3>2. i \in DOMAIN log
      <4>1. Len(Program(u)) \in Nat
        BY IacPlaces
      <4>2. QED BY <1>5, <3>1, <4>1
    <3>3. QED BY <3>1, <3>2, SaidHas
  <2>3. /\ \A x \in of("plan") : x \in {"missing", "0", "2"} /\ (x = "0" => Right("no_drift", seen)) /\ (x = "2" => Wrong(seen))
        /\ \A x \in of("ls") : /\ x \in {"REMOTE", "LOCAL"} /\ (x = "LOCAL" => Wrong(seen))
                               /\ (x = "REMOTE" => Right("require_remote_backend", seen))
        /\ \A x \in of("pull") : /\ x \in {"clean", "secret"} /\ (x = "secret" => Wrong(seen))
                                 /\ (x = "clean" => Right("forbid_secrets_in_state", seen))
    <3>1. ASSUME NEW x \in of("plan")
          PROVE x \in {"missing", "0", "2"} /\ (x = "0" => Right("no_drift", seen)) /\ (x = "2" => Wrong(seen))
      BY <1>5, <2>1 DEF Tells
    <3>2. ASSUME NEW x \in of("ls")
          PROVE /\ x \in {"REMOTE", "LOCAL"} /\ (x = "LOCAL" => Wrong(seen))
                /\ (x = "REMOTE" => Right("require_remote_backend", seen))
      BY <1>5, <2>1 DEF Tells
    <3>3. ASSUME NEW x \in of("pull")
          PROVE /\ x \in {"clean", "secret"} /\ (x = "secret" => Wrong(seen))
                /\ (x = "clean" => Right("forbid_secrets_in_state", seen))
      BY <1>5, <2>1 DEF Tells
    <3>4. QED BY <3>1, <3>2, <3>3
  <2>4. "missing" \in of("plan") => HarshIn(u, log, crowded)
    BY DEF HarshIn, NotRunIn
  <2>5. /\ Asks(u, "no_drift") => of("plan") # {}
        /\ Asks(u, "forbid_secrets_in_state") => of("pull") # {}
        /\ Asks(u, "require_remote_backend") => of("ls") # {}
    BY <2>2, IacPlaces
  <2>6. Aspects(u) \subseteq {a \in IacChecks : Asks(u, a)}
    BY <1>1, ValidatorIs DEF Asks
  <2>7. ASSUME ok, NEW a \in Aspects(u) PROVE Right(a, seen)
    BY <2>3, <2>5, <2>6, <2>7 DEF IacChecks
  <2>8. ASSUME ~ok PROVE HarshIn(u, log, crowded) \/ Wrong(seen)
    BY <2>3, <2>4, <2>5, <2>8
  <2> HIDE DEF ok, error
  <2>9. QED BY <1>2, <1>5, <2>7, <2>8 DEF Earned, Status, Judge
<1>6. QED BY <1>3, <1>4, <1>5

\* A probe that is answered after the chaos tells of the work.  If nothing is
\* wrong with it and nobody else is at work, only the first probe may fail.
ChaosTold(u, log, seen, crowded) ==
    /\ \A i \in 3 .. Len(log) : log[2] = "applied" /\ log[i] = "200" => Right(u.type, seen)
    /\ ~crowded /\ ~Wrong(seen) /\ "infra" \notin ToSet(log) => \A i \in 4 .. Len(log) : log[i] = "200"

LEMMA ChaosPlaces ==
  ASSUME NEW u, u.type = "CHAOS_PROBE", NEW P, P = Program(u)
  PROVE  /\ Len(P) = Window + 2 /\ P[1].name = "curl" /\ P[2].name = "chaos"
         /\ \A i \in 3 .. Window + 2 : P[i].name = "curl"
<1> DEFINE T == [i \in 1 .. Window |-> Cmd("curl")]
<1>1. P = <<Cmd("curl"), Cmd("chaos")>> \o T /\ Window \in Nat
  BY RunnerAssumption DEF Program, ChaosProgram
<1>2. T \in Seq({Cmd("curl")}) /\ Len(T) = Window /\ \A i \in 1 .. Window : T[i] = Cmd("curl")
  BY <1>1
<1> HIDE DEF T
<1>3. /\ Len(P) = Window + 2 /\ P[1] = Cmd("curl") /\ P[2] = Cmd("chaos")
      /\ \A i \in 3 .. Window + 2 : P[i] = Cmd("curl")
  BY <1>1, <1>2
<1>4. QED BY <1>3, CmdIs

LEMMA ChaosJudged ==
  ASSUME NEW u, IsValidator(u), NEW seen, NEW crowded \in BOOLEAN, NEW S, NEW log \in Seq(S),
         u.type = "CHAOS_PROBE", ChaosTold(u, log, seen, crowded)
  PROVE  Earned(u, log, execute(u, log), seen, crowded)
<1> DEFINE probes == 3 .. Len(log)
           results == {i \in probes : log[i] # "infra"}
           badSet == {i \in results : log[i] # "200"}
           endGreen == \E i \in results : log[i] = "200" /\ \A j \in results : j <= i
           error == u.checks = <<>> \/ (Len(log) >= 1 /\ log[1] # "200") \/ (Len(log) >= 2 /\ log[2] # "applied")
           running == Len(log) < Len(Program(u)) /\ results = probes
           ok == Cardinality(badSet) <= 1 /\ endGreen
<1>1. /\ Program(u) = ChaosProgram(u) /\ Aspects(u) = {u.type} /\ execute(u, log) = runChaosProbe(u, log)
  BY DEF Program, Aspects, execute
<1>2. execute(u, log) = Status(error, running, ok)
  BY <1>1 DEF runChaosProbe
<1>3. ASSUME ~error, ok PROVE Right(u.type, seen)
  <2>1. PICK i \in probes : log[i] = "200"
    BY <1>3
  <2>2. Len(log) >= 2 /\ log[2] = "applied"
    BY <1>3, <2>1
  <2>3. QED BY <2>1, <2>2 DEF ChaosTold
<1>4. ASSUME ~running, ~HarshIn(u, log, crowded), ~Wrong(seen) PROVE ok
  <2>1. "infra" \notin ToSet(log) /\ ~crowded /\ Window # 1
    BY <1>4 DEF HarshIn
  <2>2. \A i \in 4 .. Len(log) : log[i] = "200"
    BY <1>4, <2>1 DEF ChaosTold
  <2>3. results = probes
    <3>1. ASSUME NEW i \in probes PROVE log[i] # "infra"
      BY <2>1, InLog
    <3>2. QED BY <3>1
  <2>4. Len(log) >= 4
    BY <1>4, <2>1, <2>3, ChaosPlaces, RunnerAssumption
  <2>5. badSet \subseteq {3}
    BY <2>2, <2>3
  <2>6. Cardinality(badSet) <= 1
    <3>1. badSet = {} \/ badSet = {3}
      BY <2>5
    <3>2. Cardinality({}) = 0 /\ Cardinality({3}) = 1
      BY FS_EmptySet, FS_Singleton
    <3> HIDE DEF badSet
    <3>3. Cardinality(badSet) = 0 \/ Cardinality(badSet) = 1
      BY <3>1, <3>2, Zenon
    <3>4. QED BY <3>3
  <2>7. endGreen
    <3>1. Len(log) \in results /\ log[Len(log)] = "200" /\ \A j \in results : j <= Len(log)
      BY <2>2, <2>3, <2>4
    <3> HIDE DEF results
    <3>2. QED BY <3>1
  <2>8. QED BY <2>6, <2>7
<1> HIDE DEF error, running, ok
<1>5. QED BY <1>1, <1>2, <1>3, <1>4 DEF Earned, Status, Judge

-----------------------------------------------------------------------------
(* Validators: an execution among others *)

IsLog(log) == \E S : log \in Seq(S)
WorldFields == {"summary", "report", "chaos", "blip"}

\* What the log of the current execution and the workspace tell, as it goes on.
LogInv(u, w, log, seen, crowded) ==
    /\ Told(u, log, seen) /\ Len(log) <= Len(Program(u))
    /\ u.type = "TEST_SUITE" =>
         /\ u.report => TestTold(u, log, seen)
         /\ Len(log) >= 1 /\ log[1] \in {"0", "1"} => Reported(u, w.report, seen)
    /\ u.type = "PERF_BENCH" =>
         /\ PerfTold(u, log, seen, crowded)
         /\ Len(log) >= Load(u) /\ log[Load(u)] = "ran" => Summed(u, w.summary, seen, crowded)
    /\ u.type = "CHAOS_PROBE" =>
         /\ ChaosTold(u, log, seen, crowded)
         /\ Len(log) >= 2 /\ log[2] = "applied" => w.chaos
         /\ ~crowded /\ Len(log) >= 3 /\ "infra" \notin ToSet(log) => ~w.blip

LEMMA LogJudged ==
  ASSUME NEW u, IsValidator(u), NEW w, NEW seen, NEW crowded \in BOOLEAN, NEW S, NEW log \in Seq(S),
         LogInv(u, w, log, seen, crowded)
  PROVE  Earned(u, log, execute(u, log), seen, crowded)
<1>1. Told(u, log, seen) /\ Len(log) <= Len(Program(u))
  BY DEF LogInv
<1>2. CASE u.type = "TEST_SUITE"
  BY <1>1, <1>2, TestJudged DEF LogInv
<1>3. CASE u.type = "PERF_BENCH"
  BY <1>1, <1>3, PerfJudged DEF LogInv
<1>4. CASE u.type = "CHAOS_PROBE"
  BY <1>4, ChaosJudged DEF LogInv
<1>5. QED BY <1>1, <1>2, <1>3, <1>4, IacJudged, CloudJudged, StaticJudged, GrpcJudged

LEMMA RunningHasMore ==
  ASSUME NEW u, IsValidator(u), NEW S, NEW log \in Seq(S), execute(u, log) = "RUNNING"
  PROVE  Len(log) < Len(Program(u))
<1>1. CASE u.type = "IAC_STATE"
  BY <1>1 DEF execute, Program, runIacState, Status, Judge
<1>2. CASE u.type = "CLOUD_ASSERT"
  BY <1>2 DEF execute, Program, runCloudAssert, Status, Judge
<1>3. CASE u.type = "STATIC_ANALYSIS"
  BY <1>3 DEF execute, Program, runStaticAnalysis, StaticProgram, Status, Judge
<1>4. CASE u.type = "TEST_SUITE"
  BY <1>4 DEF execute, Program, runTestSuite, Status, Judge
<1>5. CASE u.type = "PERF_BENCH"
  BY <1>5 DEF execute, Program, runPerfBench, Status, Judge
<1>6. CASE u.type = "CHAOS_PROBE"
  BY <1>6 DEF execute, Program, runChaosProbe, Status, Judge
<1>7. CASE u.type \notin {"IAC_STATE", "CLOUD_ASSERT", "STATIC_ANALYSIS", "TEST_SUITE", "PERF_BENCH", "CHAOS_PROBE"}
  <2>1. Len(Program(u)) = 1
    BY <1>7 DEF Program, GrpcProgram
  <2>2. log = <<>>
    BY <1>7 DEF execute, executeNoRegression, executeGrpc, Status, Judge
  <2>3. QED BY <2>1, <2>2
<1>8. QED BY <1>1, <1>2, <1>3, <1>4, <1>5, <1>6, <1>7

LEMMA LogEmpty ==
  ASSUME NEW u, NEW w, NEW seen, NEW crowded, Len(Program(u)) \in Nat
  PROVE  LogInv(u, w, <<>>, seen, crowded)
<1>1. Load(u) \in {1, 2}
  BY DEF Load
<1>2. Told(u, <<>>, seen)
  BY DEF Told
<1>3. TestTold(u, <<>>, seen) /\ PerfTold(u, <<>>, seen, crowded) /\ ChaosTold(u, <<>>, seen, crowded)
  BY <1>1 DEF TestTold, PerfTold, ChaosTold
<1>4. QED BY <1>1, <1>2, <1>3 DEF LogInv

LEMMA SeenGrows ==
  ASSUME NEW u, NEW w, NEW log, NEW seen, NEW crowded, NEW more, seen \subseteq more, LogInv(u, w, log, seen, crowded)
  PROVE  LogInv(u, w, log, more, crowded)
<1>1. (Wrong(seen) => Wrong(more)) /\ \A a : Right(a, seen) => Right(a, more)
  BY DEF Right, Wrong
<1>2. Told(u, log, more)
  BY TellsMore DEF LogInv, Told
<1>3. /\ \A r : Reported(u, r, seen) => Reported(u, r, more)
      /\ \A s : Summed(u, s, seen, crowded) => Summed(u, s, more, crowded)
  BY <1>1 DEF Reported, Summed
<1>4. ChaosTold(u, log, seen, crowded) => ChaosTold(u, log, more, crowded)
  BY <1>1 DEF ChaosTold
<1>5. /\ TestTold(u, log, seen) => TestTold(u, log, more)
      /\ PerfTold(u, log, seen, crowded) => PerfTold(u, log, more, crowded)
  BY <1>3 DEF TestTold, PerfTold
<1>6. QED BY <1>2, <1>3, <1>4, <1>5 DEF LogInv

\* What a command leaves behind.
LEMMA LeavesIs ==
  ASSUME DOMAIN world = WorldFields, NEW cmd, NEW seen, NEW met \in seen, NEW x \in Answer(cmd, met),
         NEW w \in Leaves(cmd, met, x), NEW crowded, run.crowded => crowded
  PROVE  /\ DOMAIN w = WorldFields
         /\ w.report = world.report \/ Reported(v, w.report, seen)
         /\ cmd.name = "test" /\ x \in {"0", "1"} => Reported(v, w.report, seen)
         /\ w.summary = world.summary \/ Summed(v, w.summary, seen, crowded)
         /\ cmd.name = "k6" /\ x = "ran" => Summed(v, w.summary, seen, crowded)
         /\ world.chaos => w.chaos
         /\ cmd.name = "chaos" /\ x = "applied" => w.chaos
         /\ cmd.name = "curl" /\ x # "infra" => ~w.blip
<1>1. (v.type \in met => Wrong(seen)) /\ (v.type \notin met => Right(v.type, seen))
  BY DEF Right, Wrong
<1>2. CASE cmd.name = "test" /\ x \in {"0", "1"}
  <2>1. PICK t : /\ t \in IF x = "0" THEN {"enough", "garbage"} ELSE {"toofew", "allskipped", "garbage"}
                 /\ w = [world EXCEPT !.report = t]
    BY <1>2 DEF Leaves
  <2>2. x = IF v.type \in met THEN "1" ELSE "0"
    BY <1>2 DEF Answer
  <2>3. Reported(v, t, seen)
    BY <1>1, <2>1, <2>2 DEF Reported
  <2>4. DOMAIN w = WorldFields /\ w.report = t /\ w.summary = world.summary /\ w.chaos = world.chaos /\ w.blip = world.blip
    BY <2>1 DEF WorldFields
  <2>5. QED BY <1>2, <2>3, <2>4
<1>3. CASE cmd.name = "k6" /\ x = "ran"
  <2>1. PICK s : /\ s \in {"flat", IF v.type \in met THEN "slow" ELSE "fast"} \cup (IF run.crowded THEN {"slow"} ELSE {})
                 /\ w = [world EXCEPT !.summary = s]
    BY <1>3 DEF Leaves
  <2>2. Summed(v, s, seen, crowded)
    BY <1>1, <2>1 DEF Summed
  <2>3. DOMAIN w = WorldFields /\ w.summary = s /\ w.report = world.report /\ w.chaos = world.chaos /\ w.blip = world.blip
    BY <2>1 DEF WorldFields
  <2>4. QED BY <1>3, <2>2, <2>3
<1>4. CASE cmd.name = "chaos" /\ x = "applied"
  <2>1. w = [world EXCEPT !.chaos = TRUE, !.blip = TRUE]
    BY <1>4 DEF Leaves
  <2>2. DOMAIN w = WorldFields /\ w.summary = world.summary /\ w.report = world.report /\ w.chaos = TRUE
    BY <2>1 DEF WorldFields
  <2>3. QED BY <1>4, <2>2
<1>5. CASE cmd.name = "curl" /\ x # "infra"
  <2>1. w = [world EXCEPT !.blip = FALSE]
    BY <1>5 DEF Leaves
  <2>2. DOMAIN w = WorldFields /\ w.summary = world.summary /\ w.report = world.report /\ w.chaos = world.chaos /\ w.blip = FALSE
    BY <2>1 DEF WorldFields
  <2>3. QED BY <1>5, <2>2
<1>6. CASE /\ ~(cmd.name = "test" /\ x \in {"0", "1"}) /\ ~(cmd.name = "k6" /\ x = "ran")
           /\ ~(cmd.name = "chaos" /\ x = "applied") /\ ~(cmd.name = "curl" /\ x # "infra")
  <2>1. w = world
    BY <1>6 DEF Leaves
  <2>2. QED BY <1>6, <2>1
<1>7. QED BY <1>2, <1>3, <1>4, <1>5, <1>6

\* An execution that was given up and goes on.
LEMMA OthersWork ==
  ASSUME DOMAIN world = WorldFields, NEW cmd, NEW seen, NEW met \in seen, NEW x \in Answer(cmd, met),
         NEW w \in Leaves(cmd, met, x), NEW log, LogInv(v, world, log, seen, TRUE)
  PROVE  LogInv(v, w, log, seen, TRUE)
<1>1. /\ w.report = world.report \/ Reported(v, w.report, seen)
      /\ w.summary = world.summary \/ Summed(v, w.summary, seen, TRUE)
      /\ world.chaos => w.chaos
  BY LeavesIs
<1>2. QED BY <1>1 DEF LogInv

LEMMA TestPlaces ==
  ASSUME NEW u, IsValidator(u), u.type = "TEST_SUITE", NEW P, P = Program(u)
  PROVE  P[1].name = "test" /\ (u.report => P[2].name = "cat") /\ Len(P) = IF u.report THEN 2 ELSE 1
<1>1. P = <<Cmd("test")>> \o When(u.report, <<Cmd("cat")>>)
  BY DEF Program, TestProgram
<1>2. P[1] = Cmd("test") /\ (u.report => P[2] = Cmd("cat")) /\ Len(P) = IF u.report THEN 2 ELSE 1
  BY <1>1 DEF When
<1>3. QED BY <1>2, CmdIs

LEMMA ProgramLen ==
  ASSUME NEW u, IsValidator(u)
  PROVE  Len(Program(u)) \in Nat
<1>1. CASE u.type = "IAC_STATE"
  BY <1>1, IacPlaces
<1>2. CASE u.type = "CLOUD_ASSERT"
  <2>1. Program(u) = [i \in DOMAIN u.checks |-> [name |-> "aws", check |-> u.checks[i]]] /\ u.checks \in Seq(STRING)
    BY <1>2, ValidatorIs DEF Program, CloudProgram
  <2>2. QED BY <2>1
<1>3. CASE u.type = "STATIC_ANALYSIS"
  BY <1>3 DEF Program, StaticProgram
<1>4. CASE u.type = "TEST_SUITE"
  BY <1>4, TestPlaces
<1>5. CASE u.type = "PERF_BENCH"
  BY <1>5, PerfPlaces
<1>6. CASE u.type = "CHAOS_PROBE"
  BY <1>6, ChaosPlaces, RunnerAssumption
<1>7. CASE u.type \notin {"IAC_STATE", "CLOUD_ASSERT", "STATIC_ANALYSIS", "TEST_SUITE", "PERF_BENCH", "CHAOS_PROBE"}
  BY <1>7 DEF Program, GrpcProgram
<1>8. QED BY <1>1, <1>2, <1>3, <1>4, <1>5, <1>6, <1>7

\* The current execution has an answer.
LEMMA LogGrows ==
  ASSUME IsValidator(v), NEW S, NEW log \in Seq(S), NEW cmd, cmd = Program(v)[Len(log) + 1],
         DOMAIN world = WorldFields, NEW seen, NEW met \in seen, NEW x \in Answer(cmd, met),
         NEW w \in Leaves(cmd, met, x), NEW crowded \in BOOLEAN, run.crowded => crowded, execute(v, log) = "RUNNING", LogInv(v, world, log, seen, crowded)
  PROVE  LogInv(v, w, Append(log, x), seen, crowded)
<1>0. PICK u : u = v
  OBVIOUS
<1>1. PICK log2, n : log2 = Append(log, x) /\ n = Len(log) + 1
  OBVIOUS
<1>2. /\ n \in Nat \ {0} /\ Len(log2) = n /\ log2[n] = x /\ log2 \in Seq(S \cup {x}) /\ Len(log) = n - 1
      /\ \A i \in 1 .. n - 1 : log2[i] = log[i]
  <2>1. log \in Seq(S \cup {x}) /\ x \in S \cup {x}
    OBVIOUS
  <2>2. QED BY <1>1, <2>1
<1>3. "infra" \notin ToSet(log2) => x # "infra" /\ "infra" \notin ToSet(log)
  <2>1. DOMAIN log2 = 1 .. n /\ DOMAIN log = 1 .. n - 1
    BY <1>2
  <2>2. QED BY <1>2, <2>1 DEF ToSet
<1>4. n <= Len(Program(u)) /\ Tells(u, cmd, x, seen) /\ cmd = Program(u)[n]
  <2>1. Len(log) < Len(Program(u))
    BY <1>0, RunningHasMore
  <2>2. Len(Program(u)) \in Int
    BY <2>1, <1>0, ProgramLen
  <2>3. QED BY <1>0, <1>1, <1>2, <2>1, <2>2, AnswerTells
<1>5. Told(u, log2, seen)
  <2>1. Told(u, log, seen)
    BY <1>0 DEF LogInv
  <2>2. ASSUME NEW i \in DOMAIN log2 PROVE Tells(u, Program(u)[i], log2[i], seen)
    <3>1. i \in 1 .. n - 1 \/ i = n
      BY <1>2
    <3>2. i \in 1 .. n - 1 => i \in DOMAIN log
      BY <1>2
    <3>3. QED BY <1>2, <1>4, <2>1, <3>1, <3>2 DEF Told
  <2>3. QED BY <2>2 DEF Told
<1>6. /\ w.report = world.report \/ Reported(u, w.report, seen)
      /\ cmd.name = "test" /\ x \in {"0", "1"} => Reported(u, w.report, seen)
      /\ w.summary = world.summary \/ Summed(u, w.summary, seen, crowded)
      /\ cmd.name = "k6" /\ x = "ran" => Summed(u, w.summary, seen, crowded)
      /\ world.chaos => w.chaos
      /\ cmd.name = "chaos" /\ x = "applied" => w.chaos
      /\ cmd.name = "curl" /\ x # "infra" => ~w.blip
  BY <1>0, LeavesIs
<1>7. ASSUME u.type = "TEST_SUITE"
      PROVE  /\ u.report => TestTold(u, log2, seen)
             /\ Len(log2) >= 1 /\ log2[1] \in {"0", "1"} => Reported(u, w.report, seen)
  <2>1. Program(u)[1].name = "test" /\ (u.report => Program(u)[2].name = "cat") /\ n <= IF u.report THEN 2 ELSE 1
    BY <1>0, <1>4, <1>7, TestPlaces
  <2>2. Len(log) >= 1 /\ log[1] \in {"0", "1"} => Reported(u, world.report, seen)
    BY <1>0, <1>7 DEF LogInv
  <2>3. CASE n = 1
    <3>1. cmd.name = "test"
      BY <1>4, <2>1, <2>3
    <3>2. QED BY <1>2, <1>6, <2>3, <3>1 DEF TestTold
  <2>4. CASE n # 1
    <3>1. u.report /\ n = 2
      BY <1>2, <2>1, <2>4
    <3>2. cmd.name = "cat"
      BY <1>4, <2>1, <3>1
    <3>3. x \in {"infra", world.report}
      BY <3>2 DEF Answer
    <3>4. log2[1] \in {"0", "1"} => Reported(u, world.report, seen)
      BY <1>2, <2>2, <3>1
    <3>5. QED BY <1>2, <1>6, <3>1, <3>3, <3>4 DEF TestTold
  <2>5. QED BY <2>3, <2>4
<1>8. ASSUME u.type = "PERF_BENCH"
      PROVE  /\ PerfTold(u, log2, seen, crowded)
             /\ Len(log2) >= Load(u) /\ log2[Load(u)] = "ran" => Summed(u, w.summary, seen, crowded)
  <2>1. PICK k : k = Load(u)
    OBVIOUS
  <2>2. k \in {1, 2} /\ n <= k + 1 /\ Program(u)[k].name = "k6" /\ Program(u)[k + 1].name = "summary"
    BY <1>0, <1>4, <1>8, <2>1, PerfPlaces
  <2>3. Len(log) >= k /\ log[k] = "ran" => Summed(u, world.summary, seen, crowded)
    BY <1>0, <1>8, <2>1 DEF LogInv
  <2>4. CASE n < k
    BY <1>2, <2>1, <2>2, <2>4 DEF PerfTold
  <2>5. CASE n = k
    <3>1. cmd.name = "k6"
      BY <1>4, <2>2, <2>5
    <3>2. log2[k] = "ran" => Summed(u, w.summary, seen, crowded)
      BY <1>2, <1>6, <2>5, <3>1
    <3>3. PerfTold(u, log2, seen, crowded)
      <4>1. ~(Len(log2) > k)
        BY <1>2, <2>5
      <4>2. QED BY <2>1, <2>2, <4>1, <1>2, <2>5 DEF PerfTold
    <3>4. QED BY <2>1, <3>2, <3>3
  <2>6. CASE n = k + 1
    <3>1. cmd.name = "summary"
      BY <1>4, <2>2, <2>6
    <3>2. x \in {"infra", world.summary}
      BY <3>1 DEF Answer
    <3>3. log2[k] = "ran" => Summed(u, world.summary, seen, crowded)
      BY <1>2, <2>2, <2>3, <2>6
    <3>4. QED BY <1>2, <1>6, <2>1, <2>2, <2>6, <3>2, <3>3 DEF PerfTold
  <2>7. QED BY <1>2, <2>2, <2>4, <2>5, <2>6
<1>9. ASSUME u.type = "CHAOS_PROBE"
      PROVE  /\ ChaosTold(u, log2, seen, crowded)
             /\ Len(log2) >= 2 /\ log2[2] = "applied" => w.chaos
             /\ ~crowded /\ Len(log2) >= 3 /\ "infra" \notin ToSet(log2) => ~w.blip
  <2>1. /\ (n = 2 => cmd.name = "chaos") /\ (n >= 3 => cmd.name = "curl")
    BY <1>2, <1>4, <1>9, ChaosPlaces, RunnerAssumption
  <2>2. /\ ChaosTold(u, log, seen, crowded)
        /\ Len(log) >= 2 /\ log[2] = "applied" => world.chaos
        /\ ~crowded /\ Len(log) >= 3 /\ "infra" \notin ToSet(log) => ~world.blip
    BY <1>0, <1>9 DEF LogInv
  <2>3. cmd.name = "curl" => /\ x \in {"infra", "200", "503"}
                             /\ x = "200" /\ world.chaos => u.type \notin met
                             /\ x = "503" /\ ~world.blip => u.type \in met
    BY <1>0 DEF Answer
  <2>4. (u.type \in met => Wrong(seen)) /\ (u.type \notin met => Right(u.type, seen))
    BY DEF Right, Wrong
  <2>5. n >= 3 /\ log2[2] = "applied" => world.chaos
    BY <1>2, <2>2
  <2>6. Len(log2) >= 2 /\ log2[2] = "applied" => w.chaos
    <3>1. CASE n = 2
      BY <1>2, <1>6, <2>1, <3>1
    <3>2. CASE n >= 3
      BY <1>6, <2>5, <3>2
    <3>3. QED BY <1>2, <3>1, <3>2
  <2>7. ~crowded /\ Len(log2) >= 3 /\ "infra" \notin ToSet(log2) => ~w.blip
    BY <1>2, <1>3, <1>6, <2>1
  <2>8. ASSUME NEW i \in 3 .. Len(log2), log2[2] = "applied", log2[i] = "200" PROVE Right(u.type, seen)
    <3>1. CASE i = n
      BY <1>2, <2>1, <2>3, <2>4, <2>5, <2>8, <3>1
    <3>2. CASE i # n
      BY <1>2, <2>2, <2>8, <3>2 DEF ChaosTold
    <3>3. QED BY <3>1, <3>2
  <2>9. ASSUME ~crowded, ~Wrong(seen), "infra" \notin ToSet(log2), NEW i \in 4 .. Len(log2) PROVE log2[i] = "200"
    <3>1. CASE i = n
      BY <1>2, <1>3, <2>1, <2>2, <2>3, <2>4, <2>9, <3>1
    <3>2. CASE i # n
      BY <1>2, <1>3, <2>2, <2>9, <3>2 DEF ChaosTold
    <3>3. QED BY <3>1, <3>2
  <2>10. QED BY <2>6, <2>7, <2>8, <2>9 DEF ChaosTold
<1>10. LogInv(u, w, log2, seen, crowded)
  BY <1>2, <1>4, <1>5, <1>7, <1>8, <1>9 DEF LogInv
<1>11. QED BY <1>0, <1>1, <1>10

-----------------------------------------------------------------------------
(* Validators: the runner *)

WellFormed(e) == DOMAIN e = {"log", "saw", "active"} /\ IsLog(e.log) /\ e.active \in BOOLEAN

RunnerTypes ==
    /\ v \in Validators /\ DOMAIN world = WorldFields /\ runs \in 0 .. MaxRuns
    /\ DOMAIN execs = Execs /\ \A k \in Execs : WellFormed(execs[k])

\* The executions to come have not begun.
Ahead(k) == k[1] > runs \/ (run.pc = "executing" /\ k[1] = runs /\ k[2] > run.attempt)
AheadUnused == \A k \in Execs : Ahead(k) => execs[k] = Unused

\* The current execution is alone unless the run is crowded, its log tells what
\* the learner's work was, and no command going on has met other work.
Attempting ==
    /\ DOMAIN run = {"pc", "attempt", "seen", "crowded"}
    /\ runs \in 1 .. MaxRuns /\ run.attempt \in 1 .. maxAttempts /\ run.crowded \in BOOLEAN
    /\ bad \in run.seen
    /\ LogInv(v, world, execs[Current].log, run.seen, run.crowded)
    /\ ~run.crowded => \A k \in Execs : execs[k].active => k = Current
    /\ \A k \in Execs : execs[k].saw \subseteq run.seen

RunnerInv ==
    /\ RunnerTypes /\ AheadUnused
    /\ run.pc = "executing" => Attempting
    /\ VerdictIsEarned

LEMMA UnusedIs == WellFormed(Unused) /\ Unused.log = <<>> /\ Unused.saw = {} /\ ~Unused.active
<1>1. <<>> \in Seq({})
  OBVIOUS
<1>2. QED BY <1>1 DEF Unused, WellFormed, IsLog

LEMMA BegunIs == WellFormed(Begun) /\ Begun.log = <<>> /\ Begun.saw = {bad} /\ Begun.active
<1>1. <<>> \in Seq({})
  OBVIOUS
<1>2. QED BY <1>1 DEF Begun, WellFormed, IsLog

LEMMA ExecsPairs ==
  ASSUME NEW i, NEW j
  PROVE  <<i, j>> \in Execs <=> i \in 1 .. MaxRuns /\ j \in 1 .. maxAttempts
BY DEF Execs

LEMMA ExecsAre ==
  ASSUME NEW k \in Execs
  PROVE  k = <<k[1], k[2]>> /\ k[1] \in 1 .. MaxRuns /\ k[2] \in 1 .. maxAttempts
BY DEF Execs

LEMMA RunnerInits == RunnerInit => RunnerInv
<1> SUFFICES ASSUME RunnerInit PROVE RunnerInv
  OBVIOUS
<1>1. run.pc = "none"
  BY DEF RunnerInit, NoRun
<1>2. DOMAIN world = WorldFields
  BY DEF RunnerInit, WorldFields
<1>3. \A k \in Execs : execs[k] = Unused
  BY DEF RunnerInit
<1>4. DOMAIN execs = Execs /\ v \in Validators /\ runs = 0
  BY DEF RunnerInit
<1>5. runs \in 0 .. MaxRuns
  BY <1>4, RunnerAssumption
<1>6. QED BY <1>1, <1>2, <1>3, <1>4, <1>5, UnusedIs DEF RunnerInv, RunnerTypes, AheadUnused, VerdictIsEarned

LEMMA StartKeeps ==
  ASSUME RunnerInv, StartRun
  PROVE  RunnerInv'
<1>1. PICK n : n = runs + 1
  OBVIOUS
<1>2. /\ runs \in Nat /\ runs < MaxRuns /\ runs' = n /\ MaxRuns \in Nat /\ maxAttempts \in Nat \ {0}
      /\ v' = v /\ bad' = bad /\ world' = world
  BY <1>1, RunnerAssumption DEF RunnerInv, RunnerTypes, StartRun
<1>3. <<n, 1>> \in Execs
  BY <1>1, <1>2, ExecsPairs
<1>4. execs[<<n, 1>>] = Unused
  BY <1>1, <1>2, <1>3 DEF RunnerInv, AheadUnused, Ahead
<1>5. execs' = [execs EXCEPT ![<<n, 1>>] = Begun]
  BY <1>1 DEF StartRun
<1>6. DOMAIN execs = Execs /\ \A k \in Execs : WellFormed(execs[k])
  BY DEF RunnerInv, RunnerTypes
<1>7. /\ DOMAIN execs' = Execs /\ execs'[<<n, 1>>] = Begun
      /\ \A k \in Execs : k # <<n, 1>> => execs'[k] = execs[k]
  BY <1>3, <1>5, <1>6, Zenon
<1>9. WellFormed(execs'[<<n, 1>>]) /\ execs'[<<n, 1>>].log = <<>> /\ execs'[<<n, 1>>].saw = {bad}
  BY <1>7, BegunIs
<1>10. PICK crowded, seen : /\ crowded = \E k \in Execs : execs[k].active
                           /\ seen = {bad} \cup UNION {execs[k].saw : k \in Execs}
  OBVIOUS
<1>11. run' = [pc |-> "executing", attempt |-> 1, seen |-> seen, crowded |-> crowded]
  BY <1>10 DEF StartRun
<1>12. /\ DOMAIN run' = {"pc", "attempt", "seen", "crowded"} /\ run'.pc = "executing" /\ run'.attempt = 1
       /\ run'.seen = seen /\ run'.crowded = crowded
  BY <1>11
<1>13. RunnerTypes'
  <2>1. \A k \in Execs : WellFormed(execs'[k])
    BY <1>6, <1>7, <1>9
  <2>2. runs' \in 0 .. MaxRuns
    BY <1>1, <1>2
  <2>3. v' \in Validators /\ DOMAIN world' = WorldFields
    BY <1>2 DEF RunnerInv, RunnerTypes
  <2>4. QED BY <1>7, <2>1, <2>2, <2>3 DEF RunnerTypes, WellFormed
<1>14. AheadUnused'
  <2>1. ASSUME NEW k \in Execs, Ahead(k)' PROVE execs'[k] = Unused
    <3>1. k[1] \in Nat /\ (k[1] > n \/ (k[1] = n /\ k[2] > 1))
      BY <1>2, <1>12, <2>1, ExecsAre DEF Ahead
    <3>2. k # <<n, 1>> /\ k[1] > runs
      BY <1>1, <1>2, <3>1
    <3>3. QED BY <1>7, <3>2 DEF RunnerInv, AheadUnused, Ahead
  <2>2. QED BY <2>1 DEF AheadUnused
<1>15. Attempting'
  <2>1. Current' = <<n, 1>>
    BY <1>2, <1>12 DEF Current
  <2>2. Len(Program(v)) \in Nat
    BY ProgramLen, RunnerAssumption DEF RunnerInv, RunnerTypes
  <2>3. LogInv(v', world', execs'[Current'].log, run'.seen, run'.crowded)
    BY <1>2, <1>9, <2>1, <2>2, LogEmpty
  <2>4. runs' \in 1 .. MaxRuns /\ run'.attempt \in 1 .. maxAttempts
    BY <1>1, <1>2, <1>12
  <2>5. bad' \in run'.seen /\ run'.crowded \in BOOLEAN
    BY <1>2, <1>10, <1>12
  <2>6. ~run'.crowded => \A k \in Execs : execs'[k].active => k = Current'
    BY <1>7, <1>10, <1>12, <2>1
  <2>7. \A k \in Execs : execs'[k].saw \subseteq run'.seen
    BY <1>7, <1>9, <1>10, <1>12
  <2>8. QED BY <1>12, <2>3, <2>4, <2>5, <2>6, <2>7 DEF Attempting
<1>16. VerdictIsEarned'
  BY <1>12 DEF VerdictIsEarned
<1>17. QED BY <1>13, <1>14, <1>15, <1>16 DEF RunnerInv

LEMMA VerdictStays ==
  ASSUME VerdictIsEarned, UNCHANGED <<v, run>>
  PROVE  VerdictIsEarned'
BY DEF VerdictIsEarned, Blind, Harsh, NotRun, Said, Unread

LEMMA CommandKeeps ==
  ASSUME RunnerInv, NEW k \in Execs, RunCommand(k)
  PROVE  RunnerInv'
<1>1. PICK log, cmd : log = execs[k].log /\ cmd = Program(v)[Len(log) + 1]
  OBVIOUS
<1>2. PICK met \in execs[k].saw : \E x \in Answer(cmd, met) :
        /\ world' \in Leaves(cmd, met, x)
        /\ execs' = [execs EXCEPT ![k] =
             IF ~(run.pc = "executing" /\ k = Current) /\ execute(v, Append(log, x)) # "RUNNING" THEN Unused
             ELSE [Begun EXCEPT !.log = Append(log, x)]]
  BY <1>1 DEF RunCommand
<1>2a. PICK x \in Answer(cmd, met) :
        /\ world' \in Leaves(cmd, met, x)
        /\ execs' = [execs EXCEPT ![k] =
             IF ~(run.pc = "executing" /\ k = Current) /\ execute(v, Append(log, x)) # "RUNNING" THEN Unused
             ELSE [Begun EXCEPT !.log = Append(log, x)]]
  BY <1>2
<1>3. execs[k].active /\ execute(v, log) = "RUNNING" /\ v' = v /\ bad' = bad /\ run' = run /\ runs' = runs
  BY <1>1 DEF RunCommand
<1>4. IsValidator(v) /\ DOMAIN world = WorldFields /\ DOMAIN execs = Execs /\ (\A j \in Execs : WellFormed(execs[j]))
  BY RunnerAssumption DEF RunnerInv, RunnerTypes
<1>5. PICK S : log \in Seq(S)
  BY <1>1, <1>4 DEF WellFormed, IsLog
<1>6. PICK e : /\ e = execs'[k]
               /\ e = Unused \/ e = [Begun EXCEPT !.log = Append(log, x)]
               /\ run.pc = "executing" /\ k = Current => e = [Begun EXCEPT !.log = Append(log, x)]
  BY <1>2a, <1>4
<1>7. DOMAIN execs' = Execs /\ \A j \in Execs : j # k => execs'[j] = execs[j]
  BY <1>2a, <1>4
<1>8. /\ WellFormed(e) /\ e.saw \subseteq {bad}
      /\ e = [Begun EXCEPT !.log = Append(log, x)] => e.log = Append(log, x)
  <2>1. CASE e = Unused
    BY <2>1, UnusedIs DEF Begun, Unused
  <2>2. CASE e = [Begun EXCEPT !.log = Append(log, x)]
    <3>1. log \in Seq(S \cup {x}) /\ x \in S \cup {x}
      BY <1>5
    <3>2. Append(log, x) \in Seq(S \cup {x})
      BY <3>1
    <3>3. e.log = Append(log, x) /\ e.active = TRUE /\ e.saw = {bad} /\ DOMAIN e = {"log", "saw", "active"}
      BY <2>2 DEF Begun
    <3>4. QED BY <3>2, <3>3 DEF WellFormed, IsLog
  <2>3. QED BY <1>6, <2>1, <2>2
<1>9. RunnerTypes'
  <2>1. \A j \in Execs : WellFormed(execs'[j])
    BY <1>4, <1>6, <1>7, <1>8
  <2>2. DOMAIN world' = WorldFields
    <3>1. PICK seen : seen = execs[k].saw
      OBVIOUS
    <3>2. QED BY <1>2a, <1>4, <3>1, LeavesIs
  <2>3. v' \in Validators /\ runs' \in 0 .. MaxRuns
    BY <1>3 DEF RunnerInv, RunnerTypes
  <2>4. QED BY <1>7, <2>1, <2>2, <2>3 DEF RunnerTypes, WellFormed
<1>10. AheadUnused'
  <2>1. ASSUME NEW j \in Execs, Ahead(j)' PROVE execs'[j] = Unused
    <3>1. execs[j] = Unused
      BY <1>3, <2>1 DEF RunnerInv, AheadUnused, Ahead
    <3>2. j # k
      BY <1>3, <3>1, UnusedIs
    <3>3. QED BY <1>7, <3>1, <3>2
  <2>2. QED BY <2>1 DEF AheadUnused
<1>11. ASSUME run.pc = "executing" PROVE Attempting'
  <2>1. Attempting /\ Current' = Current
    BY <1>3, <1>11 DEF RunnerInv, Current
  <2>2. PICK cur, seen, crowded : cur = Current /\ seen = run.seen /\ crowded = run.crowded
    OBVIOUS
  <2>3. cur \in Execs
    BY <2>1, <2>2, ExecsPairs DEF Attempting, Current
  <2>4. /\ crowded \in BOOLEAN /\ bad \in seen /\ LogInv(v, world, execs[cur].log, seen, crowded)
        /\ ~crowded => \A j \in Execs : execs[j].active => j = cur
        /\ met \in seen /\ \A j \in Execs : execs[j].saw \subseteq seen
    BY <2>1, <2>2 DEF Attempting
  <2>5. LogInv(v, world', execs'[cur].log, seen, crowded)
    <3>1. CASE k = cur
      <4>1. LogInv(v, world, log, seen, crowded)
        BY <1>1, <2>4, <3>1
      <4>2. LogInv(v, world', Append(log, x), seen, crowded)
        <5>1. PICK w : w = world' /\ w \in Leaves(cmd, met, x)
          BY <1>2a
        <5>2. LogInv(v, w, Append(log, x), seen, crowded)
          BY <1>1, <1>3, <1>4, <1>5, <2>2, <2>4, <4>1, <5>1, LogGrows
        <5>3. QED BY <5>1, <5>2
      <4>3. execs'[cur].log = Append(log, x)
        BY <1>6, <1>8, <1>11, <2>2, <3>1
      <4>4. QED BY <4>2, <4>3
    <3>2. CASE k # cur
      <4>1. crowded = TRUE
        BY <1>3, <2>4, <3>2
      <4>2. PICK w, l : w = world' /\ w \in Leaves(cmd, met, x) /\ l = execs[cur].log
        BY <1>2a
      <4>3. LogInv(v, w, l, seen, TRUE)
        BY <1>4, <2>4, <4>1, <4>2, OthersWork
      <4>4. execs'[cur].log = l
        BY <1>7, <2>3, <3>2, <4>2
      <4>5. QED BY <4>1, <4>2, <4>3, <4>4
    <3>3. QED BY <3>1, <3>2
  <2>6. ~crowded => \A j \in Execs : execs'[j].active => j = cur
    BY <1>3, <1>7, <2>4
  <2>7. \A j \in Execs : execs'[j].saw \subseteq seen
    BY <1>6, <1>7, <1>8, <2>4
  <2>8. QED BY <1>3, <2>1, <2>2, <2>4, <2>5, <2>6, <2>7 DEF Attempting
<1>12. VerdictIsEarned'
  BY <1>3, VerdictStays DEF RunnerInv
<1>13. QED BY <1>3, <1>9, <1>10, <1>11, <1>12 DEF RunnerInv

\* Giving up an execution leaves it as it is or forgets it.
LEMMA GiveUpIs ==
  ASSUME NEW e
  PROVE  /\ GiveUp(e) = e \/ GiveUp(e) = Unused
         /\ execute(v, e.log) # "RUNNING" => GiveUp(e) = Unused
BY DEF GiveUp

\* The next attempt begins with an empty log.
LEMMA RetryKeeps ==
  ASSUME RunnerInv, run.pc = "executing", run.attempt < maxAttempts, retry(Current), UNCHANGED <<v, bad, world, runs>>
  PROVE  RunnerInv'
<1>1. Attempting
  BY DEF RunnerInv
<1>2. PICK i, j, n : i = runs /\ j = run.attempt /\ n = j + 1
  OBVIOUS
<1>3. i \in 1 .. MaxRuns /\ j \in 1 .. maxAttempts /\ n \in 1 .. maxAttempts /\ n = j + 1
  BY <1>1, <1>2, RunnerAssumption DEF Attempting
<1>4. PICK k, next : k = <<i, j>> /\ next = <<i, n>> /\ k = Current
  BY <1>2 DEF Current
<1>5. k \in Execs /\ next \in Execs /\ k # next
  BY <1>3, <1>4, ExecsPairs
<1>6. DOMAIN execs = Execs /\ \A q \in Execs : WellFormed(execs[q])
  BY DEF RunnerInv, RunnerTypes
<1>7. execs[next] = Unused
  <2>1. Ahead(next)
    BY <1>2, <1>3, <1>4 DEF Ahead
  <2>2. QED BY <1>5, <2>1 DEF RunnerInv, AheadUnused
<1>8. execs' = [execs EXCEPT ![k] = GiveUp(@), ![<<k[1], k[2] + 1>>] = Begun]
  BY <1>4 DEF retry
<1>9. /\ DOMAIN execs' = Execs /\ execs'[k] = GiveUp(execs[k])
      /\ execs'[next] = Begun
      /\ \A q \in Execs : q # k /\ q # next => execs'[q] = execs[q]
  <2>1. next = <<k[1], k[2] + 1>>
    BY <1>2, <1>4
  <2>2. QED BY <1>5, <1>6, <1>7, <1>8, <2>1
<1>10. PICK e : e = execs'[next] /\ e = Begun
  BY <1>9
<1>11. WellFormed(e) /\ e.log = <<>> /\ e.saw = {bad}
  BY <1>10, BegunIs
<1>12. run' = [run EXCEPT !.attempt = @ + 1, !.crowded = @ \/ execute(v, execs[k].log) = "RUNNING"]
  BY <1>4 DEF retry
<1>13. /\ DOMAIN run' = {"pc", "attempt", "seen", "crowded"} /\ run'.pc = "executing" /\ run'.attempt = n
       /\ run'.seen = run.seen /\ run'.crowded = (run.crowded \/ execute(v, execs[k].log) = "RUNNING")
  <2>1. DOMAIN run = {"pc", "attempt", "seen", "crowded"}
    BY <1>1 DEF Attempting
  <2>2. QED BY <1>2, <1>12, <2>1
<1>14. Current' = next
  BY <1>2, <1>4, <1>13 DEF Current
<1>15. RunnerTypes'
  <2>1. \A q \in Execs : WellFormed(execs'[q])
    BY <1>5, <1>6, <1>9, <1>10, <1>11, GiveUpIs, UnusedIs
  <2>2. QED BY <1>9, <2>1 DEF RunnerInv, RunnerTypes, WellFormed
<1>16. AheadUnused'
  <2>1. ASSUME NEW q \in Execs, Ahead(q)' PROVE execs'[q] = Unused
    <3>1. k[1] = i /\ k[2] = j /\ next[1] = i /\ next[2] = n
      BY <1>4
    <3>2. q[1] \in Nat /\ q[2] \in Nat /\ (q[1] > i \/ (q[1] = i /\ q[2] > n))
      BY <1>2, <1>13, <2>1, ExecsAre DEF Ahead
    <3>3. Ahead(q) /\ q # k /\ q # next
      BY <1>2, <1>3, <3>1, <3>2 DEF Ahead
    <3>4. QED BY <1>9, <3>3 DEF RunnerInv, AheadUnused
  <2>2. QED BY <2>1 DEF AheadUnused
<1>17. Attempting'
  <2>1. Len(Program(v)) \in Nat
    BY ProgramLen, RunnerAssumption DEF RunnerInv, RunnerTypes
  <2>2. LogInv(v', world', execs'[Current'].log, run'.seen, run'.crowded)
    <3>1. PICK seen, crowded : seen = run'.seen /\ crowded = run'.crowded
      OBVIOUS
    <3>2. LogInv(v, world, <<>>, seen, crowded)
      BY <2>1, LogEmpty
    <3>3. execs'[Current'].log = <<>> /\ v' = v /\ world' = world
      BY <1>10, <1>11, <1>14
    <3>4. QED BY <3>1, <3>2, <3>3
  <2>3. ~run'.crowded => \A q \in Execs : execs'[q].active => q = Current'
    <3>1. ASSUME ~run'.crowded, NEW q \in Execs, execs'[q].active PROVE q = next
      <4>1. execs'[k] = Unused
        BY <1>9, <1>13, <3>1, GiveUpIs
      <4>2. q # k
        BY <3>1, <4>1, UnusedIs
      <4>3. execs[q].active => q = k
        BY <1>1, <1>4, <1>13, <3>1 DEF Attempting
      <4>4. QED BY <1>9, <3>1, <4>2, <4>3
    <3>2. QED BY <1>14, <3>1
  <2>4. runs' \in 1 .. MaxRuns /\ run'.attempt \in 1 .. maxAttempts
    BY <1>2, <1>3, <1>13
  <2>5. bad' \in run'.seen /\ run'.crowded \in BOOLEAN
    BY <1>1, <1>13 DEF Attempting
  <2>6. \A q \in Execs : execs'[q].saw \subseteq run'.seen
    <3>1. bad \in run.seen /\ \A q \in Execs : execs[q].saw \subseteq run.seen
      BY <1>1 DEF Attempting
    <3>2. execs'[k].saw \subseteq run.seen
      BY <1>5, <1>9, <3>1, GiveUpIs, UnusedIs
    <3>3. QED BY <1>9, <1>10, <1>11, <1>13, <3>1, <3>2
  <2>7. QED BY <1>13, <2>2, <2>3, <2>4, <2>5, <2>6 DEF Attempting
<1>18. VerdictIsEarned'
  BY <1>13 DEF VerdictIsEarned
<1>19. QED BY <1>15, <1>16, <1>17, <1>18 DEF RunnerInv

\* A run is over with a status that its log earns.
LEMMA RecordKeeps ==
  ASSUME RunnerInv, run.pc = "executing", UNCHANGED <<v, world, runs>>,
         NEW status, NEW log, Record(status, log), Earned(v, log, status, run.seen, run.crowded),
         NEW e, e = execs[Current] \/ e = Unused, execs' = [execs EXCEPT ![Current] = e]
  PROVE  RunnerInv'
<1>1. Attempting
  BY DEF RunnerInv
<1>2. PICK k : k = Current /\ k \in Execs
  BY <1>1, ExecsPairs DEF Attempting, Current
<1>3. DOMAIN execs = Execs /\ \A q \in Execs : WellFormed(execs[q])
  BY DEF RunnerInv, RunnerTypes
<1>4. DOMAIN execs' = Execs /\ \A q \in Execs : execs'[q] = execs[q] \/ execs'[q] = Unused
  BY <1>2, <1>3
<1>5. PICK seen, crowded : seen = run.seen /\ crowded = run.crowded
  OBVIOUS
<1>6. run' = [pc |-> "recorded", status |-> status, log |-> log, seen |-> seen, crowded |-> crowded]
  BY <1>5 DEF Record
<1>7. run'.pc = "recorded" /\ run'.status = status /\ run'.log = log /\ run'.seen = seen /\ run'.crowded = crowded
  BY <1>6
<1>8. RunnerTypes'
  <2>1. \A q \in Execs : WellFormed(execs'[q])
    BY <1>3, <1>4, UnusedIs
  <2>2. QED BY <1>4, <2>1 DEF RunnerInv, RunnerTypes, WellFormed
<1>9. AheadUnused'
  <2>1. ASSUME NEW q \in Execs, Ahead(q)' PROVE execs'[q] = Unused
    <3>1. Ahead(q)
      BY <1>7, <2>1 DEF Ahead
    <3>2. QED BY <1>4, <3>1 DEF RunnerInv, AheadUnused
  <2>2. QED BY <2>1 DEF AheadUnused
<1>10. VerdictIsEarned'
  <2>1. Earned(v, log, status, seen, crowded)
    BY <1>5
  <2>2. (Blind' <=> BlindIn(v, log)) /\ (Harsh' <=> HarshIn(v, log, crowded))
    BY <1>7 DEF Blind, BlindIn, Harsh, HarshIn, NotRun, NotRunIn, Said, SaidIn, Unread, UnreadIn
  <2>3. Aspects(v)' = Aspects(v)
    BY DEF Aspects
  <2>4. QED BY <1>7, <2>1, <2>2, <2>3 DEF VerdictIsEarned, Earned, Right, Wrong
<1>11. QED BY <1>7, <1>8, <1>9, <1>10 DEF RunnerInv

LEMMA SettleKeeps ==
  ASSUME RunnerInv, Settle
  PROVE  RunnerInv'
<1>1. Attempting /\ run.pc = "executing" /\ UNCHANGED <<v, bad, world, runs>>
  BY DEF RunnerInv, Settle
<1>2. PICK log, status : log = execs[Current].log /\ status = execute(v, log)
  OBVIOUS
<1>3. CASE status = "ERROR" /\ run.attempt < maxAttempts
  <2>1. retry(Current)
    BY <1>2, <1>3 DEF Settle
  <2>2. QED BY <1>1, <1>3, <2>1, RetryKeeps
<1>4. CASE ~(status = "ERROR" /\ run.attempt < maxAttempts)
  <2>1. Record(status, log) /\ execs' = [execs EXCEPT ![Current] = Unused]
    BY <1>2, <1>4 DEF Settle
  <2>2. PICK S : log \in Seq(S)
    <3>1. Current \in Execs
      BY <1>1, ExecsPairs DEF Attempting, Current
    <3>2. QED BY <1>2, <3>1 DEF RunnerInv, RunnerTypes, WellFormed, IsLog
  <2>3. IsValidator(v)
    BY RunnerAssumption DEF RunnerInv, RunnerTypes
  <2>4. LogInv(v, world, log, run.seen, run.crowded) /\ run.crowded \in BOOLEAN
    BY <1>1, <1>2 DEF Attempting
  <2>5. Earned(v, log, status, run.seen, run.crowded)
    BY <1>2, <2>2, <2>3, <2>4, LogJudged
  <2>6. QED BY <1>1, <2>1, <2>5, RecordKeeps
<1>5. QED BY <1>3, <1>4

LEMMA TimeoutKeeps ==
  ASSUME RunnerInv, Timeout
  PROVE  RunnerInv'
<1>1. run.pc = "executing" /\ UNCHANGED <<v, bad, world, runs>>
  BY DEF Timeout
<1>2. CASE run.attempt < maxAttempts
  BY <1>1, <1>2, RetryKeeps DEF Timeout
<1>3. CASE ~(run.attempt < maxAttempts)
  <2>1. Record("ERROR", <<>>) /\ execs' = [execs EXCEPT ![Current] = GiveUp(@)]
    BY <1>3 DEF Timeout
  <2>2. PICK e : e = GiveUp(execs[Current])
    OBVIOUS
  <2>3. execs' = [execs EXCEPT ![Current] = e] /\ (e = execs[Current] \/ e = Unused)
    BY <2>1, <2>2, GiveUpIs
  <2>4. Earned(v, <<>>, "ERROR", run.seen, run.crowded)
    BY DEF Earned
  <2>5. QED BY <1>1, <2>1, <2>3, <2>4, RecordKeeps
<1>4. QED BY <1>2, <1>3

LEMMA EditKeeps ==
  ASSUME RunnerInv, Edit
  PROVE  RunnerInv'
<1>1. /\ v' = v /\ world' = world /\ runs' = runs /\ DOMAIN execs' = Execs
      /\ \A k \in Execs : /\ WellFormed(execs'[k]) /\ execs'[k].log = execs[k].log
                          /\ (execs'[k].active <=> execs[k].active) /\ execs'[k].saw \subseteq execs[k].saw \cup {bad'}
                          /\ execs[k] = Unused => execs'[k] = Unused
  <2>1. /\ v' = v /\ world' = world /\ runs' = runs
        /\ execs' = [k \in Execs |-> IF execs[k].active THEN [execs[k] EXCEPT !.saw = @ \cup {bad'}] ELSE execs[k]]
    BY DEF Edit
  <2>2. ASSUME NEW k \in Execs
        PROVE  /\ WellFormed(execs'[k]) /\ execs'[k].log = execs[k].log
               /\ (execs'[k].active <=> execs[k].active) /\ execs'[k].saw \subseteq execs[k].saw \cup {bad'}
               /\ execs[k] = Unused => execs'[k] = Unused
    <3>1. PICK e : e = execs[k] /\ WellFormed(e)
      BY DEF RunnerInv, RunnerTypes
    <3>2. CASE ~e.active
      <4>1. execs'[k] = e
        BY <2>1, <3>1, <3>2
      <4>2. QED BY <3>1, <4>1
    <3>3. CASE e.active
      <4>1. PICK f : f = execs'[k] /\ f = [e EXCEPT !.saw = e.saw \cup {bad'}]
        BY <2>1, <3>1, <3>3
      <4>2. DOMAIN f = DOMAIN e /\ f.log = e.log /\ f.active = e.active /\ f.saw = e.saw \cup {bad'}
        <5>1. DOMAIN e = {"log", "saw", "active"}
          BY <3>1 DEF WellFormed
        <5>2. QED BY <4>1, <5>1
      <4>3. WellFormed(f)
        BY <3>1, <4>2 DEF WellFormed
      <4>4. e # Unused
        BY <3>3, UnusedIs
      <4>5. QED BY <3>1, <4>1, <4>2, <4>3, <4>4
    <3>4. QED BY <3>2, <3>3
  <2>3. QED BY <2>1, <2>2
<1>2. CASE run.pc = "executing"
  <2>1. Attempting /\ run' = [run EXCEPT !.seen = @ \cup {bad'}]
    BY <1>2 DEF RunnerInv, Edit
  <2>2. /\ DOMAIN run' = {"pc", "attempt", "seen", "crowded"} /\ run'.pc = run.pc /\ run'.attempt = run.attempt
        /\ run'.seen = run.seen \cup {bad'} /\ run'.crowded = run.crowded
    <3>1. DOMAIN run = {"pc", "attempt", "seen", "crowded"}
      BY <2>1 DEF Attempting
    <3>2. QED BY <2>1, <3>1
  <2>3. Current' = Current
    BY <1>1, <2>2 DEF Current
  <2>4. LogInv(v, world, execs'[Current].log, run'.seen, run.crowded)
    <3>0. execs'[Current].log = execs[Current].log
      <4>1. PICK cur : cur = Current /\ cur \in Execs
        BY <2>1, ExecsPairs DEF Attempting, Current
      <4>2. QED BY <1>1, <4>1
    <3>1. PICK more : more = run'.seen /\ run.seen \subseteq more
      BY <2>2
    <3>2. LogInv(v, world, execs[Current].log, more, run.crowded)
      BY <2>1, <3>1, SeenGrows DEF Attempting
    <3>3. QED BY <3>0, <3>1, <3>2
  <2>5. Attempting'
    <3>1. \A k \in Execs : execs'[k].saw \subseteq run'.seen
      BY <1>1, <2>1, <2>2 DEF Attempting
    <3>2. ~run'.crowded => \A k \in Execs : execs'[k].active => k = Current'
      BY <1>1, <2>1, <2>2, <2>3 DEF Attempting
    <3>3. LogInv(v', world', execs'[Current'].log, run'.seen, run'.crowded)
      BY <1>1, <2>2, <2>3, <2>4
    <3>4. QED BY <1>1, <2>1, <2>2, <3>1, <3>2, <3>3 DEF Attempting
  <2>6. RunnerTypes' /\ AheadUnused'
    <3>1. RunnerTypes'
      BY <1>1 DEF RunnerInv, RunnerTypes, WellFormed
    <3>2. AheadUnused'
      BY <1>1, <2>2 DEF RunnerInv, AheadUnused, Ahead
    <3>3. QED BY <3>1, <3>2
  <2>7. VerdictIsEarned'
    BY <1>2, <2>2 DEF VerdictIsEarned
  <2>8. QED BY <2>5, <2>6, <2>7 DEF RunnerInv
<1>3. CASE run.pc # "executing"
  <2>1. run' = run
    BY <1>3 DEF Edit
  <2>2. RunnerTypes' /\ AheadUnused'
    <3>1. RunnerTypes'
      BY <1>1 DEF RunnerInv, RunnerTypes, WellFormed
    <3>2. AheadUnused'
      BY <1>1, <2>1 DEF RunnerInv, AheadUnused, Ahead
    <3>3. QED BY <3>1, <3>2
  <2>3. VerdictIsEarned'
    BY <1>1, <2>1, VerdictStays DEF RunnerInv
  <2>4. QED BY <1>3, <2>1, <2>2, <2>3 DEF RunnerInv
<1>4. QED BY <1>2, <1>3

\* validator-runner.service.ts, executeWithTimeoutAndRetry, for every validator
\* and any number of runs, attempts and edits: a PASS or a FAIL recorded is
\* earned by the work at moments of the run or of commands that earlier runs
\* gave up and that were still going on, apart from the places where the
\* executors look away or blame the learner for the platform.  The log of the
\* current execution tells what the work was, and others write into the same
\* files only what the work that they met deserves.
THEOREM VerdictsAreEarned == RunnerSpec => []VerdictIsEarned
<1>1. RunnerInit => RunnerInv
  BY RunnerInits
<1>2. RunnerInv /\ [RunnerNext]_runnerVars => RunnerInv'
  <2> SUFFICES ASSUME RunnerInv, [RunnerNext]_runnerVars PROVE RunnerInv'
    OBVIOUS
  <2>1. CASE StartRun
    BY <2>1, StartKeeps
  <2>2. ASSUME NEW k \in Execs, RunCommand(k) PROVE RunnerInv'
    BY <2>2, CommandKeeps
  <2>3. CASE Settle
    BY <2>3, SettleKeeps
  <2>4. CASE Timeout
    BY <2>4, TimeoutKeeps
  <2>5. CASE Edit
    BY <2>5, EditKeeps
  <2>6. CASE UNCHANGED runnerVars
    <3>1. v' = v /\ bad' = bad /\ world' = world /\ execs' = execs /\ run' = run /\ runs' = runs
      BY <2>6 DEF runnerVars
    <3>2. VerdictIsEarned'
      BY <3>1, VerdictStays DEF RunnerInv
    <3>3. RunnerTypes' /\ AheadUnused'
      BY <3>1 DEF RunnerInv, RunnerTypes, AheadUnused, Ahead, WellFormed
    <3>4. Attempting => Attempting'
      BY <3>1 DEF Attempting, Current
    <3>5. QED BY <3>1, <3>2, <3>3, <3>4 DEF RunnerInv
  <2>7. QED BY <2>1, <2>2, <2>3, <2>4, <2>5, <2>6 DEF RunnerNext
<1>3. RunnerInv => VerdictIsEarned
  BY DEF RunnerInv
<1>4. QED BY <1>1, <1>2, <1>3, PTL DEF RunnerSpec

=============================================================================
