------------------------------ MODULE Catalog ------------------------------
(***************************************************************************)
(* The activity catalog (catalog.repository.ts) and the authoring requests *)
(* of admin.controller.ts: a version of an activity is published directly, *)
(* or drafted, reviewed, approved and published, by several authors and    *)
(* admins at once.                                                         *)
(*                                                                         *)
(* A transaction runs at READ COMMITTED and locks nothing it only reads:   *)
(* what it reads and what it writes are two steps.                         *)
(***************************************************************************)
EXTENDS SkillModel, Integers, FiniteSets, FiniteSetsExt

CONSTANTS
    Tenants,        \* tenants that publish
    Activities,     \* activity ids, the slugs of content.activity
    Skills,         \* skill slugs an activity may target
    Editors,        \* HTTP handlers that may be in flight at once
    Cli,            \* the transaction of a script that publishes
    MaxVersion,     \* bound on the version a spec declares
    MaxStarts       \* bound on requests and scripts

ASSUME CatalogAssumption == {MaxVersion, MaxStarts} \subseteq Nat

VARIABLES
    skills,         \* skill.skill: the slugs that have a row
    topics,         \* content.topic: the rows of the activities' primary topic, [course, mapped]
    file,           \* the spec in the author's hands: [version, skill]
    versions,       \* content.activity_version: [status, skill, topic], by Id
    approvals,      \* history: versions a reviewer has approved
    req,            \* handlers in flight
    started         \* requests and scripts so far

catalogVars == <<skills, topics, file, versions, approvals, req, started>>

Id(t, a, n) == [tenant |-> t, act |-> a, n |-> n]
NoTopic == 0
Idle == [pc |-> "idle"]
Done(h) == req' = [req EXCEPT ![h] = Idle]

CatalogInit ==
    /\ skills = {}
    /\ topics = <<>>
    /\ file \in [Activities -> [version : {1}, skill : Skills]]
    /\ versions = <<>>
    /\ approvals = {}
    /\ req = [h \in Editors \cup {Cli} |-> Idle]
    /\ started = 0

-----------------------------------------------------------------------------
(* insertVersion *)

\* SpecLintService.lint, for what a spec can still get wrong here: every skill
\* slug it names must have a row.
lint(spec, known) == spec.skill \in known

Latest(t, a) == Max({0} \cup {id.n : id \in {i \in DOMAIN versions : i.tenant = t /\ i.act = a}})

\* The primary topic is bound if it has a row, and which one nobody orders.
Topics == IF topics = <<>> THEN {NoTopic} ELSE DOMAIN topics

Insertable(id, spec) == id \notin DOMAIN versions /\ spec.skill \in skills

Row(id, row) == [i \in DOMAIN versions \cup {id} |-> IF i = id THEN row ELSE versions[i]]

\* lintAndParse, then the version that the spec must declare.
publishSpec(h, t, a, status) ==
    /\ req[h].pc = "idle"
    /\ started < MaxStarts
    /\ lint(file[a], skills)
    /\ started' = started + 1
    /\ req' = [req EXCEPT ![h] = [pc |-> "next", tenant |-> t, act |-> a, spec |-> file[a], status |-> status]]
    /\ UNCHANGED <<skills, topics, file, versions, approvals>>

nextVersion(h) ==
    /\ req[h].pc = "next"
    /\ IF req[h].spec.version = Latest(req[h].tenant, req[h].act) + 1
       THEN req' = [req EXCEPT ![h].pc = "insert"]
       ELSE Done(h)
    /\ UNCHANGED <<skills, topics, file, versions, approvals, started>>

\* UNIQUE (activity_id, version) fails the one of two that comes second.
insertVersion(h) ==
    LET id == Id(req[h].tenant, req[h].act, req[h].spec.version) IN
    /\ req[h].pc = "insert"
    /\ IF Insertable(id, req[h].spec)
       THEN \E topic \in Topics :
              versions' = Row(id, [status |-> req[h].status, skill |-> req[h].spec.skill, topic |-> topic])
       ELSE UNCHANGED versions
    /\ Done(h)
    /\ UNCHANGED <<skills, topics, file, approvals, started>>

\* The author's next spec.
EditSpec(a) ==
    /\ file[a].version < MaxVersion
    /\ \E s \in Skills : file' = [file EXCEPT ![a] = [version |-> @.version + 1, skill |-> s]]
    /\ UNCHANGED <<skills, topics, versions, approvals, req, started>>

-----------------------------------------------------------------------------
(* Review *)

ALLOWED_TRANSITIONS ==
    {<<"DRAFT", "IN_REVIEW">>, <<"IN_REVIEW", "APPROVED">>, <<"IN_REVIEW", "DRAFT">>,
     <<"APPROVED", "PUBLISHED">>, <<"APPROVED", "DRAFT">>}

Move(h, id, from, to) ==
    /\ req[h].pc = "idle"
    /\ started < MaxStarts
    /\ <<from, to>> \in ALLOWED_TRANSITIONS
    /\ versions[id].status = from
    /\ started' = started + 1
    /\ req' = [req EXCEPT ![h] = [pc |-> "move", id |-> id, to |-> to]]
    /\ UNCHANGED <<skills, topics, file, versions, approvals>>

submitForReview(h, id) == Move(h, id, "DRAFT", "IN_REVIEW")
reviewDecision(h, id) == \E to \in {"APPROVED", "DRAFT"} : Move(h, id, "IN_REVIEW", to)
publishApprovedVersion(h, id) == Move(h, id, "APPROVED", "PUBLISHED")

transitionVersionStatus_bug(h) ==
    /\ req[h].pc = "move"
    /\ versions' = [versions EXCEPT ![req[h].id].status = req[h].to]
    /\ approvals' = IF req[h].to = "APPROVED" THEN approvals \cup {req[h].id} ELSE approvals
    /\ Done(h)
    /\ UNCHANGED <<skills, topics, file, started>>

\* The second half updates by id alone; only the trigger of the migrations
\* stops it, on a row that is PUBLISHED by now.
transitionVersionStatus(h) ==
    LET id == req[h].id IN
    /\ req[h].pc = "move"
    /\ IF versions[id].status = "PUBLISHED"
       THEN UNCHANGED <<versions, approvals>>
       ELSE /\ versions' = [versions EXCEPT ![id].status = req[h].to]
            /\ approvals' = IF req[h].to = "APPROVED" THEN approvals \cup {id} ELSE approvals
    /\ Done(h)
    /\ UNCHANGED <<skills, topics, file, started>>

-----------------------------------------------------------------------------
(* What a learner sees *)

Published(t) == {id \in DOMAIN versions : id.tenant = t /\ versions[id].status = "PUBLISHED"}

listSkillDrivenCatalog_bug(t) ==
    UNION {LET joined == {id \in DOMAIN versions : versions[id].skill = s}
           IN IF joined = {} THEN {[skill |-> s, act |-> {}, ver |-> {}]}
              ELSE {[skill |-> s,
                     act |-> IF versions[id].status = "PUBLISHED" THEN {id.act} ELSE {},
                     ver |-> IF versions[id].status = "PUBLISHED" THEN {id} ELSE {}] : id \in joined}
           : s \in skills}

\* Three left joins: every skill of the course has a row for each version
\* that targets it, with the version's columns if it is PUBLISHED and the
\* activity's if it is the caller's.  {} stands for NULL.
listSkillDrivenCatalog(t) ==
    UNION {LET joined == {id \in DOMAIN versions : versions[id].skill = s}
           IN IF joined = {} THEN {[skill |-> s, act |-> {}, ver |-> {}]}
              ELSE {LET live == versions[id].status = "PUBLISHED"
                    IN [skill |-> s,
                        act |-> IF live /\ id.tenant = t THEN {id.act} ELSE {},
                        ver |-> IF live THEN {id} ELSE {}] : id \in joined}
           : s \in skills}

\* The catalog page offers a row that has both.
startable(row) == row.act # {} /\ row.ver # {}

\* listCoursesForActivityVersion, from the topic the version is bound to.
listCoursesForActivityVersion(id) ==
    IF versions[id].topic = NoTopic THEN {} ELSE {topics[versions[id].topic].course}

Editing(h) ==
    \/ \E t \in Tenants, a \in Activities, status \in {"DRAFT", "PUBLISHED"} : publishSpec(h, t, a, status)
    \/ nextVersion(h) \/ insertVersion(h) \/ transitionVersionStatus(h)
    \/ \E id \in DOMAIN versions :
         submitForReview(h, id) \/ reviewDecision(h, id) \/ publishApprovedVersion(h, id)

CatalogNext == (\E h \in Editors : Editing(h)) \/ (\E a \in Activities : EditSpec(a))

-----------------------------------------------------------------------------
(* Properties *)

\* transitionVersionStatus, the trigger and admin.controller.ts: whatever
\* decisions two admins still take on a stale read, a PUBLISHED version stays
\* exactly as it is, and a draft becomes one only if a reviewer has approved it
\* at some time.  An approval that was taken back meanwhile still counts: see
\* RacesConflict.
PublishedWasApproved ==
    [][\A id \in DOMAIN versions :
         IF versions[id].status = "PUBLISHED" THEN versions'[id] = versions[id]
         ELSE versions'[id].status = "PUBLISHED" => id \in approvals]_versions

\* catalog.repository.ts:211, "a version whose current status doesn't match
\* `from` fails with a conflict rather than silently applying anyway": of two
\* racing decisions one fails, so that a version moves along ALLOWED_TRANSITIONS.
RacesConflict ==
    [][\A id \in DOMAIN versions :
         \/ versions'[id].status = versions[id].status
         \/ <<versions[id].status, versions'[id].status>> \in ALLOWED_TRANSITIONS]_versions
=============================================================================
