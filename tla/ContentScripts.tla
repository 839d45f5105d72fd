--------------------------- MODULE ContentScripts ---------------------------
(***************************************************************************)
(* The scripts that fill the database beside the authoring requests of     *)
(* Catalog: the skill seeds, the curriculum seeds and the bulk publisher.  *)
(* A script is a sequence of separate statements, runs alone, dies at the  *)
(* first error and may be killed between any two of them (the CI workflow  *)
(* cancels the run of a superseded push); run-content-ci.sh and operators  *)
(* run it again.                                                           *)
(***************************************************************************)
EXTENDS Catalog

CONSTANTS
    Seeds,          \* the seed scripts: [skills, edges, requery], lists in the order of the file
    Demo,           \* the tenant the scripts write for
    Files           \* content/activities, in the order the publisher reads it

\* The lists of the seeds: every edge is a REQUIRES between two skills.
ASSUME ScriptAssumption ==
    /\ Demo \in Tenants
    /\ \A i \in DOMAIN Seeds :
         /\ Len(Seeds[i].skills) \in Nat /\ DOMAIN Seeds[i].skills = 1 .. Len(Seeds[i].skills)
         /\ Len(Seeds[i].edges) \in Nat /\ DOMAIN Seeds[i].edges = 1 .. Len(Seeds[i].edges)
         /\ \A k \in DOMAIN Seeds[i].edges :
              Seeds[i].edges[k].type = "REQUIRES" /\ Seeds[i].edges[k].from # Seeds[i].edges[k].to

VARIABLES
    script,         \* the script under way
    edges,          \* skill.skill_edge
    closure,        \* skill.skill_closure
    courses,        \* content.course of the demo tenant: the slug of each row
    seeded          \* history: seeds that ran to their end, in that order

vars == <<catalogVars, script, edges, closure, courses, seeded>>

NoScript == [name |-> "none"]
SLUG == "course.devops-with-ai"
SeedSkills(i) == {Seeds[i].skills[k] : k \in DOMAIN Seeds[i].skills}
Init ==
    /\ CatalogInit
    /\ script = NoScript
    /\ edges = {}
    /\ closure = {}
    /\ courses = <<>>
    /\ seeded = <<>>

Start(s) ==
    /\ script = NoScript
    /\ started < MaxStarts
    /\ started' = started + 1
    /\ script' = s
    /\ UNCHANGED <<skills, topics, file, versions, approvals, req, edges, closure, courses, seeded>>

\* A transaction under way rolls back.
Killed ==
    /\ script # NoScript
    /\ script' = NoScript
    /\ req' = [req EXCEPT ![Cli] = Idle]
    /\ UNCHANGED <<skills, topics, file, versions, approvals, started, edges, closure, courses, seeded>>

-----------------------------------------------------------------------------
(* The skill seeds *)

seedSkills(i) == Start([name |-> "seed", seed |-> i, pc |-> "skills", k |-> 1])

Seeding(pc) == script.name = "seed" /\ script.pc = pc

\* A slug that has a row violates the unique key, and the seed dies.
createSkill ==
    LET list == Seeds[script.seed].skills IN
    /\ Seeding("skills")
    /\ IF script.k > Len(list)
       THEN script' = [script EXCEPT !.pc = "edges", !.k = 1] /\ UNCHANGED skills
       ELSE IF list[script.k] \in skills
       THEN script' = NoScript /\ UNCHANGED skills
       ELSE skills' = skills \cup {list[script.k]} /\ script' = [script EXCEPT !.k = @ + 1]
    /\ UNCHANGED <<topics, file, versions, approvals, req, started, edges, closure, courses, seeded>>

addEdge_bug ==
    LET list == Seeds[script.seed].edges
        known == SeedSkills(script.seed) IN
    /\ Seeding("edges")
    /\ IF script.k > Len(list)
       THEN script' = [script EXCEPT !.pc = "closure"] /\ UNCHANGED edges
       ELSE /\ edges' = IF {list[script.k].from, list[script.k].to} \subseteq known
                        THEN edges \cup {list[script.k]} ELSE edges
            /\ script' = [script EXCEPT !.k = @ + 1]
    /\ UNCHANGED <<catalogVars, closure, courses, seeded>>

\* An edge between slugs the seed does not know is skipped with a warning.
\* The SRE seed looks the slugs up again, the others know their own.
addEdge ==
    LET list == Seeds[script.seed].edges
        known == IF Seeds[script.seed].requery THEN skills ELSE SeedSkills(script.seed) IN
    /\ Seeding("edges")
    /\ IF script.k > Len(list)
       THEN script' = [script EXCEPT !.pc = "closure"] /\ UNCHANGED edges
       ELSE /\ edges' = IF {list[script.k].from, list[script.k].to} \subseteq known
                        THEN edges \cup {list[script.k]} ELSE edges
            /\ script' = [script EXCEPT !.k = @ + 1]
    /\ UNCHANGED <<catalogVars, closure, courses, seeded>>

finishSeed ==
    /\ Seeding("closure")
    /\ closure' = rebuildClosure(edges, skills)
    /\ seeded' = Append(seeded, script.seed)
    /\ script' = NoScript
    /\ UNCHANGED <<catalogVars, edges, courses>>

-----------------------------------------------------------------------------
(* The curriculum seed.  Modules and subtopics follow the rows they hang   *)
(* from and are left out.                                                  *)

seedCurriculum == Start([name |-> "curriculum", pc |-> "course"])

InCurriculum(pc) == script.name = "curriculum" /\ script.pc = pc

\* An upsert on (tenant_id, slug).
createCourse ==
    LET found == {k \in DOMAIN courses : courses[k] = SLUG} IN
    /\ InCurriculum("course")
    /\ courses' = IF found = {} THEN Append(courses, SLUG) ELSE courses
    /\ script' = [name |-> "curriculum", pc |-> "topic",
                   course |-> IF found = {} THEN Len(courses) + 1 ELSE Min(found)]
    /\ UNCHANGED <<catalogVars, edges, closure, seeded>>

\* Plain inserts: every run of the script leaves another module and topic.
createTopic ==
    /\ InCurriculum("topic")
    /\ topics' = Append(topics, [course |-> script.course, mapped |-> {}])
    /\ script' = [script EXCEPT !.pc = "map"]
    /\ UNCHANGED <<skills, file, versions, approvals, req, started, edges, closure, courses, seeded>>

\* The skills that have no row yet are skipped with a warning.
mapTopicToSkill ==
    /\ InCurriculum("map")
    /\ topics' = [topics EXCEPT ![Len(topics)].mapped = Skills \cap skills]
    /\ script' = NoScript
    /\ UNCHANGED <<skills, file, versions, approvals, req, started, edges, closure, courses, seeded>>

\* The course that a slug finds, with the topics below it.
getCourseTree ==
    LET found == {k \in DOMAIN courses : courses[k] = SLUG}
    IN IF found = {} THEN {} ELSE {t \in DOMAIN topics : topics[t].course = Min(found)}

-----------------------------------------------------------------------------
(* publish-all-content.ts *)

publishAll == Start([name |-> "publish", todo |-> Files])

\* The next file, if it lints; nextVersion and insertVersion of Catalog then
\* publish it or refuse it, and the script goes on either way.
publishFile ==
    /\ script.name = "publish"
    /\ req[Cli].pc = "idle"
    /\ IF script.todo = <<>>
       THEN script' = NoScript /\ UNCHANGED catalogVars
       ELSE /\ script' = [script EXCEPT !.todo = Tail(@)]
            /\ \/ publishSpec(Cli, Demo, Head(script.todo), "PUBLISHED")
               \/ ~lint(file[Head(script.todo)], skills) /\ UNCHANGED catalogVars
    /\ UNCHANGED <<edges, closure, courses, seeded>>

-----------------------------------------------------------------------------
Requests ==
    /\ CatalogNext \/ nextVersion(Cli) \/ insertVersion(Cli)
    /\ UNCHANGED <<script, edges, closure, courses, seeded>>

Next ==
    \/ Requests
    \/ \E i \in DOMAIN Seeds : seedSkills(i)
    \/ createSkill \/ addEdge \/ finishSeed
    \/ seedCurriculum \/ createCourse \/ createTopic \/ mapTopicToSkill
    \/ publishAll \/ publishFile
    \/ Killed

Spec == Init /\ [][Next]_vars

-----------------------------------------------------------------------------
(* Properties *)

Linked(a, d) == \E c \in closure : c.ancestor = a /\ c.descendant = d

\* seed-skills*.ts and skill.repository.ts: whatever seeds were killed or
\* repeated, once one has finished, each of its edges to a skill that was
\* there before is in the closure that eligibility gates on.
SeededMeansGated ==
    \A n \in DOMAIN seeded : \A k \in DOMAIN Seeds[seeded[n]].edges :
        LET e == Seeds[seeded[n]].edges[k]
            own == SeedSkills(seeded[n])
            before == UNION {SeedSkills(seeded[m]) : m \in 1 .. n - 1}
        IN {e.from, e.to} \subseteq (IF Seeds[seeded[n]].requery THEN own \cup before ELSE own)
             => Linked(e.from, e.to)

\* catalog.repository.ts and curriculum.repository.ts, what a learner browses:
\* every skill is listed and can be started exactly if the own tenant has
\* published an activity for it, not through a draft and not through another
\* tenant's; and however often the curriculum is seeded, and whichever of the
\* equal topics a version is bound to, the course tree contains it.
CatalogIsHonest ==
    /\ \A t \in Tenants :
         LET rows == listSkillDrivenCatalog(t)
         IN \A s \in skills :
              /\ \E row \in rows : row.skill = s
              /\ (\E row \in rows : row.skill = s /\ startable(row))
                   <=> \E id \in Published(t) : versions[id].skill = s
    /\ \A id \in DOMAIN versions : versions[id].topic # NoTopic => versions[id].topic \in getCourseTree
=============================================================================
