------------------------------- MODULE Grader -------------------------------
(***************************************************************************)
(* The rubric grader: claude-ai-grader and fake-ai-grader behind           *)
(* llm-tool-call.port, on one artifact.                                    *)
(***************************************************************************)
EXTENDS Integers, Sequences, FiniteSetsExt, SequencesExt

CONSTANTS
    Criteria,       \* the criteria of the rubric
    Levels,         \* the levels of each, in the order the rubric lists them
    SampleCounts,   \* values of GRADER_SAMPLE_COUNT, NaN for no number
    LlmProviders    \* values of LLM_PROVIDER, "" for unset

\* Every rubric of content/rubrics lists levels.
ASSUME GraderAssumption == Levels # <<>> /\ Levels \in Seq(Nat) /\ SampleCounts \subseteq Int

VARIABLE grade      \* [pc, real, backend, wanted, samples, merged]

NaN == -1

\* The backend that the keys and LLM_PROVIDER select.
createLlmToolCaller(c) ==
    CASE c.provider = "groq" -> IF "groq" \in c.keys THEN "groq" ELSE "none"
      [] c.provider = "anthropic" -> IF "anthropic" \in c.keys THEN "anthropic" ELSE "none"
      [] c.provider # "" -> "none"
      [] "anthropic" \in c.keys -> "anthropic"
      [] "groq" \in c.keys -> "groq"
      [] OTHER -> "none"

sampleCount(raw) == IF raw = NaN THEN 3 ELSE Max({1, Min({5, raw})})

Grading == grade.pc = "sampling"

\* Any key selects the real grader, which throws when the backend that
\* LLM_PROVIDER names has none.
NoBackend ==
    /\ Grading
    /\ grade.real /\ grade.backend = "none"
    /\ grade' = [grade EXCEPT !.pc = "threw"]

\* One call of the tool.  Anything the rubric does not admit throws, and the
\* samples before it are lost.
gradeOnce ==
    /\ Grading
    /\ grade.real /\ grade.backend # "none"
    /\ Len(grade.samples) < grade.wanted
    /\ \/ \E s \in [Criteria -> Range(Levels)] : grade' = [grade EXCEPT !.samples = Append(@, s)]
       \/ grade' = [grade EXCEPT !.pc = "threw"]

reconcileSamples_bug(samples) ==
    [c \in Criteria |->
        [level |-> samples[1][c],
         flag |-> IF samples[1][c] # Last(samples)[c] THEN "SAMPLE_DISAGREEMENT" ELSE ""]]

\* The first sample is reported, flagged where another one disagrees.
reconcileSamples(samples) ==
    [c \in Criteria |->
        [level |-> samples[1][c],
         flag |-> IF \E i \in DOMAIN samples : samples[i][c] # samples[1][c] THEN "SAMPLE_DISAGREEMENT" ELSE ""]]

claudeGrade ==
    /\ Grading
    /\ grade.real /\ grade.backend # "none"
    /\ Len(grade.samples) = grade.wanted
    /\ grade' = [grade EXCEPT !.pc = "graded", !.merged = reconcileSamples(grade.samples)]

\* Without a key: the middle level of each criterion.
fakeGrade ==
    /\ Grading
    /\ ~grade.real
    /\ grade' = [grade EXCEPT !.pc = "graded",
                   !.merged = [c \in Criteria |-> [level |-> Levels[(Len(Levels) - 1) \div 2 + 1],
                                                   flag |-> "STUB_GRADER_NO_REAL_INFERENCE"]]]

GraderInit ==
    \E provider \in LlmProviders, keys \in SUBSET {"groq", "anthropic"}, raw \in SampleCounts :
        grade = [pc |-> "sampling", real |-> keys # {}, samples |-> <<>>, merged |-> <<>>, wanted |-> sampleCount(raw),
                 backend |-> createLlmToolCaller([provider |-> provider, keys |-> keys])]

GraderNext == NoBackend \/ gradeOnce \/ claudeGrade \/ fakeGrade

GraderSpec == GraderInit /\ [][GraderNext]_grade

-----------------------------------------------------------------------------
\* claude-ai-grader.service.ts, reconcileSamples, and llm-tool-call.port.ts: a
\* level that carries no flag is one that a model gave in every one of the
\* samples asked for; without a model behind it every level is flagged.
GradeIsHonest ==
    grade.pc = "graded" =>
        \A c \in Criteria :
            /\ grade.merged[c].level \in Range(Levels)
            /\ grade.merged[c].flag = "" =>
                 /\ grade.real
                 /\ Len(grade.samples) = grade.wanted
                 /\ \A i \in DOMAIN grade.samples : grade.samples[i][c] = grade.merged[c].level
=============================================================================
