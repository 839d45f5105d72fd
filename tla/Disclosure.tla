---------------------------- MODULE Disclosure ----------------------------
(***************************************************************************)
(* How much the mentor may give away: the ceiling resolved for one message *)
(* (disclosure-policy.ts), the lexical intent of that message              *)
(* (intent-classifier.ts) and the check of the generated text              *)
(* (output-guardrail.ts).  A text is the set of the revealing things in it.*)
(***************************************************************************)
EXTENDS Integers, FiniteSets, FiniteSetsExt

Modes == {"GUIDED_LAB", "PRODUCTION_SIM", "PROJECT"}

\* DisclosureCeiling
ConceptOnly   == 0
NarrowSearch  == 1
IdentifyArea  == 2
IdentifyCause == 3
GiveCommand   == 4

MODE_MAX(mode) ==
    CASE mode = "GUIDED_LAB"     -> GiveCommand
      [] mode = "PRODUCTION_SIM" -> NarrowSearch
      [] mode = "PROJECT"        -> IdentifyArea

MODE_MAX_CODE_LINES(mode) == IF mode = "GUIDED_LAB" THEN 5 ELSE 0

BaseCeiling(mode) ==
    CASE mode = "GUIDED_LAB"     -> IdentifyArea
      [] mode = "PRODUCTION_SIM" -> NarrowSearch
      [] mode = "PROJECT"        -> ConceptOnly

\* What the ceiling is resolved from: mean mastery below 0.4, ten minutes
\* without progress, the deepest hint revealed, and the author's override (an
\* activity without one has GiveCommand here, which lowers nothing).
Signals == [lowMastery : BOOLEAN, stuck : BOOLEAN, hintLevel : {0, 3},
            override : ConceptOnly .. GiveCommand]

Raised(mode, s) ==
    IF mode = "GUIDED_LAB" /\ s.hintLevel >= 3
    THEN GiveCommand
    ELSE BaseCeiling(mode) + (IF s.lowMastery THEN 1 ELSE 0) + (IF s.stuck THEN 1 ELSE 0)

resolveDisclosure(mode, s) ==
    LET ceiling == Min({Raised(mode, s), s.override, MODE_MAX(mode), GiveCommand}) IN
    [ceiling |-> ceiling, mayUseCanonicalPath |-> ceiling >= IdentifyArea,
     maxCodeLines |-> MODE_MAX_CODE_LINES(mode)]

(* The lists of patterns are tried in this order; a message may match several.*)
Markers == {"injection", "just_tell_me", "off_topic", "error_help"}

classifyIntent(markers) ==
    CASE "injection"    \in markers -> "injection"
      [] "just_tell_me" \in markers -> "just_tell_me"
      [] "off_topic"    \in markers -> "off_topic"
      [] "error_help"   \in markers -> "error_help"
      [] OTHER                      -> "concept_q"

(* What a generated text can give away, by how it is written.  Code blocks: *)
(* fence4 and fence8, of four and eight lines with a command of a listed    *)
(* tool, and plain4, four lines without one.  Commands outside: a whole     *)
(* line, one in prose, one in backticks; then those no pattern finds: a     *)
(* second one in the prose of a line, one of two words, one of a tool that  *)
(* is not listed.  Names: typed after the kind of the resource in one of    *)
(* the learner's last thirty commands, or never in this form.  And path,    *)
(* the canonical diagnostic path of the fault.                              *)
Fences == {"fence4", "fence8", "plain4"}
KnownCommands == {"fence4", "fence8", "line", "prose", "backticks"}
OtherCommands == {"plain4", "second", "short", "unlisted"}
Leaks == KnownCommands \cup OtherCommands \cup {"typed", "unseen", "path"}

FenceLines(x) == IF x = "fence8" THEN 8 ELSE 4

\* The four checks of checkOutput, in order: a fence that is too long, then a
\* command in a fence, then one outside, then a name of the learner's own
\* environment.  COMMAND_IN_PROSE is not global and wants three words, so it
\* finds the first such command of a line.  knownSolutionSnippets is undefined
\* for every caller, so nothing is refused outright.
checkOutput(text, d) ==
    LET tooLong  == {x \in text \cap Fences : FenceLines(x) > d.maxCodeLines}
        commands == IF d.ceiling < GiveCommand THEN text \cap KnownCommands ELSE {}
        names    == IF d.ceiling < IdentifyCause THEN text \cap {"typed"} ELSE {}
    IN  text \ (tooLong \cup commands \cup names)
=============================================================================
