----------------------------- MODULE HintPanel -----------------------------
(***************************************************************************)
(* The hint panel of one task: the button names the price of the next      *)
(* hint as a preview gave it, and the reveal charges the level the server  *)
(* is at.  A level stands for its price.                                   *)
(***************************************************************************)
EXTENDS AttemptPage

CONSTANT Ladder     \* the number of hints of the task

ASSUME LadderAssumption == Ladder \in Nat

VARIABLES
    level,      \* hints revealed, at the server
    hint,       \* [revealed, cache, asked, reveal, agreed, late]
    charged,    \* history: [level, agreed] of the reveals this panel made
    clean       \* history: one mount, nothing lost, nobody else revealed

hintVars == <<level, hint, charged, clean>>

Keys == 0 .. Ladder
Panel(cache, asked, late) ==
    [revealed |-> 0, cache |-> cache, asked |-> asked, reveal |-> "none", agreed |-> 0, late |-> late]

HintInit ==
    /\ level = 0 /\ charged = {} /\ clean = TRUE
    /\ hint = Panel([k \in Keys |-> -1], {}, 0)

\* A new panel has revealed nothing, on the cache of the old one; it asks for
\* the preview of its key again.
HintFollows ==
    /\ hint' = IF mounts' = mounts THEN hint
               ELSE Panel(hint.cache, hint.asked \cup {[key |-> 0, at |-> -1]},
                          hint.late + IF hint.reveal = "sent" THEN 1 ELSE 0)
    /\ clean' = (clean /\ mounts' <= 1)
    /\ UNCHANGED <<level, charged>>

queryKey_bug == 0

\* The preview is cached per number of hints this panel has revealed.
queryKey == hint.revealed

\* GET .../hints/preview: the next level, 0 when there is none.
previewHint ==
    \E q \in hint.asked :
        /\ q.at = -1
        /\ hint' = [hint EXCEPT !.asked = (@ \ {q}) \cup {[q EXCEPT !.at = IF level < Ladder THEN level + 1 ELSE 0]}]
        /\ UNCHANGED <<pageVars, level, charged, clean>>

previewArrives ==
    \E q \in hint.asked :
        /\ q.at # -1
        /\ hint' = [hint EXCEPT !.asked = @ \ {q}, !.cache[q.key] = q.at]
        /\ UNCHANGED <<pageVars, level, charged, clean>>

\* The button shows the cached price, also while it is refetched.
Reveal ==
    /\ Active(view) /\ hint.reveal = "none" /\ hint.cache[queryKey] > 0
    /\ hint' = [hint EXCEPT !.reveal = "sent", !.agreed = hint.cache[queryKey]]
    /\ UNCHANGED <<pageVars, level, charged, clean>>

\* POST .../hints/reveal: one level up and charged, or an error at the end of
\* the ladder.
revealHint ==
    /\ hint.reveal = "sent" /\ UNCHANGED <<pageVars, clean>>
    /\ IF level < Ladder
       THEN /\ level' = level + 1
            /\ charged' = charged \cup {[level |-> level', agreed |-> hint.agreed]}
            /\ hint' = [hint EXCEPT !.reveal = "ok"]
       ELSE hint' = [hint EXCEPT !.reveal = "error"] /\ UNCHANGED <<level, charged>>

\* The reveal of a panel that is gone.
revealLate ==
    /\ hint.late > 0 /\ hint' = [hint EXCEPT !.late = @ - 1]
    /\ level' = IF level < Ladder THEN level + 1 ELSE level
    /\ UNCHANGED <<pageVars, charged, clean>>

\* onSuccess adds the hint, and the new key asks for its own preview.
revealMutation ==
    /\ hint.reveal \in {"ok", "error"} /\ UNCHANGED <<pageVars, level, charged, clean>>
    /\ hint' = IF hint.reveal = "error" THEN [hint EXCEPT !.reveal = "none"]
               ELSE [hint EXCEPT !.reveal = "none", !.revealed = @ + 1,
                        !.asked = @ \cup (IF hint.cache[hint.revealed + 1] = -1
                                          THEN {[key |-> hint.revealed + 1, at |-> -1]} ELSE {})]

RevealLost ==
    /\ hint.reveal = "ok" /\ lost < MaxLost /\ lost' = lost + 1
    /\ hint' = [hint EXCEPT !.reveal = "none"] /\ clean' = FALSE
    /\ UNCHANGED <<status, view, fetch, check, calls, proved, mounts, moves, visits, level, charged>>

\* Another tab reveals.
RevealedElsewhere ==
    /\ status = "IN_PROGRESS" /\ level < Ladder /\ moves < MaxMoves
    /\ level' = level + 1 /\ clean' = FALSE /\ moves' = moves + 1
    /\ UNCHANGED <<status, view, fetch, check, calls, proved, mounts, lost, visits, hint, charged>>

HintNext ==
    \/ previewHint \/ previewArrives \/ Reveal \/ revealHint \/ revealLate \/ revealMutation
    \/ RevealLost \/ RevealedElsewhere
=============================================================================
