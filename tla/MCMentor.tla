------------------------------ MODULE MCMentor ------------------------------
(* A small instance of Mentor for TLC. *)
EXTENDS Mentor, TLC

TwoProviders == <<"anthropic", "groq">>
Tight == [s \in Scopes |-> IF s \in Attempts THEN 3 ELSE IF s = "tenant" THEN 6 ELSE 5]
Estimates == [mentor |-> 2, draft |-> 3]
Actual == [mentor |-> {3}, draft |-> {2}]
\* checkOutput looks at each thing on its own, so everything at once is as bad
\* as any text.
NothingOrAll == {{}, Leaks}
Some == {[lowMastery |-> b, stuck |-> b, hintLevel |-> 0, override |-> GiveCommand] : b \in BOOLEAN}
=============================================================================
