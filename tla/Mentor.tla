------------------------------ MODULE Mentor ------------------------------
(***************************************************************************)
(* The LLM gateway of practice-core (llm-gateway/) and its two callers, the*)
(* mentor (mentor/mentor.service.ts) and the authoring assistant           *)
(* (authoring/authoring-assistant.service.ts).  The ledger and the prompt  *)
(* cache are one process's memory; a handler gives up the thread at every  *)
(* await, so that between the budget check and the charge others check too.*)
(***************************************************************************)
EXTENDS Disclosure, Sequences

CONSTANTS
    Handlers,          \* requests in flight at once
    Attempts,          \* attempts, all of one learner of one tenant
    Providers,         \* what buildLlmProviders returned, in order
    Limit,             \* dollars each scope may spend in a window, in units
    SignalsSeen,       \* the combinations of signals that learners send
    TextsSeen,         \* what the models may write
    EstCost, Costs,    \* the estimate of a call, and what it may turn out to cost
    ERROR_LIMIT,       \* provider errors in a row that open the breaker (5)
    COOLDOWN, DAY, MONTH, \* lengths of time, in ticks of the clock
    MAX_ENTRIES,       \* the cache's bound
    MaxQuestions, MaxNow, MaxDeaths  \* bounds of the run

Kinds == {"mentor", "draft"}
Scopes == {"global", "user", "tenant"} \cup Attempts

\* maxOutputTokensFor bounds what a call may cost, and a limit that no call fits
\* under would be no budget.
ASSUME MentorAssumption ==
    /\ IsFiniteSet(Handlers)
    /\ SignalsSeen \subseteq Signals /\ TextsSeen \subseteq SUBSET Leaks
    /\ Len(Providers) > 0
    /\ EstCost \in [Kinds -> Nat]
    /\ \E most \in Costs["mentor"] \cup Costs["draft"] : \A k \in Kinds : Costs[k] \subseteq 0 .. most
    /\ \A s \in Scopes : Limit[s] \in Nat /\ \E k \in Kinds : EstCost[k] <= Limit[s]
    /\ {COOLDOWN, DAY, MONTH, MAX_ENTRIES} \subseteq Nat \ {0}
    /\ COOLDOWN <= DAY /\ DAY <= MONTH

VARIABLES
    mode,          \* the mode of each attempt's activity
    counter,       \* BudgetLedger: dollars spent per scope and the window's start
    breakerUntil,  \* BudgetLedger: globalBreakerUntil
    errors,        \* BudgetLedger: consecutiveProviderErrors
    cache,         \* PromptCache: its entries, `at` their place in the Map's order
    call,          \* the state of each handler
    logged,        \* cost that AI_MESSAGE events report, per attempt and handler
    billed,        \* cost the providers charged, per attempt and handler
    now, questions, deaths

ledger == <<counter, breakerUntil, errors>>
vars == <<mode, ledger, cache, call, logged, billed, now, questions, deaths>>

Idle == [pc |-> "idle"]

-----------------------------------------------------------------------------
(* BudgetLedger *)

ScopesOf(c) == IF c.kind = "draft" THEN {"global"} ELSE {"global", "user", "tenant", c.attempt}
Window(s) == IF s = "tenant" THEN MONTH ELSE DAY

roll(c, s) == IF now - c.start >= Window(s) THEN [spent |-> 0, start |-> now] ELSE c

Spent(s) == roll(counter[s], s).spent

breakerOpen == now < breakerUntil

checkOrThrow_bug(c) ==
    /\ ~breakerOpen
    /\ \A s \in ScopesOf(c) : Spent(s) <= Limit[s]

checkOrThrow(c) ==
    /\ ~breakerOpen
    /\ \A s \in ScopesOf(c) : Spent(s) + EstCost[c.kind] <= Limit[s]

charge(c, cost) ==
    /\ counter' = [s \in Scopes |->
         IF s \in ScopesOf(c)
         THEN LET r == roll(counter[s], s) IN [r EXCEPT !.spent = @ + cost]
         ELSE counter[s]]
    /\ errors' = 0
    /\ UNCHANGED breakerUntil

noteProviderError ==
    /\ errors' = errors + 1
    /\ breakerUntil' = IF errors + 1 >= ERROR_LIMIT THEN now + COOLDOWN ELSE breakerUntil
    /\ UNCHANGED counter

-----------------------------------------------------------------------------
(* PromptCache *)

\* What a question becomes before it leaves: the credentials in it are
\* replaced, which leaves a text of its own, close to the plain question.
Questions == {"ask", "askWithKey"}
redact(q) == IF q = "askWithKey" THEN "askRedacted" ELSE q

\* Jaccard similarity in tenths, and SEMANTIC_THRESHOLD.
jaccard(q, r) == IF q = r THEN 10 ELSE 8
SEMANTIC_THRESHOLD == 6

Live == {e \in cache : e.expiresAt > now}

Exact(c) == {e \in Live : e.system = c.system /\ e.user = c.user}

Near(c) == {e \in Live : jaccard(e.user, c.user) >= SEMANTIC_THRESHOLD}

Semantic(c) == {e \in Near(c) : e.system = c.system}

\* The closest of the hits, the first in the Map's order among equals.
Best(c, hits) == CHOOSE e \in hits : \A f \in hits :
    LET se == jaccard(e.user, c.user)
        sf == jaccard(f.user, c.user)
    IN  se > sf \/ (se = sf /\ e.at <= f.at)

\* The hits of a call, as the set of the (at most one) entry that get() returns.
cacheGet_bug(c) ==
    IF Exact(c) # {} THEN Exact(c)
    ELSE IF Near(c) # {} THEN {Best(c, Near(c))} ELSE {}

cacheGet(c) ==
    IF Exact(c) # {} THEN Exact(c)
    ELSE IF Semantic(c) # {} THEN {Best(c, Semantic(c))} ELSE {}

\* The place after all of these entries'.
After(entries) == 1 + Max({e.at : e \in entries} \cup {0})

\* get() drops the expired entries and moves an exact hit to the end.
Refreshed(c) ==
    LET others == Live \ Exact(c) IN others \cup {[e EXCEPT !.at = After(others)] : e \in Exact(c)}

\* put() replaces the entry of the same key and drops the first one of too many.
cachePut(c, text) ==
    LET others == {e \in cache : ~(e.system = c.system /\ e.user = c.user)}
        all    == others \cup {[system |-> c.system, user |-> c.user, text |-> text,
                                expiresAt |-> now + DAY, at |-> After(others)]}
        first  == {e \in all : \A f \in all : e.at <= f.at}
    IN  IF Cardinality(all) > MAX_ENTRIES THEN all \ first ELSE all

-----------------------------------------------------------------------------
Init ==
    /\ mode \in [Attempts -> Modes]
    /\ counter = [s \in Scopes |-> [spent |-> 0, start |-> IF s = "global" THEN 0 ELSE -MONTH]]
    /\ breakerUntil = 0
    /\ errors = 0
    /\ cache = {}
    /\ call = [h \in Handlers |-> Idle]
    /\ logged = [a \in Attempts |-> [h \in Handlers |-> 0]]
    /\ billed = [a \in Attempts |-> [h \in Handlers |-> 0]]
    /\ now = 0
    /\ questions = 0
    /\ deaths = 0

\* LlmGatewayService.call up to its first await: the cache, then the budget.
\* A degraded response ends the request: the mentor points at the authored
\* hints and writes no event.
callGateway(h, c) ==
    LET hits == cacheGet(c) IN
    /\ cache' = Refreshed(c)
    /\ call' = [call EXCEPT ![h] =
         IF hits # {}
         THEN [c EXCEPT !.pc = "answer", !.text = (CHOOSE e \in hits : TRUE).text]
         ELSE IF checkOrThrow(c) THEN [c EXCEPT !.pc = "provider"] ELSE Idle]
    /\ questions' = questions + 1
    /\ UNCHANGED <<mode, ledger, logged, billed, now, deaths>>

Asking(h) == call[h].pc = "idle" /\ questions < MaxQuestions

\* MentorService.reply up to the gateway.  The system prompt holds the attempt's
\* id, the moment its state was summarised, the ceiling, and the canonical path
\* where the ceiling allows it.
reply(h) ==
    \E a \in Attempts, q \in Questions, s \in SignalsSeen :
      LET d == resolveDisclosure(mode[a], s)
          system == [attempt |-> a, at |-> now, ceiling |-> d.ceiling, path |-> d.mayUseCanonicalPath]
      IN
      /\ Asking(h)
      /\ callGateway(h, [pc |-> "call", kind |-> "mentor", attempt |-> a, disclosure |-> d, hintLevel |-> s.hintLevel,
                         system |-> system, user |-> redact(q), next |-> 1, text |-> {}, cost |-> 0])

\* A message that reads as an injection is logged and refused, one that is off
\* topic only refused; neither reaches the gateway.
refuse(h) ==
    /\ Asking(h)
    /\ \E markers \in SUBSET Markers : classifyIntent(markers) \in {"injection", "off_topic"}
    /\ questions' = questions + 1
    /\ UNCHANGED <<mode, ledger, cache, call, logged, billed, now, deaths>>

AuthoringPrompt == [attempt |-> "none", at |-> 0, ceiling |-> GiveCommand, path |-> FALSE]

\* AuthoringAssistantService.draft: the prompt is the same for every author.
draft(h) ==
    /\ Asking(h)
    /\ callGateway(h, [pc |-> "call", kind |-> "draft", attempt |-> "none",
                       disclosure |-> [ceiling |-> GiveCommand], hintLevel |-> 0, system |-> AuthoringPrompt,
                       user |-> "topic", next |-> 1, text |-> {}, cost |-> 0])

\* What a provider may answer: anything it makes up, and the diagnostic path if
\* it has read that in the prompt.
Answers(c) ==
    IF c.kind = "draft" THEN {{}}
    ELSE {text \ (IF c.system.path THEN {} ELSE {"path"}) : text \in TextsSeen}

complete(h) ==
    LET c == call[h] IN
    /\ c.pc = "provider"
    /\ \E text \in Answers(c), cost \in Costs[c.kind] :
         /\ charge(c, cost)
         /\ cache' = cachePut(c, text)
         /\ call' = [call EXCEPT ![h] = [c EXCEPT !.pc = "answer", !.text = text, !.cost = cost]]
         /\ billed' = IF c.kind = "mentor" THEN [billed EXCEPT ![c.attempt][h] = @ + cost] ELSE billed
    /\ UNCHANGED <<mode, logged, now, questions, deaths>>

\* The call failed or timed out: the next provider, or a degraded response.
providerFails_bug(h) ==
    LET c == call[h] IN
    /\ c.pc = "provider"
    /\ noteProviderError
    /\ call' = [call EXCEPT ![h] =
         IF c.next = Len(Providers) THEN [c EXCEPT !.pc = "degraded"] ELSE [c EXCEPT !.next = @ + 1]]
    /\ UNCHANGED <<mode, cache, logged, billed, now, questions, deaths>>

providerFails(h) ==
    LET c == call[h] IN
    /\ c.pc = "provider"
    /\ noteProviderError
    /\ call' = [call EXCEPT ![h] =
         IF c.next = Len(Providers) THEN Idle ELSE [c EXCEPT !.next = @ + 1]]
    /\ UNCHANGED <<mode, cache, logged, billed, now, questions, deaths>>

\* What the guardrail leaves of a mentor's text.
Shown(h) == checkOutput(call[h].text, call[h].disclosure)

\* The AI_MESSAGE event, and the reply: Shown(h) to a learner, the draft as it
\* is to an author.
answer(h) ==
    LET c == call[h] IN
    /\ c.pc = "answer"
    /\ call' = [call EXCEPT ![h] = Idle]
    /\ logged' = IF c.kind = "mentor" THEN [logged EXCEPT ![c.attempt][h] = @ + c.cost] ELSE logged
    /\ UNCHANGED <<mode, ledger, cache, billed, now, questions, deaths>>

\* The event could not be appended: reply() rejects, after the money is spent.
appendFails(h) ==
    /\ call[h].pc = "answer" /\ call[h].kind = "mentor"
    /\ deaths < MaxDeaths
    /\ deaths' = deaths + 1
    /\ call' = [call EXCEPT ![h] = Idle]
    /\ UNCHANGED <<mode, ledger, cache, logged, billed, now, questions>>

Tick ==
    /\ now < MaxNow
    /\ now' = now + 1
    /\ UNCHANGED <<mode, ledger, cache, call, logged, billed, questions, deaths>>

Ask(h) == reply(h) \/ refuse(h) \/ draft(h)
Work(h) == complete(h) \/ providerFails(h) \/ answer(h) \/ appendFails(h)

Next == Tick \/ \E h \in Handlers : Ask(h) \/ Work(h)

\* Every provider call ends (the SDKs time out after 30 s and two retries) and
\* the event loop gets to every continuation.
Spec == Init /\ [][Next]_vars /\ \A h \in Handlers : WF_vars(Work(h))

-----------------------------------------------------------------------------
(* Properties *)

InFlight(s) == {h \in Handlers : call[h].pc = "provider" /\ s \in ScopesOf(call[h])}
MaxCost == Max(UNION {Costs[k] : k \in Kinds})
MinEst == Min({EstCost[k] : k \in Kinds})

Replying == {h \in Handlers : call[h].pc = "answer" /\ call[h].kind = "mentor"}

\* What a reply that is not yet an event has cost.
Unreported(a, h) == IF h \in Replying /\ call[h].attempt = a THEN call[h].cost ELSE 0

\* budget-ledger.ts, checkOrThrow and charge, and the AI_MESSAGE event of
\* mentor.service.ts: the check reserves nothing, so the requests in flight can
\* together pass a limit none of them would pass alone, but never by more than
\* one reply each; and what the events of an attempt say it cost is what the
\* providers charged for it, unless an append failed.
SpendIsAccounted ==
    /\ \A s \in Scopes :
         Spent(s) + Cardinality(InFlight(s)) * MaxCost
             <= Limit[s] - MinEst + Cardinality(Handlers) * MaxCost
    /\ \A a \in Attempts, h \in Handlers :
         LET reported == logged[a][h] + Unreported(a, h)
         IN  reported <= billed[a][h] /\ (deaths = 0 => reported = billed[a][h])

\* disclosure-policy.ts, output-guardrail.ts and canonicalPath of
\* mentor.service.ts: whatever a model writes, and though replies are cached and
\* served to others, a learner outside a guided lab is shown no code block, no
\* command in a form the guardrail's patterns know and no resource they have
\* named in that form themselves, and the diagnostic path only reaches a reply
\* whose ceiling allows it.  The forms the patterns do not know get through.
ShownWithinCeiling ==
    \A h \in Replying :
        /\ mode[call[h].attempt] # "GUIDED_LAB" => Shown(h) \cap (Fences \cup KnownCommands \cup {"typed"}) = {}
        /\ "path" \in Shown(h) => call[h].disclosure.ceiling >= IdentifyArea

\* llm-gateway.service.ts, call: every question is answered or degraded; a
\* provider that is down never blocks the learner.
EveryQuestionEnds == \A h \in Handlers : call[h].pc # "idle" ~> call[h].pc = "idle"

\* disclosure-policy.ts, "GUIDED_LAB: GiveCommand only after hint level 3": a
\* learner is only shown a command the guardrail knows once the ladder is that
\* deep.  Not so: low mastery and ten minutes without progress also do it.
CommandsNeedHints ==
    \A h \in Replying : Shown(h) \cap KnownCommands # {} => call[h].hintLevel >= 3
=============================================================================
