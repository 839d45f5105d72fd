----------------------------- MODULE Llm_proofs -----------------------------
(***************************************************************************)
(* The two parts that let a language model speak: what the mentor shows    *)
(* and what it spends, for any number of requests in flight, attempts and  *)
(* providers and any limits and costs, and what the rubric grader reports, *)
(* for any rubric and any samples.                                         *)
(***************************************************************************)
EXTENDS Mentor, Grader, FiniteSetTheorems, WellFoundedInduction, TLAPS

-----------------------------------------------------------------------------
\* The constants.

LEMMA LargestCost ==
  MaxCost \in Nat /\ \A k \in Kinds : Costs[k] \subseteq 0 .. MaxCost
<1> DEFINE all == UNION {Costs[k] : k \in Kinds}
<1>1. all = Costs["mentor"] \cup Costs["draft"]
  BY DEF Kinds
<1>2. PICK most \in all : \A k \in Kinds : Costs[k] \subseteq 0 .. most
  BY <1>1, MentorAssumption
<1>3. \A x \in all : x \in Nat /\ most >= x
  BY <1>2
<1>4. \E x \in all : \A y \in all : x >= y
  BY <1>3
<1>5. MaxCost \in all /\ \A y \in all : MaxCost >= y
  <2> HIDE DEF all
  <2>1. MaxCost = CHOOSE x \in all : \A y \in all : x >= y
    BY DEF MaxCost, Max, all
  <2> QED BY <1>4, <2>1
<1>6. QED BY <1>3, <1>5

LEMMA SmallestEstimate ==
  MinEst \in Nat /\ (\A k \in Kinds : MinEst <= EstCost[k]) /\ (\A s \in Scopes : Limit[s] \in Nat /\ MinEst <= Limit[s])
<1> DEFINE all == {EstCost[k] : k \in Kinds}
           Least(x) == \A y \in all : x <= y
<1>1. \A k \in Kinds : EstCost[k] \in Nat /\ EstCost[k] \in all
  BY MentorAssumption
<1>2. all = {EstCost["mentor"], EstCost["draft"]}
  BY DEF Kinds
<1>3. \E x \in all : Least(x)
  <2>1. CASE EstCost["mentor"] <= EstCost["draft"]
    BY <1>1, <1>2, <2>1 DEF Kinds
  <2>2. CASE EstCost["draft"] <= EstCost["mentor"]
    BY <1>1, <1>2, <2>2 DEF Kinds
  <2>3. QED BY <1>1, <2>1, <2>2 DEF Kinds
<1>4. MinEst \in all /\ Least(MinEst)
  <2>1. MinEst = CHOOSE x \in all : Least(x)
    BY DEF MinEst, Min
  <2> HIDE DEF Least, all
  <2> QED BY <1>3, <2>1
<1>5. MinEst \in Nat /\ \A k \in Kinds : MinEst <= EstCost[k]
  BY <1>1, <1>4
<1>6. QED BY <1>1, <1>5, MentorAssumption

-----------------------------------------------------------------------------
\* The disclosure policy.

LEMMA CeilingWithinMode ==
  ASSUME NEW m \in Modes, NEW s \in Signals
  PROVE  LET d == resolveDisclosure(m, s) IN
         /\ d.ceiling \in Int /\ d.ceiling <= MODE_MAX(m)
         /\ d.mayUseCanonicalPath = (d.ceiling >= IdentifyArea)
<1> DEFINE all == {Raised(m, s), s.override, MODE_MAX(m), GiveCommand}
           Least(x) == \A y \in all : x <= y
<1>1. Raised(m, s) \in Int
  BY DEF Raised, BaseCeiling, Modes, Signals, GiveCommand, IdentifyArea, NarrowSearch, ConceptOnly
<1>2. s.override \in Int
  BY DEF Signals, ConceptOnly, GiveCommand
<1>3. MODE_MAX(m) \in Int /\ GiveCommand \in Int
  BY DEF MODE_MAX, Modes, GiveCommand, IdentifyArea, NarrowSearch
<1>4. \A a, b, c, d \in Int : \E x \in {a, b, c, d} : \A y \in {a, b, c, d} : x <= y
  OBVIOUS
<1>5. \E x \in all : Least(x)
  BY ONLY <1>1, <1>2, <1>3, <1>4
<1>6. Min(all) \in all /\ Least(Min(all))
  <2>1. Min(all) = CHOOSE x \in all : Least(x)
    BY DEF Min
  <2> HIDE DEF Least, all
  <2> QED BY <1>5, <2>1
<1>7. Min(all) \in Int /\ Min(all) <= MODE_MAX(m)
  BY <1>1, <1>2, <1>3, <1>6
<1>8. QED BY <1>7 DEF resolveDisclosure

\* Outside a guided lab the guardrail takes every code block, every command and
\* every name of the learner's own in a form it knows out of the text.
LEMMA GuardrailHolds ==
  ASSUME NEW m \in Modes, NEW s \in Signals, m # "GUIDED_LAB", NEW text
  PROVE  checkOutput(text, resolveDisclosure(m, s)) \cap (Fences \cup KnownCommands \cup {"typed"}) = {}
<1> DEFINE d == resolveDisclosure(m, s)
<1>1. d.ceiling \in Int /\ d.ceiling <= 2
  BY CeilingWithinMode DEF MODE_MAX, Modes, NarrowSearch, IdentifyArea
<1>2. d.ceiling < GiveCommand /\ d.ceiling < IdentifyCause
  BY <1>1 DEF GiveCommand, IdentifyCause
<1>3. d.maxCodeLines = 0
  BY DEF resolveDisclosure, MODE_MAX_CODE_LINES
<1> HIDE DEF d
<1>4. \A x : FenceLines(x) > d.maxCodeLines
  BY <1>3 DEF FenceLines
<1>5. QED BY <1>2, <1>4 DEF checkOutput, d
-----------------------------------------------------------------------------
\* The cache.

LEMMA LeastNatural ==
  ASSUME NEW S \in SUBSET Nat, S # {}
  PROVE  \E x \in S : \A y \in S : x <= y
<1> DEFINE U == {0 .. x : x \in S}
<1>1. \A x \in S : 0 .. x \in FiniteSubsetsOf(Nat)
  BY FS_Interval DEF FiniteSubsetsOf
<1>2. U \subseteq FiniteSubsetsOf(Nat) /\ U # {}
  BY <1>1
<1>3. PICK u \in U : \A v \in U : ~(<<v, u>> \in StrictSubsetOrdering(Nat))
  <2> HIDE DEF U
  <2> QED BY <1>2, WFMin, FS_StrictSubsetOrderingWellFounded
<1>4. PICK x \in S : u = 0 .. x
  OBVIOUS
<1>5. ASSUME NEW y \in S, y < x PROVE FALSE
  <2>1. 0 .. y \subseteq 0 .. x /\ x \in 0 .. x /\ x \notin 0 .. y
    BY <1>5
  <2>2. <<0 .. y, 0 .. x>> \in StrictSubsetOrdering(Nat)
    BY <2>1, <1>1 DEF StrictSubsetOrdering, FiniteSubsetsOf
  <2>3. QED BY <1>3, <1>4, <2>2
<1>6. QED BY <1>5


LEMMA GreatestNatural ==
  ASSUME NEW S \in SUBSET Nat, 0 \in S, NEW n \in Nat, \A y \in S : y <= n
  PROVE  Max(S) \in S /\ \A y \in S : y <= Max(S)
<1> DEFINE U == {k \in Nat : \A y \in S : y <= k}
<1>1. PICK u \in U : \A v \in U : u <= v
  BY LeastNatural
<1>2. u \in S
  <2> SUFFICES ASSUME u \notin S PROVE FALSE
    OBVIOUS
  <2>1. \A y \in S : y <= u - 1
    OBVIOUS
  <2>2. u - 1 \in U
    BY <2>1
  <2>3. QED BY <1>1, <2>2
<1>3. \E x \in S : \A y \in S : x >= y
  BY <1>2
<1>4. Max(S) = CHOOSE x \in S : \A y \in S : x >= y
  BY DEF Max
<1>5. QED BY <1>3, <1>4

EntryFields == {"system", "user", "text", "expiresAt", "at"}

\* An entry has its place in the order, and its text holds the diagnostic path
\* only where its prompt did.
Entry(e) == DOMAIN e = EntryFields /\ e.at \in Nat /\ ("path" \in e.text => e.system.path)

Entries(S) == (\A e \in S : Entry(e)) /\ \E n \in Nat : \A e \in S : e.at <= n

CacheOK == Entries(cache)

LEMMA PlaceIsNatural ==
  ASSUME NEW S, Entries(S)
  PROVE  After(S) \in Nat
<1> DEFINE places == {e.at : e \in S} \cup {0}
<1>1. places \in SUBSET Nat /\ 0 \in places
  BY DEF Entries, Entry
<1>2. PICK n \in Nat : \A e \in S : e.at <= n
  BY DEF Entries
<1>3. \A y \in places : y <= n
  BY <1>2
<1> HIDE DEF places
<1>4. Max(places) \in Nat
  BY <1>1, <1>3, GreatestNatural
<1>5. QED BY <1>4 DEF After, places

\* A hit was cached under the prompt of the call it answers.
LEMMA HitHasSamePrompt ==
  ASSUME CacheOK, NEW c, NEW e \in cacheGet(c)
  PROVE  e \in cache /\ e.system = c.system
<1>1. CASE Exact(c) # {}
  BY <1>1 DEF cacheGet, Exact, Live
<1>2. CASE Exact(c) = {} /\ Semantic(c) # {}
  <2> DEFINE hits == Semantic(c)
             close(f) == jaccard(f.user, c.user)
             best(f) == \A g \in hits : close(f) > close(g) \/ (close(f) = close(g) /\ f.at <= g.at)
  <2>1. PICK top \in hits : \A g \in hits : close(g) <= close(top)
    BY <1>2 DEF jaccard
  <2> DEFINE places == {f.at : f \in {g \in hits : close(g) = close(top)}}
  <2>2. \A f \in hits : f.at \in Nat /\ close(f) \in Nat
    BY DEF Semantic, Near, Live, CacheOK, Entries, Entry, jaccard
  <2> HIDE DEF hits, close
  <2>3. places \in SUBSET Nat /\ places # {}
    BY <2>2
  <2>4. PICK n \in places : \A k \in places : n <= k
    BY <2>3, LeastNatural
  <2>5. PICK f \in hits : close(f) = close(top) /\ f.at = n
    BY <2>4
  <2>6. best(f)
    BY <2>1, <2>2, <2>4, <2>5
  <2>7. Best(c, hits) = CHOOSE g \in hits : best(g)
    BY DEF Best, close
  <2> HIDE DEF best
  <2>8. Best(c, hits) \in hits
    BY <2>6, <2>7
  <2>9. e = Best(c, hits)
    BY <1>2 DEF cacheGet, hits
  <2>10. QED BY <2>8, <2>9 DEF hits, Semantic, Near, Live
<1>3. QED BY <1>1, <1>2 DEF cacheGet

LEMMA RefreshKeepsEntries ==
  ASSUME CacheOK, NEW c
  PROVE  Entries(Refreshed(c))
<1> DEFINE others == Live \ Exact(c)
           moved  == {[e EXCEPT !.at = After(others)] : e \in Exact(c)}
<1>1. others \subseteq cache /\ Exact(c) \subseteq cache
  BY DEF Live, Exact
<1>2. Entries(others)
  BY <1>1 DEF CacheOK, Entries
<1>3. After(others) \in Nat
  BY <1>2, PlaceIsNatural
<1> DEFINE p == After(others)
<1> HIDE DEF p, others
<1>4. ASSUME NEW e \in Exact(c) PROVE Entry([e EXCEPT !.at = p]) /\ [e EXCEPT !.at = p].at = p
  BY <1>1, <1>3 DEF p, CacheOK, Entries, Entry, EntryFields
<1>5. Refreshed(c) = others \cup {[e EXCEPT !.at = p] : e \in Exact(c)}
  BY DEF Refreshed, p, others
<1>6. PICK n \in Nat : \A e \in others : e.at <= n
  BY <1>2 DEF Entries
<1>7. PICK m \in Nat : n <= m /\ p <= m
  BY <1>3 DEF p
<1>8. \A e \in others : e.at <= m
  BY <1>2, <1>6, <1>7 DEF Entries, Entry
<1>9. \A e \in Refreshed(c) : Entry(e) /\ e.at <= m
  BY <1>2, <1>4, <1>5, <1>7, <1>8 DEF Entries
<1>10. QED BY <1>9 DEF Entries

LEMMA PutKeepsEntries ==
  ASSUME CacheOK, NEW c, NEW text, "path" \in text => c.system.path
  PROVE  Entries(cachePut(c, text))
<1> DEFINE others == {e \in cache : ~(e.system = c.system /\ e.user = c.user)}
           p == After(others)
           new == [system |-> c.system, user |-> c.user, text |-> text, expiresAt |-> now + DAY, at |-> p]
<1>1. others \subseteq cache
  OBVIOUS
<1>2. Entries(others)
  BY <1>1 DEF CacheOK, Entries
<1> HIDE DEF others
<1>3. p \in Nat
  BY <1>2, PlaceIsNatural
<1> HIDE DEF p
<1>4. Entry(new) /\ new.at = p
  BY <1>3 DEF Entry, EntryFields
<1>5. PICK n \in Nat : \A e \in others : e.at <= n
  BY <1>2 DEF Entries
<1>6. PICK m \in Nat : n <= m /\ p <= m
  BY <1>3
<1>7. \A e \in others : e.at <= m
  BY <1>2, <1>5, <1>6 DEF Entries, Entry
<1>8. cachePut(c, text) \subseteq others \cup {new}
  BY DEF cachePut, others, p
<1> HIDE DEF new
<1>9. \A e \in cachePut(c, text) : Entry(e) /\ e.at <= m
  BY <1>2, <1>4, <1>6, <1>7, <1>8 DEF Entries
<1>10. QED BY <1>9 DEF Entries

-----------------------------------------------------------------------------
\* What a reply may show.

CallFields == {"pc", "kind", "attempt", "disclosure", "hintLevel", "system", "user", "next", "text", "cost"}

\* A request keeps the ceiling of its attempt's mode, and its text holds the
\* diagnostic path only where its own prompt did.
Request(c) ==
    /\ DOMAIN c = CallFields /\ c.kind \in Kinds /\ c.cost \in Nat
    /\ c.kind = "mentor" =>
         /\ c.attempt \in Attempts
         /\ \E s \in Signals : c.disclosure = resolveDisclosure(mode[c.attempt], s)
         /\ c.system.path = (c.disclosure.ceiling >= IdentifyArea)
    /\ "path" \in c.text => c.system.path

CallOK(h) == call[h] = Idle \/ (call[h].pc \in {"provider", "answer"} /\ Request(call[h]))

PromptInv ==
    /\ mode \in [Attempts -> Modes]
    /\ DOMAIN call = Handlers /\ call = [h \in Handlers |-> call[h]]
    /\ \A h \in Handlers : CallOK(h)
    /\ CacheOK

\* A request that stays a request: its kind, attempt, ceiling and prompt are
\* those it was made with.
LEMMA RequestGoesOn ==
  ASSUME NEW c, Request(c), NEW d, DOMAIN d = DOMAIN c, d.cost \in Nat,
         d.kind = c.kind, d.attempt = c.attempt, d.disclosure = c.disclosure, d.system = c.system,
         "path" \in d.text => c.system.path, mode' = mode
  PROVE  Request(d)'
BY DEF Request

\* A step of one handler that keeps its request, or ends it.
LEMMA StepKeepsPrompts ==
  ASSUME PromptInv, mode' = mode, CacheOK', NEW h \in Handlers, NEW d,
         call' = [call EXCEPT ![h] = d], d = Idle \/ (d.pc \in {"provider", "answer"} /\ Request(d)')
  PROVE  PromptInv'
<1>1. DOMAIN call' = Handlers /\ call' = [k \in Handlers |-> call'[k]]
  BY DEF PromptInv
<1>2. call'[h] = d /\ \A k \in Handlers : k # h => call'[k] = call[k]
  BY DEF PromptInv
<1>3. ASSUME NEW k \in Handlers PROVE CallOK(k)'
  <2>1. CASE k = h
    BY <1>2, <2>1 DEF CallOK
  <2>2. CASE k # h
    <3>1. CallOK(k) /\ call'[k] = call[k]
      BY <1>2, <2>2 DEF PromptInv
    <3>2. QED BY <3>1 DEF CallOK, Request
  <2>3. QED BY <2>1, <2>2
<1>4. QED BY <1>1, <1>3 DEF PromptInv

LEMMA GatewayKeepsPrompts ==
  ASSUME PromptInv, NEW h \in Handlers, NEW c, Request(c), callGateway(h, c)
  PROVE  PromptInv'
<1> DEFINE hits == cacheGet(c)
           e == CHOOSE x \in hits : TRUE
<1>1. PICK d : d = IF hits # {} THEN [c EXCEPT !.pc = "answer", !.text = e.text]
                   ELSE IF checkOrThrow(c) THEN [c EXCEPT !.pc = "provider"] ELSE Idle
  OBVIOUS
<1>2. mode' = mode /\ call' = [call EXCEPT ![h] = d] /\ cache' = Refreshed(c)
  BY <1>1 DEF callGateway
<1>3. CacheOK'
  BY <1>2, RefreshKeepsEntries DEF PromptInv, CacheOK
<1>4. DOMAIN c = CallFields /\ c.cost \in Nat /\ ("path" \in c.text => c.system.path)
  BY DEF Request
<1>5. CASE hits # {}
  <2>1. e \in hits
    BY <1>5
  <2>2. e \in cache /\ e.system = c.system
    BY <2>1, HitHasSamePrompt DEF PromptInv
  <2>3. "path" \in e.text => c.system.path
    BY <2>2 DEF PromptInv, CacheOK, Entries, Entry
  <2>4. d = [c EXCEPT !.pc = "answer", !.text = e.text]
    BY <1>1, <1>5
  <2> HIDE DEF e
  <2>5. /\ DOMAIN d = DOMAIN c /\ d.pc = "answer" /\ d.text = e.text /\ d.cost = c.cost /\ d.kind = c.kind
        /\ d.attempt = c.attempt /\ d.disclosure = c.disclosure /\ d.system = c.system
    BY <1>4, <2>4 DEF CallFields
  <2>6. Request(d)'
    BY <1>2, <1>4, <2>3, <2>5, RequestGoesOn
  <2>7. QED BY <1>2, <1>3, <2>5, <2>6, StepKeepsPrompts
<1>6. CASE hits = {} /\ checkOrThrow(c)
  <2>1. d = [c EXCEPT !.pc = "provider"]
    BY <1>1, <1>6
  <2>2. /\ DOMAIN d = DOMAIN c /\ d.pc = "provider" /\ d.text = c.text /\ d.cost = c.cost /\ d.kind = c.kind
        /\ d.attempt = c.attempt /\ d.disclosure = c.disclosure /\ d.system = c.system
    BY <1>4, <2>1 DEF CallFields
  <2>3. Request(d)'
    BY <1>2, <1>4, <2>2, RequestGoesOn
  <2>4. QED BY <1>2, <1>3, <2>2, <2>3, StepKeepsPrompts
<1>7. CASE hits = {} /\ ~checkOrThrow(c)
  <2>1. d = Idle
    BY <1>1, <1>7
  <2>2. QED BY <1>2, <1>3, <2>1, StepKeepsPrompts
<1>8. QED BY <1>5, <1>6, <1>7

\* The request that reply() makes.
Question(a, q, s) ==
    LET d == resolveDisclosure(mode[a], s)
        system == [attempt |-> a, at |-> now, ceiling |-> d.ceiling, path |-> d.mayUseCanonicalPath]
    IN  [pc |-> "call", kind |-> "mentor", attempt |-> a, disclosure |-> d, hintLevel |-> s.hintLevel,
         system |-> system, user |-> redact(q), next |-> 1, text |-> {}, cost |-> 0]

LEMMA ReplyAsks ==
  ASSUME PromptInv, NEW h \in Handlers, reply(h)
  PROVE  \E c : Request(c) /\ c.text = {} /\ c.cost = 0 /\ callGateway(h, c)
<1>1. PICK a \in Attempts, q \in Questions, s \in SignalsSeen : callGateway(h, Question(a, q, s))
  BY DEF reply, Question
<1>2. s \in Signals /\ mode[a] \in Modes
  BY MentorAssumption DEF PromptInv
<1> DEFINE d == resolveDisclosure(mode[a], s)
           c == Question(a, q, s)
<1>3. d.mayUseCanonicalPath = (d.ceiling >= IdentifyArea)
  BY <1>2, CeilingWithinMode
<1>4. /\ DOMAIN c = CallFields /\ c.kind = "mentor" /\ c.attempt = a /\ c.cost = 0 /\ c.text = {}
      /\ c.disclosure = d /\ c.system.path = d.mayUseCanonicalPath
  BY DEF Question, CallFields
<1> HIDE DEF c, d
<1>5. Request(c)
  BY <1>2, <1>3, <1>4 DEF Request, Kinds, d
<1>6. QED BY <1>1, <1>4, <1>5 DEF c

Topic == [pc |-> "call", kind |-> "draft", attempt |-> "none",
          disclosure |-> [ceiling |-> GiveCommand], hintLevel |-> 0, system |-> AuthoringPrompt,
          user |-> "topic", next |-> 1, text |-> {}, cost |-> 0]

LEMMA DraftAsks ==
  ASSUME NEW h \in Handlers, draft(h)
  PROVE  \E c : Request(c) /\ c.text = {} /\ c.cost = 0 /\ callGateway(h, c)
<1>1. callGateway(h, Topic)
  BY DEF draft, Topic
<1>2. Topic.text = {} /\ Topic.cost = 0 /\ Topic.kind = "draft" /\ DOMAIN Topic = CallFields
  BY DEF Topic, CallFields
<1>3. Request(Topic)
  BY <1>2 DEF Request, Kinds
<1>4. QED BY <1>1, <1>2, <1>3

LEMMA CompleteKeepsPrompts ==
  ASSUME PromptInv, NEW h \in Handlers, complete(h)
  PROVE  PromptInv'
<1>1. PICK c : c = call[h]
  OBVIOUS
<1>2. PICK text \in Answers(c), cost \in Costs[c.kind] :
        /\ cache' = cachePut(c, text)
        /\ call' = [call EXCEPT ![h] = [c EXCEPT !.pc = "answer", !.text = text, !.cost = cost]]
        /\ mode' = mode
  BY <1>1 DEF complete
<1>3. c.pc = "provider" /\ Request(c)
  BY <1>1 DEF complete, PromptInv, CallOK, Idle
<1>4. DOMAIN c = CallFields /\ c.kind \in Kinds
  BY <1>3 DEF Request
<1>5. cost \in Nat
  BY <1>4, LargestCost
<1>6. "path" \in text => c.system.path
  BY DEF Answers
<1>7. CacheOK'
  BY <1>2, <1>6, PutKeepsEntries DEF PromptInv, CacheOK
<1>8. PICK d : d = [c EXCEPT !.pc = "answer", !.text = text, !.cost = cost]
  OBVIOUS
<1>9. /\ DOMAIN d = DOMAIN c /\ d.pc = "answer" /\ d.text = text /\ d.cost = cost /\ d.kind = c.kind
      /\ d.attempt = c.attempt /\ d.disclosure = c.disclosure /\ d.system = c.system
  BY <1>4, <1>8 DEF CallFields
<1>10. Request(d)'
  BY <1>2, <1>3, <1>5, <1>6, <1>9, RequestGoesOn
<1>11. QED BY <1>2, <1>7, <1>8, <1>9, <1>10, StepKeepsPrompts

LEMMA FailureKeepsPrompts ==
  ASSUME PromptInv, NEW h \in Handlers, providerFails(h)
  PROVE  PromptInv'
<1>1. PICK c : c = call[h]
  OBVIOUS
<1>2. PICK d : d = IF c.next = Len(Providers) THEN Idle ELSE [c EXCEPT !.next = @ + 1]
  OBVIOUS
<1>3. call' = [call EXCEPT ![h] = d] /\ mode' = mode /\ cache' = cache
  BY <1>1, <1>2 DEF providerFails
<1>4. CacheOK'
  BY <1>3 DEF PromptInv, CacheOK
<1>5. c.pc = "provider" /\ Request(c)
  BY <1>1 DEF providerFails, PromptInv, CallOK, Idle
<1>6. CASE c.next = Len(Providers)
  BY <1>2, <1>3, <1>4, <1>6, StepKeepsPrompts
<1>7. CASE c.next # Len(Providers)
  <2>1. DOMAIN c = CallFields /\ c.cost \in Nat /\ ("path" \in c.text => c.system.path)
    BY <1>5 DEF Request
  <2>2. d = [c EXCEPT !.next = @ + 1]
    BY <1>2, <1>7
  <2>3. /\ DOMAIN d = DOMAIN c /\ d.pc = c.pc /\ d.text = c.text /\ d.cost = c.cost /\ d.kind = c.kind
        /\ d.attempt = c.attempt /\ d.disclosure = c.disclosure /\ d.system = c.system
    BY <2>1, <2>2 DEF CallFields
  <2>4. Request(d)'
    BY <1>3, <1>5, <2>1, <2>3, RequestGoesOn
  <2>5. QED BY <1>3, <1>4, <1>5, <2>3, <2>4, StepKeepsPrompts
<1>8. QED BY <1>6, <1>7

LEMMA EndKeepsPrompts ==
  ASSUME PromptInv, NEW h \in Handlers, answer(h) \/ appendFails(h)
  PROVE  PromptInv'
<1>1. call' = [call EXCEPT ![h] = Idle] /\ mode' = mode /\ cache' = cache
  BY DEF answer, appendFails
<1>2. CacheOK'
  BY <1>1 DEF PromptInv, CacheOK
<1>3. QED BY <1>1, <1>2, StepKeepsPrompts

LEMMA StillKeepsPrompts ==
  ASSUME PromptInv, UNCHANGED <<mode, call, cache>>
  PROVE  PromptInv'
BY DEF PromptInv, CallOK, Request, CacheOK

LEMMA PromptStep == PromptInv /\ [Next]_vars => PromptInv'
<1> SUFFICES ASSUME PromptInv, [Next]_vars PROVE PromptInv'
  OBVIOUS
<1>1. CASE Tick \/ UNCHANGED vars
  BY <1>1, StillKeepsPrompts DEF Tick, vars
<1>2. ASSUME NEW h \in Handlers, Ask(h) \/ Work(h) PROVE PromptInv'
  <2>1. CASE reply(h)
    BY <2>1, ReplyAsks, GatewayKeepsPrompts
  <2>2. CASE refuse(h)
    BY <2>2, StillKeepsPrompts DEF refuse
  <2>3. CASE draft(h)
    BY <2>3, DraftAsks, GatewayKeepsPrompts
  <2>4. CASE complete(h)
    BY <2>4, CompleteKeepsPrompts
  <2>5. CASE providerFails(h)
    BY <2>5, FailureKeepsPrompts
  <2>6. CASE answer(h) \/ appendFails(h)
    BY <2>6, EndKeepsPrompts
  <2>7. QED BY <1>2, <2>1, <2>2, <2>3, <2>4, <2>5, <2>6 DEF Ask, Work
<1>3. QED BY <1>1, <1>2 DEF Next

LEMMA PromptInit == Init => PromptInv
<1> SUFFICES ASSUME Init PROVE PromptInv
  OBVIOUS
<1>1. CacheOK
  BY DEF Init, CacheOK, Entries
<1>2. QED BY <1>1 DEF Init, PromptInv, CallOK, Idle

LEMMA PromptsHold == Spec => []PromptInv
BY PromptInit, PromptStep, PTL DEF Spec

LEMMA PromptShows == PromptInv => ShownWithinCeiling
<1> SUFFICES ASSUME PromptInv, NEW h \in Replying
             PROVE  /\ mode[call[h].attempt] # "GUIDED_LAB" => Shown(h) \cap (Fences \cup KnownCommands \cup {"typed"}) = {}
                    /\ "path" \in Shown(h) => call[h].disclosure.ceiling >= IdentifyArea
  BY DEF ShownWithinCeiling
<1>1. h \in Handlers /\ call[h].pc = "answer" /\ call[h].kind = "mentor" /\ Request(call[h])
  BY DEF Replying, PromptInv, CallOK, Idle
<1>2. PICK s \in Signals : call[h].disclosure = resolveDisclosure(mode[call[h].attempt], s)
  BY <1>1 DEF Request
<1>3. mode[call[h].attempt] \in Modes
  BY <1>1 DEF Request, PromptInv
<1>4. mode[call[h].attempt] # "GUIDED_LAB" => Shown(h) \cap (Fences \cup KnownCommands \cup {"typed"}) = {}
  BY <1>2, <1>3, GuardrailHolds DEF Shown
<1>5. "path" \in Shown(h) => "path" \in call[h].text
  BY DEF Shown, checkOutput
<1>6. QED BY <1>1, <1>4, <1>5 DEF Request

\* disclosure-policy.ts, output-guardrail.ts and prompt-cache.ts: whatever the
\* models write, for any number of requests, attempts, prompts and cached
\* replies, a learner outside a guided lab is shown no code block, no command and
\* no name of their own in a form the guardrail's patterns know, and the
\* diagnostic path only reaches a reply whose ceiling allows it.
THEOREM ShownSafe == Spec => []ShownWithinCeiling
BY PromptsHold, PromptShows, PTL

-----------------------------------------------------------------------------
\* What is spent.

SpendTyped ==
    /\ now \in Nat /\ deaths \in Nat
    /\ counter \in [Scopes -> [spent : Nat, start : Int]]
    /\ logged \in [Attempts -> [Handlers -> Nat]]
    /\ billed \in [Attempts -> [Handlers -> Nat]]

\* The two halves of SpendIsAccounted, for a scope and for an attempt's handler.
Bounded(s) ==
    Spent(s) + Cardinality(InFlight(s)) * MaxCost <= Limit[s] - MinEst + Cardinality(Handlers) * MaxCost

Accounted(a, h) ==
    /\ logged[a][h] + Unreported(a, h) <= billed[a][h]
    /\ deaths = 0 => logged[a][h] + Unreported(a, h) = billed[a][h]

SpendInv ==
    /\ SpendTyped
    /\ \A s \in Scopes : Bounded(s)
    /\ \A a \in Attempts, h \in Handlers : Accounted(a, h)

LEMMA SpendIsInv == SpendInv => SpendIsAccounted
BY DEF SpendInv, SpendIsAccounted, Bounded, Accounted

LEMMA Products ==
  ASSUME NEW m \in Nat, NEW n \in Nat, NEW k \in Nat
  PROVE  /\ m * k \in Nat /\ (m <= n => m * k <= n * k)
         /\ (m + 1) * k = m * k + k
<1>1. m * k \in Nat /\ (m + 1) * k = m * k + k
  OBVIOUS
<1>2. ASSUME m <= n PROVE m * k <= n * k
  <2>1. PICK d \in Nat : n = m + d
    <3>1. n - m \in Nat /\ n = m + (n - m)
      BY <1>2
    <3>2. QED BY <3>1
  <2>2. n * k = m * k + d * k /\ d * k \in Nat
    BY <2>1
  <2>3. QED BY <1>1, <2>2
<1>3. QED BY <1>1, <1>2

LEMMA FewInFlight ==
  ASSUME NEW s
  PROVE  /\ IsFiniteSet(Handlers) /\ Cardinality(Handlers) \in Nat
         /\ IsFiniteSet(InFlight(s)) /\ Cardinality(InFlight(s)) \in Nat
         /\ Cardinality(InFlight(s)) <= Cardinality(Handlers)
<1>1. IsFiniteSet(Handlers)
  BY MentorAssumption
<1>2. InFlight(s) \in SUBSET Handlers
  BY DEF InFlight
<1>3. QED BY <1>1, <1>2, FS_Subset, FS_CardinalityType

LEMMA Windows ==
  ASSUME NEW s
  PROVE  Window(s) \in Nat \ {0}
BY MentorAssumption DEF Window

LEMMA SpentIsNatural ==
  ASSUME SpendTyped, NEW s \in Scopes
  PROVE  Spent(s) \in Nat
<1>1. counter[s] \in [spent : Nat, start : Int]
  BY DEF SpendTyped
<1>2. roll(counter[s], s).spent \in Nat
  BY <1>1 DEF roll
<1>3. QED BY <1>2 DEF Spent

\* Time only empties a window.
LEMMA TimeEmpties ==
  ASSUME SpendTyped, NEW s \in Scopes, counter' = counter, now' \in Nat, now <= now'
  PROVE  Spent(s)' <= Spent(s) /\ Spent(s)' \in Nat
<1>1. counter[s].spent \in Nat /\ counter[s].start \in Int /\ now \in Nat
  BY DEF SpendTyped
<1>2. Window(s)' = Window(s) /\ Window(s) \in Nat
  BY Windows DEF Window
<1>3. Spent(s) = IF now - counter[s].start >= Window(s) THEN 0 ELSE counter[s].spent
  BY DEF Spent, roll
<1>4. Spent(s)' = IF now' - counter[s].start >= Window(s) THEN 0 ELSE counter[s].spent
  BY <1>2 DEF Spent, roll
<1>5. now' - counter[s].start >= now - counter[s].start
  BY <1>1
<1>6. QED BY ONLY <1>1, <1>2, <1>3, <1>4, <1>5, now' \in Nat

\* charge() adds the cost to every scope of the call and leaves the others.
LEMMA ChargeAdds ==
  ASSUME SpendTyped, NEW c, NEW cost \in Nat, charge(c, cost), now' = now, NEW s \in Scopes
  PROVE  /\ Spent(s)' = IF s \in ScopesOf(c) THEN Spent(s) + cost ELSE Spent(s)
         /\ counter' \in [Scopes -> [spent : Nat, start : Int]]
<1>1. \A t \in Scopes : counter[t] \in [spent : Nat, start : Int]
  BY DEF SpendTyped
<1>2. now \in Nat
  BY DEF SpendTyped
<1>3. \A t \in Scopes : roll(counter[t], t) \in [spent : Nat, start : Int]
  BY <1>1, <1>2 DEF roll
<1>4. counter' = [t \in Scopes |-> IF t \in ScopesOf(c) THEN [roll(counter[t], t) EXCEPT !.spent = @ + cost]
                                   ELSE counter[t]]
  BY DEF charge
<1>5. ASSUME NEW t \in Scopes PROVE [roll(counter[t], t) EXCEPT !.spent = @ + cost] \in [spent : Nat, start : Int]
  BY <1>3
<1>6. counter' \in [Scopes -> [spent : Nat, start : Int]]
  BY <1>1, <1>4, <1>5
<1>7. CASE s \notin ScopesOf(c)
  <2>1. counter'[s] = counter[s]
    BY <1>4, <1>7
  <2>2. QED BY <1>6, <1>7, <2>1 DEF Spent, roll, Window
<1>8. CASE s \in ScopesOf(c)
  <2>1. counter'[s] = [roll(counter[s], s) EXCEPT !.spent = @ + cost]
    BY <1>4, <1>8
  <2>2. counter'[s].spent = Spent(s) + cost /\ counter'[s].start = roll(counter[s], s).start
    BY <1>3, <2>1 DEF Spent
  <2>3. ~(now - roll(counter[s], s).start >= Window(s))
    BY <1>1, <1>2, Windows DEF roll
  <2>4. Spent(s)' = counter'[s].spent
    BY <2>2, <2>3 DEF Spent, roll, Window
  <2>5. QED BY <1>6, <1>8, <2>2, <2>4
<1>9. QED BY <1>7, <1>8

\* No more calls in flight, no more spent: the scope stays within its bound.
LEMMA LessIsBounded ==
  ASSUME SpendTyped, NEW s \in Scopes, Bounded(s), Spent(s)' \in Nat, Spent(s)' <= Spent(s),
         InFlight(s)' \subseteq InFlight(s)
  PROVE  Bounded(s)'
<1> DEFINE n == Cardinality(InFlight(s))
           m == Cardinality(InFlight(s)')
           all == Cardinality(Handlers)
<1>1. IsFiniteSet(InFlight(s)) /\ n \in Nat /\ all \in Nat
  BY FewInFlight
<1>2. m \in Nat /\ m <= n
  BY <1>1, FS_Subset, FS_CardinalityType
<1>3. Spent(s) \in Nat /\ MaxCost \in Nat /\ MinEst \in Nat /\ Limit[s] \in Nat
  BY SpentIsNatural, LargestCost, SmallestEstimate
<1>4. m * MaxCost <= n * MaxCost /\ m * MaxCost \in Nat /\ n * MaxCost \in Nat /\ all * MaxCost \in Nat
  BY <1>1, <1>2, <1>3, Products
<1>5. Spent(s) + n * MaxCost <= Limit[s] - MinEst + all * MaxCost
  BY DEF Bounded
<1>6. Bounded(s)' <=> Spent(s)' + m * MaxCost <= Limit[s] - MinEst + all * MaxCost
  BY DEF Bounded, MaxCost, MinEst
<1> HIDE DEF n, m, all
<1>7. QED BY <1>3, <1>4, <1>5, <1>6

\* A call that the check lets through: however many are in flight with it, the
\* limit still has room for an estimate.
LEMMA CheckedIsBounded ==
  ASSUME SpendTyped, NEW s \in Scopes, NEW k \in Kinds, Spent(s) + EstCost[k] <= Limit[s],
         UNCHANGED <<counter, now>>
  PROVE  Bounded(s)'
<1> DEFINE m == Cardinality(InFlight(s)')
           all == Cardinality(Handlers)
<1>1. m \in Nat /\ m <= all /\ all \in Nat
  <2>1. InFlight(s)' \in SUBSET Handlers
    BY DEF InFlight
  <2>2. IsFiniteSet(Handlers)
    BY MentorAssumption
  <2>3. QED BY <2>1, <2>2, FS_Subset, FS_CardinalityType
<1>2. /\ Spent(s) \in Nat /\ MaxCost \in Nat /\ MinEst \in Nat /\ Limit[s] \in Nat
      /\ EstCost[k] \in Nat /\ MinEst <= EstCost[k]
  BY SpentIsNatural, LargestCost, SmallestEstimate, MentorAssumption
<1>3. Spent(s)' = Spent(s)
  BY DEF Spent, roll, Window
<1>4. m * MaxCost <= all * MaxCost /\ m * MaxCost \in Nat /\ all * MaxCost \in Nat
  BY <1>1, <1>2, Products
<1>5. Bounded(s)' <=> Spent(s)' + m * MaxCost <= Limit[s] - MinEst + all * MaxCost
  BY DEF Bounded, MaxCost, MinEst
<1> HIDE DEF m, all
<1>6. QED BY <1>2, <1>3, <1>4, <1>5

\* A reply that is charged is no longer in flight.
LEMMA ChargedIsBounded ==
  ASSUME SpendTyped, NEW s \in Scopes, Bounded(s), NEW cost \in 0 .. MaxCost, NEW h \in InFlight(s),
         Spent(s)' = Spent(s) + cost, InFlight(s)' = InFlight(s) \ {h}
  PROVE  Bounded(s)'
<1> DEFINE n == Cardinality(InFlight(s))
           m == Cardinality(InFlight(s)')
           all == Cardinality(Handlers)
<1>1. IsFiniteSet(InFlight(s)) /\ n \in Nat /\ all \in Nat
  BY FewInFlight
<1>2. m = n - 1 /\ m \in Nat
  BY <1>1, FS_RemoveElement, FS_CardinalityType
<1>3. Spent(s) \in Nat /\ MaxCost \in Nat /\ MinEst \in Nat /\ Limit[s] \in Nat
  BY SpentIsNatural, LargestCost, SmallestEstimate
<1>4. n = m + 1
  BY <1>1, <1>2
<1>5. n * MaxCost = m * MaxCost + MaxCost /\ m * MaxCost \in Nat /\ all * MaxCost \in Nat
  BY <1>1, <1>2, <1>3, <1>4, Products
<1>6. Spent(s) + n * MaxCost <= Limit[s] - MinEst + all * MaxCost
  BY DEF Bounded
<1>7. Bounded(s)' <=> Spent(s)' + m * MaxCost <= Limit[s] - MinEst + all * MaxCost
  BY DEF Bounded, MaxCost, MinEst
<1> HIDE DEF n, m, all
<1>8. QED BY <1>3, <1>5, <1>6, <1>7

\* The calls in flight after a step of handler h.
LEMMA OthersInFlight ==
  ASSUME DOMAIN call = Handlers, NEW h \in Handlers, NEW d, call' = [call EXCEPT ![h] = d], NEW s
  PROVE  /\ InFlight(s)' \ {h} = InFlight(s) \ {h}
         /\ h \in InFlight(s)' <=> (d.pc = "provider" /\ s \in ScopesOf(d))
<1>1. call'[h] = d /\ \A k \in Handlers : k # h => call'[k] = call[k]
  OBVIOUS
<1>2. QED BY <1>1 DEF InFlight, ScopesOf

\* A step of handler h that keeps every account but its own.
LEMMA OthersAccounted ==
  ASSUME SpendInv, DOMAIN call = Handlers, NEW h \in Handlers, NEW d, call' = [call EXCEPT ![h] = d],
         deaths' = deaths \/ deaths' = deaths + 1,
         NEW a \in Attempts, NEW k \in Handlers, k # h,
         logged'[a][k] = logged[a][k], billed'[a][k] = billed[a][k]
  PROVE  Accounted(a, k)'
<1>1. call'[k] = call[k]
  OBVIOUS
<1>2. Unreported(a, k)' = Unreported(a, k)
  BY <1>1 DEF Unreported, Replying
<1>3. Accounted(a, k) /\ deaths \in Nat
  BY DEF SpendInv, SpendTyped
<1>4. deaths' = 0 => deaths = 0
  BY <1>3
<1>5. QED BY <1>2, <1>3, <1>4 DEF Accounted

LEMMA SameAccounts ==
  ASSUME SpendInv, DOMAIN call = Handlers, NEW h \in Handlers, NEW d, call' = [call EXCEPT ![h] = d],
         UNCHANGED <<logged, billed, deaths>>, \A a \in Attempts : Unreported(a, h)' = Unreported(a, h),
         NEW a \in Attempts, NEW k \in Handlers
  PROVE  Accounted(a, k)'
<1>1. CASE k = h
  BY <1>1 DEF Accounted, SpendInv
<1>2. CASE k # h
  BY <1>2, OthersAccounted
<1>3. QED BY <1>1, <1>2

\* A step that neither charges nor records, and leaves fewer calls in flight.
LEMMA QuietKeepsSpend ==
  ASSUME SpendInv, DOMAIN call = Handlers, NEW h \in Handlers, NEW d, call' = [call EXCEPT ![h] = d],
         UNCHANGED <<counter, now, logged, billed, deaths>>,
         \A a \in Attempts : Unreported(a, h)' = Unreported(a, h),
         \A s \in Scopes : InFlight(s)' \subseteq InFlight(s) \/ Bounded(s)'
  PROVE  SpendInv'
<1>1. SpendTyped'
  BY DEF SpendInv, SpendTyped
<1>2. ASSUME NEW s \in Scopes PROVE Bounded(s)'
  <2>1. Spent(s)' = Spent(s)
    BY DEF Spent, roll, Window
  <2>2. Spent(s) \in Nat
    BY SpentIsNatural DEF SpendInv
  <2>3. QED BY <2>1, <2>2, LessIsBounded DEF SpendInv
<1>3. ASSUME NEW a \in Attempts, NEW k \in Handlers PROVE Accounted(a, k)'
  BY SameAccounts
<1>4. QED BY <1>1, <1>2, <1>3 DEF SpendInv

LEMMA GatewayKeepsSpend ==
  ASSUME PromptInv, SpendInv, NEW h \in Handlers, call[h].pc = "idle",
         NEW c, Request(c), c.cost = 0, callGateway(h, c)
  PROVE  SpendInv'
<1> DEFINE hits == cacheGet(c)
           e == CHOOSE x \in hits : TRUE
<1>1. PICK d : d = IF hits # {} THEN [c EXCEPT !.pc = "answer", !.text = e.text]
                   ELSE IF checkOrThrow(c) THEN [c EXCEPT !.pc = "provider"] ELSE Idle
  OBVIOUS
<1>2. call' = [call EXCEPT ![h] = d] /\ UNCHANGED <<counter, now, logged, billed, deaths>>
  BY <1>1 DEF callGateway, ledger
<1>3. DOMAIN c = CallFields /\ c.kind \in Kinds
  BY DEF Request
<1>4. DOMAIN call = Handlers
  BY DEF PromptInv
<1>5. call'[h] = d
  BY <1>2, <1>4
<1>6. \A s : h \notin InFlight(s)
  BY DEF InFlight
<1>7. \A a \in Attempts : Unreported(a, h) = 0
  BY DEF Unreported, Replying
<1>8. CASE hits # {}
  <2> HIDE DEF e
  <2>1. d.pc = "answer" /\ d.cost = 0
    BY <1>1, <1>3, <1>8 DEF CallFields
  <2>2. \A a \in Attempts : Unreported(a, h)' = 0
    BY <1>5, <2>1 DEF Unreported, Replying
  <2>3. ASSUME NEW s \in Scopes PROVE InFlight(s)' \subseteq InFlight(s)
    <3>1. InFlight(s)' \ {h} = InFlight(s) \ {h} /\ h \notin InFlight(s)'
      BY <1>2, <1>4, <2>1, OthersInFlight
    <3>2. QED BY <3>1
  <2>4. QED BY <1>2, <1>4, <1>7, <2>2, <2>3, QuietKeepsSpend
<1>9. CASE hits = {} /\ checkOrThrow(c)
  <2>1. d.pc = "provider" /\ d.kind = c.kind /\ d.attempt = c.attempt
    BY <1>1, <1>3, <1>9 DEF CallFields
  <2>2. \A a \in Attempts : Unreported(a, h)' = 0
    BY <1>5, <2>1 DEF Unreported, Replying
  <2>3. ScopesOf(d) = ScopesOf(c)
    BY <2>1 DEF ScopesOf
  <2>4. ASSUME NEW s \in Scopes PROVE InFlight(s)' \subseteq InFlight(s) \/ Bounded(s)'
    <3>1. CASE s \in ScopesOf(c)
      <4>1. Spent(s) + EstCost[c.kind] <= Limit[s]
        BY <1>9, <3>1 DEF checkOrThrow
      <4>2. QED BY <1>2, <1>3, <4>1, CheckedIsBounded DEF SpendInv
    <3>2. CASE s \notin ScopesOf(c)
      <4>1. InFlight(s)' \ {h} = InFlight(s) \ {h} /\ h \notin InFlight(s)'
        BY <1>2, <1>4, <2>3, <3>2, OthersInFlight
      <4>2. QED BY <4>1
    <3>3. QED BY <3>1, <3>2
  <2>5. QED BY <1>2, <1>4, <1>7, <2>2, <2>4, QuietKeepsSpend
<1>10. CASE hits = {} /\ ~checkOrThrow(c)
  <2>1. d.pc = "idle"
    BY <1>1, <1>10 DEF Idle
  <2>2. \A a \in Attempts : Unreported(a, h)' = 0
    BY <1>5, <2>1 DEF Unreported, Replying
  <2>3. ASSUME NEW s \in Scopes PROVE InFlight(s)' \subseteq InFlight(s)
    <3>1. InFlight(s)' \ {h} = InFlight(s) \ {h} /\ h \notin InFlight(s)'
      BY <1>2, <1>4, <2>1, OthersInFlight
    <3>2. QED BY <3>1
  <2>4. QED BY <1>2, <1>4, <1>7, <2>2, <2>3, QuietKeepsSpend
<1>11. QED BY <1>8, <1>9, <1>10

LEMMA FailureKeepsSpend ==
  ASSUME PromptInv, SpendInv, NEW h \in Handlers, providerFails(h)
  PROVE  SpendInv'
<1>1. PICK c : c = call[h]
  OBVIOUS
<1>2. PICK d : d = IF c.next = Len(Providers) THEN Idle ELSE [c EXCEPT !.next = @ + 1]
  OBVIOUS
<1>3. call' = [call EXCEPT ![h] = d] /\ UNCHANGED <<counter, now, logged, billed, deaths>> /\ c.pc = "provider"
  BY <1>1, <1>2 DEF providerFails, noteProviderError
<1>4. DOMAIN call = Handlers /\ DOMAIN c = CallFields
  BY <1>1, <1>3 DEF PromptInv, CallOK, Request, Idle
<1>5. d = Idle \/ (d.pc = "provider" /\ d.kind = c.kind /\ d.attempt = c.attempt)
  BY <1>2, <1>3, <1>4 DEF CallFields
<1>6. call'[h] = d
  BY <1>3, <1>4
<1>7. \A a \in Attempts : Unreported(a, h)' = 0 /\ Unreported(a, h) = 0
  BY <1>1, <1>3, <1>5, <1>6 DEF Unreported, Replying, Idle
<1>8. ASSUME NEW s \in Scopes PROVE InFlight(s)' \subseteq InFlight(s)
  <2>1. h \in InFlight(s)' => h \in InFlight(s)
    BY <1>1, <1>3, <1>5, <1>6 DEF InFlight, ScopesOf, Idle
  <2>2. InFlight(s)' \ {h} = InFlight(s) \ {h}
    BY <1>3, <1>4, OthersInFlight
  <2>3. QED BY <2>1, <2>2
<1>9. QED BY <1>3, <1>4, <1>7, <1>8, QuietKeepsSpend

LEMMA CompleteKeepsSpend ==
  ASSUME PromptInv, SpendInv, NEW h \in Handlers, complete(h)
  PROVE  SpendInv'
<1>1. PICK c : c = call[h]
  OBVIOUS
<1>2. PICK text \in Answers(c), cost \in Costs[c.kind] :
        /\ charge(c, cost)
        /\ call' = [call EXCEPT ![h] = [c EXCEPT !.pc = "answer", !.text = text, !.cost = cost]]
        /\ billed' = IF c.kind = "mentor" THEN [billed EXCEPT ![c.attempt][h] = @ + cost] ELSE billed
        /\ UNCHANGED <<logged, now, deaths>>
  BY <1>1 DEF complete
<1>3. c.pc = "provider" /\ Request(c) /\ DOMAIN call = Handlers
  BY <1>1 DEF complete, PromptInv, CallOK, Idle
<1>4. DOMAIN c = CallFields /\ c.kind \in Kinds /\ (c.kind = "mentor" => c.attempt \in Attempts)
  BY <1>3 DEF Request
<1>5. cost \in 0 .. MaxCost /\ cost \in Nat
  BY <1>4, LargestCost
<1>6. PICK d : d = [c EXCEPT !.pc = "answer", !.text = text, !.cost = cost]
  OBVIOUS
<1>7. d.pc = "answer" /\ d.cost = cost /\ d.kind = c.kind /\ d.attempt = c.attempt
  BY <1>4, <1>6 DEF CallFields
<1>8. call' = [call EXCEPT ![h] = d] /\ call'[h] = d
  BY <1>2, <1>3, <1>6
<1>9. SpendTyped
  BY DEF SpendInv
<1>10. ASSUME NEW s \in Scopes PROVE Bounded(s)'
  <2>1. InFlight(s)' \ {h} = InFlight(s) \ {h} /\ h \notin InFlight(s)'
    BY <1>3, <1>7, <1>8, OthersInFlight
  <2>2. h \in InFlight(s) <=> s \in ScopesOf(c)
    BY <1>1, <1>3 DEF InFlight
  <2>3. Spent(s)' = IF s \in ScopesOf(c) THEN Spent(s) + cost ELSE Spent(s)
    BY <1>2, <1>5, <1>9, ChargeAdds
  <2>4. Bounded(s) /\ Spent(s) \in Nat
    BY <1>9, SpentIsNatural DEF SpendInv
  <2>5. CASE s \in ScopesOf(c)
    BY <1>5, <1>9, <2>1, <2>2, <2>3, <2>4, <2>5, ChargedIsBounded
  <2>6. CASE s \notin ScopesOf(c)
    BY <1>9, <2>1, <2>3, <2>4, <2>6, LessIsBounded
  <2>7. QED BY <2>5, <2>6
<1>11. counter' \in [Scopes -> [spent : Nat, start : Int]]
  <2>1. "global" \in Scopes
    BY DEF Scopes
  <2>2. QED BY <1>2, <1>5, <1>9, <2>1, ChargeAdds
<1>12. /\ billed' \in [Attempts -> [Handlers -> Nat]]
       /\ \A a \in Attempts, k \in Handlers :
            billed'[a][k] = IF c.kind = "mentor" /\ a = c.attempt /\ k = h THEN billed[a][k] + cost ELSE billed[a][k]
  <2>1. billed \in [Attempts -> [Handlers -> Nat]]
    BY <1>9 DEF SpendTyped
  <2>2. CASE c.kind = "mentor"
    BY <1>2, <1>4, <1>5, <2>1, <2>2
  <2>3. CASE c.kind # "mentor"
    BY <1>2, <2>1, <2>3
  <2>4. QED BY <2>2, <2>3
<1>13. SpendTyped'
  BY <1>2, <1>9, <1>11, <1>12 DEF SpendTyped
<1>14. ASSUME NEW a \in Attempts, NEW k \in Handlers PROVE Accounted(a, k)'
  <2>1. CASE k # h
    <3>1. logged'[a][k] = logged[a][k] /\ billed'[a][k] = billed[a][k] /\ deaths' = deaths
      BY <1>2, <1>12, <2>1
    <3>2. QED BY <1>3, <1>8, <2>1, <3>1, OthersAccounted
  <2>2. CASE k = h
    <3>1. Unreported(a, h) = 0
      BY <1>1, <1>3 DEF Unreported, Replying
    <3>2. Unreported(a, h)' = IF c.kind = "mentor" /\ a = c.attempt THEN cost ELSE 0
      BY <1>7, <1>8 DEF Unreported, Replying
    <3>3. logged[a][h] \in Nat /\ billed[a][h] \in Nat
      BY <1>9 DEF SpendTyped
    <3>4. Accounted(a, h)
      BY DEF SpendInv
    <3>5. QED BY <1>2, <1>5, <1>12, <2>2, <3>1, <3>2, <3>3, <3>4 DEF Accounted
  <2>3. QED BY <2>1, <2>2
<1>15. QED BY <1>10, <1>13, <1>14 DEF SpendInv

\* A reply ends: its event reports its cost, or a failed append loses it.
LEMMA EndKeepsSpend ==
  ASSUME PromptInv, SpendInv, NEW h \in Handlers, answer(h) \/ appendFails(h)
  PROVE  SpendInv'
<1>1. PICK c : c = call[h]
  OBVIOUS
<1>2. call' = [call EXCEPT ![h] = Idle] /\ UNCHANGED <<counter, now, billed>> /\ c.pc = "answer"
  BY <1>1 DEF answer, appendFails, ledger
<1>3. DOMAIN call = Handlers /\ Request(c) /\ SpendTyped
  BY <1>1, <1>2 DEF PromptInv, CallOK, Idle, SpendInv
<1>4. c.cost \in Nat /\ (c.kind = "mentor" => c.attempt \in Attempts)
  BY <1>3 DEF Request
<1>5. call'[h] = Idle
  BY <1>2, <1>3
<1>6. \A a \in Attempts : Unreported(a, h)' = 0
  BY <1>5 DEF Unreported, Replying, Idle
<1>7. \A a \in Attempts : Unreported(a, h) = IF c.kind = "mentor" /\ a = c.attempt THEN c.cost ELSE 0
  BY <1>1, <1>2 DEF Unreported, Replying
<1>8. ASSUME NEW s \in Scopes PROVE Bounded(s)'
  <2>1. InFlight(s)' \ {h} = InFlight(s) \ {h} /\ h \notin InFlight(s)'
    BY <1>2, <1>3, OthersInFlight DEF Idle
  <2>2. InFlight(s)' \subseteq InFlight(s)
    BY <2>1
  <2>3. Spent(s)' = Spent(s)
    BY <1>2 DEF Spent, roll, Window
  <2>4. Spent(s) \in Nat /\ Bounded(s)
    BY <1>3, SpentIsNatural DEF SpendInv
  <2>5. QED BY <1>3, <2>2, <2>3, <2>4, LessIsBounded
<1>9. logged \in [Attempts -> [Handlers -> Nat]] /\ billed \in [Attempts -> [Handlers -> Nat]] /\ deaths \in Nat
  BY <1>3 DEF SpendTyped
<1>10. CASE answer(h)
  <2>1. deaths' = deaths /\ logged' = IF c.kind = "mentor" THEN [logged EXCEPT ![c.attempt][h] = @ + c.cost] ELSE logged
    BY <1>1, <1>10 DEF answer
  <2>2. /\ logged' \in [Attempts -> [Handlers -> Nat]]
        /\ \A a \in Attempts, k \in Handlers :
             logged'[a][k] = IF c.kind = "mentor" /\ a = c.attempt /\ k = h THEN logged[a][k] + c.cost ELSE logged[a][k]
    <3>1. CASE c.kind = "mentor"
      BY <1>4, <1>9, <2>1, <3>1
    <3>2. CASE c.kind # "mentor"
      BY <1>9, <2>1, <3>2
    <3>3. QED BY <3>1, <3>2
  <2>3. SpendTyped'
    BY <1>2, <1>3, <2>1, <2>2 DEF SpendTyped
  <2>4. ASSUME NEW a \in Attempts, NEW k \in Handlers PROVE Accounted(a, k)'
    <3>1. CASE k # h
      BY <1>2, <1>3, <2>1, <2>2, <3>1, OthersAccounted
    <3>2. CASE k = h
      <4>1. Accounted(a, h) /\ logged[a][h] \in Nat /\ billed[a][h] \in Nat
        BY <1>9 DEF SpendInv
      <4>2. QED BY <1>2, <1>4, <1>6, <1>7, <2>1, <2>2, <3>2, <4>1 DEF Accounted
    <3>3. QED BY <3>1, <3>2
  <2>5. QED BY <1>8, <2>3, <2>4 DEF SpendInv
<1>11. CASE appendFails(h)
  <2>1. deaths' = deaths + 1 /\ logged' = logged
    BY <1>11 DEF appendFails
  <2>2. SpendTyped'
    BY <1>2, <1>3, <1>9, <2>1 DEF SpendTyped
  <2>3. ASSUME NEW a \in Attempts, NEW k \in Handlers PROVE Accounted(a, k)'
    <3>1. CASE k # h
      BY <1>2, <1>3, <2>1, <3>1, OthersAccounted
    <3>2. CASE k = h
      <4>1. Accounted(a, h) /\ logged[a][h] \in Nat /\ billed[a][h] \in Nat
        BY <1>9 DEF SpendInv
      <4>2. deaths' # 0
        BY <1>9, <2>1
      <4>3. QED BY <1>2, <1>4, <1>6, <1>7, <2>1, <3>2, <4>1, <4>2 DEF Accounted
    <3>3. QED BY <3>1, <3>2
  <2>4. QED BY <1>8, <2>2, <2>3 DEF SpendInv
<1>12. QED BY <1>10, <1>11

LEMMA TimeKeepsSpend ==
  ASSUME SpendInv, UNCHANGED <<call, counter, logged, billed, deaths>>, now' \in Nat, now <= now'
  PROVE  SpendInv'
<1>1. SpendTyped /\ SpendTyped'
  BY DEF SpendInv, SpendTyped
<1>2. ASSUME NEW s \in Scopes PROVE Bounded(s)'
  <2>1. InFlight(s)' = InFlight(s)
    BY DEF InFlight
  <2>2. Spent(s)' <= Spent(s) /\ Spent(s)' \in Nat /\ Bounded(s)
    BY <1>1, TimeEmpties DEF SpendInv
  <2>3. QED BY <1>1, <2>1, <2>2, LessIsBounded
<1>3. \A a \in Attempts, h \in Handlers : Accounted(a, h)'
  BY DEF SpendInv, Accounted, Unreported, Replying
<1>4. QED BY <1>1, <1>2, <1>3 DEF SpendInv

LEMMA SpendStep == PromptInv /\ SpendInv /\ [Next]_vars => SpendInv'
<1> SUFFICES ASSUME PromptInv, SpendInv, [Next]_vars PROVE SpendInv'
  OBVIOUS
<1>1. now \in Nat
  BY DEF SpendInv, SpendTyped
<1>2. CASE Tick
  BY <1>1, <1>2, TimeKeepsSpend DEF Tick, ledger
<1>3. CASE UNCHANGED vars
  BY <1>1, <1>3, TimeKeepsSpend DEF vars, ledger
<1>4. ASSUME NEW h \in Handlers, Ask(h) \/ Work(h) PROVE SpendInv'
  <2>1. CASE reply(h)
    BY <2>1, ReplyAsks, GatewayKeepsSpend DEF reply, Asking
  <2>2. CASE refuse(h)
    BY <1>1, <2>2, TimeKeepsSpend DEF refuse, ledger
  <2>3. CASE draft(h)
    BY <2>3, DraftAsks, GatewayKeepsSpend DEF draft, Asking
  <2>4. CASE complete(h)
    BY <2>4, CompleteKeepsSpend
  <2>5. CASE providerFails(h)
    BY <2>5, FailureKeepsSpend
  <2>6. CASE answer(h) \/ appendFails(h)
    BY <2>6, EndKeepsSpend
  <2>7. QED BY <1>4, <2>1, <2>2, <2>3, <2>4, <2>5, <2>6 DEF Ask, Work
<1>5. QED BY <1>2, <1>3, <1>4 DEF Next

LEMMA SpendInit == Init => SpendInv
<1> SUFFICES ASSUME Init PROVE SpendInv
  OBVIOUS
<1>1. SpendTyped
  BY MentorAssumption DEF Init, SpendTyped
<1>2. ASSUME NEW s \in Scopes PROVE Bounded(s)
  <2>1. Spent(s) = 0
    BY <1>1 DEF Init, Spent, roll
  <2>2. InFlight(s) = {}
    BY DEF Init, InFlight, Idle
  <2>3. Cardinality(InFlight(s)) = 0
    BY <2>2, FS_EmptySet
  <2>4. MaxCost \in Nat /\ MinEst \in Nat /\ Limit[s] \in Nat /\ MinEst <= Limit[s]
    BY LargestCost, SmallestEstimate
  <2>5. Cardinality(Handlers) * MaxCost \in Nat /\ 0 * MaxCost = 0
    BY <2>4, FewInFlight, Products
  <2>6. QED BY <2>1, <2>3, <2>4, <2>5 DEF Bounded
<1>3. \A a \in Attempts, h \in Handlers : Accounted(a, h)
  BY DEF Init, Accounted, Unreported, Replying, Idle
<1>4. QED BY <1>1, <1>2, <1>3 DEF SpendInv

\* budget-ledger.ts, checkOrThrow and charge, and the AI_MESSAGE event of
\* mentor.service.ts, for any number of requests in flight, any limits, costs and
\* estimates, window lengths and failures of providers: a limit is passed by no
\* more than one reply of every request in flight, and what the events of an
\* attempt say it cost is what the providers charged, unless an append failed.
THEOREM SpendSafe == Spec => []SpendIsAccounted
BY SpendInit, SpendStep, SpendIsInv, PromptsHold, PTL DEF Spec

-----------------------------------------------------------------------------
\* The rubric grader.

GradeFields == {"pc", "real", "samples", "merged", "wanted", "backend"}

GradeInv ==
    /\ DOMAIN grade = GradeFields
    /\ grade.wanted \in Nat \ {0} /\ grade.real \in BOOLEAN
    /\ grade.samples \in Seq([Criteria -> Range(Levels)])
    /\ GradeIsHonest

LEMMA LevelsListed ==
  /\ Len(Levels) \in Nat \ {0} /\ DOMAIN Levels = 1 .. Len(Levels)
  /\ \A i \in 1 .. Len(Levels) : Levels[i] \in Range(Levels)
BY GraderAssumption DEF Range

\* At least one sample is asked for.
LEMMA SamplesAskedFor ==
  ASSUME NEW raw \in Int
  PROVE  sampleCount(raw) \in Nat \ {0}
<1>1. CASE raw = NaN
  BY <1>1 DEF sampleCount
<1>2. CASE raw # NaN
  <2>1. \A a, b \in Int : \E x \in {a, b} : \A y \in {a, b} : x <= y
    OBVIOUS
  <2>2. Min({5, raw}) \in Int
    <3>1. Min({5, raw}) = CHOOSE x \in {5, raw} : \A y \in {5, raw} : x <= y
      BY DEF Min
    <3>2. QED BY <2>1, <3>1
  <2>3. PICK n \in Int : n = Min({5, raw})
    BY <2>2
  <2>4. \E x \in {1, n} : \A y \in {1, n} : x >= y
    OBVIOUS
  <2>5. Max({1, n}) = CHOOSE x \in {1, n} : \A y \in {1, n} : x >= y
    BY DEF Max
  <2>6. Max({1, n}) \in {1, n} /\ Max({1, n}) >= 1
    BY <2>4, <2>5
  <2>7. sampleCount(raw) = Max({1, n})
    BY <1>2, <2>3 DEF sampleCount
  <2>8. QED BY <2>6, <2>7
<1>3. QED BY <1>1, <1>2

LEMMA GradeFirst == GraderInit => GradeInv
<1> SUFFICES ASSUME GraderInit PROVE GradeInv
  OBVIOUS
<1>1. PICK provider \in LlmProviders, keys \in SUBSET {"groq", "anthropic"}, raw \in SampleCounts :
        grade = [pc |-> "sampling", real |-> keys # {}, samples |-> <<>>, merged |-> <<>>, wanted |-> sampleCount(raw),
                 backend |-> createLlmToolCaller([provider |-> provider, keys |-> keys])]
  BY DEF GraderInit
<1>2. sampleCount(raw) \in Nat \ {0}
  BY SamplesAskedFor, GraderAssumption
<1>3. QED BY <1>1, <1>2 DEF GradeInv, GradeFields, GradeIsHonest

\* What reconcileSamples() leaves unflagged, every sample agrees on.
LEMMA UnflaggedAgree ==
  ASSUME NEW samples \in Seq([Criteria -> Range(Levels)]), samples # <<>>, NEW c \in Criteria
  PROVE  LET m == reconcileSamples(samples) IN
         /\ m[c].level \in Range(Levels)
         /\ m[c].flag = "" => \A i \in DOMAIN samples : samples[i][c] = m[c].level
<1>1. samples[1] \in [Criteria -> Range(Levels)]
  OBVIOUS
<1>2. QED BY <1>1 DEF reconcileSamples

LEMMA GradeStep == GradeInv /\ [GraderNext]_grade => GradeInv'
<1> SUFFICES ASSUME GradeInv, [GraderNext]_grade PROVE GradeInv'
  OBVIOUS
<1>1. ASSUME grade' = [grade EXCEPT !.pc = "threw"] PROVE GradeInv'
  BY <1>1 DEF GradeInv, GradeFields, GradeIsHonest
<1>2. CASE NoBackend
  BY <1>1, <1>2 DEF NoBackend
<1>3. CASE gradeOnce
  <2>1. ASSUME NEW s \in [Criteria -> Range(Levels)], grade' = [grade EXCEPT !.samples = Append(@, s)], grade.pc = "sampling"
        PROVE  GradeInv'
    <3>1. Append(grade.samples, s) \in Seq([Criteria -> Range(Levels)])
      BY DEF GradeInv
    <3>2. DOMAIN grade' = GradeFields /\ grade'.pc = "sampling" /\ grade'.samples = Append(grade.samples, s)
          /\ grade'.wanted = grade.wanted /\ grade'.real = grade.real
      BY <2>1 DEF GradeInv, GradeFields
    <3>3. QED BY <3>1, <3>2 DEF GradeInv, GradeIsHonest
  <2>2. QED BY <1>1, <1>3, <2>1 DEF gradeOnce, Grading
<1>4. CASE claudeGrade
  <2>1. PICK m : m = reconcileSamples(grade.samples)
    OBVIOUS
  <2>2. Len(grade.samples) = grade.wanted /\ grade.real /\ grade' = [grade EXCEPT !.pc = "graded", !.merged = m]
    BY <1>4, <2>1 DEF claudeGrade
  <2>3. /\ DOMAIN grade' = GradeFields /\ grade'.pc = "graded" /\ grade'.merged = m /\ grade'.samples = grade.samples
        /\ grade'.wanted = grade.wanted /\ grade'.real = grade.real
    BY <2>2 DEF GradeInv, GradeFields
  <2>4. grade.samples # <<>>
    BY <2>2 DEF GradeInv
  <2>5. \A c \in Criteria : /\ m[c].level \in Range(Levels)
                            /\ m[c].flag = "" => \A i \in DOMAIN grade.samples : grade.samples[i][c] = m[c].level
    BY <2>1, <2>4, UnflaggedAgree DEF GradeInv
  <2>6. GradeIsHonest'
    <3>1. ASSUME NEW c \in Criteria
          PROVE  /\ grade'.merged[c].level \in Range(Levels)
                 /\ grade'.merged[c].flag = "" =>
                      /\ grade'.real /\ Len(grade'.samples) = grade'.wanted
                      /\ \A i \in DOMAIN grade'.samples : grade'.samples[i][c] = grade'.merged[c].level
      <4>1. /\ m[c].level \in Range(Levels)
            /\ m[c].flag = "" => \A i \in DOMAIN grade.samples : grade.samples[i][c] = m[c].level
        BY <2>5
      <4>2. QED BY ONLY <2>2, <2>3, <4>1
    <3>2. QED BY <3>1 DEF GradeIsHonest
  <2>7. QED BY <2>3, <2>6 DEF GradeInv
<1>5. CASE fakeGrade
  <2>1. PICK l : l = Levels[(Len(Levels) - 1) \div 2 + 1]
    OBVIOUS
  <2>2. (Len(Levels) - 1) \div 2 + 1 \in 1 .. Len(Levels)
    BY LevelsListed
  <2>3. l \in Range(Levels)
    BY <2>1, <2>2, LevelsListed
  <2>4. PICK m : m = [c \in Criteria |-> [level |-> l, flag |-> "STUB_GRADER_NO_REAL_INFERENCE"]]
    OBVIOUS
  <2>5. grade' = [grade EXCEPT !.pc = "graded", !.merged = m]
    BY <1>5, <2>1, <2>4 DEF fakeGrade
  <2>6. /\ DOMAIN grade' = GradeFields /\ grade'.merged = m /\ grade'.samples = grade.samples
        /\ grade'.wanted = grade.wanted /\ grade'.real = grade.real
    BY <2>5 DEF GradeInv, GradeFields
  <2>7. \A c \in Criteria : m[c].level = l /\ m[c].flag # ""
    BY <2>4
  <2>8. QED BY <2>3, <2>6, <2>7 DEF GradeInv, GradeIsHonest
<1>6. CASE UNCHANGED grade
  BY <1>6 DEF GradeInv, GradeIsHonest
<1>7. QED BY <1>2, <1>3, <1>4, <1>5, <1>6 DEF GraderNext

\* claude-ai-grader.service.ts, fake-ai-grader.service.ts and
\* llm-tool-call.port.ts, for any rubric, sample count and provider: a level
\* without a flag is one that a model gave in every one of the samples asked
\* for; without a model behind it every level is flagged.
THEOREM GradesHonest == GraderSpec => []GradeIsHonest
<1>1. GradeInv => GradeIsHonest
  BY DEF GradeInv
<1>2. QED BY <1>1, GradeFirst, GradeStep, PTL DEF GraderSpec
=============================================================================
