----------------------------- MODULE ConsoleProofs -----------------------------
(***************************************************************************)
(* Theorems about the console's smaller parts.  ProviderCatalog: for every  *)
(* set of requests and listings and every TTL.  ConsoleContracts: for every *)
(* set of tools and config keys, every depth of nesting and every length of *)
(* a recording.  And the parts together, as MCConsole runs them.            *)
(***************************************************************************)
EXTENDS MCConsole, AgentContentProofs, AccountsProofs, WellFoundedInduction, TLAPS

-------------------------------------------------------------------------------
(* ProviderCatalog.                                                        *)

ReaderState == [fetching : BOOLEAN, began : 0 .. MaxTime, hit : SUBSET Hit]

\* While no two fetches have overlapped, the one that runs knows the cache, and
\* the cache holds the last answer, if there was one.
CatSoloOK ==
    ~overlapped =>
        /\ \A r, q \in Reader : reader[r].fetching /\ reader[q].fetching => r = q
        /\ \A r \in Reader : reader[r].fetching => reader[r].hit = cached
        /\ \A hit \in cached : hit.values = latest
        /\ cached = {} => latest = "empty"

\* No fetch began in the future.
BeganOK == \A r \in Reader : reader[r].began <= now

CatInv == CatTypeOK /\ BeganOK /\ CatSoloOK /\ FailuresKeepTheListing

LEMMA CatTypes ==
    CatInv => /\ reader \in [Reader -> ReaderState]
              /\ now \in 0 .. MaxTime /\ now \in Nat /\ TTL \in Nat /\ MaxTime \in Nat
              /\ cached \subseteq Hit
    BY CatalogAssumption DEF CatInv, CatTypeOK, ReaderState

-------------------------------------------------------------------------------
\* Whatever the provider publishes, every fetcher returns a listing.
LEMMA FetchedIsListing ==
    ASSUME entry \in Entries, NEW live \in Version \cup {"empty"}
    PROVE  Fetched(live) \in Listing
<1>1. entry[1] \in {"llm", "s2s", "s2sv", "stt", "tts"} /\ entry[2] \in Provider
    BY DEF Entries
<1>2. \A p \in Provider :
          /\ LLMModels(p, live) \in Listing /\ S2SModels(p, live) \in Listing
          /\ S2SVoices(p) \in Listing /\ STTModels(p, live) \in Listing
          /\ TTSVoices(p, live) \in Listing
    BY DEF LLMModels, S2SModels, S2SVoices, STTModels, TTSVoices, IfKeyed, OrKnown, Listing
<1>3. QED
    BY <1>1, <1>2 DEF Fetched

LEMMA FallbackIsListing ==
    ASSUME CatInv, NEW r \in Reader
    PROVE  /\ Fallback(r) \in Listing
           /\ reader[r].hit = {} => Fallback(r) = "empty"
           /\ reader[r].hit # {} => \E h \in reader[r].hit : Fallback(r) = h.values
<1>1. reader[r].hit \subseteq Hit
    BY CatTypes DEF ReaderState
<1>2. reader[r].hit # {} => (CHOOSE h \in reader[r].hit : TRUE) \in reader[r].hit
    OBVIOUS
<1>3. QED
    BY <1>1, <1>2 DEF Fallback, Hit, Listing

\* What a finished fetch leaves: the listing it caches, for a TTL from its start.
LEMMA CachesSets ==
    ASSUME CatInv, NEW r \in Reader, NEW values \in Listing, Caches(r, values)
    PROVE  \E hit \in Hit :
              /\ cached' = {hit} /\ hit.values = values /\ hit.until <= now + TTL
              /\ \A q \in Reader : reader'[q] = IF q = r THEN Resting ELSE reader[q]
              /\ reader' \in [Reader -> ReaderState]
              /\ UNCHANGED <<entry, keyed, now, overlapped>>
<1> DEFINE new == [until |-> reader[r].began + TTL, values |-> values]
<1>1. reader[r].began \in Nat /\ reader[r].began <= now /\ now \in 0 .. MaxTime
    BY CatTypes DEF ReaderState, CatInv, BeganOK
<1>2. new \in Hit /\ new.values = values /\ new.until <= now + TTL
    BY <1>1, CatTypes DEF Hit
<1>3. Resting \in ReaderState
    BY CatTypes DEF Resting, ReaderState
<1>4. cached' = {new} /\ reader' = [reader EXCEPT ![r] = Resting]
      /\ UNCHANGED <<entry, keyed, now, overlapped>>
    BY DEF Caches
<1> HIDE DEF new
<1>5. reader' \in [Reader -> ReaderState]
      /\ \A q \in Reader : reader'[q] = IF q = r THEN Resting ELSE reader[q]
    BY <1>3, <1>4, CatTypes
<1>6. QED
    BY <1>2, <1>4, <1>5

LEMMA CatInitial == CatInit => CatInv
<1> SUFFICES ASSUME CatInit PROVE CatInv
    OBVIOUS
<1>1. Resting \in ReaderState /\ now \in 0 .. MaxTime
    BY CatalogAssumption DEF CatInit, Resting, ReaderState
<1>2. reader \in [Reader -> ReaderState]
    BY <1>1 DEF CatInit
<1>3. CatTypeOK
    BY <1>1, <1>2 DEF CatInit, CatTypeOK, ReaderState, Listing
<1>4. BeganOK /\ CatSoloOK /\ FailuresKeepTheListing
    BY DEF CatInit, BeganOK, CatSoloOK, FailuresKeepTheListing, Resting
<1>5. QED
    BY <1>3, <1>4 DEF CatInv

LEMMA FinishKeeps ==
    ASSUME CatInv, NEW r \in Reader, NEW values \in Listing, Caches(r, values),
           latest' \in Listing, reader[r].fetching, ~overlapped => values = latest'
    PROVE  CatInv'
<1>1. PICK hit \in Hit :
          /\ cached' = {hit} /\ hit.values = values /\ hit.until <= now + TTL
          /\ \A q \in Reader : reader'[q] = IF q = r THEN Resting ELSE reader[q]
          /\ reader' \in [Reader -> ReaderState]
          /\ UNCHANGED <<entry, keyed, now, overlapped>>
    BY CachesSets
<1>2. CatTypeOK'
    BY <1>1 DEF CatInv, CatTypeOK, ReaderState
<1>3. BeganOK'
    BY <1>1, CatTypes DEF CatInv, BeganOK, Resting
<1>4. CatSoloOK'
    BY <1>1 DEF CatInv, CatSoloOK, Resting
<1>5. FailuresKeepTheListing'
    BY <1>1 DEF FailuresKeepTheListing
<1>6. QED
    BY <1>2, <1>3, <1>4, <1>5 DEF CatInv

LEMMA CatStep == CatInv /\ [CatNext]_catVars => CatInv'
<1> SUFFICES ASSUME CatInv, [CatNext]_catVars PROVE CatInv'
    OBVIOUS
<1>1. CASE Tick
    <2>1. \A hit \in cached : hit.until \in Nat
        BY CatTypes DEF Hit
    <2>2. \A r \in Reader : reader[r].began \in Nat
        BY CatTypes DEF ReaderState
    <2>3. now' = now + 1 /\ now' \in 0 .. MaxTime
        BY <1>1, CatTypes DEF Tick
    <2>4. CatTypeOK' /\ CatSoloOK'
        BY <1>1, <2>3 DEF Tick, CatInv, CatTypeOK, CatSoloOK
    <2>5. BeganOK' /\ FailuresKeepTheListing'
        BY <1>1, <2>1, <2>2, <2>3, CatTypes DEF Tick, CatInv, BeganOK, CatSoloOK, FailuresKeepTheListing
    <2>6. QED
        BY <2>4, <2>5 DEF CatInv
<1>2. ASSUME NEW r \in Reader, BeginFetch(r) PROVE CatInv'
    <2> DEFINE begun == [fetching |-> TRUE, began |-> now, hit |-> cached]
    <2>1. /\ begun \in ReaderState /\ begun.fetching /\ begun.began = now
          /\ begun.hit = cached
        BY CatTypes DEF ReaderState
    <2>2. /\ reader' = [reader EXCEPT ![r] = begun]
          /\ UNCHANGED <<entry, keyed, now, cached, latest>>
        BY <1>2 DEF BeginFetch
    <2> HIDE DEF begun
    <2>3. /\ reader' \in [Reader -> ReaderState]
          /\ \A q \in Reader : reader'[q] = IF q = r THEN begun ELSE reader[q]
        BY <2>1, <2>2, CatTypes
    <2>4. overlapped' \in BOOLEAN
        BY <1>2, Zenon DEF BeginFetch
    <2>5. ~overlapped' => ~overlapped /\ \A q \in Reader : ~reader[q].fetching
        BY <1>2, Zenon DEF BeginFetch
    <2>6. CatTypeOK'
        BY <2>2, <2>3, <2>4 DEF CatInv, CatTypeOK, ReaderState
    <2>7. BeganOK' /\ CatSoloOK'
        BY <2>1, <2>2, <2>3, <2>5, CatTypes DEF CatInv, BeganOK, CatSoloOK
    <2>8. FailuresKeepTheListing'
        BY <2>2, <2>5 DEF CatInv, FailuresKeepTheListing
    <2>9. QED
        BY <2>6, <2>7, <2>8 DEF CatInv
<1>3. ASSUME NEW r \in Reader, FetchSucceeds(r) PROVE CatInv'
    <2>1. PICK live \in Version \cup {"empty"} :
              Caches(r, Fetched(live)) /\ latest' = Fetched(live)
        BY <1>3 DEF FetchSucceeds
    <2>2. Fetched(live) \in Listing
        BY FetchedIsListing DEF CatInv, CatTypeOK
    <2>3. QED
        BY <1>3, <2>1, <2>2, FinishKeeps DEF FetchSucceeds
<1>4. ASSUME NEW r \in Reader, FetchFails(r) PROVE CatInv'
    <2>1. Fallback(r) \in Listing
        BY FallbackIsListing
    <2>2. ~overlapped => Fallback(r) = latest
        BY <1>4, FallbackIsListing DEF FetchFails, CatInv, CatSoloOK
    <2>3. latest' = latest /\ latest \in Listing
        BY <1>4 DEF FetchFails, CatInv, CatTypeOK
    <2>4. QED
        BY <1>4, <2>1, <2>2, <2>3, FinishKeeps DEF FetchFails
<1>5. CASE UNCHANGED catVars
    BY <1>5 DEF catVars, CatInv, CatTypeOK, BeganOK, CatSoloOK, FailuresKeepTheListing
<1>6. QED
    BY <1>1, <1>2, <1>3, <1>4, <1>5 DEF CatNext

-------------------------------------------------------------------------------
LEMMA CatInvariant == CatSpec => []CatInv
    BY CatInitial, CatStep, PTL DEF CatSpec

\* Every variable of the catalog keeps its type; an entry is cached once.
THEOREM CatTypeCorrect == CatSpec => []CatTypeOK
<1>1. CatInv => CatTypeOK
    BY DEF CatInv
<1>2. QED
    BY <1>1, CatInvariant, PTL

\* provider_catalog.py:36-48: until two fetches of an entry overlap, the cache holds
\* what the provider last answered, however many fetches fail after it.
THEOREM FailuresKeepTheListingThm == CatSpec => []FailuresKeepTheListing
<1>1. CatInv => FailuresKeepTheListing
    BY DEF CatInv
<1>2. QED
    BY <1>1, CatInvariant, PTL

-------------------------------------------------------------------------------
(* ConsoleContracts: redaction.                                            *)

\* Induction over the naturals, for a set instead of a predicate: a non-empty set of
\* counterexamples would have a least element.
LEMMA NatSet ==
    ASSUME NEW S, 0 \in S, \A n \in Nat : n \in S => n + 1 \in S
    PROVE  \A n \in Nat : n \in S
<1> SUFFICES ASSUME NEW m \in Nat, m \notin S PROVE FALSE
    OBVIOUS
<1> DEFINE T == {n \in Nat : n \notin S}
<1>1. T \subseteq Nat /\ T # {}
    OBVIOUS
<1> HIDE DEF T
<1>2. PICK x \in T : \A y \in T : ~ (<<y, x>> \in OpToRel(<, Nat))
    BY <1>1, NatLessThanWellFounded, WFMin, Zenon
<1>3. x \in Nat /\ x \notin S /\ x # 0
    BY DEF T
<1>4. x - 1 \in Nat /\ x - 1 \notin S
    BY <1>3
<1>5. x - 1 \in T
    BY <1>4 DEF T
<1>6. <<x - 1, x>> \in OpToRel(<, Nat)
    BY <1>3, <1>4 DEF OpToRel
<1>7. QED
    BY <1>2, <1>5, <1>6

\* The level above a set of values.
Above(S) == S \cup Object(S) \cup ListOf(S)

\* The definition of Level is sound: each level is made from the one below.
LEMMA LevelIs ==
    /\ DOMAIN Level = 0 .. MaxDepth
    /\ Level[0] = Leaf
    /\ \A n \in 0 .. MaxDepth : n > 0 => Level[n] = Above(Level[n - 1])
<1> DEFINE Up(f, n) == IF n = 0 THEN Leaf ELSE Above(f[n - 1])
           Levels(f, m) == f = [n \in 0 .. m |-> Up(f, n)]
           S == {m \in Nat : \E f : Levels(f, m)}
<1>1. 0 \in S
    <2> DEFINE f == [n \in 0 .. 0 |-> Leaf]
    <2>1. f = [n \in 0 .. 0 |-> Up(f, n)]
        OBVIOUS
    <2>2. QED
        BY <2>1
<1>2. ASSUME NEW m \in Nat, m \in S PROVE m + 1 \in S
    <2>1. PICK f : Levels(f, m)
        BY <1>2
    <2> DEFINE g == [n \in 0 .. m + 1 |-> Up(f, n)]
    <2>2. \A n \in 0 .. m : g[n] = f[n]
        BY <2>1
    <2>3. \A n \in 0 .. m + 1 : Up(f, n) = Up(g, n)
        <3> SUFFICES ASSUME NEW n \in 0 .. m + 1 PROVE Up(f, n) = Up(g, n)
            OBVIOUS
        <3>1. n # 0 => n - 1 \in 0 .. m
            OBVIOUS
        <3>2. n # 0 => f[n - 1] = g[n - 1]
            BY <2>2, <3>1
        <3> HIDE DEF g
        <3>3. QED
            BY <3>2
    <2>4. g = [n \in 0 .. m + 1 |-> Up(f, n)]
        OBVIOUS
    <2> HIDE DEF g, Up
    <2>5. g = [n \in 0 .. m + 1 |-> Up(g, n)]
        BY <2>3, <2>4
    <2>6. QED
        BY <2>5
<1>3. MaxDepth \in S
    <2> HIDE DEF S
    <2>1. \A n \in Nat : n \in S
        BY <1>1, <1>2, NatSet
    <2>2. QED
        BY <2>1, ContractsAssumption
<1>4. \E f : f = [n \in 0 .. MaxDepth |-> Up(f, n)]
    BY <1>3
<1>5. Level = [n \in 0 .. MaxDepth |-> Up(Level, n)]
    BY <1>4 DEF Level, Above
<1>6. QED
    BY <1>5, ContractsAssumption

LEMMA ObjectIn ==
    /\ \A S : \A v \in Object(S) :
          /\ v.at = "object" /\ DOMAIN v.of \subseteq Key /\ v.of \in [DOMAIN v.of -> S]
          /\ v = [at |-> "object", of |-> v.of]
    /\ \A S : \A D \in SUBSET Key : \A f \in [D -> S] : [at |-> "object", of |-> f] \in Object(S)
    /\ \A S, T : S \subseteq T => Object(S) \subseteq Object(T)
<1>1. \A S : \A v \in Object(S) :
          /\ v.at = "object" /\ DOMAIN v.of \subseteq Key /\ v.of \in [DOMAIN v.of -> S]
          /\ v = [at |-> "object", of |-> v.of]
    BY DEF Object
<1>2. \A S : \A D \in SUBSET Key : \A f \in [D -> S] : [at |-> "object", of |-> f] \in Object(S)
    BY DEF Object
<1>3. ASSUME NEW S, NEW T, S \subseteq T, NEW v \in Object(S) PROVE v \in Object(T)
    <2>1. v.of \in [DOMAIN v.of -> T]
        BY <1>1, <1>3
    <2>2. QED
        BY <1>1, <1>2, <2>1
<1>4. QED
    BY <1>1, <1>2, <1>3

LEMMA ListIn ==
    /\ \A S : \A v \in ListOf(S) :
          /\ v.at = "list" /\ v.of \in [DOMAIN v.of -> S]
          /\ \E n \in 0 .. MaxItems : DOMAIN v.of = 1 .. n
          /\ v = [at |-> "list", of |-> v.of]
    /\ \A S : \A n \in 0 .. MaxItems : \A f \in [1 .. n -> S] :
          [at |-> "list", of |-> f] \in ListOf(S)
    /\ \A S, T : S \subseteq T => ListOf(S) \subseteq ListOf(T)
<1>1. \A S : \A v \in ListOf(S) :
          /\ v.at = "list" /\ v.of \in [DOMAIN v.of -> S]
          /\ \E n \in 0 .. MaxItems : DOMAIN v.of = 1 .. n
          /\ v = [at |-> "list", of |-> v.of]
    BY DEF ListOf
<1>2. \A S : \A n \in 0 .. MaxItems : \A f \in [1 .. n -> S] :
          [at |-> "list", of |-> f] \in ListOf(S)
    BY DEF ListOf
<1>3. ASSUME NEW S, NEW T, S \subseteq T, NEW v \in ListOf(S) PROVE v \in ListOf(T)
    <2>1. v.of \in [DOMAIN v.of -> T]
        BY <1>1, <1>3
    <2>2. QED
        BY <1>1, <1>2, <2>1
<1>4. QED
    BY <1>1, <1>2, <1>3

Compound(S) == Object(S) \cup ListOf(S)

\* A level holds the leaves and what can be made of the level below.
LEMMA LevelParts ==
    \A n \in 0 .. MaxDepth :
        /\ Leaf \subseteq Level[n]
        /\ n > 0 => Level[n - 1] \subseteq Level[n] /\ Compound(Level[n - 1]) \subseteq Level[n]
        /\ \A v \in Level[n] : v \in Leaf \/ (n > 0 /\ v \in Compound(Level[n - 1]))
<1> DEFINE P(n) ==
        /\ Leaf \subseteq Level[n]
        /\ n > 0 => Level[n - 1] \subseteq Level[n] /\ Compound(Level[n - 1]) \subseteq Level[n]
        /\ \A v \in Level[n] : v \in Leaf \/ (n > 0 /\ v \in Compound(Level[n - 1]))
           S == {n \in Nat : n <= MaxDepth => P(n)}
<1>1. 0 \in S
    BY LevelIs
<1>2. ASSUME NEW n \in Nat, n \in S PROVE n + 1 \in S
    <2> SUFFICES ASSUME n + 1 <= MaxDepth PROVE P(n + 1)
        OBVIOUS
    <2>1. n \in 0 .. MaxDepth /\ n + 1 \in 0 .. MaxDepth /\ (n + 1) - 1 = n /\ P(n)
        BY <1>2, ContractsAssumption
    <2>2. Level[n + 1] = Above(Level[n])
        BY <2>1, LevelIs
    <2>3. n > 0 => Compound(Level[n - 1]) \subseteq Compound(Level[n])
        BY <2>1, ObjectIn, ListIn DEF Compound
    <2>4. QED
        BY <2>1, <2>2, <2>3 DEF Above, Compound
<1>3. QED
    <2> HIDE DEF S
    <2>1. \A n \in Nat : n \in S
        BY <1>1, <1>2, NatSet
    <2> USE DEF S
    <2>2. QED
        BY <2>1, ContractsAssumption

\* The bodies of the recursive definitions, with f for the recursive calls.
RedactBody(f, v) ==
    IF v.at = "leaf" THEN v
    ELSE [at |-> v.at,
          of |-> [k \in DOMAIN v.of |->
                    IF v.at = "object" /\ Masks(k, v.of[k]) THEN Redacted ELSE f[v.of[k]]]]

UnderSecretBody(f, v) ==
    IF v.at = "leaf" THEN {}
    ELSE UNION {IF v.at = "object" /\ k \in SecretKey THEN {v.of[k]} ELSE f[v.of[k]] :
                    k \in DOMAIN v.of}

PublicBody(f, v) ==
    IF v.at = "leaf" THEN v
    ELSE [at |-> v.at,
          of |-> [k \in DOMAIN v.of |->
                    IF v.at = "object" /\ k \in SecretKey THEN Empty ELSE f[v.of[k]]]]

\* Each recursive definition is sound: it does what its body says.
LEMMA RedactIs ==
    /\ DOMAIN Redact = Value
    /\ \A v \in Value : Redact[v] = RedactBody(Redact, v)
<1> DEFINE Solves(f, m) == f = [v \in Level[m] |-> RedactBody(f, v)]
           S == {m \in Nat : m <= MaxDepth => \E f : Solves(f, m)}
<1>1. 0 \in S
    <2> DEFINE f == [v \in Level[0] |-> RedactBody(<<>>, v)]
    <2>1. \A v \in Level[0] : RedactBody(<<>>, v) = RedactBody(f, v)
        BY LevelIs DEF RedactBody, Leaf
    <2>2. f = [v \in Level[0] |-> RedactBody(<<>>, v)]
        OBVIOUS
    <2> HIDE DEF f
    <2>3. f = [v \in Level[0] |-> RedactBody(f, v)]
        BY <2>1, <2>2
    <2>4. QED
        BY <2>3
<1>2. ASSUME NEW m \in Nat, m \in S PROVE m + 1 \in S
    <2> SUFFICES ASSUME m + 1 <= MaxDepth PROVE \E g : Solves(g, m + 1)
        OBVIOUS
    <2>1. m + 1 \in 0 .. MaxDepth /\ m + 1 > 0 /\ (m + 1) - 1 = m
        BY ContractsAssumption
    <2>2. PICK f : Solves(f, m)
        BY <1>2, ContractsAssumption
    <2> DEFINE g == [v \in Level[m + 1] |-> RedactBody(f, v)]
    <2>3. \A v \in Level[m] : g[v] = f[v]
        BY <2>1, <2>2, LevelParts
    <2>4. g = [v \in Level[m + 1] |-> RedactBody(f, v)]
        OBVIOUS
    <2> HIDE DEF g
    <2>5. ASSUME NEW v \in Level[m + 1] PROVE RedactBody(f, v) = RedactBody(g, v)
        <3>1. v \in Leaf \/ v \in Compound(Level[m])
            BY <2>1, LevelParts
        <3>2. CASE v \in Leaf
            BY <3>2 DEF RedactBody, Leaf
        <3>3. CASE v \in Compound(Level[m])
            <4>1. \A k \in DOMAIN v.of : v.of[k] \in Level[m]
                BY <3>3, ObjectIn, ListIn DEF Compound
            <4>2. \A k \in DOMAIN v.of : f[v.of[k]] = g[v.of[k]]
                BY <2>3, <4>1
            <4>3. QED
                BY <4>2 DEF RedactBody
        <3>4. QED
            BY <3>1, <3>2, <3>3
    <2>6. g = [v \in Level[m + 1] |-> RedactBody(g, v)]
        BY <2>4, <2>5
    <2>7. QED
        BY <2>6
<1>3. \E f : f = [v \in Value |-> RedactBody(f, v)]
    <2> HIDE DEF S
    <2>1. \A n \in Nat : n \in S
        BY <1>1, <1>2, NatSet
    <2> USE DEF S
    <2>2. QED
        BY <2>1, ContractsAssumption DEF Value
<1>4. Redact = [v \in Value |-> RedactBody(Redact, v)]
    BY <1>3 DEF Redact, RedactBody
<1>5. QED
    BY <1>4

\* UnderSecret.
LEMMA UnderSecretIs ==
    /\ DOMAIN UnderSecret = Value
    /\ \A v \in Value : UnderSecret[v] = UnderSecretBody(UnderSecret, v)
<1> DEFINE Solves(f, m) == f = [v \in Level[m] |-> UnderSecretBody(f, v)]
           S == {m \in Nat : m <= MaxDepth => \E f : Solves(f, m)}
<1>1. 0 \in S
    <2> DEFINE f == [v \in Level[0] |-> UnderSecretBody(<<>>, v)]
    <2>1. \A v \in Level[0] : UnderSecretBody(<<>>, v) = UnderSecretBody(f, v)
        BY LevelIs DEF UnderSecretBody, Leaf
    <2>2. f = [v \in Level[0] |-> UnderSecretBody(<<>>, v)]
        OBVIOUS
    <2> HIDE DEF f
    <2>3. f = [v \in Level[0] |-> UnderSecretBody(f, v)]
        BY <2>1, <2>2
    <2>4. QED
        BY <2>3
<1>2. ASSUME NEW m \in Nat, m \in S PROVE m + 1 \in S
    <2> SUFFICES ASSUME m + 1 <= MaxDepth PROVE \E g : Solves(g, m + 1)
        OBVIOUS
    <2>1. m + 1 \in 0 .. MaxDepth /\ m + 1 > 0 /\ (m + 1) - 1 = m
        BY ContractsAssumption
    <2>2. PICK f : Solves(f, m)
        BY <1>2, ContractsAssumption
    <2> DEFINE g == [v \in Level[m + 1] |-> UnderSecretBody(f, v)]
    <2>3. \A v \in Level[m] : g[v] = f[v]
        BY <2>1, <2>2, LevelParts
    <2>4. g = [v \in Level[m + 1] |-> UnderSecretBody(f, v)]
        OBVIOUS
    <2> HIDE DEF g
    <2>5. ASSUME NEW v \in Level[m + 1] PROVE UnderSecretBody(f, v) = UnderSecretBody(g, v)
        <3>1. v \in Leaf \/ v \in Compound(Level[m])
            BY <2>1, LevelParts
        <3>2. CASE v \in Leaf
            BY <3>2 DEF UnderSecretBody, Leaf
        <3>3. CASE v \in Compound(Level[m])
            <4>1. \A k \in DOMAIN v.of : v.of[k] \in Level[m]
                BY <3>3, ObjectIn, ListIn DEF Compound
            <4>2. \A k \in DOMAIN v.of : f[v.of[k]] = g[v.of[k]]
                BY <2>3, <4>1
            <4>3. QED
                BY <4>2 DEF UnderSecretBody
        <3>4. QED
            BY <3>1, <3>2, <3>3
    <2>6. g = [v \in Level[m + 1] |-> UnderSecretBody(g, v)]
        BY <2>4, <2>5
    <2>7. QED
        BY <2>6
<1>3. \E f : f = [v \in Value |-> UnderSecretBody(f, v)]
    <2> HIDE DEF S
    <2>1. \A n \in Nat : n \in S
        BY <1>1, <1>2, NatSet
    <2> USE DEF S
    <2>2. QED
        BY <2>1, ContractsAssumption DEF Value
<1>4. UnderSecret = [v \in Value |-> UnderSecretBody(UnderSecret, v)]
    BY <1>3 DEF UnderSecret, UnderSecretBody
<1>5. QED
    BY <1>4

\* Public.
LEMMA PublicIs ==
    /\ DOMAIN Public = Value
    /\ \A v \in Value : Public[v] = PublicBody(Public, v)
<1> DEFINE Solves(f, m) == f = [v \in Level[m] |-> PublicBody(f, v)]
           S == {m \in Nat : m <= MaxDepth => \E f : Solves(f, m)}
<1>1. 0 \in S
    <2> DEFINE f == [v \in Level[0] |-> PublicBody(<<>>, v)]
    <2>1. \A v \in Level[0] : PublicBody(<<>>, v) = PublicBody(f, v)
        BY LevelIs DEF PublicBody, Leaf
    <2>2. f = [v \in Level[0] |-> PublicBody(<<>>, v)]
        OBVIOUS
    <2> HIDE DEF f
    <2>3. f = [v \in Level[0] |-> PublicBody(f, v)]
        BY <2>1, <2>2
    <2>4. QED
        BY <2>3
<1>2. ASSUME NEW m \in Nat, m \in S PROVE m + 1 \in S
    <2> SUFFICES ASSUME m + 1 <= MaxDepth PROVE \E g : Solves(g, m + 1)
        OBVIOUS
    <2>1. m + 1 \in 0 .. MaxDepth /\ m + 1 > 0 /\ (m + 1) - 1 = m
        BY ContractsAssumption
    <2>2. PICK f : Solves(f, m)
        BY <1>2, ContractsAssumption
    <2> DEFINE g == [v \in Level[m + 1] |-> PublicBody(f, v)]
    <2>3. \A v \in Level[m] : g[v] = f[v]
        BY <2>1, <2>2, LevelParts
    <2>4. g = [v \in Level[m + 1] |-> PublicBody(f, v)]
        OBVIOUS
    <2> HIDE DEF g
    <2>5. ASSUME NEW v \in Level[m + 1] PROVE PublicBody(f, v) = PublicBody(g, v)
        <3>1. v \in Leaf \/ v \in Compound(Level[m])
            BY <2>1, LevelParts
        <3>2. CASE v \in Leaf
            BY <3>2 DEF PublicBody, Leaf
        <3>3. CASE v \in Compound(Level[m])
            <4>1. \A k \in DOMAIN v.of : v.of[k] \in Level[m]
                BY <3>3, ObjectIn, ListIn DEF Compound
            <4>2. \A k \in DOMAIN v.of : f[v.of[k]] = g[v.of[k]]
                BY <2>3, <4>1
            <4>3. QED
                BY <4>2 DEF PublicBody
        <3>4. QED
            BY <3>1, <3>2, <3>3
    <2>6. g = [v \in Level[m + 1] |-> PublicBody(g, v)]
        BY <2>4, <2>5
    <2>7. QED
        BY <2>6
<1>3. \E f : f = [v \in Value |-> PublicBody(f, v)]
    <2> HIDE DEF S
    <2>1. \A n \in Nat : n \in S
        BY <1>1, <1>2, NatSet
    <2> USE DEF S
    <2>2. QED
        BY <2>1, ContractsAssumption DEF Value
<1>4. Public = [v \in Value |-> PublicBody(Public, v)]
    BY <1>3 DEF Public, PublicBody
<1>5. QED
    BY <1>4

\* What SecretsMasked says of a value.
Masked(v) ==
    /\ UnderSecret[Redact[v]] \subseteq {Redacted, Empty}
    /\ Public[Redact[v]] = Public[v]
    /\ Redact[Redact[v]] = Redact[v]

\* A compound value is redacted part by part, into one of the same shape.
LEMMA LevelInValue == \A n \in 0 .. MaxDepth : Level[n] \subseteq Value
<1> DEFINE S == {i \in Nat : i <= MaxDepth => Level[MaxDepth - i] \subseteq Value}
<1>1. 0 \in S
    BY ContractsAssumption DEF Value
<1>2. ASSUME NEW i \in Nat, i \in S PROVE i + 1 \in S
    <2> SUFFICES ASSUME i + 1 <= MaxDepth PROVE Level[MaxDepth - (i + 1)] \subseteq Value
        OBVIOUS
    <2>1. PICK j \in 0 .. MaxDepth : j = MaxDepth - i /\ j > 0 /\ j - 1 = MaxDepth - (i + 1)
        BY ContractsAssumption
    <2>2. Level[j] \subseteq Value
        BY <1>2, <2>1, ContractsAssumption
    <2>3. Level[j - 1] \subseteq Level[j]
        BY <2>1, LevelParts
    <2>4. QED
        BY <2>1, <2>2, <2>3
<1>3. ASSUME NEW n \in 0 .. MaxDepth PROVE Level[n] \subseteq Value
    <2> HIDE DEF S
    <2>1. \A i \in Nat : i \in S
        BY <1>1, <1>2, NatSet
    <2> USE DEF S
    <2>2. MaxDepth - n \in Nat /\ MaxDepth - n <= MaxDepth /\ MaxDepth - (MaxDepth - n) = n
        BY ContractsAssumption
    <2>3. QED
        BY <2>1, <2>2
<1>4. QED
    BY <1>3

LEMMA RedactCompound ==
    ASSUME NEW n \in 0 .. MaxDepth, n > 0, NEW v \in Compound(Level[n - 1]),
           \A u \in Level[n - 1] : Redact[u] \in Level[n - 1]
    PROVE  LET w == Redact[v] IN
           /\ w \in Compound(Level[n - 1])
           /\ w.at = v.at /\ DOMAIN w.of = DOMAIN v.of
           /\ \A k \in DOMAIN v.of :
                 w.of[k] = IF v.at = "object" /\ Masks(k, v.of[k]) THEN Redacted
                           ELSE Redact[v.of[k]]
<1>1. v \in Value
    BY LevelInValue, LevelParts
<1>2. Redacted \in Level[n - 1]
    <2>1. n - 1 \in 0 .. MaxDepth
        BY ContractsAssumption
    <2>2. QED
        BY <2>1, LevelParts DEF Redacted, Leaf
<1> DEFINE of == [k \in DOMAIN v.of |->
                    IF v.at = "object" /\ Masks(k, v.of[k]) THEN Redacted ELSE Redact[v.of[k]]]
<1>3. v.at \in {"object", "list"} /\ \A k \in DOMAIN v.of : v.of[k] \in Level[n - 1]
    BY ObjectIn, ListIn DEF Compound
<1>4. Redact[v] = [at |-> v.at, of |-> of]
    BY <1>1, <1>3, RedactIs DEF RedactBody
<1>5. of \in [DOMAIN v.of -> Level[n - 1]]
    BY <1>2, <1>3
<1>6. DOMAIN of = DOMAIN v.of /\ \A k \in DOMAIN v.of : of[k] =
        IF v.at = "object" /\ Masks(k, v.of[k]) THEN Redacted ELSE Redact[v.of[k]]
    OBVIOUS
<1> HIDE DEF of
<1>7. [at |-> v.at, of |-> of] \in Compound(Level[n - 1])
    <2>1. CASE v \in Object(Level[n - 1])
        <3>1. v.at = "object" /\ DOMAIN v.of \in SUBSET Key
            BY <2>1, ObjectIn
        <3>2. QED
            BY <1>5, <3>1, ObjectIn DEF Compound
    <2>2. CASE v \in ListOf(Level[n - 1])
        <3>1. PICK i \in 0 .. MaxItems : v.at = "list" /\ DOMAIN v.of = 1 .. i
            BY <2>2, ListIn
        <3>2. QED
            BY <1>5, <3>1, ListIn DEF Compound
    <2>3. QED
        BY <2>1, <2>2 DEF Compound
<1>8. QED
    BY <1>4, <1>6, <1>7

LEMMA AllMasked == \A v \in Value : Masked(v)
<1> DEFINE S == {n \in Nat : n <= MaxDepth =>
                    \A v \in Level[n] : Redact[v] \in Level[n] /\ Masked(v)}
<1>1. \A v \in Leaf : Redact[v] = v /\ Masked(v)
    <2>1. Leaf \subseteq Value /\ \A v \in Leaf : v.at = "leaf"
        <3>1. 0 \in 0 .. MaxDepth
            BY ContractsAssumption
        <3>2. Leaf \subseteq Value
            BY <3>1, LevelInValue, LevelIs
        <3>3. QED
            BY <3>2 DEF Leaf
    <2>2. QED
        BY <2>1, RedactIs, UnderSecretIs, PublicIs
        DEF Masked, RedactBody, UnderSecretBody, PublicBody
<1>2. 0 \in S
    BY <1>1, LevelIs
<1>3. ASSUME NEW m \in Nat, m \in S PROVE m + 1 \in S
    <2> DEFINE n == m + 1
    <2> SUFFICES ASSUME n <= MaxDepth, NEW v \in Level[n]
                 PROVE  Redact[v] \in Level[n] /\ Masked(v)
        OBVIOUS
    <2>1. n \in 0 .. MaxDepth /\ n > 0 /\ n - 1 = m /\ m \in 0 .. MaxDepth
        BY ContractsAssumption
    <2>2. \A u \in Level[m] : Redact[u] \in Level[m] /\ Masked(u)
        BY <1>3, <2>1
    <2> HIDE DEF S, n
    <2>3. v \in Leaf \/ v \in Compound(Level[m])
        BY <2>1, LevelParts
    <2>4. CASE v \in Leaf
        BY <1>1, <2>4
    <2>5. CASE v \in Compound(Level[m])
        <3>1. PICK w : /\ w = Redact[v] /\ w \in Compound(Level[m])
                       /\ w.at = v.at /\ DOMAIN w.of = DOMAIN v.of
                       /\ \A k \in DOMAIN v.of :
                             w.of[k] = IF v.at = "object" /\ Masks(k, v.of[k]) THEN Redacted
                                       ELSE Redact[v.of[k]]
            BY <2>1, <2>2, <2>5, RedactCompound
        <3>2. w \in Level[n] /\ w \in Value /\ v \in Value /\ Level[m] \subseteq Value
            BY <2>1, <2>5, <3>1, LevelParts, LevelInValue
        <3>3. /\ v.at \in {"object", "list"} /\ \A k \in DOMAIN v.of : v.of[k] \in Level[m]
              /\ w = [at |-> w.at, of |-> w.of] /\ w.of = [k \in DOMAIN w.of |-> w.of[k]]
            BY <2>5, <3>1, ObjectIn, ListIn DEF Compound
        <3>4. Redacted # Empty /\ Redact[Redacted] = Redacted /\ Redact[Empty] = Empty
            BY <1>1 DEF Redacted, Empty, Leaf
        <3>5. UnderSecret[w] \subseteq {Redacted, Empty}
            <4>1. UnderSecret[w] =
                    UNION {IF w.at = "object" /\ k \in SecretKey THEN {w.of[k]}
                           ELSE UnderSecret[w.of[k]] : k \in DOMAIN w.of}
                BY <3>1, <3>2, <3>3, UnderSecretIs DEF UnderSecretBody
            <4>2. ASSUME NEW k \in DOMAIN w.of, w.at = "object", k \in SecretKey
                  PROVE  w.of[k] \in {Redacted, Empty}
                BY <3>1, <3>4, <4>2 DEF Masks
            <4>3. ASSUME NEW k \in DOMAIN w.of, ~(w.at = "object" /\ k \in SecretKey)
                  PROVE  UnderSecret[w.of[k]] \subseteq {Redacted, Empty}
                BY <2>2, <3>1, <3>3, <4>3 DEF Masks, Masked
            <4>4. QED
                BY <4>1, <4>2, <4>3
        <3>6. Public[w] = Public[v]
            <4> DEFINE Part(u, k) ==
                        IF u.at = "object" /\ k \in SecretKey THEN Empty ELSE Public[u.of[k]]
            <4>1. /\ Public[w] = [at |-> w.at, of |-> [k \in DOMAIN w.of |-> Part(w, k)]]
                  /\ Public[v] = [at |-> v.at, of |-> [k \in DOMAIN v.of |-> Part(v, k)]]
                BY <3>1, <3>2, <3>3, PublicIs DEF PublicBody
            <4>2. \A k \in DOMAIN v.of : Part(w, k) = Part(v, k)
                BY <2>2, <3>1, <3>3 DEF Masks, Masked
            <4> HIDE DEF Part
            <4>3. QED
                BY <3>1, <4>1, <4>2
        <3>7. Redact[w] = w
            <4> DEFINE Part(k) ==
                        IF w.at = "object" /\ Masks(k, w.of[k]) THEN Redacted ELSE Redact[w.of[k]]
            <4>1. Redact[w] = [at |-> w.at, of |-> [k \in DOMAIN w.of |-> Part(k)]]
                BY <3>1, <3>2, <3>3, RedactIs DEF RedactBody
            <4>2. \A k \in DOMAIN w.of : Part(k) = w.of[k]
                BY <2>2, <3>1, <3>3, <3>4 DEF Masks, Masked
            <4> HIDE DEF Part
            <4>3. QED
                BY <3>3, <4>1, <4>2
        <3>8. QED
            BY <3>1, <3>2, <3>5, <3>6, <3>7 DEF Masked
    <2>6. QED
        BY <2>3, <2>4, <2>5
<1>4. QED
    <2> HIDE DEF S
    <2>1. \A n \in Nat : n \in S
        BY <1>2, <1>3, NatSet
    <2> USE DEF S
    <2>2. QED
        BY <2>1, ContractsAssumption DEF Value

-------------------------------------------------------------------------------
(* ConsoleContracts: the other contracts.                                  *)

\* What a config of the program is, its tools' URLs resolved.
URL == [server : {"none", "own", "backend"}, path : Tool \cup {"none", "hook"}]
ResolvedConfig ==
    [kind : {"config"}, server : {"none", "own", "backend"},
     tools : UNION {[S -> URL] : S \in SUBSET Tool},
     loose : {"no", "unset", "own", "backend"},
     mode : {"unset", "s2s"}, llm : {"none", "openai", "bedrock"}, s2s : {"none", "openai", "aws"},
     region : BOOLEAN, voicemail : BOOLEAN, topics : BOOLEAN, analysis : BOOLEAN]

LEMMA ConfigOfIs ==
    ASSUME NEW c \in ConfigCase
    PROVE  /\ ConfigOf(c) \in ResolvedConfig
           /\ \A t \in DOMAIN ConfigOf(c).tools :
                 ConfigOf(c).tools[t] \in {Nowhere, Own, Endpoint("backend", t)}
<1>1. PICK S \in SUBSET Tool : c.tools \in [S -> {"unset", "own", "backend"}]
    BY DEF ConfigCase
<1> DEFINE tools == [t \in DOMAIN c.tools |-> URLOf(c.tools[t], t)]
<1>2. \A t \in S : tools[t] \in {Nowhere, Own, Endpoint("backend", t)} /\ tools[t] \in URL
    BY <1>1 DEF URLOf, Nowhere, Own, Endpoint, URL
<1>3. DOMAIN tools = S /\ tools = [t \in S |-> tools[t]]
    BY <1>1
<1>4. ConfigOf(c) = [c EXCEPT !.tools = tools]
    BY DEF ConfigOf
<1> HIDE DEF tools
<1>5. tools \in [S -> URL]
    BY <1>2, <1>3
<1>6. ConfigOf(c) \in ResolvedConfig /\ ConfigOf(c).tools = tools
    BY <1>4, <1>5 DEF ConfigCase, ResolvedConfig
<1>7. QED
    BY <1>2, <1>3, <1>6

\* Configs are equal that agree on every field.
LEMMA SameConfig ==
    ASSUME NEW c \in ResolvedConfig, NEW d \in ResolvedConfig,
           c.server = d.server, c.tools = d.tools, c.loose = d.loose, c.mode = d.mode,
           c.llm = d.llm, c.s2s = d.s2s, c.region = d.region, c.voicemail = d.voicemail,
           c.topics = d.topics, c.analysis = d.analysis
    PROVE  c = d
<1>1. \A e \in ResolvedConfig :
        e = [kind |-> "config", server |-> e.server, tools |-> e.tools, loose |-> e.loose,
             mode |-> e.mode, llm |-> e.llm, s2s |-> e.s2s, region |-> e.region,
             voicemail |-> e.voicemail, topics |-> e.topics, analysis |-> e.analysis]
    BY DEF ResolvedConfig
<1>2. QED
    BY <1>1

\* What normalizing c for a server makes of it.
IsNormal(n, c, server) ==
    /\ n \in ResolvedConfig
    /\ n.server = server
    /\ n.tools = [t \in DOMAIN c.tools |-> ResolvedToolUrl(c.tools[t], server, t)]
    /\ n.loose = c.loose /\ n.mode = c.mode
    /\ n.llm = IF c.mode = "s2s" THEN "none" ELSE c.llm
    /\ n.s2s = IF c.mode = "s2s" THEN c.s2s ELSE "none"
    /\ n.region = c.region /\ n.voicemail = c.voicemail /\ n.topics = c.topics
    /\ n.analysis = c.analysis

LEMMA NormalizeIs ==
    ASSUME NEW c \in ResolvedConfig, NEW port \in BOOLEAN
    PROVE  IsNormal(Normalize(c, port), c, EffectiveServer(c.server, port))
<1> DEFINE server == EffectiveServer(c.server, port)
           tools == [t \in DOMAIN c.tools |-> ResolvedToolUrl(c.tools[t], server, t)]
           resolved == [c EXCEPT !.server = server, !.tools = tools]
<1>1. server \in {"none", "own", "backend"}
    BY DEF ResolvedConfig, EffectiveServer
<1>2. PICK S \in SUBSET Tool : c.tools \in [S -> URL]
    BY DEF ResolvedConfig
<1>3. \A t \in S : tools[t] \in URL
    BY <1>1, <1>2 DEF ResolvedToolUrl, Nowhere, Endpoint, URL
<1>4. tools \in [S -> URL]
    BY <1>2, <1>3
<1>5. Normalize(c, port) = WithoutInertBlocks(resolved)
    BY DEF Normalize
<1>6. tools = [t \in DOMAIN c.tools |-> ResolvedToolUrl(c.tools[t], server, t)]
    OBVIOUS
<1>7. server = EffectiveServer(c.server, port)
    OBVIOUS
<1> HIDE DEF server, tools
<1>8. /\ resolved \in ResolvedConfig /\ resolved.server = server /\ resolved.tools = tools
      /\ resolved.loose = c.loose /\ resolved.mode = c.mode /\ resolved.llm = c.llm
      /\ resolved.s2s = c.s2s /\ resolved.region = c.region
      /\ resolved.voicemail = c.voicemail /\ resolved.topics = c.topics
      /\ resolved.analysis = c.analysis
    BY <1>1, <1>4 DEF ResolvedConfig
<1> HIDE DEF resolved
<1>9. \A d \in ResolvedConfig :
        LET n == WithoutInertBlocks(d) IN
        /\ n \in ResolvedConfig /\ n.server = d.server /\ n.tools = d.tools
        /\ n.loose = d.loose /\ n.mode = d.mode
        /\ n.llm = IF d.mode = "s2s" THEN "none" ELSE d.llm
        /\ n.s2s = IF d.mode = "s2s" THEN d.s2s ELSE "none"
        /\ n.region = d.region /\ n.voicemail = d.voicemail /\ n.topics = d.topics
        /\ n.analysis = d.analysis
    BY DEF ResolvedConfig, WithoutInertBlocks
<1>10. QED
    BY <1>5, <1>6, <1>7, <1>8, <1>9 DEF IsNormal

\* The URL of a tool that has been resolved, with or without the backend's port,
\* resolves to what it would have resolved to.
LEMMA ResolvedAgain ==
    ASSUME NEW url \in URL, NEW t \in Tool \cup {Loose}, NEW port \in BOOLEAN,
           NEW server \in {"none", "own", "backend"}
    PROVE  LET base == EffectiveServer(server, TRUE)
               then == EffectiveServer(server, port)
           IN  /\ EffectiveServer(then, TRUE) = base
               /\ ResolvedToolUrl(ResolvedToolUrl(url, then, t), base, t) =
                    ResolvedToolUrl(url, base, t)
    BY DEF EffectiveServer, ResolvedToolUrl, Endpoint, Nowhere, URL

LEMMA EffectKept ==
    ASSUME NEW c \in ResolvedConfig, NEW port \in BOOLEAN
    PROVE  Effect(Normalize(c, port)) = Effect(c)
<1> DEFINE n == Normalize(c, port)
<1>1. IsNormal(n, c, EffectiveServer(c.server, port))
    BY NormalizeIs
<1>2. c.server \in {"none", "own", "backend"} /\ DOMAIN c.tools \subseteq Tool
      /\ \A t \in DOMAIN c.tools : c.tools[t] \in URL
    BY DEF ResolvedConfig
<1> HIDE DEF n
<1>3. Wired(n) = Wired(c)
    <2> DEFINE base == EffectiveServer(c.server, TRUE)
    <2>1. EffectiveServer(n.server, TRUE) = base
        BY <1>1, <1>2 DEF IsNormal, EffectiveServer
    <2>2. \A t \in DOMAIN c.tools :
            ResolvedToolUrl(n.tools[t], base, t) = ResolvedToolUrl(c.tools[t], base, t)
        <3> SUFFICES ASSUME NEW t \in DOMAIN c.tools
                     PROVE  ResolvedToolUrl(n.tools[t], base, t) =
                                ResolvedToolUrl(c.tools[t], base, t)
            OBVIOUS
        <3>1. n.tools[t] = ResolvedToolUrl(c.tools[t], EffectiveServer(c.server, port), t)
            BY <1>1 DEF IsNormal
        <3>2. QED
            BY <1>2, <3>1, ResolvedAgain
    <2> HIDE DEF base
    <2>3. Loose \notin DOMAIN c.tools
        BY <1>2, ContractsAssumption DEF Loose
    <2>4. QED
        BY <1>1, <2>1, <2>2, <2>3 DEF IsNormal, Wired, base
<1>4. Fields(n) \ {"aws"} = Fields(c) \ {"aws"}
    BY <1>1 DEF IsNormal, Fields
<1>5. LET model(d) == IF d.mode = "s2s" THEN S2SOr(d) ELSE LLMOr(d) IN
      /\ model(n) = model(c)
      /\ model(c) \in {"aws", "bedrock"} => UsesAWS(n) /\ UsesAWS(c)
    BY <1>1 DEF IsNormal, S2SOr, LLMOr, UsesAWS, ResolvedConfig
<1>6. \A d : "aws" \in Fields(d) <=> d.region /\ UsesAWS(d)
    BY DEF Fields
<1>7. QED
    BY <1>1, <1>3, <1>4, <1>5, <1>6 DEF IsNormal, Effect, n

LEMMA NormalizedAgain ==
    ASSUME NEW c \in ResolvedConfig, NEW port \in BOOLEAN
    PROVE  Normalize(Normalize(c, port), TRUE) = Normalize(c, TRUE)
<1>1. PICK n : n = Normalize(c, port)
    OBVIOUS
<1>2. PICK s : s = Normalize(c, TRUE)
    OBVIOUS
<1>3. PICK m : m = Normalize(n, TRUE)
    OBVIOUS
<1>4. IsNormal(n, c, EffectiveServer(c.server, port))
    BY <1>1, NormalizeIs
<1>5. IsNormal(s, c, EffectiveServer(c.server, TRUE))
    BY <1>2, NormalizeIs, Zenon
<1>6. IsNormal(m, n, EffectiveServer(n.server, TRUE))
    <2>1. n \in ResolvedConfig
        BY <1>4 DEF IsNormal
    <2>2. QED
        BY <1>3, <2>1, NormalizeIs, Zenon
<1>7. c.server \in {"none", "own", "backend"} /\ DOMAIN c.tools \subseteq Tool
      /\ \A t \in DOMAIN c.tools : c.tools[t] \in URL
    BY DEF ResolvedConfig
<1>8. m.server = s.server
    BY <1>4, <1>5, <1>6, <1>7 DEF IsNormal, EffectiveServer
<1>9. ASSUME NEW t \in DOMAIN c.tools PROVE m.tools[t] = s.tools[t]
    <2>1. /\ n.tools[t] = ResolvedToolUrl(c.tools[t], n.server, t)
          /\ m.tools[t] = ResolvedToolUrl(n.tools[t], m.server, t)
          /\ s.tools[t] = ResolvedToolUrl(c.tools[t], m.server, t)
        <3>1. n.tools = [u \in DOMAIN c.tools |-> ResolvedToolUrl(c.tools[u], n.server, u)]
            BY <1>4 DEF IsNormal
        <3>2. m.tools = [u \in DOMAIN n.tools |-> ResolvedToolUrl(n.tools[u], m.server, u)]
            BY <1>6 DEF IsNormal
        <3>3. s.tools = [u \in DOMAIN c.tools |-> ResolvedToolUrl(c.tools[u], s.server, u)]
            BY <1>5 DEF IsNormal
        <3>4. QED
            BY <1>8, <3>1, <3>2, <3>3
    <2>2. n.server = "none" \/ m.server = n.server
        BY <1>4, <1>6, <1>7 DEF IsNormal, EffectiveServer
    <2>3. QED
        BY <1>7, <2>1, <2>2 DEF ResolvedToolUrl, Endpoint, Nowhere
<1>10. m.tools = s.tools
    <2>1. DOMAIN n.tools = DOMAIN c.tools
        BY <1>4 DEF IsNormal
    <2>2. m.tools = [t \in DOMAIN c.tools |-> m.tools[t]]
        BY <1>6, <2>1 DEF IsNormal
    <2>3. s.tools = [t \in DOMAIN c.tools |-> s.tools[t]]
        BY <1>5 DEF IsNormal
    <2>4. QED
        BY <1>9, <2>2, <2>3
<1>11. /\ m.loose = s.loose /\ m.mode = s.mode /\ m.llm = s.llm /\ m.s2s = s.s2s
       /\ m.region = s.region /\ m.voicemail = s.voicemail /\ m.topics = s.topics
       /\ m.analysis = s.analysis /\ m \in ResolvedConfig /\ s \in ResolvedConfig
    BY <1>4, <1>5, <1>6 DEF IsNormal
<1>12. QED
    BY <1>1, <1>2, <1>3, <1>8, <1>10, <1>11, SameConfig

LEMMA RenderedKept ==
    ASSUME NEW c \in ResolvedConfig
    PROVE  LET stored == Normalize(c, TRUE) IN
           /\ Rendered(c) = Rendered(stored)
           /\ \A t \in DOMAIN c.tools : t \in Rendered(stored) <=> Wired(c)[t].server = "backend"
<1>1. PICK s : s = Normalize(c, TRUE)
    OBVIOUS
<1>2. IsNormal(s, c, EffectiveServer(c.server, TRUE))
    BY <1>1, NormalizeIs, Zenon
<1>3. c.server \in {"none", "own", "backend"} /\ DOMAIN c.tools \subseteq Tool
      /\ \A t \in DOMAIN c.tools : c.tools[t] \in URL
    BY DEF ResolvedConfig
<1>4. s.server = EffectiveServer(c.server, TRUE) /\ EffectiveServer(s.server, TRUE) = s.server
    BY <1>2, <1>3 DEF IsNormal, EffectiveServer
<1>5. ASSUME NEW t \in DOMAIN c.tools
      PROVE  ResolvedToolUrl(s.tools[t], s.server, t) = ResolvedToolUrl(c.tools[t], s.server, t)
    <2>1. s.tools[t] = ResolvedToolUrl(c.tools[t], s.server, t)
        BY <1>2, <1>4 DEF IsNormal
    <2>2. QED
        BY <2>1 DEF ResolvedToolUrl, Endpoint, Nowhere
<1>6. External(s) = External(c)
    <2>1. DOMAIN s.tools = DOMAIN c.tools
        BY <1>2 DEF IsNormal
    <2>2. QED
        BY <1>4, <1>5, <2>1 DEF External
<1>7. \A t \in DOMAIN c.tools : t # Loose
    BY <1>3, ContractsAssumption DEF Loose
<1>8. \A t \in DOMAIN c.tools : Wired(c)[t] = ResolvedToolUrl(c.tools[t], s.server, t)
    BY <1>4, <1>7 DEF Wired
<1>9. DOMAIN s.tools = DOMAIN c.tools
    BY <1>2 DEF IsNormal
<1>10. QED
    BY <1>1, <1>4, <1>6, <1>8, <1>9 DEF Rendered, External

\* A case is of the kind it says it is.
LEMMA KindOf ==
    ASSUME ConTypeOK
    PROVE  /\ case.kind = "config" => case \in ConfigCase
           /\ case.kind = "file" => case \in FileCase
           /\ case.kind = "range" => case \in RangeCase
           /\ case.kind \in {"error", "call"} => case \in TurnCase
    BY DEF ConTypeOK, NoCase, ConfigCase, FileCase, RangeCase, TurnCase

LEMMA ConInitial == ConInit => ConTypeOK
    BY DEF ConInit, ConTypeOK

LEMMA ConStep == ConTypeOK /\ [ConNext]_case => ConTypeOK'
    BY DEF ConTypeOK, ConNext, Pose

LEMMA ConTypes == ConSpec => []ConTypeOK
    BY ConInitial, ConStep, PTL DEF ConSpec

LEMMA MaskedHolds == ConTypeOK => SecretsMasked
    BY KindOf, AllMasked DEF SecretsMasked, Masked, FileCase

LEMMA NormalizingHolds == ConTypeOK => NormalizingIsInvisible
<1> SUFFICES ASSUME ConTypeOK, case.kind = "config" PROVE NormalizingIsInvisible
    BY DEF NormalizingIsInvisible
<1>1. PICK c : c = ConfigOf(case)
    OBVIOUS
<1>2. c \in ResolvedConfig
    BY <1>1, KindOf, ConfigOfIs
<1>3. PICK shown : shown = Normalize(c, FALSE)
    OBVIOUS
<1>4. PICK stored : stored = Normalize(c, TRUE)
    OBVIOUS
<1>5. Effect(stored) = Effect(c) /\ Effect(shown) = Effect(c)
    BY <1>2, <1>3, <1>4, EffectKept
<1>6. Normalize(shown, TRUE) = stored /\ Normalize(stored, TRUE) = stored
    BY <1>2, <1>3, <1>4, NormalizedAgain
<1>7. ~ToolsChanged(Normalize(stored, TRUE), stored)
    BY <1>6 DEF ToolsChanged
<1>8. QED
    BY <1>1, <1>2, <1>3, <1>4, <1>5, <1>6, <1>7, RenderedKept DEF NormalizingIsInvisible

LEMMA ProbeHolds == ProbeCoversMapper
    BY DEF ProbeCoversMapper, EmittedFields, Fields, Probe

LEMMA VerdictHolds == ConTypeOK => VerdictFitsCause
<1> SUFFICES ASSUME ConTypeOK PROVE VerdictFitsCause
    OBVIOUS
<1>1. CASE case.kind = "error"
    <2>1. case.said \in Reported
        BY <1>1, KindOf DEF TurnCase
    <2>2. PICK e : e = case.said
        OBVIOUS
    <2>3. Told(e) /\ e.words \in Phrases
        BY <2>1, <2>2 DEF Reported
    <2>4. ASSUME e.cause \in {"credit", "auth"} PROVE StatusOf(ClassifyVendorError(e)) = 502
        <3>1. ClassifyVendorError(e) \in {"credit", "auth"}
            BY <2>3, <2>4 DEF Told, ClassifyVendorError
        <3>2. QED
            BY <3>1 DEF StatusOf
    <2>5. ASSUME e.cause \in {"rate_limit", "overload"}, e.words \subseteq {"limit"}
          PROVE  StatusOf(ClassifyVendorError(e)) = 503
        <3>1. "credit" \notin e.words /\ "auth" \notin e.words
            BY <2>5
        <3>2. e.status \notin {401, 403}
            BY <2>3, <2>5 DEF Told
        <3>3. ClassifyVendorError(e) \in {"rate_limit", "upstream"}
            BY <3>1, <3>2 DEF ClassifyVendorError
        <3>4. QED
            BY <3>3 DEF StatusOf
    <2>6. QED
        BY <1>1, <2>2, <2>4, <2>5 DEF VerdictFitsCause, TurnStatus
<1>2. CASE case.kind = "call"
    <2>1. case.tool \in Called
        BY <1>2, KindOf DEF TurnCase
    <2>2. QED
        BY <1>2, <2>1 DEF VerdictFitsCause, TurnStatus, Composed, ToResult, StatusOf, Called
<1>3. CASE case.kind \notin {"error", "call"}
    BY <1>3 DEF VerdictFitsCause
<1>4. QED
    BY <1>1, <1>2, <1>3

LEMMA RangeHolds == ConTypeOK => RangeIsExact
<1> SUFFICES ASSUME ConTypeOK, case.kind = "range", case.first >= 0, case.last # Junk
             PROVE  RangeIsExact
    BY DEF RangeIsExact
<1>1. PICK total \in Nat, first \in Nat, last \in Int :
        /\ total = case.total /\ first = case.first /\ last = case.last
        /\ last = -1 \/ last \in Nat
    BY KindOf, ContractsAssumption DEF RangeCase, Junk
<1> DEFINE end == IF last = -1 THEN total - 1 ELSE IF last < total - 1 THEN last ELSE total - 1
           asked == {i \in 0 .. total - 1 : i >= first /\ (last = -1 \/ i <= last)}
<1>2. Recording(case) = IF first > end \/ first >= total THEN [status |-> 416, from |-> 0, to |-> -1]
                        ELSE [status |-> 206, from |-> first, to |-> end]
    BY <1>1 DEF Recording, RangeEnd, Smaller, Absent, Junk
<1>3. end \in Int
    BY <1>1
<1>4. CASE first > end \/ first >= total
    <2>1. asked = {}
        BY <1>1, <1>4
    <2>2. 0 .. -1 = {}
        OBVIOUS
    <2>3. QED
        BY <1>1, <1>2, <1>4, <2>1, <2>2 DEF RangeIsExact, Absent
<1>5. CASE ~(first > end \/ first >= total)
    <2>1. asked = first .. end /\ first \in asked
        BY <1>1, <1>5
    <2>2. QED
        BY <1>1, <1>2, <1>5, <2>1 DEF RangeIsExact, Absent
<1>6. QED
    BY <1>4, <1>5

-------------------------------------------------------------------------------
\* _helpers.py:62-87: for every config and every set of custom tools, normalizing
\* changes nothing that TurnCall or the backend sees, and is done once for all.
THEOREM NormalizingIsInvisibleThm == ConSpec => []NormalizingIsInvisible
    BY ConTypes, NormalizingHolds, PTL

\* schema_check.py:26-30: no config makes the mapper send a field that the probe
\* does not name, aws apart.
THEOREM ProbeCoversMapperThm == ConSpec => []ProbeCoversMapper
    BY ProbeHolds, PTL

\* github.py:196-209: whatever the keys, which of them are secret, and however deep
\* a config nests, only masks and empty values are pushed under a secret key and
\* everything else is pushed as it is.
THEOREM SecretsMaskedThm == ConSpec => []SecretsMasked
    BY ConTypes, MaskedHolds, PTL

\* calls.py:82-105: for a recording of any length, the bytes answered are those
\* asked for, and none is refused that has a byte to give.
THEOREM RangeIsExactThm == ConSpec => []RangeIsExact
    BY ConTypes, RangeHolds, PTL

\* sessions.py:112-137: whatever the vendor says, an empty account and a refused key
\* are never answered with a retry; plainly told rate limits and overloads are.
THEOREM VerdictFitsCauseThm == ConSpec => []VerdictFitsCause
    BY ConTypes, VerdictHolds, PTL

-------------------------------------------------------------------------------
(* The parts together.                                                     *)

ConsoleInv == EditsInv /\ ChatInv /\ KBInv /\ CatInv /\ AccInv /\ ConTypeOK

LEMMA ConsoleInvariant == ConsoleSpec => []ConsoleInv
<1>1. ConsoleInit => ConsoleInv
    BY EditsInitial, ChatInitial, KBInitial, CatInitial, AccInitial, ConInitial
    DEF ConsoleInit, ConsoleInv
<1>2. ConsoleInv /\ [ConsoleNext]_<<part, vars, kbVars, catVars, accVars, case>> => ConsoleInv'
    <2> SUFFICES ASSUME ConsoleInv, [ConsoleNext]_<<part, vars, kbVars, catVars, accVars, case>>
                 PROVE  ConsoleInv'
        OBVIOUS
    \* Whichever part runs, each part makes a step of its own or none.
    <2>1. /\ [Next]_vars /\ [KBNext]_kbVars /\ [CatNext]_catVars /\ [AccNext]_accVars
          /\ [ConNext]_case
        BY DEF ConsoleNext
    <2>2. EditsInv' /\ ChatInv'
        BY <2>1, EditsStep, ChatStep DEF ConsoleInv
    <2>3. KBInv' /\ CatInv' /\ AccInv' /\ ConTypeOK'
        BY <2>1, KBStep, CatStep, AccStep, ConStep DEF ConsoleInv
    <2>4. QED
        BY <2>2, <2>3 DEF ConsoleInv
<1>3. QED
    BY <1>1, <1>2, PTL DEF ConsoleSpec

\* Every part's variables hold values the code could hold, whichever part runs.
THEOREM ConsoleTypeCorrect == ConsoleSpec => []TypeOK
<1>1. ConsoleInv => TypeOK
    BY DEF ConsoleInv, EditsInv, KBInv, CatInv, AccInv, TypeOK
<1>2. QED
    BY <1>1, ConsoleInvariant, PTL
===============================================================================
