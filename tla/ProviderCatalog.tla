--------------------------- MODULE ProviderCatalog ---------------------------
(***************************************************************************)
(* The cached model and voice listings of the config form.  Entries of the  *)
(* cache do not interact, so a behaviour follows one of them: `entry' is     *)
(* its kind and provider, `keyed' whether the provider's key is set.         *)
(***************************************************************************)
EXTENDS Naturals

CONSTANTS
    Reader,     \* requests for the listing, used again and again
    Version,    \* the listings the provider may publish, none of them empty
    TTL,        \* the time a cached listing is fresh
    MaxTime     \* bound: time stops here

ASSUME CatalogAssumption == TTL \in Nat \ {0} /\ MaxTime \in Nat

VARIABLES
    entry, keyed,   \* which listing; never changes
    now,            \* time.monotonic()
    cached,         \* _CACHE: expiry and values of the entry; at most one
    reader,         \* per request: where it is, and what it read before its fetch
    latest,         \* history: what the last successful fetch returned
    overlapped      \* history: two fetches of the entry overlapped

catVars == <<entry, keyed, now, cached, reader, latest, overlapped>>

Provider == {"openrouter", "openai", "anthropic", "bedrock", "ollama", "google", "aws",
             "deepgram", "elevenlabs", "cartesia"}
Entries == {"llm", "s2s", "s2sv", "stt", "tts"} \X Provider

\* A listing: what the provider publishes, the builder's own list, or nothing.
Listing == Version \cup {"curated", "empty"}
Hit == [until : 0 .. MaxTime + TTL, values : Listing]

-------------------------------------------------------------------------------
(* The fetchers, for a provider that publishes `live'.                     *)

IfKeyed(live) == IF keyed THEN live ELSE "empty"
OrKnown(live) == IF live = "empty" THEN "curated" ELSE live

\* ollama and custom_openai target a per-agent endpoint.
LLMModels(p, live) ==
    CASE p = "openrouter" -> live
      [] p \in {"openai", "anthropic"} -> IfKeyed(live)
      [] p = "bedrock" -> "curated"
      [] OTHER -> "empty"

\* Without key, or with nothing usable in the answer, the known models.
S2SModels(p, live) ==
    CASE p \in {"openai", "google"} -> OrKnown(IfKeyed(live))
      [] p = "aws" -> "curated"
      [] OTHER -> "empty"

S2SVoices(p) == IF p \in {"openai", "google", "aws"} THEN "curated" ELSE "empty"

STTModels(p, live) ==
    CASE p = "deepgram" -> IfKeyed(live)
      [] p \in {"openai", "elevenlabs", "cartesia"} -> "curated"
      [] OTHER -> "empty"

TTSVoices(p, live) ==
    CASE p = "openai" -> "curated"
      [] p \in {"elevenlabs", "cartesia", "deepgram"} -> IfKeyed(live)
      [] OTHER -> "empty"

Fetched(live) ==
    LET p == entry[2] IN
    CASE entry[1] = "llm" -> LLMModels(p, live)
      [] entry[1] = "s2s" -> S2SModels(p, live)
      [] entry[1] = "s2sv" -> S2SVoices(p)
      [] entry[1] = "stt" -> STTModels(p, live)
      [] entry[1] = "tts" -> TTSVoices(p, live)

-------------------------------------------------------------------------------
(* _cached.                                                                *)

Resting == [fetching |-> FALSE, began |-> 0, hit |-> {}]

CatInit ==
    /\ entry \in Entries /\ keyed \in BOOLEAN
    /\ now = 0
    /\ cached = {}
    /\ reader = [r \in Reader |-> Resting]
    /\ latest = "empty"
    /\ overlapped = FALSE

Tick ==
    /\ now < MaxTime
    /\ now' = now + 1
    /\ UNCHANGED <<entry, keyed, cached, reader, latest, overlapped>>

Fresh == \E hit \in cached : hit.until > now

\* A fresh entry is served as it is; otherwise the fetch begins, and the request
\* keeps the time and the entry it saw.
BeginFetch(r) ==
    /\ ~reader[r].fetching /\ ~Fresh
    /\ reader' = [reader EXCEPT ![r] = [fetching |-> TRUE, began |-> now, hit |-> cached]]
    /\ overlapped' = (overlapped \/ \E q \in Reader : reader[q].fetching)
    /\ UNCHANGED <<entry, keyed, now, cached, latest>>

FallbackNone(r) == "empty"

\* After an error the entry seen at the start is served again.
Fallback(r) == IF reader[r].hit = {} THEN "empty" ELSE (CHOOSE h \in reader[r].hit : TRUE).values

\* Either way the values are cached for a whole TTL from when the fetch began.
Caches(r, values) ==
    /\ cached' = {[until |-> reader[r].began + TTL, values |-> values]}
    /\ reader' = [reader EXCEPT ![r] = Resting]
    /\ UNCHANGED <<entry, keyed, now, overlapped>>

FetchSucceeds(r) ==
    /\ reader[r].fetching
    /\ \E live \in Version \cup {"empty"} :
          Caches(r, Fetched(live)) /\ latest' = Fetched(live)

FetchFails(r) ==
    /\ reader[r].fetching
    /\ Caches(r, Fallback(r))
    /\ UNCHANGED latest

CatNext == Tick \/ \E r \in Reader : BeginFetch(r) \/ FetchSucceeds(r) \/ FetchFails(r)

CatSpec == CatInit /\ [][CatNext]_catVars

-------------------------------------------------------------------------------
\* Every variable holds what the catalog could hold.
CatTypeOK ==
    /\ entry \in Entries /\ keyed \in BOOLEAN /\ now \in 0 .. MaxTime
    /\ cached \in {{}} \cup {{hit} : hit \in Hit}
    /\ reader \in [Reader -> [fetching : BOOLEAN, began : 0 .. MaxTime, hit : SUBSET Hit]]
    /\ latest \in Listing /\ overlapped \in BOOLEAN

\* provider_catalog.py:36-48: until two fetches of an entry overlap, the cache
\* holds what the provider last answered, however many fetches fail after it, and
\* no entry is fresh for longer than a TTL.
FailuresKeepTheListing ==
    /\ ~overlapped => \A hit \in cached : hit.values = latest
    /\ \A hit \in cached : hit.until <= now + TTL
===============================================================================
