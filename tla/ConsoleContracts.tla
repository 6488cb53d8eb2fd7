--------------------------- MODULE ConsoleContracts ---------------------------
(***************************************************************************)
(* What the console's pure functions promise each other, over bounded       *)
(* inputs: the normalized config and the body sent to TurnCall, the startup *)
(* schema probe, the redacted config file, the byte ranges of recordings    *)
(* and the outcome of a builder turn.  A behaviour poses one case.          *)
(***************************************************************************)
EXTENDS Integers, FiniteSets

CONSTANTS
    Tool,           \* names of custom tools; their names are distinct
    Key, SecretKey, \* names of a config's entries; those in _SECRET_KEYS, in any case
    MaxDepth,       \* bound: nesting of a config
    MaxItems,       \* bound: items of a list in it
    MaxLength       \* bound: bytes of a recording

ASSUME ContractsAssumption ==
    /\ "loose" \notin Tool
    /\ SecretKey \subseteq Key
    /\ MaxDepth \in Nat /\ MaxItems \in Nat /\ MaxLength \in Nat

VARIABLE case

NoCase == [kind |-> "none"]

-------------------------------------------------------------------------------
(* The trimmed config (mapper.py, _helpers.py, diff.py).                   *)

\* Where a tool call goes: a server and a path on it.
Endpoint(server, t) == [server |-> server, path |-> t]
Own == [server |-> "own", path |-> "hook"]
Nowhere == [server |-> "none", path |-> "none"]

\* A custom tool's server_url is unset, somebody's own, or the generated backend's
\* (as an earlier normalization filled it); server is the agent's server_url;
\* loose: the server_url of a tool object that the model put among the names of
\* builtin tools, "no" if there is none; a block that is absent is "none".
ConfigCase ==
    [kind : {"config"}, server : {"none", "own", "backend"},
     tools : UNION {[S -> {"unset", "own", "backend"}] : S \in SUBSET Tool},
     loose : {"no", "unset", "own", "backend"},
     mode : {"unset", "s2s"}, llm : {"none", "openai", "bedrock"}, s2s : {"none", "openai", "aws"},
     region : BOOLEAN, voicemail : BOOLEAN, topics : BOOLEAN, analysis : BOOLEAN]

URLOf(given, t) ==
    CASE given = "unset" -> Nowhere
      [] given = "own" -> Own
      [] given = "backend" -> Endpoint("backend", t)

\* The configs the program deals with, the tools' URLs written out.
ConfigOf(c) == [c EXCEPT !.tools = [t \in DOMAIN c.tools |-> URLOf(c.tools[t], t)]]

\* The agent's server_url, else the backend's once there is a port.
EffectiveServer(server, port) ==
    IF server = "none" /\ port THEN "backend" ELSE server

\* resolved_tool_url: the tool's own, else the path of the tool on the base.
ResolvedToolUrl(url, server, t) ==
    IF url # Nowhere THEN url ELSE IF server = "none" THEN Nowhere ELSE Endpoint(server, t)

InertBlocksOfCascade(c) == [c EXCEPT !.llm = "none"]

\* Only the active pipeline's blocks are kept.
WithoutInertBlocks(c) ==
    IF c.mode = "s2s" THEN [c EXCEPT !.llm = "none"] ELSE [c EXCEPT !.s2s = "none"]

\* _normalize_config; a loose tool is not a custom tool, and is left alone.
Normalize(c, port) ==
    LET server == EffectiveServer(c.server, port) IN
    WithoutInertBlocks(
        [c EXCEPT !.server = server,
                  !.tools = [t \in DOMAIN c.tools |-> ResolvedToolUrl(c.tools[t], server, t)]])

\* external_tool_names.
External(c) ==
    {t \in DOMAIN c.tools :
        ResolvedToolUrl(c.tools[t], EffectiveServer(c.server, TRUE), t).server # "backend"}

\* The tools _run_build and _run_regen render a handler for.
Rendered(c) == DOMAIN c.tools \ External(c)

\* tools_changed: the names, and the server_urls as they stand.
ToolsChanged(old, new) == old.tools # new.tools

\* to_create_agent_request, the tools: the loose one is wired like the others.
Loose == "loose"
Wired(c) ==
    [t \in DOMAIN c.tools \cup (IF c.loose = "no" THEN {} ELSE {Loose}) |->
        ResolvedToolUrl(IF t = Loose THEN URLOf(c.loose, Loose) ELSE c.tools[t],
                        EffectiveServer(c.server, TRUE), t)]

S2SOr(c) == IF c.s2s = "none" THEN "openai" ELSE c.s2s
LLMOr(c) == IF c.llm = "none" THEN "openai" ELSE c.llm

\* to_create_agent_request, the blocks: defaults, then those of the mode.
UsesAWS(c) == LLMOr(c) = "bedrock" \/ (c.mode = "s2s" /\ S2SOr(c) = "aws")

Fields(c) ==
    {"system_prompt", "first_message", "llm", "tts", "tools"}
        \cup (IF c.mode = "s2s" THEN {"pipeline_mode", "s2s"} ELSE {})
        \cup (IF c.region /\ UsesAWS(c) THEN {"aws"} ELSE {})
        \cup (IF c.voicemail /\ c.mode # "s2s" THEN {"voicemail_detection"} ELSE {})
        \cup (IF c.topics THEN {"guardrails"} ELSE {})
        \cup (IF c.analysis THEN {"analysis"} ELSE {})

\* What TurnCall does with the body: in s2s mode it ignores llm and tts.
Effect(c) ==
    LET model == IF c.mode = "s2s" THEN S2SOr(c) ELSE LLMOr(c) IN
    [tools |-> Wired(c), mode |-> c.mode, model |-> model,
     aws |-> model \in {"aws", "bedrock"} /\ "aws" \in Fields(c),
     rest |-> Fields(c) \ {"aws"}]

\* schema_check.py: the fields of two probes.
Probe(mode) ==
    [kind |-> "config", server |-> "none", tools |-> [t \in Tool |-> Nowhere], loose |-> "no",
     mode |-> mode, llm |-> "openai", s2s |-> IF mode = "s2s" THEN "openai" ELSE "none",
     region |-> FALSE, voicemail |-> mode # "s2s", topics |-> TRUE, analysis |-> TRUE]
OneProbe == Fields(Probe("s2s"))
EmittedFields == Fields(Probe("s2s")) \cup Fields(Probe("unset"))

-------------------------------------------------------------------------------
(* The agent config file on GitHub (github.py).                            *)

\* A value is a leaf (null or "", a text, the mask), an object or a list; an
\* object's parts are under its keys, a list's under their positions.
Leaf == [at : {"leaf"}, is : {"empty", "text", "***"}]
Object(S) == [at : {"object"}, of : UNION {[D -> S] : D \in SUBSET Key}]
ListOf(S) == [at : {"list"}, of : UNION {[1 .. n -> S] : n \in 0 .. MaxItems}]

\* The values nested up to n levels deep.
Level[n \in 0 .. MaxDepth] ==
    IF n = 0 THEN Leaf
    ELSE LET parts == Level[n - 1] IN parts \cup Object(parts) \cup ListOf(parts)

Value == Level[MaxDepth]
FileCase == [kind : {"file"}, value : Value]

Redacted == [at |-> "leaf", is |-> "***"]
Empty == [at |-> "leaf", is |-> "empty"]

MasksText(k, v) == k \in SecretKey /\ v.at = "leaf" /\ v # Empty

\* A secret key masks its whole value unless that is empty.
Masks(k, v) == k \in SecretKey /\ v # Empty

\* redact_config.
Redact[v \in Value] ==
    IF v.at = "leaf" THEN v
    ELSE [at |-> v.at,
          of |-> [k \in DOMAIN v.of |->
                    IF v.at = "object" /\ Masks(k, v.of[k]) THEN Redacted ELSE Redact[v.of[k]]]]

-------------------------------------------------------------------------------
(* Byte ranges of a recording (calls.py).                                  *)

Absent == -1
Junk == -2
Smaller(a, b) == IF a < b THEN a ELSE b

\* "bytes=first-last" of a recording of `total' bytes; Absent where nothing is
\* written, Junk for what is no number.  The answer holds bytes from..to.
RangeCase == [kind : {"range"}, total : 0 .. MaxLength,
              first : (Junk .. MaxLength + 1), last : (Junk .. MaxLength + 1)]

EndUncapped(c) == IF c.last = Absent THEN c.total - 1 ELSE c.last

RangeEnd(c) == IF c.last = Absent THEN c.total - 1 ELSE Smaller(c.last, c.total - 1)

Recording(c) ==
    LET junk == Junk \in {c.first, c.last}
        start == IF junk \/ c.first = Absent THEN 0 ELSE c.first
        end == IF junk THEN c.total - 1 ELSE RangeEnd(c)
    IN  IF start > end \/ start >= c.total THEN [status |-> 416, from |-> 0, to |-> -1]
        ELSE [status |-> 206, from |-> start, to |-> end]

-------------------------------------------------------------------------------
(* A builder turn (builder.py, sessions.py).                               *)

\* What went wrong at the vendor; "model" and "request" are an unknown model and a
\* request it will never take, "overload" its own trouble and the network's.  It is
\* told with a status, 0 if the SDK has none, and a text that holds phrases of the
\* lists of classify_vendor_error.
Cause == {"credit", "auth", "rate_limit", "overload", "model", "request"}
Phrases == SUBSET {"credit", "auth", "limit"}
Status == {0, 400, 401, 402, 403, 404, 429, 500, 529}

\* An exhausted account is told in one of the phrases; a missing key has no status.
\* Any other text may hold any phrase: a rate limit may point to the billing page.
Told(e) ==
    \/ e.cause = "credit" /\ e.status \in {400, 402, 403, 429} /\ "credit" \in e.words
    \/ e.cause = "auth" /\ (e.status \in {401, 403} \/ (e.status = 0 /\ "auth" \in e.words))
    \/ e.cause = "rate_limit" /\ e.status = 429
    \/ e.cause = "overload" /\ e.status \in {0, 500, 529}
    \/ e.cause = "model" /\ e.status = 404
    \/ e.cause = "request" /\ e.status = 400

Reported == {e \in [cause : Cause, status : Status, words : Phrases] : Told(e)}

\* What the model called the compose tool with.
Called == {"not", "garbled", "ask", "finalize", "no_question",
           "no_config", "unknown_action"}

TurnCase == [kind : {"error"}, provider : {"anthropic", "openai"}, said : Reported]
                \cup [kind : {"call"}, provider : {"anthropic"}, tool : Called \ {"garbled"}]
                \cup [kind : {"call"}, provider : {"openai"}, tool : Called]

ClassifyByStatus(e) ==
    IF e.status \in {401, 403} \/ "auth" \in e.words THEN "auth"
    ELSE IF e.status = 429 \/ "limit" \in e.words THEN "rate_limit"
    ELSE IF "credit" \in e.words THEN "credit"
    ELSE "upstream"

\* The words come first: an empty account is a 400 or a 429.
ClassifyVendorError(e) ==
    IF "credit" \in e.words THEN "credit"
    ELSE IF e.status \in {401, 403} \/ "auth" \in e.words THEN "auth"
    ELSE IF e.status = 429 \/ "limit" \in e.words THEN "rate_limit"
    ELSE "upstream"

\* BUILDER_ERROR_RESPONSES.
StatusOf(kind) == IF kind \in {"rate_limit", "upstream"} THEN 503 ELSE 502

\* compose: a missing call, or (OpenAI's arguments are text) one that does not parse.
Composed(c) == IF c.tool \in {"not", "garbled"} THEN "protocol" ELSE "input"

\* _to_result refuses with a ValueError, which nothing catches.
ToResult(tool) == IF tool \in {"ask", "finalize"} THEN 200 ELSE 500

TurnStatus(c) ==
    IF c.kind = "error" THEN StatusOf(ClassifyVendorError(c.said))
    ELSE IF Composed(c) = "protocol" THEN StatusOf("protocol") ELSE ToResult(c.tool)

-------------------------------------------------------------------------------
ConInit == case = NoCase

Pose(S) == case = NoCase /\ case' \in S

ConNext ==
    \/ Pose(ConfigCase)
    \/ Pose(FileCase)
    \/ Pose(RangeCase)
    \/ Pose(TurnCase)

ConSpec == ConInit /\ [][ConNext]_case

-------------------------------------------------------------------------------
(* Properties.                                                             *)

\* At most one case is posed.
ConTypeOK == case \in {NoCase} \cup ConfigCase \cup FileCase \cup RangeCase \cup TurnCase

\* _helpers.py:62-87, ADR-0010: whichever of creation, update or takeaway sends
\* a config, normalized before or not, TurnCall acts the same and no rebuild
\* starts; a custom tool called at the backend has a handler there, others have
\* none (only the loose tool is called at the backend and has none).
NormalizingIsInvisible ==
    case.kind = "config" =>
        LET c == ConfigOf(case)
            shown == Normalize(c, FALSE)
            stored == Normalize(c, TRUE)
        IN  /\ Effect(stored) = Effect(c) /\ Effect(shown) = Effect(c)
            /\ Normalize(shown, TRUE) = stored /\ Normalize(stored, TRUE) = stored
            /\ ~ToolsChanged(Normalize(stored, TRUE), stored)
            /\ Rendered(c) = Rendered(stored)
            /\ \A t \in DOMAIN c.tools :
                  t \in Rendered(stored) <=> Wired(c)[t].server = "backend"

\* schema_check.py:26-30: the startup probe names every field a config can make
\* the builder send, but for aws, which neither probe sets.
ProbeCoversMapper ==
    case.kind = "config" => Fields(case) \ {"aws"} \subseteq EmittedFields

\* What a reader finds under the outermost secret keys of a value.
UnderSecret[v \in Value] ==
    IF v.at = "leaf" THEN {}
    ELSE UNION {IF v.at = "object" /\ k \in SecretKey THEN {v.of[k]} ELSE UnderSecret[v.of[k]] :
                    k \in DOMAIN v.of}

\* The value with everything under a secret key forgotten.
Public[v \in Value] ==
    IF v.at = "leaf" THEN v
    ELSE [at |-> v.at,
          of |-> [k \in DOMAIN v.of |->
                    IF v.at = "object" /\ k \in SecretKey THEN Empty ELSE Public[v.of[k]]]]

\* github.py:196-209: however deep it nests, nothing but masks and empty values is
\* pushed under a secret key, everything else is pushed as it is, key by key, and a
\* redacted config is left as it is.
SecretsMasked ==
    case.kind = "file" =>
        /\ UnderSecret[Redact[case.value]] \subseteq {Redacted, Empty}
        /\ Public[Redact[case.value]] = Public[case.value]
        /\ Redact[Redact[case.value]] = Redact[case.value]

\* calls.py:82-105: an answered range is that of the header, cut at the last
\* byte, and none is refused that has a byte to give; suffix ranges apart, which
\* are read as if they began at the first byte.
RangeIsExact ==
    (case.kind = "range" /\ case.first >= 0 /\ case.last # Junk) =>
        LET asked == {i \in 0 .. case.total - 1 :
                        i >= case.first /\ (case.last = Absent \/ i <= case.last)}
            got == Recording(case)
        IN  /\ got.from .. got.to = asked
            /\ got.status = IF asked = {} THEN 416 ELSE 206

\* sessions.py:112-137: an empty account or a refused key is never answered with
\* a retry, whatever else the vendor says; a rate limit or an overload is, unless
\* its text names credit or keys; a tool call without its fields is a 500, unlike a
\* missing or garbled one.
VerdictFitsCause ==
    /\ case.kind = "error" =>
          /\ case.said.cause \in {"credit", "auth"} => TurnStatus(case) = 502
          /\ case.said.cause \in {"rate_limit", "overload"} /\ case.said.words \subseteq {"limit"}
                => TurnStatus(case) = 503
    /\ case.kind = "call" =>
          /\ TurnStatus(case) = 200 <=> case.tool \in {"ask", "finalize"}
          /\ case.tool \in {"not", "garbled"} => TurnStatus(case) = 502

\* sessions.py:112-114: "503 means 'this may work if you try again'; 502 means 'an
\* operator has to change something first'".  An unknown model is a 503, and a rate
\* limit whose text names the billing page a 502.
RetryIffItMayPass ==
    case.kind = "error" =>
        (TurnStatus(case) = 503 <=> case.said.cause \in {"rate_limit", "overload"})
===============================================================================
