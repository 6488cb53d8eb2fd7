---------------------------- MODULE AgentKnowledge ----------------------------
(***************************************************************************)
(* The agent's implicit knowledge base: uploads, deletes and reads resolve   *)
(* it by listing the project's knowledge bases; the first upload creates it  *)
(* and links it to the agent, a call each.                                   *)
(***************************************************************************)
CONSTANTS
    Base,       \* knowledge bases TurnCall may hand out
    Upload,     \* requests; an upload also names the document it stores
    NoBase,     \* no knowledge base
    KBFaults    \* requests may fail or die at any await

ASSUME AgentKnowledgeAssumption == NoBase \notin Base /\ KBFaults \in BOOLEAN

VARIABLES
    bases,      \* the project's bases named builder-knowledge
    linked,     \* the bases linked to the agent in prompt mode
    docs,       \* per base, its documents
    upload,     \* per request: where it is, and the base it resolved
    alone       \* history: one upload created the base, and linked it

kbVars == <<bases, linked, docs, upload, alone>>

Unasked == [at |-> "idle", base |-> NoBase]
Handled == [at |-> "done", base |-> NoBase]

KBInit ==
    /\ bases = {} /\ linked = {}
    /\ docs = [b \in Base |-> {}]
    /\ upload = [u \in Upload |-> Unasked]
    /\ alone = TRUE

Proceed(u, at, b) == upload' = [upload EXCEPT ![u] = [at |-> at, base |-> b]]
Finish(u) == upload' = [upload EXCEPT ![u] = Handled]

\* _agent_kb lists the bases and takes the first of the name, in the order of
\* the listing; without one an upload creates it.
ResolveForUpload(u) ==
    /\ upload[u].at = "idle"
    /\ \/ \E b \in bases : Proceed(u, "put", b)
       \/ bases = {} /\ Proceed(u, "create", NoBase)
    /\ alone' = (alone /\ (bases = {} => \A v \in Upload : upload[v].at # "create"))
    /\ UNCHANGED <<bases, linked, docs>>

ResolveForDelete(u) ==
    /\ upload[u].at = "idle"
    /\ \/ \E b \in bases : Proceed(u, "remove", b)
       \/ bases = {} /\ Finish(u)
    /\ UNCHANGED <<bases, linked, docs, alone>>

CreateBase(u) ==
    /\ upload[u].at = "create"
    /\ \E b \in Base \ bases :
          /\ bases' = bases \cup {b}
          /\ Proceed(u, "link", b)
    /\ UNCHANGED <<linked, docs, alone>>

NotLinked(b) == linked

Linked(b) == linked \cup {b}

LinkBase(u) ==
    /\ upload[u].at = "link"
    /\ linked' = Linked(upload[u].base)
    /\ Proceed(u, "put", upload[u].base)
    /\ UNCHANGED <<bases, docs, alone>>

PutDocument(u) ==
    /\ upload[u].at = "put"
    /\ docs' = [docs EXCEPT ![upload[u].base] = @ \cup {u}]
    /\ Finish(u)
    /\ UNCHANGED <<bases, linked, alone>>

\* A document of another base is not found, and the delete fails.
RemoveDocument(u) ==
    /\ upload[u].at = "remove"
    /\ \E d \in Upload : docs' = [docs EXCEPT ![upload[u].base] = @ \ {d}]
    /\ Finish(u)
    /\ UNCHANGED <<bases, linked, alone>>

\* A call fails, with or without effect, or the process dies.
DieUnlinked(u) ==
    /\ KBFaults
    /\ upload[u].at \in {"create", "link"}
    /\ \/ /\ upload[u].at = "create"
          /\ \E b \in Base \ bases : bases' = bases \cup {b}
          /\ alone' = FALSE /\ UNCHANGED linked
       \/ /\ upload[u].at = "link"
          /\ linked' = Linked(upload[u].base)
          /\ UNCHANGED <<bases, alone>>
       \/ /\ alone' = (alone /\ upload[u].at = "create")
          /\ UNCHANGED <<bases, linked>>
    /\ Finish(u)
    /\ UNCHANGED docs

DieLate(u) ==
    /\ KBFaults
    /\ upload[u].at \in {"put", "remove"}
    /\ Finish(u)
    /\ UNCHANGED <<bases, linked, docs, alone>>

KBNext ==
    \E u \in Upload :
        \/ ResolveForUpload(u) \/ ResolveForDelete(u) \/ CreateBase(u) \/ LinkBase(u)
        \/ PutDocument(u) \/ RemoveDocument(u) \/ DieUnlinked(u) \/ DieLate(u)

KBSpec == KBInit /\ [][KBNext]_kbVars

-------------------------------------------------------------------------------
\* Every variable holds what TurnCall could hold.
KBTypeOK ==
    /\ bases \subseteq Base /\ linked \subseteq bases
    /\ docs \in [Base -> SUBSET Upload]
    /\ upload \in [Upload -> [at : {"idle", "create", "link", "put", "remove", "done"},
                             base : Base \cup {NoBase}]]
    /\ alone \in BOOLEAN

\* knowledge.py:20-34: once a single upload has created and linked the base, the
\* project has this base only, every document is in it, and so is each one an
\* upload is about to store: the agent reads them all, whatever fails later.
DocumentsReachAgent ==
    (alone /\ \A u \in Upload : upload[u].at \notin {"create", "link"}) =>
        /\ \A b, c \in bases : b = c
        /\ \A b \in Base : docs[b] # {} => b \in linked
        /\ \A u \in Upload : upload[u].at = "put" => upload[u].base \in linked
===============================================================================
