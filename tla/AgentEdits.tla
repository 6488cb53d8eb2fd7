------------------------------ MODULE AgentEdits ------------------------------
(***************************************************************************)
(* Everything that edits one generated agent from the console: edit         *)
(* sessions (chat turns, hand edits, apply), the form edit and the          *)
(* takeaways.  Each request reads what it works on, awaits the model,       *)
(* TurnCall or Postgres, and writes whole values back: the history and the  *)
(* draft of a session, the config in TurnCall and the config in the         *)
(* registry.                                                                *)
(***************************************************************************)
EXTENDS Sequences, FiniteSets

CONSTANTS
    Session,    \* the edit sessions that may be opened
    Request,    \* requests; one that writes a config or creates a takeaway names it
    First,      \* names the config the agent was created with
    None,       \* no session, no takeaway
    Faults      \* requests may fail or die at any await

ASSUME AgentEditsAssumption ==
    /\ First \notin Request
    /\ None \notin Session \cup Request
    /\ Faults \in BOOLEAN

VARIABLES
    registry,   \* the config in the agent's registry row
    turncall,   \* the config TurnCall runs
    takeaways,  \* the takeaways that exist in the agent's project
    session,    \* per session: whether it is open, its draft and its history
    request,    \* per request: what it does, where it is, what it has read
    answered,   \* history: per session, the turns answered with success, in order
    drafted,    \* history: per session, whose draft was answered last
    contested,  \* history: the sessions on which writers overlapped or died
    unheard,    \* history: the sessions whose last turn was saved, its answer lost
    calm,       \* history: no two writers of the agent's config overlapped or died
    behind      \* history: an update installed a config with other attachments

vars == <<registry, turncall, takeaways, session, request, answered, drafted, contested,
          unheard, calm, behind>>
agent == <<registry, turncall, takeaways, calm, behind>>
chat == <<session, answered, drafted, contested, unheard>>

\* The trimmed config: who wrote it, and its analysis.takeaway_ids.
Config == [text : Request \cup {First}, kept : SUBSET Request]
Entry == [by : Request, did : {"ask", "finalize"}]

SessionRow == [at : {"new", "opening", "open"}, draft : Config, history : Seq(Entry)]

\* draft is the config the request will write; past the history it will write;
\* takeaway the one it deletes.
Local == [at : {"idle", "model", "draft", "history", "edit", "create", "push", "store",
                "delete", "done"},
          session : Session \cup {None}, draft : Config, past : Seq(Entry),
          takeaway : Request \cup {None}]

Created == [text |-> First, kept |-> {}]
Idle == [at |-> "idle", session |-> None, draft |-> Created, past |-> <<>>, takeaway |-> None]
Done == [Idle EXCEPT !.at = "done"]

LastTurn(turns) == turns[Len(turns)]

Go(r, here) == request' = [request EXCEPT ![r] = here]
End(r) == Go(r, Done)
On(s) == {r \in Request : request[r].session = s}
Writers == {r \in Request : request[r].at \in {"create", "push", "store", "delete"}}

\* Another writer of the session, or of the agent's config, is still under way.
Contests(s) == contested' = IF On(s) = {} THEN contested ELSE contested \cup {s}
Overlaps == calm' = (calm /\ Writers = {})

Init ==
    /\ registry = Created /\ turncall = Created
    /\ takeaways = {}
    /\ session = [s \in Session |-> [at |-> "new", draft |-> Created, history |-> <<>>]]
    /\ request = [r \in Request |-> Idle]
    /\ answered = [s \in Session |-> <<>>]
    /\ drafted = [s \in Session |-> None]
    /\ contested = {} /\ unheard = {}
    /\ calm = TRUE /\ behind = FALSE

-------------------------------------------------------------------------------
(* Sessions.                                                               *)

\* create_session with an agent_id: the seed is read, then the row inserted.
ReadSeed(s) ==
    /\ session[s].at = "new"
    /\ session' = [session EXCEPT ![s].at = "opening", ![s].draft = registry]
    /\ UNCHANGED <<agent, request, answered, drafted, contested, unheard>>

InsertSession(s) ==
    /\ session[s].at = "opening"
    /\ session' = [session EXCEPT ![s].at = "open"]
    /\ UNCHANGED <<agent, request, answered, drafted, contested, unheard>>

BeginTurn(r, s) ==
    /\ request[r].at = "idle" /\ session[s].at = "open"
    /\ Contests(s)
    /\ Go(r, [Idle EXCEPT !.at = "model", !.session = s,
                          !.draft = session[s].draft, !.past = session[s].history])
    /\ UNCHANGED <<agent, session, answered, drafted, unheard>>

FinalizedUnsaved(r, kept) ==
    [request[r] EXCEPT !.at = "history", !.draft = [text |-> r, kept |-> kept],
                       !.past = Append(@, [by |-> r, did |-> "finalize"])]

\* The model was shown the draft it edits; the tool's schema has no analysis, so
\* it may leave the takeaways out.
Finalized(r, kept) ==
    [request[r] EXCEPT !.at = "draft", !.draft = [text |-> r, kept |-> kept],
                       !.past = Append(@, [by |-> r, did |-> "finalize"])]

Asked(r) == [request[r] EXCEPT !.at = "history", !.past = Append(@, [by |-> r, did |-> "ask"])]

\* A model that fails, or answers with an unusable tool call, ends the turn.
ModelAnswers(r) ==
    /\ request[r].at = "model"
    /\ \/ Go(r, Asked(r))
       \/ \E kept \in {request[r].draft.kept, {}} : Go(r, Finalized(r, kept))
       \/ End(r)
    /\ UNCHANGED <<agent, chat>>

SaveDraft(r) ==
    /\ request[r].at = "draft"
    /\ session' = [session EXCEPT ![request[r].session].draft = request[r].draft]
    /\ Go(r, [request[r] EXCEPT !.at = "history"])
    /\ UNCHANGED <<agent, answered, drafted, contested, unheard>>

HistoryLatest(r) == <<LastTurn(request[r].past)>>

\* save_history overwrites the whole history with what the turn began from.
HistoryAfter(r) == request[r].past

\* The acknowledgement or the process is lost after the commit: nobody is told.
LostAnswer(s) ==
    /\ Faults
    /\ contested' = contested \cup {s}
    /\ UNCHANGED <<answered, drafted>>

SaveHistory(r) ==
    LET s == request[r].session
        turn == LastTurn(request[r].past) IN
    /\ request[r].at = "history"
    /\ session' = [session EXCEPT ![s].history = HistoryAfter(r)]
    /\ \/ /\ answered' = [answered EXCEPT ![s] = Append(@, turn)]
          /\ drafted' = [drafted EXCEPT ![s] = IF turn.did = "finalize" THEN r ELSE @]
          /\ unheard' = unheard \ {s}
          /\ UNCHANGED contested
       \/ LostAnswer(s) /\ unheard' = unheard \cup {s}
    /\ End(r)
    /\ UNCHANGED agent

\* edit_config: the body is the draft the console showed, with something changed.
BeginEdit(r, s) ==
    /\ request[r].at = "idle" /\ session[s].at = "open"
    /\ Contests(s)
    /\ Go(r, [Idle EXCEPT !.at = "edit", !.session = s,
                          !.draft = [text |-> r, kept |-> session[s].draft.kept]])
    /\ UNCHANGED <<agent, session, answered, drafted, unheard>>

SaveEdit(r) ==
    LET s == request[r].session IN
    /\ request[r].at = "edit"
    /\ session' = [session EXCEPT ![s].draft = request[r].draft]
    /\ \/ drafted' = [drafted EXCEPT ![s] = r] /\ UNCHANGED <<answered, contested>>
       \/ LostAnswer(s)
    /\ End(r)
    /\ UNCHANGED <<agent, unheard>>

-------------------------------------------------------------------------------
(* Writers of the agent's config.                                          *)

\* Pushes new: to TurnCall first, then to the registry.
Pushes(r, new) == Go(r, [Idle EXCEPT !.at = "push", !.draft = new])

\* apply_edit.
BeginApply(r, s) ==
    /\ request[r].at = "idle" /\ session[s].at = "open"
    /\ Pushes(r, session[s].draft)
    /\ behind' = (behind \/ session[s].draft.kept # registry.kept)
    /\ Overlaps
    /\ UNCHANGED <<registry, turncall, takeaways, chat>>

\* update_agent takes the body's config as sent: a form may be older than the
\* takeaways created or deleted since.
BeginPut(r) ==
    /\ request[r].at = "idle"
    /\ \E kept \in SUBSET Request :
          /\ Pushes(r, [text |-> r, kept |-> kept])
          /\ behind' = (behind \/ kept # registry.kept)
    /\ Overlaps
    /\ UNCHANGED <<registry, turncall, takeaways, chat>>

BeginCreateTakeaway(r) ==
    /\ request[r].at = "idle"
    /\ Go(r, [Idle EXCEPT !.at = "create", !.draft = registry])
    /\ Overlaps
    /\ UNCHANGED <<registry, turncall, takeaways, behind, chat>>

WithOnly(c, t) == [c EXCEPT !.kept = {t}]

\* The new takeaway joins the ids read when the request began.
With(c, t) == [c EXCEPT !.kept = @ \cup {t}]

CreateTakeaway(r) ==
    /\ request[r].at = "create"
    /\ takeaways' = takeaways \cup {r}
    /\ Pushes(r, With(request[r].draft, r))
    /\ UNCHANGED <<registry, turncall, calm, behind, chat>>

\* delete_agent_takeaway detaches first: TurnCall keeps an attached takeaway.
BeginDeleteTakeaway(r, t) ==
    /\ request[r].at = "idle"
    /\ Go(r, [Idle EXCEPT !.at = "push", !.takeaway = t,
                          !.draft = [registry EXCEPT !.kept = @ \ {t}]])
    /\ Overlaps
    /\ UNCHANGED <<registry, turncall, takeaways, behind, chat>>

Push(r) ==
    /\ request[r].at = "push"
    /\ turncall' = request[r].draft
    /\ Go(r, [request[r] EXCEPT !.at = "store"])
    /\ UNCHANGED <<registry, takeaways, calm, behind, chat>>

Store(r) ==
    /\ request[r].at = "store"
    /\ registry' = request[r].draft
    /\ IF request[r].takeaway = None THEN End(r)
       ELSE Go(r, [request[r] EXCEPT !.at = "delete"])
    /\ UNCHANGED <<turncall, takeaways, calm, behind, chat>>

DeleteTakeaway(r) ==
    /\ request[r].at = "delete"
    /\ takeaways' = IF request[r].takeaway \in turncall.kept THEN takeaways
                    ELSE takeaways \ {request[r].takeaway}
    /\ End(r)
    /\ UNCHANGED <<registry, turncall, calm, behind, chat>>

\* A request fails or dies at its next await; what it wrote before stays.
Die(r) ==
    /\ Faults
    /\ request[r].at \notin {"idle", "done"}
    /\ contested' = contested \cup ({request[r].session} \ {None})
    /\ calm' = (calm /\ r \notin Writers)
    /\ End(r)
    /\ UNCHANGED <<registry, turncall, takeaways, behind, session, answered, drafted, unheard>>

-------------------------------------------------------------------------------
NextRequest(r) ==
    \/ \E s \in Session : BeginTurn(r, s) \/ BeginEdit(r, s) \/ BeginApply(r, s)
    \/ ModelAnswers(r) \/ SaveDraft(r) \/ SaveHistory(r) \/ SaveEdit(r)
    \/ BeginPut(r) \/ BeginCreateTakeaway(r) \/ CreateTakeaway(r)
    \/ \E t \in takeaways : BeginDeleteTakeaway(r, t)
    \/ Push(r) \/ Store(r) \/ DeleteTakeaway(r) \/ Die(r)

Next == (\E s \in Session : ReadSeed(s) \/ InsertSession(s)) \/ (\E r \in Request : NextRequest(r))

Spec == Init /\ [][Next]_vars

-------------------------------------------------------------------------------
(* Properties.                                                             *)

\* Every variable holds a value the code could hold (store.py, registry.py).
EditsTypeOK ==
    /\ registry \in Config /\ turncall \in Config /\ takeaways \subseteq Request
    /\ session \in [Session -> SessionRow]
    /\ request \in [Request -> Local]
    /\ answered \in [Session -> Seq(Entry)]
    /\ drafted \in [Session -> Request \cup {None}]
    /\ contested \subseteq Session /\ unheard \subseteq Session
    /\ calm \in BOOLEAN /\ behind \in BOOLEAN

\* Overlapping turns may erase each other from the history, but only a turn saved
\* later displaces the one answered last.
HistoryKept(s) ==
    /\ s \notin contested => session[s].history = answered[s]
    /\ s \notin unheard /\ answered[s] # <<>> =>
          session[s].history # <<>> /\ LastTurn(session[s].history) = LastTurn(answered[s])

DraftKept(s) ==
    s \notin contested /\ On(s) = {} /\ drafted[s] # None => session[s].draft.text = drafted[s]

\* sessions.py:251, 290-291, 306: a session's history is the turns that were
\* answered, in their order, none that failed; and between requests the draft of
\* a session whose writers neither overlapped nor died is that of the last
\* finalize or hand edit answered.  Of a session whose writers did overlap or die
\* only the end is known: the turn answered last, if no later one was saved.
SessionsAsAnswered == \A s \in Session : HistoryKept(s) /\ DraftKept(s)

\* sessions.py:308-310: "apply the session's edited config".  Between the two saves
\* of a turn, or after one whose answer was lost, an apply pushes a draft that the
\* chat never showed.
AppliesWhatWasAnswered ==
    [][\A r \in Request, s \in Session :
         BeginApply(r, s) /\ drafted[s] # None => session[s].draft.text = drafted[s]]_vars

\* takeaways.py:39-50, agent_update.py:36-43: between requests that neither
\* overlapped nor died, TurnCall runs the registry's config; and, unless an
\* update carried other attachments, the takeaways that exist are those attached.
AttachedIffExists ==
    (calm /\ Writers = {}) =>
        /\ turncall = registry
        /\ ~behind => registry.kept = takeaways

\* mapper.py: "the console manages takeaway attachments and they must survive
\* updates".  Only deleting a takeaway detaches it.
TakeawaysSurviveUpdates ==
    [][\A t \in registry.kept \ registry'.kept : \E r \in Request : request[r].takeaway = t]_vars
===============================================================================
