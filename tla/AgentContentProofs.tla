-------------------------- MODULE AgentContentProofs --------------------------
(***************************************************************************)
(* Theorems about what an agent is given: the config and its takeaways      *)
(* (AgentEdits) and the documents it reads (AgentKnowledge), for every set  *)
(* of sessions, requests and bases, with and without failures.              *)
(***************************************************************************)
EXTENDS AgentEdits, AgentKnowledge, TLAPS

-------------------------------------------------------------------------------
(* AgentEdits.                                                             *)

Writing == {"create", "push", "store", "delete"}

\* What a writer of the config has established, by where it is, as long as it is
\* the only one.
WriterOK(r) ==
    LET me == request[r] IN
    /\ me.at \in {"create", "push", "delete"} => turncall = registry
    /\ me.at = "create" => me.draft = registry /\ (~behind => registry.kept = takeaways)
    /\ me.at = "store" => turncall = me.draft
    /\ me.at \in {"push", "store"} => (~behind => me.draft.kept = takeaways \ {me.takeaway})
    /\ me.at = "delete" => (~behind => registry.kept = takeaways \ {me.takeaway})

SoloOK ==
    calm => /\ \A q, r \in Writers : q = r
            /\ \A r \in Writers : WriterOK(r)

\* A turn that the model has answered has something to record; a turn or a hand
\* edit is on a session.
Turning == {"model", "draft", "history", "edit"}
PastOK == \A r \in Request :
    /\ request[r].at \in {"draft", "history"} => request[r].past # <<>>
    /\ request[r].at \in Turning => request[r].session # None

EditsInv == EditsTypeOK /\ PastOK /\ SoloOK /\ AttachedIffExists

LEMMA IdleIs ==
    /\ Idle \in Local /\ Done \in Local /\ Done.at = "done" /\ Created \in Config
    /\ Idle.at = "idle" /\ Idle.takeaway = None
<1>1. Created \in Config
    BY DEF Created, Config
<1>2. <<>> \in Seq(Entry)
    OBVIOUS
<1>3. Idle \in Local /\ Idle.at = "idle" /\ Idle.takeaway = None
    BY <1>1, <1>2 DEF Idle, Local
<1>4. Done \in Local /\ Done.at = "done"
    BY <1>3 DEF Done, Local
<1>5. QED
    BY <1>1, <1>3, <1>4

\* The local of a request on a session.
LEMMA LocalIs ==
    ASSUME NEW s \in Session, NEW draft \in Config, NEW past \in Seq(Entry),
           NEW at \in {"model", "edit"}
    PROVE  [Idle EXCEPT !.at = at, !.session = s, !.draft = draft, !.past = past] \in Local
    BY IdleIs DEF Local

\* A turn's history and drafts are of the right kind.
LEMMA EntryIs ==
    ASSUME NEW r \in Request, NEW past \in Seq(Entry), NEW did \in {"ask", "finalize"},
           NEW kept \in SUBSET Request
    PROVE  /\ Append(past, [by |-> r, did |-> did]) \in Seq(Entry)
           /\ Append(past, [by |-> r, did |-> did]) # <<>>
           /\ [text |-> r, kept |-> kept] \in Config
<1> DEFINE e == [by |-> r, did |-> did]
<1>1. e \in Entry
    BY DEF Entry
<1> HIDE DEF e
<1>2. Append(past, e) \in Seq(Entry) /\ Append(past, e) # <<>>
    BY <1>1
<1>3. [text |-> r, kept |-> kept] \in Config
    BY DEF Config
<1>4. QED
    BY <1>2, <1>3 DEF e

\* What a step of r does to the requests.
LEMMA GoMoves ==
    ASSUME EditsTypeOK, NEW r \in Request, NEW here \in Local, Go(r, here)
    PROVE  /\ request' \in [Request -> Local] /\ request'[r] = here
           /\ \A q \in Request : q # r => request'[q] = request[q]
    BY DEF EditsTypeOK, Go

\* A step that leaves the agent alone, by a request that writes no config.
LEMMA ChatKeeps ==
    ASSUME EditsInv, NEW r \in Request, UNCHANGED agent,
           request[r].at \notin Writing, request'[r].at \notin Writing,
           \A q \in Request : q # r => request'[q] = request[q]
    PROVE  SoloOK' /\ AttachedIffExists'
<1>1. Writers' = Writers
    BY DEF Writers, Writing
<1>2. \A q \in Writers : request'[q] = request[q]
    BY DEF Writers, Writing
<1>3. /\ registry' = registry /\ turncall' = turncall /\ takeaways' = takeaways
      /\ calm' = calm /\ behind' = behind
    BY DEF agent
<1>4. SoloOK'
    BY <1>1, <1>2, <1>3 DEF EditsInv, SoloOK, WriterOK
<1>5. AttachedIffExists'
    BY <1>1, <1>3 DEF EditsInv, AttachedIffExists
<1>6. QED
    BY <1>4, <1>5

\* A request begins to write: if it is calm, nobody else does.
LEMMA BeginKeeps ==
    ASSUME EditsInv, NEW r \in Request, request[r].at \notin Writing,
           calm' => calm /\ Writers = {}, registry' = registry, turncall' = turncall,
           takeaways' = takeaways, ~behind' => ~behind,
           request'[r].at \in {"create", "push"},
           \A q \in Request : q # r => request'[q] = request[q],
           calm' => WriterOK(r)'
    PROVE  SoloOK' /\ AttachedIffExists'
<1>1. Writers' = Writers \cup {r}
    BY DEF Writers, Writing
<1>2. SoloOK'
    BY <1>1 DEF SoloOK
<1>3. AttachedIffExists'
    BY <1>1 DEF AttachedIffExists
<1>4. QED
    BY <1>2, <1>3

\* The writer r takes a step, and is still one.
LEMMA WriterMoves ==
    ASSUME EditsInv, NEW r \in Request, r \in Writers, calm' = calm,
           request'[r].at \in Writing,
           \A q \in Request : q # r => request'[q] = request[q],
           calm => WriterOK(r)'
    PROVE  SoloOK' /\ AttachedIffExists'
<1>1. Writers' = Writers
    BY DEF Writers, Writing
<1>2. SoloOK'
    BY <1>1 DEF EditsInv, SoloOK
<1>3. AttachedIffExists'
    BY <1>1 DEF AttachedIffExists
<1>4. QED
    BY <1>2, <1>3

\* The writer r ends.
LEMMA WriterEnds ==
    ASSUME EditsInv, NEW r \in Request, r \in Writers, calm' => calm,
           request'[r].at \notin Writing,
           \A q \in Request : q # r => request'[q] = request[q],
           calm' => turncall' = registry' /\ (~behind' => registry'.kept = takeaways')
    PROVE  SoloOK' /\ AttachedIffExists'
<1>1. Writers' = Writers \ {r}
    BY DEF Writers, Writing
<1>2. calm' => Writers' = {}
    BY <1>1 DEF EditsInv, SoloOK
<1>3. SoloOK'
    BY <1>2 DEF SoloOK
<1>4. AttachedIffExists'
    BY DEF AttachedIffExists
<1>5. QED
    BY <1>3, <1>4

LEMMA EditsInitial == Init => EditsInv
<1> SUFFICES ASSUME Init PROVE EditsInv
    OBVIOUS
<1>1. EditsTypeOK
    <2>1. [at |-> "new", draft |-> Created, history |-> <<>>] \in SessionRow
        BY IdleIs DEF SessionRow
    <2>2. session \in [Session -> SessionRow]
        BY <2>1 DEF Init
    <2>3. answered \in [Session -> Seq(Entry)] /\ drafted \in [Session -> Request \cup {None}]
        BY DEF Init
    <2>4. request \in [Request -> Local]
        BY IdleIs DEF Init
    <2>5. QED
        BY <2>2, <2>3, <2>4, IdleIs DEF Init, EditsTypeOK
<1>2. Writers = {} /\ PastOK
    BY DEF Init, Writers, PastOK, Turning, Idle
<1>3. SoloOK /\ AttachedIffExists
    BY <1>2 DEF Init, SoloOK, AttachedIffExists, Created
<1>4. QED
    BY <1>1, <1>2, <1>3 DEF EditsInv

\* Opening a session.
LEMMA OpenKeeps ==
    ASSUME EditsInv, NEW s \in Session, ReadSeed(s) \/ InsertSession(s)
    PROVE  EditsInv'
<1>1. UNCHANGED <<agent, request, answered, drafted, contested, unheard>>
    BY DEF ReadSeed, InsertSession
<1>2. /\ registry' = registry /\ turncall' = turncall /\ takeaways' = takeaways
      /\ calm' = calm /\ behind' = behind /\ request' = request
      /\ answered' = answered /\ drafted' = drafted /\ contested' = contested
      /\ unheard' = unheard
    BY <1>1 DEF agent
<1>3. session' \in [Session -> SessionRow]
    <2>1. session[s] \in SessionRow /\ registry \in Config
        BY DEF EditsInv, EditsTypeOK
    <2>2. /\ [session[s] EXCEPT !.at = "opening", !.draft = registry] \in SessionRow
          /\ [session[s] EXCEPT !.at = "open"] \in SessionRow
        BY <2>1 DEF SessionRow
    <2>3. CASE ReadSeed(s)
        <3>1. session' = [session EXCEPT ![s] =
                             [session[s] EXCEPT !.at = "opening", !.draft = registry]]
            BY <2>3 DEF ReadSeed, EditsInv, EditsTypeOK
        <3>2. QED
            BY <3>1, <2>2 DEF EditsInv, EditsTypeOK
    <2>4. CASE InsertSession(s)
        <3>1. session' = [session EXCEPT ![s] = [session[s] EXCEPT !.at = "open"]]
            BY <2>4 DEF InsertSession, EditsInv, EditsTypeOK
        <3>2. QED
            BY <3>1, <2>2 DEF EditsInv, EditsTypeOK
    <2>5. QED
        BY <2>3, <2>4
<1>4. EditsTypeOK'
    BY <1>2, <1>3 DEF EditsInv, EditsTypeOK
<1>5. Writers' = Writers
    BY <1>2 DEF Writers
<1>6. PastOK' /\ SoloOK' /\ AttachedIffExists'
    BY <1>2, <1>5 DEF EditsInv, PastOK, SoloOK, WriterOK, AttachedIffExists
<1>7. QED
    BY <1>4, <1>6 DEF EditsInv

\* A request of a session takes a step that leaves the agent alone.
LEMMA TurnKeeps ==
    ASSUME EditsInv, NEW r \in Request, NEW here \in Local, Go(r, here), UNCHANGED agent,
           request[r].at \notin Writing, here.at \notin Writing,
           here.at \in {"draft", "history"} => here.past # <<>>,
           here.at \in Turning => here.session # None,
           session' \in [Session -> SessionRow],
           answered' \in [Session -> Seq(Entry)],
           drafted' \in [Session -> Request \cup {None}],
           contested' \subseteq Session, unheard' \subseteq Session
    PROVE  EditsInv'
<1>1. /\ request' \in [Request -> Local] /\ request'[r] = here
      /\ \A q \in Request : q # r => request'[q] = request[q]
    BY GoMoves DEF EditsInv
<1>2. /\ registry' = registry /\ turncall' = turncall /\ takeaways' = takeaways
      /\ calm' = calm /\ behind' = behind
    BY DEF agent
<1>3. EditsTypeOK'
    BY <1>1, <1>2 DEF EditsInv, EditsTypeOK
<1>4. PastOK'
    BY <1>1 DEF EditsInv, PastOK
<1>5. SoloOK' /\ AttachedIffExists'
    BY <1>1, ChatKeeps
<1>6. QED
    BY <1>3, <1>4, <1>5 DEF EditsInv

\* What the request of an action holds, and the rows of the sessions.
LEMMA Types ==
    ASSUME EditsTypeOK
    PROVE  /\ \A r \in Request : /\ request[r] \in Local
                                 /\ request[r].draft \in Config
                                 /\ request[r].past \in Seq(Entry)
                                 /\ request[r].takeaway \in Request \cup {None}
                                 /\ request[r].session \in Session \cup {None}
           /\ \A s \in Session : /\ session[s] \in SessionRow
                                 /\ session[s].draft \in Config
                                 /\ session[s].draft.kept \in SUBSET Request
                                 /\ session[s].history \in Seq(Entry)
           /\ registry.kept \in SUBSET Request
           /\ \A c \in Config : c.kept \in SUBSET Request /\ c.text \in Request \cup {First}
<1>1. \A l \in Local : /\ l.draft \in Config /\ l.past \in Seq(Entry)
                       /\ l.takeaway \in Request \cup {None} /\ l.session \in Session \cup {None}
    BY DEF Local
<1>2. \A row \in SessionRow : row.draft \in Config /\ row.history \in Seq(Entry)
    BY DEF SessionRow
<1>3. \A c \in Config : c.kept \in SUBSET Request /\ c.text \in Request \cup {First}
    BY DEF Config
<1>4. QED
    BY <1>1, <1>2, <1>3 DEF EditsTypeOK

\* Opening a turn or a hand edit.
LEMMA BeginOnKeeps ==
    ASSUME EditsInv, NEW r \in Request, NEW s \in Session, BeginTurn(r, s) \/ BeginEdit(r, s)
    PROVE  EditsInv'
<1>1. /\ request[r].at = "idle"
      /\ UNCHANGED <<agent, session, answered, drafted, unheard>> /\ Contests(s)
    BY DEF BeginTurn, BeginEdit
<1>2. contested' \subseteq Session /\ unheard' \subseteq Session
    BY <1>1 DEF Contests, EditsInv, EditsTypeOK
<1>3. /\ session' \in [Session -> SessionRow] /\ answered' \in [Session -> Seq(Entry)]
      /\ drafted' \in [Session -> Request \cup {None}]
    BY <1>1 DEF EditsInv, EditsTypeOK
<1>4. UNCHANGED agent
    BY <1>1
<1>5. CASE BeginTurn(r, s)
    <2> DEFINE here == [Idle EXCEPT !.at = "model", !.session = s,
                                    !.draft = session[s].draft, !.past = session[s].history]
    <2>1. here \in Local /\ here.at = "model" /\ here.session # None
        <3>1. /\ Idle \in Local /\ session[s].draft \in Config
              /\ session[s].history \in Seq(Entry)
            BY IdleIs, Types DEF EditsInv
        <3>2. here \in Local
            BY <3>1, LocalIs
        <3>3. here.at = "model" /\ here.session # None
            BY <3>1, AgentEditsAssumption DEF Local
        <3>4. QED
            BY <3>2, <3>3
    <2>2. Go(r, here)
        BY <1>5 DEF BeginTurn
    <2> HIDE DEF here
    <2>3. QED
        BY <1>1, <1>2, <1>3, <1>4, <2>1, <2>2, TurnKeeps DEF Writing
<1>6. CASE BeginEdit(r, s)
    <2> DEFINE here == [Idle EXCEPT !.at = "edit", !.session = s,
                                    !.draft = [text |-> r, kept |-> session[s].draft.kept]]
    <2>1. [text |-> r, kept |-> session[s].draft.kept] \in Config
        BY Types DEF EditsInv, Config
    <2>2. here \in Local /\ here.at = "edit" /\ here.session # None
        <3>1. Idle \in Local
            BY IdleIs
        <3>2. here \in Local
            BY <3>1, <2>1 DEF Local
        <3>3. here.at = "edit" /\ here.session # None
            BY <3>1, AgentEditsAssumption DEF Local
        <3>4. QED
            BY <3>2, <3>3
    <2>3. Go(r, here)
        BY <1>6 DEF BeginEdit
    <2> HIDE DEF here
    <2>4. QED
        BY <1>1, <1>2, <1>3, <1>4, <2>2, <2>3, TurnKeeps DEF Writing
<1>7. QED
    BY <1>5, <1>6

\* The model answers: the turn asks, finalizes or ends.
LEMMA ModelAnswersKeeps ==
    ASSUME EditsInv, NEW r \in Request, ModelAnswers(r)
    PROVE  EditsInv'
<1>1. /\ request[r].at = "model" /\ UNCHANGED agent
      /\ session' = session /\ answered' = answered /\ drafted' = drafted /\ contested' = contested
      /\ unheard' = unheard
    BY DEF ModelAnswers, chat
<1>2. /\ session' \in [Session -> SessionRow] /\ answered' \in [Session -> Seq(Entry)]
      /\ drafted' \in [Session -> Request \cup {None}]
      /\ contested' \subseteq Session /\ unheard' \subseteq Session
    BY <1>1 DEF EditsInv, EditsTypeOK
<1>3. /\ request[r] \in Local /\ request[r].past \in Seq(Entry)
      /\ request[r].draft.kept \in SUBSET Request /\ request[r].session # None
    BY <1>1, Types DEF EditsInv, PastOK, Turning
<1>4. CASE Go(r, Asked(r))
    <2>1. Append(request[r].past, [by |-> r, did |-> "ask"]) \in Seq(Entry)
        BY <1>3, EntryIs
    <2>2. Append(request[r].past, [by |-> r, did |-> "ask"]) # <<>>
        BY <1>3, EntryIs
    <2>3. /\ Asked(r) \in Local /\ Asked(r).at = "history"
          /\ Asked(r).session = request[r].session
          /\ Asked(r).past = Append(request[r].past, [by |-> r, did |-> "ask"])
        BY <1>3, <2>1 DEF Asked, Local
    <2>4. QED
        BY <1>1, <1>2, <1>3, <1>4, <2>2, <2>3, TurnKeeps DEF Writing
<1>5. ASSUME NEW kept \in {request[r].draft.kept, {}}, Go(r, Finalized(r, kept)) PROVE EditsInv'
    <2>1. /\ Append(request[r].past, [by |-> r, did |-> "finalize"]) \in Seq(Entry)
          /\ [text |-> r, kept |-> kept] \in Config
        BY <1>3, EntryIs
    <2>2. Append(request[r].past, [by |-> r, did |-> "finalize"]) # <<>>
        BY <1>3, EntryIs
    <2>3. /\ Finalized(r, kept) \in Local /\ Finalized(r, kept).at = "draft"
          /\ Finalized(r, kept).session = request[r].session
          /\ Finalized(r, kept).past = Append(request[r].past, [by |-> r, did |-> "finalize"])
        BY <1>3, <2>1 DEF Finalized, Local
    <2>4. QED
        BY <1>1, <1>2, <1>3, <1>5, <2>2, <2>3, TurnKeeps DEF Writing
<1>6. CASE End(r)
    <2>1. Go(r, Done)
        BY <1>6 DEF End
    <2>2. QED
        BY <1>1, <1>2, <2>1, IdleIs, TurnKeeps DEF Writing, Turning
<1>7. QED
    BY <1>4, <1>5, <1>6 DEF ModelAnswers

\* An answer that is lost leaves the sessions' types.
LEMMA LostAnswerIs ==
    ASSUME EditsInv, NEW s \in Session, LostAnswer(s)
    PROVE  /\ answered' \in [Session -> Seq(Entry)] /\ answered' = answered
           /\ drafted' \in [Session -> Request \cup {None}] /\ drafted' = drafted
           /\ contested' \subseteq Session /\ s \in contested' /\ contested \subseteq contested'
    BY DEF LostAnswer, EditsInv, EditsTypeOK

\* The saves of a turn and of a hand edit.
LEMMA SaveKeeps ==
    ASSUME EditsInv, NEW r \in Request, SaveDraft(r) \/ SaveHistory(r) \/ SaveEdit(r)
    PROVE  EditsInv'
<1> DEFINE s == request[r].session
           Typed == /\ answered' \in [Session -> Seq(Entry)]
                    /\ drafted' \in [Session -> Request \cup {None}]
                    /\ contested' \subseteq Session
<1>1. request[r].at \in Turning /\ UNCHANGED agent
    BY DEF SaveDraft, SaveHistory, SaveEdit, Turning
<1>2. s \in Session /\ s # None
    BY <1>1, Types DEF EditsInv, PastOK
<1>3. /\ request[r] \in Local /\ request[r].past \in Seq(Entry) /\ request[r].draft \in Config
      /\ \A t \in Session : session[t] \in SessionRow
    BY Types DEF EditsInv
<1>4. /\ session \in [Session -> SessionRow] /\ answered \in [Session -> Seq(Entry)]
      /\ drafted \in [Session -> Request \cup {None}]
      /\ contested \subseteq Session /\ unheard \subseteq Session
    BY DEF EditsInv, EditsTypeOK
<1>5. \A t \in Session : \A a \in Entry : Append(answered[t], a) \in Seq(Entry)
    BY <1>4
<1>6. CASE SaveDraft(r)
    <2>1. session' = [session EXCEPT ![s].draft = request[r].draft]
        BY <1>6 DEF SaveDraft
    <2>2. session' \in [Session -> SessionRow]
        BY <2>1, <1>3, <1>4 DEF SessionRow
    <2>3. /\ answered' \in [Session -> Seq(Entry)] /\ request[r].at = "draft"
          /\ drafted' \in [Session -> Request \cup {None}]
          /\ contested' \subseteq Session /\ unheard' \subseteq Session
        BY <1>4, <1>6 DEF SaveDraft
    <2> DEFINE here == [request[r] EXCEPT !.at = "history"]
    <2>4. here \in Local /\ here.at = "history" /\ here.past = request[r].past /\ here.session = s
        BY <1>3 DEF Local
    <2>5. here.past # <<>>
        BY <2>3, <2>4 DEF EditsInv, PastOK
    <2>6. Go(r, here)
        BY <1>6 DEF SaveDraft
    <2> HIDE DEF here
    <2>7. QED
        BY <1>1, <1>2, <2>2, <2>3, <2>4, <2>5, <2>6, TurnKeeps DEF Writing
<1>7. CASE SaveHistory(r)
    <2> DEFINE turn == LastTurn(request[r].past)
    <2>1. request[r].at = "history" /\ request[r].past # <<>> /\ Go(r, Done)
        BY <1>7 DEF SaveHistory, End, EditsInv, PastOK
    <2>2. session' = [session EXCEPT ![s].history = request[r].past]
        BY <1>7 DEF SaveHistory, HistoryAfter
    <2>3. session' \in [Session -> SessionRow]
        BY <2>2, <1>3, <1>4 DEF SessionRow
    <2>4. turn \in Entry
        BY <2>1, <1>3 DEF LastTurn
    <2>5. Typed /\ unheard' \subseteq Session
        <3>1. ASSUME LostAnswer(s), unheard' = unheard \cup {s}
              PROVE  Typed /\ unheard' \subseteq Session
            BY <3>1, <1>2, <1>4, LostAnswerIs
        <3>2. ASSUME answered' = [answered EXCEPT ![s] = Append(answered[s], turn)],
                     drafted' = [drafted EXCEPT ![s] = IF turn.did = "finalize" THEN r
                                                       ELSE drafted[s]],
                     unheard' = unheard \ {s}, UNCHANGED contested
              PROVE  Typed /\ unheard' \subseteq Session
            BY <3>2, <2>4, <1>4, <1>5
        <3>3. QED
            BY <3>1, <3>2, <1>2, <1>4, <1>7 DEF SaveHistory
    <2>6. QED
        BY <1>1, <2>1, <2>3, <2>5, IdleIs, TurnKeeps DEF Writing, Turning
<1>8. CASE SaveEdit(r)
    <2>1. session' = [session EXCEPT ![s].draft = request[r].draft] /\ unheard' = unheard
        BY <1>8 DEF SaveEdit
    <2>2. session' \in [Session -> SessionRow]
        BY <2>1, <1>3, <1>4 DEF SessionRow
    <2>3. Typed
        <3>1. ASSUME LostAnswer(s) PROVE Typed
            BY <3>1, <1>2, LostAnswerIs
        <3>2. ASSUME drafted' = [drafted EXCEPT ![s] = r], UNCHANGED <<answered, contested>>
              PROVE  Typed
            BY <3>2, <1>4
        <3>3. QED
            BY <3>1, <3>2, <1>8 DEF SaveEdit
    <2>4. Go(r, Done) /\ request[r].at = "edit"
        BY <1>8 DEF SaveEdit, End
    <2>5. QED
        BY <1>1, <1>4, <2>1, <2>2, <2>3, <2>4, IdleIs, TurnKeeps DEF Writing, Turning
<1>9. QED
    BY <1>6, <1>7, <1>8

\* A step of r, to here, that leaves the sessions alone and keeps the types of
\* the config's places.
LEMMA AgentStepTypes ==
    ASSUME EditsInv, NEW r \in Request, NEW here \in Local, Go(r, here),
           here.at \notin Turning,
           registry' \in Config, turncall' \in Config, takeaways' \subseteq Request,
           calm' \in BOOLEAN, behind' \in BOOLEAN,
           session' = session, answered' = answered, drafted' = drafted,
           contested' \subseteq Session, unheard' = unheard
    PROVE  /\ EditsTypeOK' /\ PastOK' /\ request'[r] = here
           /\ \A q \in Request : q # r => request'[q] = request[q]
<1>1. /\ request' \in [Request -> Local] /\ request'[r] = here
      /\ \A q \in Request : q # r => request'[q] = request[q]
    BY GoMoves DEF EditsInv
<1>2. EditsTypeOK'
    BY <1>1 DEF EditsInv, EditsTypeOK
<1>3. PastOK'
    BY <1>1 DEF EditsInv, PastOK, Turning
<1>4. QED
    BY <1>1, <1>2, <1>3

\* A request that begins to write holds a draft whose attachments are those it
\* will leave, takeaway t apart.
LEMMA BeginsKeep ==
    ASSUME EditsInv, NEW r \in Request, NEW here \in Local, Go(r, here), Overlaps,
           request[r].at = "idle", here.at \in {"create", "push"},
           UNCHANGED <<registry, turncall, takeaways, chat>>,
           behind' \in BOOLEAN, ~behind' => ~behind,
           here.at = "create" => here.draft = registry,
           here.at = "push" /\ ~behind' =>
               (registry.kept = takeaways => here.draft.kept = takeaways \ {here.takeaway})
    PROVE  EditsInv'
<1>1. /\ registry' = registry /\ turncall' = turncall /\ takeaways' = takeaways
      /\ session' = session /\ answered' = answered /\ drafted' = drafted /\ contested' = contested
      /\ unheard' = unheard
    BY DEF chat
<1>2. calm' \in BOOLEAN /\ (calm' => calm /\ Writers = {})
    BY DEF Overlaps, EditsInv, EditsTypeOK
<1>3. /\ EditsTypeOK' /\ PastOK' /\ request'[r] = here
      /\ \A q \in Request : q # r => request'[q] = request[q]
    BY <1>1, <1>2, AgentStepTypes DEF EditsInv, EditsTypeOK, Turning
<1>4. calm' => turncall = registry /\ (~behind => registry.kept = takeaways)
    BY <1>2 DEF EditsInv, AttachedIffExists
<1>5. calm' => WriterOK(r)'
    BY <1>1, <1>3, <1>4 DEF WriterOK
<1>6. SoloOK' /\ AttachedIffExists'
    BY <1>1, <1>2, <1>3, <1>5, BeginKeeps DEF Writing
<1>7. QED
    BY <1>3, <1>6 DEF EditsInv

\* There is no takeaway None.
LEMMA NoTakeawayNone ==
    ASSUME EditsTypeOK PROVE takeaways \ {None} = takeaways
    BY AgentEditsAssumption DEF EditsTypeOK

LEMMA BeginWriteKeeps ==
    ASSUME EditsInv, NEW r \in Request,
           \/ \E s \in Session : BeginApply(r, s)
           \/ BeginPut(r) \/ BeginCreateTakeaway(r)
           \/ \E t \in takeaways : BeginDeleteTakeaway(r, t)
    PROVE  EditsInv'
<1>1. /\ registry \in Config /\ registry.kept \in SUBSET Request /\ behind \in BOOLEAN
      /\ takeaways \subseteq Request /\ takeaways \ {None} = takeaways
      /\ Idle \in Local /\ Idle.takeaway = None
    BY Types, NoTakeawayNone, IdleIs DEF EditsInv, EditsTypeOK
<1>2. ASSUME NEW s \in Session, BeginApply(r, s) PROVE EditsInv'
    <2> DEFINE here == [Idle EXCEPT !.at = "push", !.draft = session[s].draft]
    <2>1. session[s].draft \in Config
        BY Types DEF EditsInv
    <2>2. /\ here \in Local /\ here.at = "push" /\ here.takeaway = None
          /\ here.draft = session[s].draft
        BY <1>1, <2>1 DEF Local
    <2>3. Go(r, here)
        BY <1>2 DEF BeginApply, Pushes
    <2> HIDE DEF here
    <2>4. /\ request[r].at = "idle" /\ Overlaps
          /\ UNCHANGED <<registry, turncall, takeaways, chat>>
          /\ behind' = (behind \/ session[s].draft.kept # registry.kept)
        BY <1>2 DEF BeginApply
    <2>5. behind' \in BOOLEAN /\ (~behind' => ~behind /\ here.draft.kept = registry.kept)
        BY <1>1, <2>2, <2>4
    <2>6. QED
        BY <1>1, <2>2, <2>3, <2>4, <2>5, BeginsKeep
<1>3. CASE BeginPut(r)
    <2>1. PICK kept \in SUBSET Request : /\ Pushes(r, [text |-> r, kept |-> kept])
                                         /\ behind' = (behind \/ kept # registry.kept)
        BY <1>3 DEF BeginPut
    <2> DEFINE here == [Idle EXCEPT !.at = "push", !.draft = [text |-> r, kept |-> kept]]
    <2>2. /\ here \in Local /\ here.at = "push" /\ here.takeaway = None
          /\ here.draft.kept = kept
        BY <1>1 DEF Local, Config
    <2>3. Go(r, here)
        BY <2>1 DEF Pushes
    <2> HIDE DEF here
    <2>4. /\ request[r].at = "idle" /\ Overlaps
          /\ UNCHANGED <<registry, turncall, takeaways, chat>>
        BY <1>3 DEF BeginPut
    <2>5. behind' \in BOOLEAN /\ (~behind' => ~behind /\ here.draft.kept = registry.kept)
        BY <1>1, <2>1, <2>2
    <2>6. QED
        BY <1>1, <2>2, <2>3, <2>4, <2>5, BeginsKeep
<1>4. CASE BeginCreateTakeaway(r)
    <2> DEFINE here == [Idle EXCEPT !.at = "create", !.draft = registry]
    <2>1. here \in Local /\ here.at = "create" /\ here.draft = registry
        BY <1>1 DEF Local
    <2>2. Go(r, here)
        BY <1>4 DEF BeginCreateTakeaway
    <2> HIDE DEF here
    <2>3. /\ request[r].at = "idle" /\ Overlaps /\ behind' = behind
          /\ UNCHANGED <<registry, turncall, takeaways, chat>>
        BY <1>4 DEF BeginCreateTakeaway, chat
    <2>4. QED
        BY <1>1, <2>1, <2>2, <2>3, BeginsKeep
<1>5. ASSUME NEW t \in takeaways, BeginDeleteTakeaway(r, t) PROVE EditsInv'
    <2> DEFINE less == [registry EXCEPT !.kept = @ \ {t}]
               here == [Idle EXCEPT !.at = "push", !.takeaway = t, !.draft = less]
    <2>1. less \in Config /\ less.kept = registry.kept \ {t}
        BY <1>1 DEF Config
    <2>2. Go(r, here)
        BY <1>5 DEF BeginDeleteTakeaway
    <2> HIDE DEF less
    <2>3. /\ here \in Local /\ here.at = "push" /\ here.takeaway = t /\ here.draft = less
        BY <1>1, <2>1 DEF Local
    <2> HIDE DEF here
    <2>4. /\ request[r].at = "idle" /\ Overlaps /\ behind' = behind
          /\ UNCHANGED <<registry, turncall, takeaways, chat>>
        BY <1>5 DEF BeginDeleteTakeaway, chat
    <2>5. QED
        BY <1>1, <2>1, <2>2, <2>3, <2>4, BeginsKeep
<1>6. QED
    BY <1>2, <1>3, <1>4, <1>5

\* What a writer has established, once it is known to be the only one.
LEMMA WriterKnows ==
    ASSUME EditsInv, NEW r \in Request, request[r].at \in Writing
    PROVE  r \in Writers /\ (calm => WriterOK(r))
    BY DEF EditsInv, SoloOK, Writers, Writing

LEMMA CreateTakeawayKeeps ==
    ASSUME EditsInv, NEW r \in Request, CreateTakeaway(r)
    PROVE  EditsInv'
<1> DEFINE new == With(request[r].draft, r)
           here == [Idle EXCEPT !.at = "push", !.draft = new]
<1>1. /\ request[r].at = "create" /\ takeaways' = takeaways \cup {r} /\ Go(r, here)
      /\ registry' = registry /\ turncall' = turncall /\ calm' = calm /\ behind' = behind
      /\ session' = session /\ answered' = answered /\ drafted' = drafted /\ contested' = contested
      /\ unheard' = unheard
    BY DEF CreateTakeaway, Pushes, chat
<1>2. request[r].draft \in Config
    BY Types DEF EditsInv
<1>3. new \in Config /\ new.kept = request[r].draft.kept \cup {r}
    BY <1>2 DEF With, Config
<1> HIDE DEF new
<1>4. here \in Local /\ here.at = "push" /\ here.draft = new /\ here.takeaway = None
    BY <1>3, IdleIs DEF Local
<1> HIDE DEF here
<1>5. /\ EditsTypeOK' /\ PastOK' /\ request'[r] = here
      /\ \A q \in Request : q # r => request'[q] = request[q]
    BY <1>1, <1>4, AgentStepTypes DEF EditsInv, EditsTypeOK, Turning
<1>6. takeaways' \ {None} = takeaways'
    BY <1>5, AgentEditsAssumption DEF EditsTypeOK
<1>7. calm => WriterOK(r)'
    BY <1>1, <1>3, <1>4, <1>5, <1>6, WriterKnows DEF WriterOK, Writing
<1>8. SoloOK' /\ AttachedIffExists'
    BY <1>1, <1>4, <1>5, <1>7, WriterKnows, WriterMoves DEF Writing
<1>9. QED
    BY <1>5, <1>8 DEF EditsInv

LEMMA PushKeeps ==
    ASSUME EditsInv, NEW r \in Request, Push(r)
    PROVE  EditsInv'
<1> DEFINE here == [request[r] EXCEPT !.at = "store"]
<1>1. /\ request[r].at = "push" /\ takeaways' = takeaways /\ Go(r, here)
      /\ registry' = registry /\ turncall' = request[r].draft /\ calm' = calm /\ behind' = behind
      /\ session' = session /\ answered' = answered /\ drafted' = drafted /\ contested' = contested
      /\ unheard' = unheard
    BY DEF Push, chat
<1>2. request[r] \in Local /\ request[r].draft \in Config
    BY Types DEF EditsInv
<1>3. /\ here \in Local /\ here.at = "store" /\ here.draft = request[r].draft
      /\ here.takeaway = request[r].takeaway
    BY <1>2 DEF Local
<1> HIDE DEF here
<1>4. /\ EditsTypeOK' /\ PastOK' /\ request'[r] = here
      /\ \A q \in Request : q # r => request'[q] = request[q]
    BY <1>1, <1>2, <1>3, AgentStepTypes DEF EditsInv, EditsTypeOK, Turning
<1>5. calm => WriterOK(r)'
    BY <1>1, <1>3, <1>4, WriterKnows DEF WriterOK, Writing
<1>6. SoloOK' /\ AttachedIffExists'
    BY <1>1, <1>3, <1>4, <1>5, WriterKnows, WriterMoves DEF Writing
<1>7. QED
    BY <1>4, <1>6 DEF EditsInv

LEMMA StoreKeeps ==
    ASSUME EditsInv, NEW r \in Request, Store(r)
    PROVE  EditsInv'
<1>1. /\ request[r].at = "store" /\ takeaways' = takeaways
      /\ registry' = request[r].draft /\ turncall' = turncall /\ calm' = calm /\ behind' = behind
      /\ session' = session /\ answered' = answered /\ drafted' = drafted /\ contested' = contested
      /\ unheard' = unheard
    BY DEF Store, chat
<1>2. request[r] \in Local /\ request[r].draft \in Config
    BY Types DEF EditsInv
<1>3. r \in Writers /\ (calm => WriterOK(r))
    BY <1>1, WriterKnows DEF Writing
<1>4. CASE request[r].takeaway = None
    <2>1. Go(r, Done)
        BY <1>4 DEF Store, End
    <2>2. /\ EditsTypeOK' /\ PastOK' /\ request'[r] = Done
          /\ \A q \in Request : q # r => request'[q] = request[q]
        BY <1>1, <1>2, <2>1, IdleIs, AgentStepTypes DEF EditsInv, EditsTypeOK, Turning
    <2>3. calm => turncall' = registry' /\ (~behind' => registry'.kept = takeaways')
        BY <1>1, <1>3, <1>4, NoTakeawayNone DEF WriterOK, EditsInv
    <2>4. SoloOK' /\ AttachedIffExists'
        BY <1>1, <1>3, <2>2, <2>3, IdleIs, WriterEnds DEF Writing
    <2>5. QED
        BY <2>2, <2>4 DEF EditsInv
<1>5. CASE request[r].takeaway # None
    <2> DEFINE here == [request[r] EXCEPT !.at = "delete"]
    <2>1. Go(r, here)
        BY <1>5 DEF Store
    <2>2. here \in Local /\ here.at = "delete" /\ here.takeaway = request[r].takeaway
        BY <1>2 DEF Local
    <2> HIDE DEF here
    <2>3. /\ EditsTypeOK' /\ PastOK' /\ request'[r] = here
          /\ \A q \in Request : q # r => request'[q] = request[q]
        BY <1>1, <1>2, <2>1, <2>2, AgentStepTypes DEF EditsInv, EditsTypeOK, Turning
    <2>4. calm => WriterOK(r)'
        BY <1>1, <1>3, <2>2, <2>3 DEF WriterOK
    <2>5. SoloOK' /\ AttachedIffExists'
        BY <1>1, <1>3, <2>2, <2>3, <2>4, WriterMoves DEF Writing
    <2>6. QED
        BY <2>3, <2>5 DEF EditsInv
<1>6. QED
    BY <1>4, <1>5

LEMMA DeleteTakeawayKeeps ==
    ASSUME EditsInv, NEW r \in Request, DeleteTakeaway(r)
    PROVE  EditsInv'
<1>1. /\ request[r].at = "delete" /\ Go(r, Done)
      /\ takeaways' = IF request[r].takeaway \in turncall.kept THEN takeaways
                      ELSE takeaways \ {request[r].takeaway}
      /\ registry' = registry /\ turncall' = turncall /\ calm' = calm /\ behind' = behind
      /\ session' = session /\ answered' = answered /\ drafted' = drafted /\ contested' = contested
      /\ unheard' = unheard
    BY DEF DeleteTakeaway, End, chat
<1>2. r \in Writers /\ (calm => WriterOK(r))
    BY <1>1, WriterKnows DEF Writing
<1>3. /\ EditsTypeOK' /\ PastOK' /\ request'[r] = Done
      /\ \A q \in Request : q # r => request'[q] = request[q]
    <2>1. takeaways' \subseteq Request
        BY <1>1 DEF EditsInv, EditsTypeOK
    <2>2. QED
        BY <1>1, <2>1, IdleIs, AgentStepTypes DEF EditsInv, EditsTypeOK, Turning
<1>4. calm => turncall' = registry' /\ (~behind' => registry'.kept = takeaways')
    BY <1>1, <1>2 DEF WriterOK
<1>5. SoloOK' /\ AttachedIffExists'
    BY <1>1, <1>2, <1>3, <1>4, IdleIs, WriterEnds DEF Writing
<1>6. QED
    BY <1>3, <1>5 DEF EditsInv

\* A writer that dies leaves nothing calm; any other request leaves the agent.
LEMMA DieKeeps ==
    ASSUME EditsInv, NEW r \in Request, Die(r)
    PROVE  EditsInv'
<1>1. /\ Go(r, Done) /\ registry' = registry /\ turncall' = turncall
      /\ takeaways' = takeaways /\ behind' = behind /\ session' = session
      /\ answered' = answered /\ drafted' = drafted /\ calm' = (calm /\ r \notin Writers)
      /\ unheard' = unheard
      /\ contested' = contested \cup ({request[r].session} \ {None})
    BY DEF Die, End
<1>2. contested' \subseteq Session
    BY <1>1, Types DEF EditsInv, EditsTypeOK
<1>3. calm' \in BOOLEAN
    BY <1>1 DEF EditsInv, EditsTypeOK
<1>4. /\ EditsTypeOK' /\ PastOK' /\ request'[r] = Done
      /\ \A q \in Request : q # r => request'[q] = request[q]
    BY <1>1, <1>2, <1>3, IdleIs, AgentStepTypes DEF EditsInv, EditsTypeOK, Turning
<1>5. CASE r \in Writers
    <2>1. ~calm'
        BY <1>1, <1>5
    <2>2. SoloOK' /\ AttachedIffExists'
        BY <2>1 DEF SoloOK, AttachedIffExists
    <2>3. QED
        BY <1>4, <2>2 DEF EditsInv
<1>6. CASE r \notin Writers
    <2>1. calm' = calm /\ request[r].at \notin Writing
        BY <1>1, <1>6 DEF EditsInv, EditsTypeOK, Writers, Writing
    <2>2. UNCHANGED agent
        BY <1>1, <2>1 DEF agent
    <2>3. SoloOK' /\ AttachedIffExists'
        BY <1>4, <2>1, <2>2, IdleIs, ChatKeeps DEF Writing
    <2>4. QED
        BY <1>4, <2>3 DEF EditsInv
<1>7. QED
    BY <1>5, <1>6

LEMMA EditsStep == EditsInv /\ [Next]_vars => EditsInv'
<1> SUFFICES ASSUME EditsInv, [Next]_vars PROVE EditsInv'
    OBVIOUS
<1>1. CASE UNCHANGED vars
    <2>1. /\ registry' = registry /\ turncall' = turncall /\ takeaways' = takeaways
          /\ session' = session /\ request' = request /\ answered' = answered
          /\ drafted' = drafted /\ contested' = contested /\ calm' = calm /\ behind' = behind
          /\ unheard' = unheard
        BY <1>1 DEF vars
    <2>2. QED
        BY <2>1 DEF EditsInv, EditsTypeOK, PastOK, SoloOK, AttachedIffExists, Writers, WriterOK
<1>2. ASSUME NEW s \in Session, ReadSeed(s) \/ InsertSession(s) PROVE EditsInv'
    BY <1>2, OpenKeeps
<1>3. ASSUME NEW r \in Request, NextRequest(r) PROVE EditsInv'
    <2>1. ASSUME NEW s \in Session, BeginTurn(r, s) \/ BeginEdit(r, s) PROVE EditsInv'
        BY <2>1, BeginOnKeeps
    <2>2. ASSUME NEW s \in Session, BeginApply(r, s) PROVE EditsInv'
        BY <2>2, BeginWriteKeeps
    <2>3. CASE \/ BeginPut(r) \/ BeginCreateTakeaway(r)
               \/ \E t \in takeaways : BeginDeleteTakeaway(r, t)
        BY <2>3, BeginWriteKeeps
    <2>4. CASE ModelAnswers(r)
        BY <2>4, ModelAnswersKeeps
    <2>5. CASE SaveDraft(r) \/ SaveHistory(r) \/ SaveEdit(r)
        BY <2>5, SaveKeeps
    <2>6. CASE CreateTakeaway(r)
        BY <2>6, CreateTakeawayKeeps
    <2>7. CASE Push(r)
        BY <2>7, PushKeeps
    <2>8. CASE Store(r)
        BY <2>8, StoreKeeps
    <2>9. CASE DeleteTakeaway(r)
        BY <2>9, DeleteTakeawayKeeps
    <2>10. CASE Die(r)
        BY <2>10, DieKeeps
    <2>11. QED
        BY <1>3, <2>1, <2>2, <2>3, <2>4, <2>5, <2>6, <2>7, <2>8, <2>9, <2>10 DEF NextRequest
<1>4. QED
    BY <1>1, <1>2, <1>3 DEF Next

LEMMA EditsInvariant == Spec => []EditsInv
    BY EditsInitial, EditsStep, PTL DEF Spec

\* Every variable of AgentEdits keeps its type (store.py, registry.py).
THEOREM EditsTypeCorrect == Spec => []EditsTypeOK
<1>1. EditsInv => EditsTypeOK
    BY DEF EditsInv
<1>2. QED
    BY EditsInvariant, <1>1, PTL

\* takeaways.py:39-50, agent_update.py:36-43: between requests that neither
\* overlapped nor died, TurnCall runs the registry's config, and the takeaways that
\* exist are those attached, unless an update carried other attachments.
THEOREM AttachedIffExistsThm == Spec => []AttachedIffExists
<1>1. EditsInv => AttachedIffExists
    BY DEF EditsInv
<1>2. QED
    BY EditsInvariant, <1>1, PTL

-------------------------------------------------------------------------------
(* The sessions: their history and draft.                                  *)

\* The draft of s is the one answered last, if any.
DraftFits(s) == drafted[s] # None => session[s].draft.text = drafted[s]

\* What the only request of s has read and made of it.
TurnOK(r, s) ==
    LET me == request[r] IN
    /\ me.at = "model" => me.past = answered[s] /\ DraftFits(s)
    /\ me.at \in {"draft", "history"} => me.past = Append(answered[s], LastTurn(me.past))
    /\ me.at = "draft" => me.draft.text = r /\ LastTurn(me.past).did = "finalize"
    /\ me.at = "history" => IF LastTurn(me.past).did = "finalize" THEN session[s].draft.text = r
                            ELSE DraftFits(s)
    /\ me.at = "edit" => me.draft.text = r

ChatOK(s) ==
    /\ HistoryKept(s) /\ DraftKept(s)
    /\ session[s].at # "open" => drafted[s] = None /\ On(s) = {}
    /\ s \notin contested => /\ \A q, r \in On(s) : q = r
                             /\ \A r \in On(s) : TurnOK(r, s)

\* Turns and hand edits are on a session, other requests on none.
LabelOK == \A r \in Request : request[r].session # None <=> request[r].at \in Turning

ChatInv == LabelOK /\ \A s \in Session : ChatOK(s)

\* A step of r does not touch a session that r is not on.
LEMMA OtherSession ==
    ASSUME ChatInv, NEW r \in Request, NEW s \in Session,
           request[r].session # s, request'[r].session # s,
           \A q \in Request : q # r => request'[q] = request[q],
           session'[s] = session[s], answered'[s] = answered[s], drafted'[s] = drafted[s],
           s \in contested => s \in contested', s \in unheard => s \in unheard'
    PROVE  ChatOK(s)'
<1>1. On(s)' = On(s) /\ \A q \in On(s) : q # r /\ request'[q] = request[q]
    BY DEF On
<1>2. HistoryKept(s)' /\ DraftKept(s)'
    BY <1>1 DEF ChatInv, ChatOK, HistoryKept, DraftKept
<1>3. ASSUME s \notin contested', NEW q \in On(s)' PROVE TurnOK(q, s)'
    <2>1. TurnOK(q, s) /\ request'[q] = request[q]
        BY <1>1, <1>3 DEF ChatInv, ChatOK
    <2>2. QED
        BY <2>1 DEF TurnOK, DraftFits
<1>4. s \notin contested' => \A p, q \in On(s)' : p = q
    BY <1>1 DEF ChatInv, ChatOK
<1>5. session'[s].at # "open" => drafted'[s] = None /\ On(s)' = {}
    BY <1>1 DEF ChatInv, ChatOK
<1>6. QED
    BY <1>2, <1>3, <1>4, <1>5 DEF ChatOK

\* A step that leaves the sessions alone, by a request that is on none.
LEMMA AgentStepKeeps ==
    ASSUME ChatInv, NEW r \in Request, UNCHANGED chat, request[r].session = None,
           request'[r].session = None, request'[r].at \notin Turning,
           \A q \in Request : q # r => request'[q] = request[q]
    PROVE  ChatInv'
<1>1. /\ session' = session /\ answered' = answered /\ drafted' = drafted
      /\ contested' = contested /\ unheard' = unheard
    BY DEF chat
<1>2. \A s \in Session : s # None
    BY AgentEditsAssumption
<1>3. \A s \in Session : ChatOK(s)'
    BY <1>1, <1>2, OtherSession
<1>4. LabelOK'
    BY DEF ChatInv, LabelOK
<1>5. QED
    BY <1>3, <1>4 DEF ChatInv

\* r is the only request of a session that is not contested.
LEMMA AloneOn ==
    ASSUME ChatInv, NEW r \in Request, NEW s \in Session, request[r].session = s,
           s \notin contested
    PROVE  On(s) = {r} /\ TurnOK(r, s)
    BY DEF ChatInv, ChatOK, On

LEMMA OpenOn ==
    ASSUME ChatInv, NEW r \in Request, NEW s \in Session, request[r].session = s
    PROVE  session[s].at = "open"
    BY DEF ChatInv, ChatOK, On

\* The request r of s takes a step that touches no other session; if it stays on
\* s, it has made of s what its new place says, else it leaves a draft that fits.
LEMMA TurnStepKeeps ==
    ASSUME ChatInv, NEW r \in Request, NEW s \in Session, request[r].session \in {s, None},
           request[r].session = None => On(s) = {} \/ s \in contested',
           request'[r].session \in {s, None},
           request'[r].session # None <=> request'[r].at \in Turning,
           \A q \in Request : q # r => request'[q] = request[q],
           \A t \in Session : t # s => /\ session'[t] = session[t] /\ answered'[t] = answered[t]
                                       /\ drafted'[t] = drafted[t]
                                       /\ (t \in unheard => t \in unheard'),
           contested \subseteq contested',
           session'[s].at = "open", HistoryKept(s)',
           s \notin contested' => IF request'[r].session = s THEN TurnOK(r, s)' ELSE DraftFits(s)'
    PROVE  ChatInv'
<1>1. LabelOK'
    BY DEF ChatInv, LabelOK
<1>2. \A t \in Session : t # None
    BY AgentEditsAssumption
<1>3. \A t \in Session : t # s => ChatOK(t)'
    BY <1>2, OtherSession
<1>4. ChatOK(s)'
    <2>1. s \notin contested' => On(s) \subseteq {r}
        BY AloneOn
    <2>2. s \notin contested' => On(s)' = IF request'[r].session = s THEN {r} ELSE {}
        BY <2>1 DEF On
    <2>3. DraftKept(s)'
        BY <1>2, <2>2 DEF DraftKept, DraftFits
    <2>4. s \notin contested' => /\ \A p, q \in On(s)' : p = q
                                 /\ \A q \in On(s)' : TurnOK(q, s)'
        <3>1. ASSUME s \notin contested', NEW q \in On(s)' PROVE q = r /\ TurnOK(r, s)'
            BY <2>2, <3>1, <1>2
        <3>2. QED
            BY <3>1
    <2>5. QED
        BY <2>3, <2>4 DEF ChatOK
<1>5. QED
    BY <1>1, <1>3, <1>4 DEF ChatInv

LEMMA ChatInitial == Init => ChatInv
<1> SUFFICES ASSUME Init PROVE ChatInv
    OBVIOUS
<1>1. \A r \in Request : request[r].session = None /\ request[r].at = "idle"
    BY DEF Init, Idle
<1>2. LabelOK
    BY <1>1 DEF LabelOK, Turning
<1>3. ASSUME NEW s \in Session PROVE ChatOK(s)
    <2>1. On(s) = {}
        BY <1>1, AgentEditsAssumption DEF On
    <2>2. answered[s] = <<>> /\ session[s].history = <<>> /\ drafted[s] = None
        BY DEF Init
    <2>3. QED
        BY <2>1, <2>2 DEF ChatOK, HistoryKept, DraftKept
<1>4. QED
    BY <1>2, <1>3 DEF ChatInv

\* A turn or a hand edit begins from what the session holds.
LEMMA BeginOnKeepsChat ==
    ASSUME EditsInv, ChatInv, NEW r \in Request, NEW s \in Session,
           BeginTurn(r, s) \/ BeginEdit(r, s)
    PROVE  ChatInv'
<1>1. /\ request[r].at = "idle" /\ session' = session /\ answered' = answered
      /\ drafted' = drafted /\ unheard' = unheard /\ session[s].at = "open"
    BY DEF BeginTurn, BeginEdit
<1>2. /\ contested \subseteq contested'
      /\ On(s) # {} => s \in contested'
    BY DEF BeginTurn, BeginEdit, Contests
<1>3. request[r].session = None
    BY <1>1 DEF ChatInv, LabelOK, Turning
<1>4. Idle \in Local /\ s # None
    BY IdleIs, AgentEditsAssumption
<1>5. HistoryKept(s)'
    BY <1>1, <1>2 DEF ChatInv, ChatOK, HistoryKept
<1>6. s \notin contested' => session[s].history = answered[s] /\ DraftFits(s)
    BY <1>2 DEF ChatInv, ChatOK, HistoryKept, DraftKept, DraftFits
<1>7. CASE BeginTurn(r, s)
    <2> DEFINE here == [Idle EXCEPT !.at = "model", !.session = s,
                                    !.draft = session[s].draft, !.past = session[s].history]
    <2>1. Go(r, here)
        BY <1>7 DEF BeginTurn
    <2>2. here.at = "model" /\ here.session = s /\ here.past = session[s].history
        BY <1>4 DEF Local
    <2>3. here \in Local
        <3>1. session[s].draft \in Config /\ session[s].history \in Seq(Entry)
            BY Types DEF EditsInv
        <3>2. QED
            BY <1>4, <3>1, LocalIs
    <2> HIDE DEF here
    <2>4. request'[r] = here /\ \A q \in Request : q # r => request'[q] = request[q]
        BY <2>1, <2>3, GoMoves DEF EditsInv
    <2>5. s \notin contested' => TurnOK(r, s)'
        BY <1>1, <1>6, <2>2, <2>4 DEF TurnOK, DraftFits
    <2>6. QED
        BY <1>1, <1>2, <1>3, <1>4, <1>5, <2>2, <2>4, <2>5, TurnStepKeeps DEF Turning
<1>8. CASE BeginEdit(r, s)
    <2> DEFINE new == [text |-> r, kept |-> session[s].draft.kept]
               here == [Idle EXCEPT !.at = "edit", !.session = s, !.draft = new]
    <2>1. Go(r, here)
        BY <1>8 DEF BeginEdit
    <2>2. new \in Config /\ new.text = r
        BY Types DEF EditsInv, Config
    <2> HIDE DEF new
    <2>3. /\ here \in Local /\ here.at = "edit" /\ here.session = s /\ here.draft = new
        BY <1>4, <2>2 DEF Local
    <2> HIDE DEF here
    <2>4. request'[r] = here /\ \A q \in Request : q # r => request'[q] = request[q]
        BY <2>1, <2>3, GoMoves DEF EditsInv
    <2>5. s \notin contested' => TurnOK(r, s)'
        BY <2>2, <2>3, <2>4 DEF TurnOK
    <2>6. QED
        BY <1>1, <1>2, <1>3, <1>4, <1>5, <2>3, <2>4, <2>5, TurnStepKeeps DEF Turning
<1>9. QED
    BY <1>7, <1>8

\* The turn r is on a session.
LEMMA OnSession ==
    ASSUME EditsInv, ChatInv, NEW r \in Request, request[r].at \in Turning
    PROVE  /\ request[r].session \in Session /\ request[r].session # None
           /\ session[request[r].session] \in SessionRow
    BY Types DEF EditsInv, ChatInv, LabelOK

\* The last entry of a history that grew.
LEMMA LastOfAppend ==
    ASSUME NEW past \in Seq(Entry), NEW e \in Entry
    PROVE  /\ Append(past, e) \in Seq(Entry) /\ Append(past, e) # <<>>
           /\ LastTurn(Append(past, e)) = e
    BY DEF LastTurn

LEMMA ModelAnswersKeepsChat ==
    ASSUME EditsInv, ChatInv, NEW r \in Request, ModelAnswers(r)
    PROVE  ChatInv'
<1>1. /\ request[r].at = "model" /\ session' = session /\ answered' = answered
      /\ drafted' = drafted /\ contested' = contested /\ unheard' = unheard
    BY DEF ModelAnswers, chat
<1>2. PICK s \in Session : s = request[r].session /\ s # None
    BY <1>1, OnSession DEF Turning
<1>3. HistoryKept(s)'
    BY <1>1, <1>2 DEF ChatInv, ChatOK, HistoryKept
<1>4. s \notin contested => request[r].past = answered[s] /\ DraftFits(s)
    BY <1>1, <1>2, AloneOn DEF TurnOK
<1>5. /\ request[r] \in Local /\ request[r].past \in Seq(Entry)
      /\ request[r].draft.kept \in SUBSET Request
    BY Types DEF EditsInv
<1>6. CASE Go(r, Asked(r))
    <2> DEFINE e == [by |-> r, did |-> "ask"]
    <2>1. e \in Entry /\ e.did # "finalize"
        BY DEF Entry
    <2>2. /\ Asked(r) \in Local /\ Asked(r).at = "history" /\ Asked(r).session = s
          /\ Asked(r).past = Append(request[r].past, e)
        BY <1>2, <1>5, EntryIs DEF Asked, Local
    <2> HIDE DEF e
    <2>3. LastTurn(Append(request[r].past, e)) = e
        BY <1>5, <2>1, LastOfAppend
    <2>4. request'[r] = Asked(r) /\ \A q \in Request : q # r => request'[q] = request[q]
        BY <1>6, <2>2, GoMoves DEF EditsInv
    <2>5. s \notin contested' => TurnOK(r, s)'
        BY <1>1, <1>4, <2>1, <2>2, <2>3, <2>4 DEF TurnOK, DraftFits
    <2>6. QED
        BY <1>1, <1>2, <1>3, <2>2, <2>4, <2>5, OpenOn, TurnStepKeeps DEF Turning
<1>7. ASSUME NEW kept \in {request[r].draft.kept, {}}, Go(r, Finalized(r, kept)) PROVE ChatInv'
    <2> DEFINE e == [by |-> r, did |-> "finalize"]
               here == Finalized(r, kept)
    <2>1. e \in Entry /\ e.did = "finalize"
        BY DEF Entry
    <2>2. /\ here \in Local /\ here.at = "draft" /\ here.session = s
          /\ here.draft.text = r /\ here.past = Append(request[r].past, e)
        BY <1>2, <1>5, EntryIs DEF Finalized, Local, Config
    <2> HIDE DEF e, here
    <2>3. LastTurn(Append(request[r].past, e)) = e
        BY <1>5, <2>1, LastOfAppend
    <2>4. request'[r] = here /\ \A q \in Request : q # r => request'[q] = request[q]
        BY <1>7, <2>2, GoMoves DEF EditsInv, here
    <2>5. s \notin contested' => TurnOK(r, s)'
        BY <1>1, <1>4, <2>1, <2>2, <2>3, <2>4 DEF TurnOK
    <2>6. QED
        BY <1>1, <1>2, <1>3, <2>2, <2>4, <2>5, OpenOn, TurnStepKeeps DEF Turning
<1>8. CASE End(r)
    <2>1. request'[r] = Done /\ \A q \in Request : q # r => request'[q] = request[q]
        BY <1>8, IdleIs, GoMoves DEF EditsInv, End
    <2>2. Done.at = "done" /\ Done.session = None
        BY DEF Done, Idle
    <2>3. s \notin contested' => DraftFits(s)'
        BY <1>1, <1>4 DEF DraftFits
    <2>4. QED
        BY <1>1, <1>2, <1>3, <2>1, <2>2, <2>3, OpenOn, TurnStepKeeps DEF Turning
<1>9. QED
    BY <1>6, <1>7, <1>8 DEF ModelAnswers

LEMMA SaveDraftKeepsChat ==
    ASSUME EditsInv, ChatInv, NEW r \in Request, SaveDraft(r)
    PROVE  ChatInv'
<1> DEFINE here == [request[r] EXCEPT !.at = "history"]
<1>1. /\ request[r].at = "draft" /\ answered' = answered /\ drafted' = drafted
      /\ contested' = contested /\ unheard' = unheard /\ Go(r, here)
    BY DEF SaveDraft
<1>2. PICK s \in Session : s = request[r].session /\ s # None /\ session[s] \in SessionRow
    BY <1>1, OnSession DEF Turning
<1>3. session' = [session EXCEPT ![s].draft = request[r].draft]
    BY <1>2 DEF SaveDraft
<1>4. /\ session'[s].draft = request[r].draft /\ session'[s].history = session[s].history
      /\ session'[s].at = session[s].at
      /\ \A t \in Session : t # s => session'[t] = session[t]
    BY <1>2, <1>3 DEF EditsInv, EditsTypeOK, SessionRow
<1>5. /\ here \in Local /\ here.at = "history" /\ here.session = s
      /\ here.past = request[r].past
    BY <1>2, Types DEF EditsInv, Local
<1> HIDE DEF here
<1>6. request'[r] = here /\ \A q \in Request : q # r => request'[q] = request[q]
    BY <1>1, <1>5, GoMoves DEF EditsInv
<1>7. HistoryKept(s)'
    BY <1>1, <1>4 DEF ChatInv, ChatOK, HistoryKept
<1>8. s \notin contested' => TurnOK(r, s)'
    BY <1>1, <1>2, <1>4, <1>5, <1>6, AloneOn DEF TurnOK
<1>9. QED
    BY <1>1, <1>2, <1>4, <1>5, <1>6, <1>7, <1>8, OpenOn, TurnStepKeeps DEF Turning

LEMMA SaveHistoryKeepsChat ==
    ASSUME EditsInv, ChatInv, NEW r \in Request, SaveHistory(r)
    PROVE  ChatInv'
<1>1. request[r].at = "history" /\ End(r)
    BY DEF SaveHistory
<1>2. PICK s \in Session : s = request[r].session /\ s # None /\ session[s] \in SessionRow
    BY <1>1, OnSession DEF Turning
<1>3. PICK past : past = request[r].past
    OBVIOUS
<1>4. PICK turn : turn = LastTurn(past)
    OBVIOUS
<1>5. session' = [session EXCEPT ![s].history = past]
    BY <1>2, <1>3 DEF SaveHistory, HistoryAfter
<1>6. /\ session'[s].draft = session[s].draft /\ session'[s].history = past
      /\ session'[s].at = session[s].at
      /\ \A t \in Session : t # s => session'[t] = session[t]
    BY <1>2, <1>5 DEF EditsInv, EditsTypeOK, SessionRow
<1>7. request'[r] = Done /\ \A q \in Request : q # r => request'[q] = request[q]
    BY <1>1, IdleIs, GoMoves DEF EditsInv, End
<1>8. Done.at = "done" /\ Done.session = None
    BY DEF Done, Idle
<1>9. ASSUME LostAnswer(s), unheard' = unheard \cup {s} PROVE ChatInv'
    <2>1. answered' = answered /\ drafted' = drafted /\ s \in contested' /\ contested \subseteq contested'
        BY <1>9, LostAnswerIs
    <2>2. HistoryKept(s)'
        BY <1>9, <2>1 DEF HistoryKept
    <2>3. QED
        BY <1>1, <1>2, <1>6, <1>7, <1>8, <1>9, <2>1, <2>2, OpenOn, TurnStepKeeps DEF Turning
<1>10. ASSUME answered' = [answered EXCEPT ![s] = Append(answered[s], turn)],
              drafted' = [drafted EXCEPT ![s] = IF turn.did = "finalize" THEN r ELSE drafted[s]],
              unheard' = unheard \ {s}, contested' = contested
       PROVE  ChatInv'
    <2>1. /\ answered'[s] = Append(answered[s], turn)
          /\ drafted'[s] = IF turn.did = "finalize" THEN r ELSE drafted[s]
          /\ \A t \in Session : t # s => answered'[t] = answered[t] /\ drafted'[t] = drafted[t]
        BY <1>10 DEF EditsInv, EditsTypeOK
    <2>2. past \in Seq(Entry) /\ past # <<>>
        BY <1>1, <1>3, Types DEF EditsInv, PastOK
    <2>3. turn \in Entry /\ answered[s] \in Seq(Entry)
        BY <1>4, <2>2 DEF LastTurn, EditsInv, EditsTypeOK
    <2>4. s \notin contested =>
              /\ past = Append(answered[s], turn)
              /\ IF turn.did = "finalize" THEN session[s].draft.text = r ELSE DraftFits(s)
        BY <1>1, <1>2, <1>3, <1>4, AloneOn DEF TurnOK
    <2>5. LastTurn(Append(answered[s], turn)) = turn
        BY <2>3, LastOfAppend
    <2>6. HistoryKept(s)'
        BY <1>4, <1>6, <1>10, <2>1, <2>2, <2>4, <2>5 DEF HistoryKept
    <2>7. s \notin contested' => DraftFits(s)'
        BY <1>6, <1>10, <2>1, <2>4 DEF DraftFits
    <2>8. QED
        BY <1>1, <1>2, <1>6, <1>7, <1>8, <1>10, <2>1, <2>6, <2>7, OpenOn, TurnStepKeeps DEF Turning
<1>11. QED
    BY <1>2, <1>3, <1>4, <1>9, <1>10 DEF SaveHistory

LEMMA SaveEditKeepsChat ==
    ASSUME EditsInv, ChatInv, NEW r \in Request, SaveEdit(r)
    PROVE  ChatInv'
<1>1. request[r].at = "edit" /\ unheard' = unheard /\ End(r)
    BY DEF SaveEdit
<1>2. PICK s \in Session : s = request[r].session /\ s # None /\ session[s] \in SessionRow
    BY <1>1, OnSession DEF Turning
<1>3. session' = [session EXCEPT ![s].draft = request[r].draft]
    BY <1>2 DEF SaveEdit
<1>4. /\ session'[s].draft = request[r].draft /\ session'[s].history = session[s].history
      /\ session'[s].at = session[s].at
      /\ \A t \in Session : t # s => session'[t] = session[t]
    BY <1>2, <1>3 DEF EditsInv, EditsTypeOK, SessionRow
<1>5. request'[r] = Done /\ \A q \in Request : q # r => request'[q] = request[q]
    BY <1>1, IdleIs, GoMoves DEF EditsInv, End
<1>6. Done.at = "done" /\ Done.session = None
    BY DEF Done, Idle
<1>7. ASSUME LostAnswer(s) PROVE ChatInv'
    <2>1. answered' = answered /\ drafted' = drafted /\ s \in contested' /\ contested \subseteq contested'
        BY <1>7, LostAnswerIs
    <2>2. HistoryKept(s)'
        BY <1>1, <1>4, <2>1 DEF ChatInv, ChatOK, HistoryKept
    <2>3. QED
        BY <1>1, <1>2, <1>4, <1>5, <1>6, <2>1, <2>2, OpenOn, TurnStepKeeps DEF Turning
<1>8. ASSUME drafted' = [drafted EXCEPT ![s] = r], UNCHANGED <<answered, contested>>
      PROVE  ChatInv'
    <2>1. drafted'[s] = r /\ \A t \in Session : t # s => drafted'[t] = drafted[t]
        BY <1>8 DEF EditsInv, EditsTypeOK
    <2>2. s \notin contested' => DraftFits(s)'
        BY <1>1, <1>2, <1>4, <1>8, <2>1, AloneOn DEF TurnOK, DraftFits
    <2>3. HistoryKept(s)'
        BY <1>1, <1>4, <1>8 DEF ChatInv, ChatOK, HistoryKept
    <2>4. QED
        BY <1>1, <1>2, <1>4, <1>5, <1>6, <1>8, <2>1, <2>2, <2>3, OpenOn, TurnStepKeeps DEF Turning
<1>9. QED
    BY <1>2, <1>7, <1>8 DEF SaveEdit

\* A request that dies on a session leaves it contested.
LEMMA DieKeepsChat ==
    ASSUME EditsInv, ChatInv, NEW r \in Request, Die(r)
    PROVE  ChatInv'
<1>1. /\ session' = session /\ answered' = answered /\ drafted' = drafted /\ End(r)
      /\ unheard' = unheard
      /\ contested' = contested \cup ({request[r].session} \ {None})
    BY DEF Die
<1>2. request'[r] = Done /\ \A q \in Request : q # r => request'[q] = request[q]
    BY <1>1, IdleIs, GoMoves DEF EditsInv, End
<1>3. Done.at = "done" /\ Done.session = None
    BY DEF Done, Idle
<1>4. CASE request[r].session = None
    <2>1. contested' = contested
        BY <1>1, <1>4
    <2>2. UNCHANGED chat
        BY <1>1, <2>1 DEF chat
    <2>3. QED
        BY <1>2, <1>3, <1>4, <2>2, AgentStepKeeps DEF Turning
<1>5. CASE request[r].session # None
    <2>1. PICK s \in Session : s = request[r].session /\ s # None
        BY <1>5, Types DEF EditsInv
    <2>2. s \in contested' /\ contested \subseteq contested'
        BY <1>1, <2>1
    <2>3. HistoryKept(s)'
        BY <1>1, <2>2 DEF ChatInv, ChatOK, HistoryKept
    <2>4. QED
        BY <1>1, <1>2, <1>3, <2>1, <2>2, <2>3, OpenOn, TurnStepKeeps DEF Turning
<1>6. QED
    BY <1>4, <1>5

\* A session that opens has no request, and no draft has been answered on it.
LEMMA OpenKeepsChat ==
    ASSUME EditsInv, ChatInv, NEW s \in Session, ReadSeed(s) \/ InsertSession(s)
    PROVE  ChatInv'
<1>1. /\ answered' = answered /\ drafted' = drafted /\ contested' = contested
      /\ unheard' = unheard /\ request' = request /\ session[s].at # "open"
    BY DEF ReadSeed, InsertSession
<1>2. /\ session'[s].history = session[s].history
      /\ \A t \in Session : t # s => session'[t] = session[t]
    <2>1. session \in [Session -> SessionRow] /\ session[s] \in SessionRow
        BY DEF EditsInv, EditsTypeOK
    <2>2. QED
        BY <2>1 DEF ReadSeed, InsertSession, SessionRow
<1>3. drafted[s] = None /\ On(s) = {} /\ On(s)' = {}
    BY <1>1 DEF ChatInv, ChatOK, On
<1>4. ChatOK(s)'
    BY <1>1, <1>2, <1>3 DEF ChatInv, ChatOK, HistoryKept, DraftKept
<1>5. ASSUME NEW t \in Session, t # s PROVE ChatOK(t)'
    BY <1>1, <1>2, <1>5 DEF ChatInv, ChatOK, HistoryKept, DraftKept, TurnOK, DraftFits, On
<1>6. LabelOK'
    BY <1>1 DEF ChatInv, LabelOK
<1>7. QED
    BY <1>4, <1>5, <1>6 DEF ChatInv

\* A writer of the agent's config is on no session and leaves them alone.
LEMMA WriteKeepsChat ==
    ASSUME EditsInv, ChatInv, NEW r \in Request,
           \/ \E s \in Session : BeginApply(r, s)
           \/ BeginPut(r) \/ BeginCreateTakeaway(r)
           \/ \E t \in takeaways : BeginDeleteTakeaway(r, t)
           \/ CreateTakeaway(r) \/ Push(r) \/ Store(r) \/ DeleteTakeaway(r)
    PROVE  ChatInv'
<1>1. UNCHANGED chat /\ request[r].at \in {"idle", "create", "push", "store", "delete"}
    BY DEF BeginApply, BeginPut, BeginCreateTakeaway, BeginDeleteTakeaway, CreateTakeaway, Push,
           Store, DeleteTakeaway
<1>2. request[r].session = None
    BY <1>1 DEF ChatInv, LabelOK, Turning
<1>3. request \in [Request -> Local] /\ request[r] \in Local
    BY DEF EditsInv, EditsTypeOK
<1>4. request'[r].session = None /\ request'[r].at \notin Turning
    <2>1. ASSUME NEW s \in Session, BeginApply(r, s)
          PROVE  request'[r].session = None /\ request'[r].at \notin Turning
        BY <2>1, <1>3 DEF BeginApply, Pushes, Go, Idle, Turning
    <2>2. CASE BeginPut(r)
        BY <2>2, <1>3 DEF BeginPut, Pushes, Go, Idle, Turning
    <2>3. CASE BeginCreateTakeaway(r)
        BY <2>3, <1>3 DEF BeginCreateTakeaway, Go, Idle, Turning
    <2>4. ASSUME NEW t \in takeaways, BeginDeleteTakeaway(r, t)
          PROVE  request'[r].session = None /\ request'[r].at \notin Turning
        BY <2>4, <1>3 DEF BeginDeleteTakeaway, Go, Idle, Turning
    <2>5. CASE CreateTakeaway(r)
        BY <2>5, <1>3 DEF CreateTakeaway, Pushes, Go, Idle, Turning
    <2>6. CASE Push(r)
        BY <2>6, <1>2, <1>3 DEF Push, Go, Turning, Local
    <2>7. CASE Store(r)
        BY <2>7, <1>2, <1>3 DEF Store, End, Done, Go, Idle, Turning, Local
    <2>8. CASE DeleteTakeaway(r)
        BY <2>8, <1>3 DEF DeleteTakeaway, End, Done, Go, Idle, Turning
    <2>9. QED
        BY <2>1, <2>2, <2>3, <2>4, <2>5, <2>6, <2>7, <2>8
<1>5. \A q \in Request : q # r => request'[q] = request[q]
    BY <1>3 DEF BeginApply, BeginPut, BeginCreateTakeaway, BeginDeleteTakeaway, CreateTakeaway,
                Pushes, Push, Store, DeleteTakeaway, End, Go
<1>6. QED
    BY <1>1, <1>2, <1>4, <1>5, AgentStepKeeps

LEMMA ChatStep == EditsInv /\ ChatInv /\ [Next]_vars => ChatInv'
<1> SUFFICES ASSUME EditsInv, ChatInv, [Next]_vars PROVE ChatInv'
    OBVIOUS
<1>1. CASE UNCHANGED vars
    <2>1. /\ session' = session /\ request' = request /\ answered' = answered
          /\ drafted' = drafted /\ contested' = contested /\ unheard' = unheard
        BY <1>1 DEF vars
    <2>2. QED
        BY <2>1 DEF ChatInv, LabelOK, ChatOK, HistoryKept, DraftKept, TurnOK, DraftFits, On
<1>2. ASSUME NEW s \in Session, ReadSeed(s) \/ InsertSession(s) PROVE ChatInv'
    BY <1>2, OpenKeepsChat
<1>3. ASSUME NEW r \in Request, NextRequest(r) PROVE ChatInv'
    <2>1. ASSUME NEW s \in Session, BeginTurn(r, s) \/ BeginEdit(r, s) PROVE ChatInv'
        BY <2>1, BeginOnKeepsChat
    <2>2. CASE \/ \E s \in Session : BeginApply(r, s)
               \/ BeginPut(r) \/ BeginCreateTakeaway(r)
               \/ \E t \in takeaways : BeginDeleteTakeaway(r, t)
               \/ CreateTakeaway(r) \/ Push(r) \/ Store(r) \/ DeleteTakeaway(r)
        BY <2>2, WriteKeepsChat
    <2>3. CASE ModelAnswers(r)
        BY <2>3, ModelAnswersKeepsChat
    <2>4. CASE SaveDraft(r)
        BY <2>4, SaveDraftKeepsChat
    <2>5. CASE SaveHistory(r)
        BY <2>5, SaveHistoryKeepsChat
    <2>6. CASE SaveEdit(r)
        BY <2>6, SaveEditKeepsChat
    <2>7. CASE Die(r)
        BY <2>7, DieKeepsChat
    <2>8. QED
        BY <1>3, <2>1, <2>2, <2>3, <2>4, <2>5, <2>6, <2>7 DEF NextRequest
<1>4. QED
    BY <1>1, <1>2, <1>3 DEF Next

\* sessions.py:251, 290-291, 306: a session's history is the turns that were
\* answered, in order, and the draft of a session at rest is the one answered last,
\* as long as its writers neither overlapped nor died; if they did, the turn
\* answered last still ends the history, unless a later one was saved unanswered.
THEOREM SessionsAsAnsweredThm == Spec => []SessionsAsAnswered
<1>1. ChatInv => SessionsAsAnswered
    BY DEF ChatInv, ChatOK, SessionsAsAnswered
<1>2. Spec => []ChatInv
    BY ChatInitial, ChatStep, EditsInvariant, PTL DEF Spec
<1>3. QED
    BY <1>1, <1>2, PTL

-------------------------------------------------------------------------------
(* AgentKnowledge.                                                         *)


\* A request past its resolution holds a base that exists; documents lie in
\* bases that exist.
ResolvedOK ==
    /\ \A u \in Upload : upload[u].at \in {"link", "put", "remove"} => upload[u].base \in bases
    /\ \A b \in Base : docs[b] # {} => b \in bases

\* While one upload creates and links, it is the only one that found no base, and
\* a base that is not linked yet is the one it is about to link.
SingleOK ==
    alone =>
        /\ \A b, c \in bases : b = c
        /\ \A u, v \in Upload : upload[u].at = "create" /\ upload[v].at = "create" => u = v
        /\ \A u \in Upload : upload[u].at = "create" => bases = {}
        /\ \A b \in bases : b \in linked \/ \E u \in Upload : /\ upload[u].at = "link"
                                                           /\ upload[u].base = b

KBInv == KBTypeOK /\ ResolvedOK /\ SingleOK

Stage == {"idle", "create", "link", "put", "remove", "done"}

\* What a request's step does to the requests.
LEMMA ProceedMoves ==
    ASSUME KBTypeOK, NEW u \in Upload, NEW at \in Stage, NEW b \in Base \cup {NoBase},
           Proceed(u, at, b)
    PROVE  /\ upload'[u].at = at /\ upload'[u].base = b
           /\ \A v \in Upload : v # u => upload'[v] = upload[v]
           /\ upload' \in [Upload -> [at : Stage, base : Base \cup {NoBase}]]
    BY DEF KBTypeOK, Proceed, Stage

LEMMA FinishMoves ==
    ASSUME KBTypeOK, NEW u \in Upload, Finish(u)
    PROVE  /\ upload'[u].at = "done"
           /\ \A v \in Upload : v # u => upload'[v] = upload[v]
           /\ upload' \in [Upload -> [at : Stage, base : Base \cup {NoBase}]]
    BY DEF KBTypeOK, Finish, Handled, Stage

LEMMA KBInitial == KBInit => KBInv
    BY DEF KBInit, KBInv, KBTypeOK, ResolvedOK, SingleOK, Unasked

LEMMA KBStep == KBInv /\ [KBNext]_kbVars => KBInv'
<1> SUFFICES ASSUME KBInv, [KBNext]_kbVars PROVE KBInv'
    OBVIOUS
<1> USE DEF KBInv
<1>0. upload \in [Upload -> [at : Stage, base : Base \cup {NoBase}]]
    BY DEF KBTypeOK, Stage
<1>1. ASSUME NEW u \in Upload, ResolveForUpload(u) PROVE KBInv'
    <2>a. alone' => alone /\ (bases = {} => \A v \in Upload : upload[v].at # "create")
        BY <1>1, Zenon DEF ResolveForUpload
    <2>b. alone' \in BOOLEAN /\ UNCHANGED <<bases, linked, docs>>
        BY <1>1, Zenon DEF ResolveForUpload
    <2>c. upload[u].at = "idle"
        BY <1>1 DEF ResolveForUpload
    <2>1. CASE \E b \in bases : Proceed(u, "put", b)
        <3>1. PICK b \in bases : Proceed(u, "put", b)
            BY <2>1
        <3>2. b \in Base
            BY DEF KBTypeOK
        <3>3. /\ upload'[u].at = "put" /\ upload'[u].base = b
              /\ \A v \in Upload : v # u => upload'[v] = upload[v]
              /\ upload' \in [Upload -> [at : Stage, base : Base \cup {NoBase}]]
            BY <3>1, <3>2, ProceedMoves DEF Stage
        <3>4. KBTypeOK'
            BY <2>b, <3>3 DEF KBTypeOK, Stage
        <3>5. ResolvedOK'
            BY <2>b, <3>1, <3>3 DEF ResolvedOK
        <3>6. SingleOK'
            BY <2>c, <2>a, <2>b, <3>1, <3>3 DEF SingleOK
        <3>7. QED
            BY <3>4, <3>5, <3>6
    <2>2. CASE bases = {} /\ Proceed(u, "create", NoBase)
        <3>1. /\ upload'[u].at = "create"
              /\ \A v \in Upload : v # u => upload'[v] = upload[v]
              /\ upload' \in [Upload -> [at : Stage, base : Base \cup {NoBase}]]
            BY <2>2, ProceedMoves DEF Stage
        <3>2. KBTypeOK'
            BY <2>b, <3>1 DEF KBTypeOK, Stage
        <3>3. ResolvedOK'
            BY <2>b, <3>1 DEF ResolvedOK
        <3>4. SingleOK'
            BY <2>a, <2>b, <2>2, <3>1 DEF SingleOK
        <3>5. QED
            BY <3>2, <3>3, <3>4
    <2>3. QED
        BY <1>1, <2>1, <2>2 DEF ResolveForUpload
<1>2. ASSUME NEW u \in Upload, ResolveForDelete(u) PROVE KBInv'
    <2>1. CASE \E b \in bases : Proceed(u, "remove", b)
        <3>1. PICK b \in bases : Proceed(u, "remove", b)
            BY <2>1
        <3>2. b \in Base
            BY DEF KBTypeOK
        <3>3. /\ upload'[u].at = "remove" /\ upload'[u].base = b
              /\ \A v \in Upload : v # u => upload'[v] = upload[v]
              /\ upload' \in [Upload -> [at : Stage, base : Base \cup {NoBase}]]
            BY <3>1, <3>2, ProceedMoves DEF Stage
        <3>4. KBTypeOK'
            BY <1>2, <3>3 DEF KBTypeOK, ResolveForDelete, Stage
        <3>5. ResolvedOK'
            BY <1>2, <3>1, <3>3 DEF ResolvedOK, ResolveForDelete
        <3>6. SingleOK'
            BY <1>2, <3>1, <3>3 DEF SingleOK, ResolveForDelete
        <3>7. QED
            BY <3>4, <3>5, <3>6
    <2>2. CASE bases = {} /\ Finish(u)
        BY <1>2, <2>2, FinishMoves
           DEF ResolveForDelete, KBTypeOK, ResolvedOK, SingleOK, Stage
    <2>3. QED
        BY <1>2, <2>1, <2>2 DEF ResolveForDelete
<1>3. ASSUME NEW u \in Upload, CreateBase(u) PROVE KBInv'
    <2>1. PICK b \in Base \ bases : bases' = bases \cup {b} /\ Proceed(u, "link", b)
        BY <1>3 DEF CreateBase
    <2>2. /\ upload'[u].at = "link" /\ upload'[u].base = b
          /\ \A v \in Upload : v # u => upload'[v] = upload[v]
          /\ upload' \in [Upload -> [at : Stage, base : Base \cup {NoBase}]]
        BY <2>1, ProceedMoves DEF Stage
    <2>3. KBTypeOK'
        BY <1>3, <2>1, <2>2 DEF KBTypeOK, CreateBase, Stage
    <2>4. ResolvedOK'
        BY <1>3, <2>1, <2>2 DEF ResolvedOK, CreateBase
    <2>5. SingleOK'
        BY <1>3, <2>1, <2>2 DEF SingleOK, CreateBase
    <2>6. QED
        BY <2>3, <2>4, <2>5
<1>4. ASSUME NEW u \in Upload, LinkBase(u) PROVE KBInv'
    <2>1. upload[u].base \in bases /\ upload[u].base \in Base
        BY <1>4 DEF LinkBase, ResolvedOK, KBTypeOK
    <2>2. /\ upload'[u].at = "put" /\ upload'[u].base = upload[u].base
          /\ \A v \in Upload : v # u => upload'[v] = upload[v]
          /\ upload' \in [Upload -> [at : Stage, base : Base \cup {NoBase}]]
        BY <1>4, <2>1, ProceedMoves DEF LinkBase, Stage
    <2>3. KBTypeOK'
        BY <1>4, <2>1, <2>2 DEF KBTypeOK, LinkBase, Linked, Stage
    <2>4. ResolvedOK'
        BY <1>4, <2>1, <2>2 DEF ResolvedOK, LinkBase
    <2>5. SingleOK'
        BY <1>4, <2>2 DEF SingleOK, LinkBase, Linked
    <2>6. QED
        BY <2>3, <2>4, <2>5
<1>5. ASSUME NEW u \in Upload, PutDocument(u) PROVE KBInv'
    <2>1. upload[u].base \in bases /\ upload[u].base \in Base
        BY <1>5 DEF PutDocument, ResolvedOK, KBTypeOK
    <2>2. docs' \in [Base -> SUBSET Upload] /\ \A b \in Base : docs'[b] # {} => b \in bases
        BY <1>5, <2>1 DEF PutDocument, ResolvedOK, KBTypeOK
    <2>3. QED
        BY <1>5, <2>2, FinishMoves DEF PutDocument, KBTypeOK, ResolvedOK, SingleOK, Stage
<1>6. ASSUME NEW u \in Upload, RemoveDocument(u) PROVE KBInv'
    <2>1. docs' \in [Base -> SUBSET Upload] /\ \A b \in Base : docs'[b] # {} => b \in bases
        BY <1>6 DEF RemoveDocument, ResolvedOK, KBTypeOK
    <2>2. QED
        BY <1>6, <2>1, FinishMoves DEF RemoveDocument, KBTypeOK, ResolvedOK, SingleOK, Stage
<1>7. ASSUME NEW u \in Upload, DieUnlinked(u) PROVE KBInv'
    <2>1. /\ upload'[u].at = "done"
          /\ \A v \in Upload : v # u => upload'[v] = upload[v]
          /\ upload' \in [Upload -> [at : Stage, base : Base \cup {NoBase}]]
        BY <1>7, FinishMoves DEF DieUnlinked
    <2>2. upload[u].at = "link" => upload[u].base \in bases
        BY DEF ResolvedOK
    <2>3. KBTypeOK'
        BY <1>7, <2>1, <2>2 DEF KBTypeOK, DieUnlinked, Linked, Stage
    <2>4. ResolvedOK'
        BY <1>7, <2>1 DEF ResolvedOK, DieUnlinked
    <2>5. SingleOK'
        <3>1. CASE upload[u].at = "create" /\ ~alone'
            BY <3>1 DEF SingleOK
        <3>2. CASE upload[u].at = "link" /\ linked' = Linked(upload[u].base)
                   /\ UNCHANGED <<bases, alone>>
            BY <2>1, <3>2 DEF SingleOK, Linked
        <3>3. CASE alone' = (alone /\ upload[u].at = "create") /\ UNCHANGED <<bases, linked>>
            <4>1. alone' => alone /\ upload[u].at = "create"
                BY <3>3, Zenon
            <4>2. QED
                BY <2>1, <3>3, <4>1 DEF SingleOK
        <3>4. QED
            BY <1>7, <3>1, <3>2, <3>3 DEF DieUnlinked
    <2>6. QED
        BY <2>3, <2>4, <2>5
<1>8. ASSUME NEW u \in Upload, DieLate(u) PROVE KBInv'
    BY <1>8, FinishMoves DEF DieLate, KBTypeOK, ResolvedOK, SingleOK, Stage
<1>9. CASE UNCHANGED kbVars
    BY <1>9 DEF kbVars, KBTypeOK, ResolvedOK, SingleOK
<1>10. QED
    BY <1>1, <1>2, <1>3, <1>4, <1>5, <1>6, <1>7, <1>8, <1>9 DEF KBNext

-------------------------------------------------------------------------------
LEMMA KBInvariant == KBSpec => []KBInv
    BY KBInitial, KBStep, PTL DEF KBSpec

\* Every variable of the knowledge base keeps its type.
THEOREM KBTypeCorrect == KBSpec => []KBTypeOK
<1>1. KBInv => KBTypeOK
    BY DEF KBInv
<1>2. QED
    BY <1>1, KBInvariant, PTL

\* knowledge.py:20-34: once a single upload has created and linked the base, every
\* document reaches the agent, whatever other requests do and whatever fails.
THEOREM DocumentsReachAgentThm == KBSpec => []DocumentsReachAgent
<1>1. KBInv => DocumentsReachAgent
    BY DEF KBInv, ResolvedOK, SingleOK, DocumentsReachAgent
<1>2. QED
    BY <1>1, KBInvariant, PTL
===============================================================================
