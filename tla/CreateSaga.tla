------------------------------ MODULE CreateSaga ------------------------------
(***************************************************************************)
(* Provisioning an agent: POST /sessions/{sid}/create as a saga over three  *)
(* stores that share no transaction (the sessions table, TurnCall, and the  *)
(* agent_backends registry), its compensation, and the teardown that later  *)
(* takes the agent down.  Every await of the handlers is a step of its own, *)
(* so the steps of overlapping calls interleave as the event loop allows.   *)
(*                                                                         *)
(* TurnCall's ids are fresh, and one call creates at most one project and   *)
(* one agent in it: both are named here by the call that creates them.      *)
(***************************************************************************)
EXTENDS Integers, FiniteSets, FiniteSetsExt

CONSTANTS
    Session,    \* builder sessions
    Create,     \* calls of POST /sessions/{sid}/create
    Teardown,   \* calls of DELETE /agents/{agent_id}
    NoAgent,    \* sessions.agent_id IS NULL
    NoSession,  \* the call has not been made
    NoRow,      \* agent_backends has no row for the agent
    BasePort,   \* the first backend port
    Faults      \* the failures the environment may inject

Fault == {"refused",   \* a TurnCall request fails and has no effect
          "lost",      \* a TurnCall request takes effect, its answer is lost
          "db",        \* a statement fails and has no effect
          "db_lost",   \* a statement commits, its acknowledgement is lost
          "crash"}     \* the builder process dies

ASSUME ConstantsAssumption ==
    /\ NoAgent \notin Create
    /\ NoSession \notin Session
    /\ BasePort \in Nat \ {0}
    /\ Faults \subseteq Fault

SessionRow == [open: BOOLEAN, ready: BOOLEAN, agent: Create \cup {NoAgent}]
Row == [port: Nat, secret: BOOLEAN, deleted: BOOLEAN]

ASSUME NoRowAssumption == NoRow \notin Row

VARIABLES
    session,   \* sessions: opened, ready (a finalized, well-formed config), agent_id
    pc,        \* where each create call is, or how it was answered
    sess,      \* the session a create call serves
    port,      \* the port a create call took for its backend
    key,       \* the call holds its project's API key
    secret,    \* the call holds its webhook's signing secret
    project,   \* TurnCall: the project a create call made
    agent,     \* TurnCall: the agent a create call made
    row,       \* agent_backends, by agent
    contested, \* history: sessions that had two create calls running at once
    dpc,       \* where each teardown call is, or how it was answered
    target     \* the agent a teardown call names

callVars == <<pc, sess, port, key, secret, contested>>
turncallVars == <<project, agent>>
teardownVars == <<dpc, target>>
vars == <<session, callVars, turncallVars, row, teardownVars>>

-------------------------------------------------------------------------------
Working == {"port", "project", "key", "webhook", "agent", "link",
            "record", "secret", "rollback"}

\* "created" and "existing" are 200s, "bad_request" a 400/422, "rejected" the
\* 502 for a misconfigured platform key, "rolled_back" the 502 of a failed
\* saga, "error" an uncaught exception (500), "crashed" no answer at all.
Answered == {"created", "existing", "bad_request", "rejected",
             "rolled_back", "error", "crashed"}

TeardownWorking == {"delete_project", "mark_deleted"}
TeardownAnswered == {"deleted", "not_found", "conflict", "error", "crashed"}

NoPort == 0

InFlight(c) == pc[c] \in Working
Recorded == {c \in Create : row[c] # NoRow}
UsedPorts == {row[c].port : c \in Recorded}

\* registry.next_port: max(port) + 1 over every row, deleted ones included.
NextPortNoDefault == IF UsedPorts = {} THEN NoRow ELSE Max(UsedPorts) + 1
NextPort == IF UsedPorts = {} THEN BasePort ELSE Max(UsedPorts) + 1

Goto(c, label) == pc' = [pc EXCEPT ![c] = label]

Init ==
    /\ session = [s \in Session |-> [open |-> FALSE, ready |-> FALSE, agent |-> NoAgent]]
    /\ pc = [c \in Create |-> "idle"]
    /\ sess = [c \in Create |-> NoSession]
    /\ port = [c \in Create |-> NoPort]
    /\ key = [c \in Create |-> FALSE]
    /\ secret = [c \in Create |-> FALSE]
    /\ project = [c \in Create |-> "none"]
    /\ agent = [c \in Create |-> FALSE]
    /\ row = [c \in Create |-> NoRow]
    /\ contested = {}
    /\ dpc = [d \in Teardown |-> "idle"]
    /\ target = [d \in Teardown |-> NoAgent]

-------------------------------------------------------------------------------
(* Sessions, as far as the saga reads them.                                *)

OpenSession(s) ==
    /\ ~session[s].open
    /\ session' = [session EXCEPT ![s].open = TRUE]
    /\ UNCHANGED <<callVars, turncallVars, row, teardownVars>>

\* A session opened on an existing agent starts with its config and its id;
\* get_backend does not filter deleted rows.
OpenEditSession(s, a) ==
    /\ ~session[s].open
    /\ a \in Recorded
    /\ session' = [session EXCEPT ![s] = [open |-> TRUE, ready |-> TRUE, agent |-> a]]
    /\ UNCHANGED <<callVars, turncallVars, row, teardownVars>>

FinalizeConfig(s) ==
    /\ session[s].open /\ ~session[s].ready
    /\ session' = [session EXCEPT ![s].ready = TRUE]
    /\ UNCHANGED <<callVars, turncallVars, row, teardownVars>>

-------------------------------------------------------------------------------
(* POST /sessions/{sid}/create                                             *)

AlreadyCreatedIgnored(s) == FALSE
AlreadyCreated(s) == session[s].agent # NoAgent

\* The session is read once; the rest of the call trusts what it said.
Begin(c, s) ==
    /\ pc[c] = "idle" /\ session[s].open
    /\ sess' = [sess EXCEPT ![c] = s]
    /\ contested' = IF \E o \in Create : sess[o] = s /\ InFlight(o)
                    THEN contested \cup {s} ELSE contested
    /\ \/ /\ AlreadyCreated(s)
          /\ Goto(c, "existing")
       \/ /\ ~AlreadyCreated(s) /\ ~session[s].ready
          /\ Goto(c, "bad_request")
       \/ /\ ~AlreadyCreated(s) /\ session[s].ready
          /\ Goto(c, "port")
    /\ UNCHANGED <<session, port, key, secret, turncallVars, row, teardownVars>>

ReadPort(c) ==
    /\ pc[c] = "port"
    /\ \/ /\ port' = [port EXCEPT ![c] = NextPort]
          /\ Goto(c, "project")
       \/ /\ "db" \in Faults
          /\ Goto(c, "error")
          /\ UNCHANGED port
    /\ UNCHANGED <<session, sess, key, secret, contested, turncallVars, row, teardownVars>>

\* Outside the compensated part: whatever goes wrong here, nothing is undone.
CreateProject(c) ==
    /\ pc[c] = "project"
    /\ \/ /\ project' = [project EXCEPT ![c] = "live"]
          /\ Goto(c, "key")
       \/ /\ "refused" \in Faults
          /\ \E answer \in {"rejected", "error"} : Goto(c, answer)
          /\ UNCHANGED project
       \/ /\ "lost" \in Faults
          /\ project' = [project EXCEPT ![c] = "live"]
          /\ Goto(c, "error")
    /\ UNCHANGED <<session, sess, port, key, secret, contested, agent, row, teardownVars>>

\* Without a key there is nothing to go on with.
KeyFailureSwallowed == "webhook"
KeyFailure == "rollback"

CreateKey(c) ==
    /\ pc[c] = "key"
    /\ \/ /\ key' = [key EXCEPT ![c] = TRUE]
          /\ Goto(c, "webhook")
       \/ /\ {"refused", "lost"} \cap Faults # {}
          /\ Goto(c, KeyFailure)
          /\ UNCHANGED key
    /\ UNCHANGED <<session, sess, port, secret, contested, turncallVars, row, teardownVars>>

\* Best-effort: a failure leaves the backend without a signing secret.
RegisterWebhook(c) ==
    /\ pc[c] = "webhook"
    /\ \/ secret' = [secret EXCEPT ![c] = TRUE]
       \/ {"refused", "lost"} \cap Faults # {} /\ UNCHANGED secret
    /\ Goto(c, "agent")
    /\ UNCHANGED <<session, sess, port, key, contested, turncallVars, row, teardownVars>>

CreateAgent(c) ==
    /\ pc[c] = "agent"
    /\ \/ /\ agent' = [agent EXCEPT ![c] = TRUE]
          /\ Goto(c, "link")
       \/ /\ "refused" \in Faults
          /\ Goto(c, "rollback")
          /\ UNCHANGED agent
       \/ /\ "lost" \in Faults
          /\ agent' = [agent EXCEPT ![c] = TRUE]
          /\ Goto(c, "rollback")
    /\ UNCHANGED <<session, sess, port, key, secret, contested, project, row, teardownVars>>

\* store.set_agent_id: an unconditional UPDATE, the last caller wins.
LinkSession(c) ==
    /\ pc[c] = "link"
    /\ LET linked == [session EXCEPT ![sess[c]].agent = c] IN
       \/ /\ session' = linked
          /\ Goto(c, "record")
       \/ /\ "db" \in Faults
          /\ Goto(c, "rollback")
          /\ UNCHANGED session
       \/ /\ "db_lost" \in Faults
          /\ session' = linked
          /\ Goto(c, "rollback")
    /\ UNCHANGED <<sess, port, key, secret, contested, turncallVars, row, teardownVars>>

\* The UNIQUE constraint on agent_backends.port.
PortTakenUnchecked(c) == FALSE
PortTaken(c) == port[c] \in UsedPorts

\* Past the try block: a failure is not compensated, the agent stays.
RecordFailureCompensated == "rollback"
RecordFailure == "error"

\* agent_id is fresh, so ON CONFLICT (agent_id) never applies; the constraint
\* on port does, and its violation is caught by nobody.
RecordBackend(c) ==
    /\ pc[c] = "record"
    /\ LET recorded ==
             [row EXCEPT ![c] = [port |-> port[c], secret |-> FALSE, deleted |-> FALSE]] IN
       \/ /\ ~PortTaken(c)
          /\ row' = recorded
          /\ Goto(c, "secret")
       \/ /\ PortTaken(c) \/ "db" \in Faults
          /\ Goto(c, RecordFailure)
          /\ UNCHANGED row
       \/ /\ "db_lost" \in Faults /\ ~PortTaken(c)
          /\ row' = recorded
          /\ Goto(c, RecordFailure)
    /\ UNCHANGED <<session, sess, port, key, secret, contested, turncallVars, teardownVars>>

WithoutSecret(c) == row
WithSecret(c) == [row EXCEPT ![c].secret = secret[c]]

\* set_webhook_secret, then the build is spawned and the call answers.
StoreSecret(c) ==
    /\ pc[c] = "secret"
    /\ \/ /\ row' = WithSecret(c)
          /\ Goto(c, "created")
       \/ /\ "db" \in Faults
          /\ Goto(c, "error")
          /\ UNCHANGED row
       \/ /\ "db_lost" \in Faults
          /\ row' = WithSecret(c)
          /\ Goto(c, "error")
    /\ UNCHANGED <<session, sess, port, key, secret, contested, turncallVars, teardownVars>>

\* _rollback_provisioning returns early when there is no key to delete with.
NothingToAuthenticate(c) == ~key[c]

\* _rollback_provisioning: one delete of the whole project, best-effort, and
\* only with the key that authenticates it.
Rollback(c) ==
    /\ pc[c] = "rollback"
    /\ \/ /\ key[c]
          /\ project' = [project EXCEPT ![c] = "deleted"]
       \/ /\ key[c] /\ "refused" \in Faults
          /\ UNCHANGED project
       \/ /\ NothingToAuthenticate(c)
          /\ UNCHANGED project
    /\ Goto(c, "rolled_back")
    /\ UNCHANGED <<session, sess, port, key, secret, contested, agent, row, teardownVars>>

-------------------------------------------------------------------------------
(* DELETE /agents/{agent_id}                                               *)

\* The row is found whether or not it is deleted; the call is refused while
\* phone numbers route to the agent.
BeginTeardown(d, a) ==
    /\ dpc[d] = "idle"
    /\ target' = [target EXCEPT ![d] = a]
    /\ \/ /\ a \notin Recorded
          /\ dpc' = [dpc EXCEPT ![d] = "not_found"]
       \/ /\ a \in Recorded
          /\ \E next \in {"conflict", "delete_project"} : dpc' = [dpc EXCEPT ![d] = next]
    /\ UNCHANGED <<session, callVars, turncallVars, row>>

\* Best-effort: the registry teardown proceeds regardless.
DeleteProject(d) ==
    /\ dpc[d] = "delete_project"
    /\ dpc' = [dpc EXCEPT ![d] = "mark_deleted"]
    /\ \/ project' = [project EXCEPT ![target[d]] = "deleted"]
       \/ "refused" \in Faults /\ UNCHANGED project
    /\ UNCHANGED <<session, callVars, agent, row, target>>

\* registry.mark_deleted keeps the row, and with it the port.
Dropped(a) == [row EXCEPT ![a] = NoRow]
Hidden(a) == [row EXCEPT ![a].deleted = TRUE]

MarkDeleted(d) ==
    /\ dpc[d] = "mark_deleted"
    /\ \/ /\ row' = Hidden(target[d])
          /\ dpc' = [dpc EXCEPT ![d] = "deleted"]
       \/ /\ "db" \in Faults
          /\ dpc' = [dpc EXCEPT ![d] = "error"]
          /\ UNCHANGED row
       \/ /\ "db_lost" \in Faults
          /\ row' = Hidden(target[d])
          /\ dpc' = [dpc EXCEPT ![d] = "error"]
    /\ UNCHANGED <<session, callVars, turncallVars, target>>

\* Calls live in the process: none of them resumes after a crash, and nothing
\* at startup looks for what they left half done.
Crash ==
    /\ "crash" \in Faults
    /\ pc' = [c \in Create |-> IF InFlight(c) THEN "crashed" ELSE pc[c]]
    /\ dpc' = [d \in Teardown |-> IF dpc[d] \in TeardownWorking THEN "crashed" ELSE dpc[d]]
    /\ UNCHANGED <<session, sess, port, key, secret, contested, turncallVars, row, target>>

-------------------------------------------------------------------------------
CreateStep(c) ==
    \/ ReadPort(c) \/ CreateProject(c) \/ CreateKey(c) \/ RegisterWebhook(c)
    \/ CreateAgent(c) \/ LinkSession(c) \/ RecordBackend(c) \/ StoreSecret(c)
    \/ Rollback(c)

TeardownStep(d) == DeleteProject(d) \/ MarkDeleted(d)

\* Every call has ended and every session is what its users made of it.
Terminated ==
    /\ \A c \in Create : pc[c] \in Answered
    /\ \A d \in Teardown : dpc[d] \in TeardownAnswered
    /\ UNCHANGED vars

Next ==
    \/ \E s \in Session : OpenSession(s) \/ FinalizeConfig(s)
    \/ \E s \in Session, a \in Create : OpenEditSession(s, a)
    \/ \E c \in Create, s \in Session : Begin(c, s)
    \/ \E c \in Create : CreateStep(c)
    \/ \E d \in Teardown, a \in Create : BeginTeardown(d, a)
    \/ \E d \in Teardown : TeardownStep(d)
    \/ Crash
    \/ Terminated

Spec == Init /\ [][Next]_vars

-------------------------------------------------------------------------------
(* What the saga promises.                                                 *)

TypeOK ==
    /\ session \in [Session -> SessionRow]
    /\ pc \in [Create -> {"idle"} \cup Working \cup Answered]
    /\ sess \in [Create -> Session \cup {NoSession}]
    /\ port \in [Create -> Nat]
    /\ key \in [Create -> BOOLEAN]
    /\ secret \in [Create -> BOOLEAN]
    /\ contested \subseteq Session
    /\ project \in [Create -> {"none", "live", "deleted"}]
    /\ agent \in [Create -> BOOLEAN]
    /\ row \in [Create -> Row \cup {NoRow}]
    /\ dpc \in [Teardown -> {"idle"} \cup TeardownWorking \cup TeardownAnswered]
    /\ target \in [Teardown -> Create \cup {NoAgent}]

\* A call answered created:true left an agent the registry knows, at the port
\* the agent's tools and webhook were told, with the secret that signs for it.
CreatedIsOwned ==
    \A c \in Create : pc[c] = "created" =>
        /\ agent[c] /\ c \in Recorded
        /\ row[c].port = port[c] /\ row[c].secret = secret[c]

\* The compensation never reaches a recorded agent: its project is gone only
\* if a teardown of that agent went past its checks.
RecordedIsLive ==
    \A c \in Recorded : project[c] = "live" \/
        \E d \in Teardown : target[d] = c /\ dpc[d] \in {"mark_deleted", "deleted", "error", "crashed"}

\* Two agents of the registry never send tool calls and events to one port,
\* though overlapping calls read the same max(port) and a teardown hides rows.
PortsExclusive ==
    \A c1, c2 \in Recorded : c1 # c2 => port[c1] # port[c2]

\* A project given up for want of a key is an inert orphan: no agent lives in
\* it and no session points into it.
OrphanIsInert ==
    \A c \in Create : pc[c] = "rolled_back" /\ ~key[c] =>
        ~agent[c] /\ \A s \in Session : session[s].agent # c

\* As long as a session's creates run one after the other, failures, retries
\* and crashes included, the session gets at most one recorded agent.
OneAgentPerSession ==
    \A c1, c2 \in Recorded : sess[c1] = sess[c2] /\ sess[c1] \notin contested => c1 = c2

\* Who answers for the project of a create call.
CustodyOf(c) ==
    IF project[c] = "none" THEN "unborn"
    ELSE IF project[c] = "deleted" THEN "reclaimed"
    ELSE IF c \in Recorded THEN IF row[c].deleted THEN "shelved" ELSE "registry"
    ELSE IF InFlight(c) THEN "saga" ELSE "orphan"

Ledger == INSTANCE ProjectCustody WITH
              Project <- Create, custody <- [c \in Create |-> CustodyOf(c)]

\* The saga and the teardown implement the custody of projects.
RefinesCustody == Ledger!Spec

\* docs/adr/0004: "Create is idempotent (reuse the registry row)".  A create that
\* dies, or fails to record its agent, after it linked the session leaves later
\* calls an agent that has no row to reuse.
ExistingIsRecorded ==
    \A c \in Create : pc[c] = "existing" => session[sess[c]].agent \in Recorded

\* docs/adr/0004: "Create is idempotent (reuse the registry row)".
CreateIsIdempotent ==
    \A c1, c2 \in Recorded : sess[c1] = sess[c2] => c1 = c2

\* sessions.py, of recording the backend once the agent exists: "best-effort,
\* records status for the UI and never raises".
GenerateNeverRaises == \A c \in Create : agent[c] => pc[c] # "error"
===============================================================================
