--------------------------- MODULE CreateSagaProofs ---------------------------
(***************************************************************************)
(* Theorems about CreateSaga, for every set of sessions and calls and every *)
(* combination of faults.                                                   *)
(***************************************************************************)
EXTENDS CreateSaga, TLAPS

LiveStages == {"key", "webhook", "agent", "link", "record", "rollback"}

\* What a call has already done follows from where it is, and what the
\* registry knows of it from what it has done.
StageOK ==
    \A c \in Create :
        /\ pc[c] \in {"idle", "port", "project"} => project[c] = "none"
        /\ pc[c] \in LiveStages => project[c] = "live"
        /\ agent[c] => key[c]
        /\ pc[c] \in {"webhook", "agent", "link", "record", "secret"} => key[c]
        /\ pc[c] \in {"link", "record", "secret"} => agent[c]
        /\ c \in Recorded => /\ pc[c] \in {"secret", "created", "error", "crashed"}
                             /\ agent[c] /\ project[c] # "none"
                             /\ row[c].port = port[c]
        /\ pc[c] \in {"secret", "created"} => c \in Recorded
        /\ pc[c] = "created" => row[c].secret = secret[c]
        /\ InFlight(c) => sess[c] \in Session

\* A session names only agents TurnCall created.
LinkOK ==
    \A s \in Session : session[s].agent # NoAgent => agent[session[s].agent]

\* A teardown past its checks works on a recorded agent.
TeardownOK ==
    \A d \in Teardown : dpc[d] \in TeardownWorking => target[d] \in Recorded

PortsUnique ==
    \A c1, c2 \in Recorded : c1 # c2 => row[c1].port # row[c2].port

\* The highest port in use exists: next_port's max is defined.
TopExists == UsedPorts # {} => \E m \in UsedPorts : \A p \in UsedPorts : m >= p

LEMMA NextPortIsNat ==
    ASSUME TypeOK, TopExists
    PROVE  NextPort \in Nat
<1>1. UsedPorts \subseteq Nat
    BY DEF TypeOK, UsedPorts, Recorded, Row
<1>2. CASE UsedPorts = {}
    BY <1>2, ConstantsAssumption DEF NextPort
<1>3. CASE UsedPorts # {}
    <2>1. Max(UsedPorts) \in UsedPorts
        BY <1>3 DEF TopExists, Max
    <2> DEFINE top == Max(UsedPorts)
    <2>2. top \in Nat
        BY <2>1, <1>1
    <2>3. NextPort = top + 1
        BY <1>3 DEF NextPort
    <2> HIDE DEF top
    <2>4. QED
        BY <2>2, <2>3
<1>4. QED
    BY <1>2, <1>3

LEMMA TypeStep ==
    ASSUME TypeOK, StageOK, TeardownOK, TopExists, [Next]_vars
    PROVE  TypeOK'
<1> USE DEF TypeOK, vars, callVars, turncallVars, teardownVars, Working, Answered, TeardownWorking, TeardownAnswered
<1>1. ASSUME NEW s \in Session, OpenSession(s)
      PROVE  TypeOK'
    <2>1. ASSUME NEW x \in SessionRow
          PROVE  [x EXCEPT !.open = TRUE] \in SessionRow
        BY DEF SessionRow
    <2>2. session' \in [Session -> SessionRow]
        BY <1>1, <2>1 DEF OpenSession
    <2>3. QED
        BY <1>1, <2>2 DEF OpenSession
<1>2. ASSUME NEW s \in Session, FinalizeConfig(s)
      PROVE  TypeOK'
    <2>1. ASSUME NEW x \in SessionRow
          PROVE  [x EXCEPT !.ready = TRUE] \in SessionRow
        BY DEF SessionRow
    <2>2. session' \in [Session -> SessionRow]
        BY <1>2, <2>1 DEF FinalizeConfig
    <2>3. QED
        BY <1>2, <2>2 DEF FinalizeConfig
<1>3. ASSUME NEW s \in Session, NEW a \in Create, OpenEditSession(s, a)
      PROVE  TypeOK'
    BY <1>3 DEF OpenEditSession, Recorded, SessionRow
<1>4. ASSUME NEW c \in Create, NEW s \in Session, Begin(c, s)
      PROVE  TypeOK'
    BY <1>4 DEF Begin, Goto, AlreadyCreated
<1>5. ASSUME NEW c \in Create, ReadPort(c)
      PROVE  TypeOK'
    <2>1. NextPort \in Nat
        BY NextPortIsNat
    <2>2. QED
        BY <1>5, <2>1 DEF ReadPort, Goto
<1>6. ASSUME NEW c \in Create, CreateProject(c)
      PROVE  TypeOK'
    BY <1>6 DEF CreateProject, Goto
<1>7. ASSUME NEW c \in Create, CreateKey(c)
      PROVE  TypeOK'
    BY <1>7 DEF CreateKey, Goto, KeyFailure
<1>8. ASSUME NEW c \in Create, RegisterWebhook(c)
      PROVE  TypeOK'
    BY <1>8 DEF RegisterWebhook, Goto
<1>9. ASSUME NEW c \in Create, CreateAgent(c)
      PROVE  TypeOK'
    BY <1>9 DEF CreateAgent, Goto
<1>10. ASSUME NEW c \in Create, LinkSession(c)
      PROVE  TypeOK'
    <2>1. ASSUME NEW x \in SessionRow
          PROVE  [x EXCEPT !.agent = c] \in SessionRow
        BY DEF SessionRow
    <2>2. session' \in [Session -> SessionRow]
        BY <1>10, <2>1 DEF LinkSession, Goto
    <2>3. QED
        BY <1>10, <2>2 DEF LinkSession, Goto
<1>11. ASSUME NEW c \in Create, RecordBackend(c)
      PROVE  TypeOK'
    <2>1. [port |-> port[c], secret |-> FALSE, deleted |-> FALSE] \in Row
        BY DEF Row
    <2>2. row' \in [Create -> Row \cup {NoRow}]
        BY <1>11, <2>1 DEF RecordBackend, Goto
    <2>3. QED
        BY <1>11, <2>2 DEF RecordBackend, RecordFailure, Goto
<1>12. ASSUME NEW c \in Create, StoreSecret(c)
      PROVE  TypeOK'
    BY <1>12 DEF StoreSecret, Goto, WithSecret, StageOK, Recorded, Row
<1>13. ASSUME NEW c \in Create, Rollback(c)
      PROVE  TypeOK'
    BY <1>13 DEF Rollback, Goto, NothingToAuthenticate
<1>14. ASSUME NEW d \in Teardown, NEW a \in Create, BeginTeardown(d, a)
      PROVE  TypeOK'
    BY <1>14 DEF BeginTeardown, Recorded
<1>15. ASSUME NEW d \in Teardown, DeleteProject(d)
      PROVE  TypeOK'
    BY <1>15 DEF DeleteProject, TeardownOK, Recorded
<1>16. ASSUME NEW d \in Teardown, MarkDeleted(d)
      PROVE  TypeOK'
    <2>1. row[target[d]] \in Row
        BY <1>16 DEF MarkDeleted, TeardownOK, Recorded
    <2>2. [row[target[d]] EXCEPT !.deleted = TRUE] \in Row
        BY <2>1 DEF Row
    <2>3. Hidden(target[d]) \in [Create -> Row \cup {NoRow}]
        BY <2>2 DEF Hidden
    <2>4. QED
        BY <1>16, <2>3 DEF MarkDeleted
<1>17. CASE Crash
    BY <1>17 DEF Crash, InFlight
<1>18. CASE UNCHANGED vars
    BY <1>18
<1>19. QED
    BY <1>1, <1>2, <1>3, <1>4, <1>5, <1>6, <1>7, <1>8, <1>9, <1>10, <1>11, <1>12, <1>13, <1>14, <1>15, <1>16, <1>17, <1>18 DEF Next, CreateStep, TeardownStep, Terminated


\* Updating a row keeps it a row, at its port.
LEMMA RowSecret ==
    ASSUME NEW r \in Row, NEW b \in BOOLEAN
    PROVE  /\ [r EXCEPT !.secret = b] \in Row \ {NoRow}
           /\ [r EXCEPT !.secret = b].port = r.port
           /\ [r EXCEPT !.secret = b].secret = b
           /\ [r EXCEPT !.secret = b].deleted = r.deleted
    BY NoRowAssumption DEF Row

LEMMA RowDeleted ==
    ASSUME NEW r \in Row
    PROVE  /\ [r EXCEPT !.deleted = TRUE] \in Row \ {NoRow}
           /\ [r EXCEPT !.deleted = TRUE].port = r.port
           /\ [r EXCEPT !.deleted = TRUE].secret = r.secret
           /\ [r EXCEPT !.deleted = TRUE].deleted
    BY NoRowAssumption DEF Row

\* A new row, at the port the call took.
LEMMA RowNew ==
    ASSUME TypeOK, NEW c \in Create
    PROVE  /\ [port |-> port[c], secret |-> FALSE, deleted |-> FALSE] \in Row
           /\ [port |-> port[c], secret |-> FALSE, deleted |-> FALSE] # NoRow
<1>1. port[c] \in Nat
    BY DEF TypeOK
<1> DEFINE new == [port |-> port[c], secret |-> FALSE, deleted |-> FALSE]
<1>2. new \in Row
    BY <1>1 DEF Row
<1> HIDE DEF new
<1>3. new # NoRow
    BY <1>2, NoRowAssumption
<1>4. QED
    BY <1>2, <1>3 DEF new

\* What MarkDeleted does to the registry: one row, and only its flag.
LEMMA MarkDeletedRow ==
    ASSUME TypeOK, TeardownOK, NEW d \in Teardown, MarkDeleted(d)
    PROVE  /\ target[d] \in Create /\ row[target[d]] \in Row
           /\ row' \in [Create -> Row \cup {NoRow}]
           /\ \A c \in Create : c # target[d] => row'[c] = row[c]
           /\ row'[target[d]] \in Row \ {NoRow}
           /\ row'[target[d]].port = row[target[d]].port
           /\ row'[target[d]].secret = row[target[d]].secret
           /\ row'[target[d]].deleted \/ row' = row
<1>1. target[d] \in Create /\ row[target[d]] \in Row
    BY DEF MarkDeleted, TeardownOK, TeardownWorking, Recorded, TypeOK
<1> DEFINE r == row[target[d]]
           new == [r EXCEPT !.deleted = TRUE]
<1>2. /\ new \in Row \ {NoRow} /\ new.deleted
      /\ new.port = r.port /\ new.secret = r.secret
    BY <1>1, RowDeleted
<1>3. row' = [row EXCEPT ![target[d]] = new] \/ row' = row
    BY DEF MarkDeleted, Hidden
<1>4. row' = row => row'[target[d]] \in Row \ {NoRow}
    BY <1>1, NoRowAssumption
<1> HIDE DEF new
<1>5. QED
    BY <1>1, <1>2, <1>3, <1>4 DEF TypeOK

\* What StoreSecret does to the registry: one row, and only its secret.
LEMMA StoreSecretRow ==
    ASSUME TypeOK, StageOK, NEW c \in Create, StoreSecret(c)
    PROVE  /\ row[c] \in Row
           /\ row' \in [Create -> Row \cup {NoRow}]
           /\ \A o \in Create : o # c => row'[o] = row[o]
           /\ row'[c] \in Row \ {NoRow}
           /\ row'[c].port = row[c].port
           /\ row'[c].deleted = row[c].deleted
           /\ pc'[c] = "created" => row'[c].secret = secret[c]
<1>1. row[c] \in Row /\ secret[c] \in BOOLEAN
    BY DEF StoreSecret, StageOK, Recorded, TypeOK
<1> DEFINE new == [row[c] EXCEPT !.secret = secret[c]]
<1>2. /\ new \in Row \ {NoRow} /\ new.secret = secret[c]
      /\ new.port = row[c].port /\ new.deleted = row[c].deleted
    BY <1>1, RowSecret
<1>3. \/ row' = [row EXCEPT ![c] = new]
      \/ row' = row /\ pc' = [pc EXCEPT ![c] = "error"]
    BY DEF StoreSecret, WithSecret, Goto
<1>4. row' = row => row'[c] \in Row \ {NoRow}
    BY <1>1, NoRowAssumption
<1> HIDE DEF new
<1>5. QED
    BY <1>1, <1>2, <1>3, <1>4 DEF TypeOK

LEMMA StageStep ==
    ASSUME TypeOK, StageOK, TeardownOK, [Next]_vars
    PROVE  StageOK'
<1> USE DEF TypeOK, StageOK, LiveStages, Recorded, InFlight, vars, callVars, turncallVars, teardownVars, Working, Answered
<1>1. ASSUME NEW s \in Session, OpenSession(s)
      PROVE  StageOK'
    BY <1>1 DEF OpenSession
<1>2. ASSUME NEW s \in Session, FinalizeConfig(s)
      PROVE  StageOK'
    BY <1>2 DEF FinalizeConfig
<1>3. ASSUME NEW s \in Session, NEW a \in Create, OpenEditSession(s, a)
      PROVE  StageOK'
    BY <1>3 DEF OpenEditSession
<1>4. ASSUME NEW c \in Create, NEW s \in Session, Begin(c, s)
      PROVE  StageOK'
    BY <1>4 DEF Begin, Goto, AlreadyCreated
<1>5. ASSUME NEW c \in Create, ReadPort(c)
      PROVE  StageOK'
    BY <1>5 DEF ReadPort, Goto
<1>6. ASSUME NEW c \in Create, CreateProject(c)
      PROVE  StageOK'
    BY <1>6 DEF CreateProject, Goto
<1>7. ASSUME NEW c \in Create, CreateKey(c)
      PROVE  StageOK'
    BY <1>7 DEF CreateKey, Goto, KeyFailure
<1>8. ASSUME NEW c \in Create, RegisterWebhook(c)
      PROVE  StageOK'
    BY <1>8 DEF RegisterWebhook, Goto
<1>9. ASSUME NEW c \in Create, CreateAgent(c)
      PROVE  StageOK'
    BY <1>9 DEF CreateAgent, Goto
<1>10. ASSUME NEW c \in Create, LinkSession(c)
      PROVE  StageOK'
    BY <1>10 DEF LinkSession, Goto
<1>11. ASSUME NEW c \in Create, RecordBackend(c)
      PROVE  StageOK'
    <2> DEFINE new == [port |-> port[c], secret |-> FALSE, deleted |-> FALSE]
    <2>1. new \in Row \ {NoRow} /\ new.port = port[c] /\ ~new.deleted
        BY RowNew
    <2>2. \/ row' = [row EXCEPT ![c] = new] /\ pc'[c] \in {"secret", "error"}
          \/ row' = row /\ pc'[c] = "error"
        BY <1>11 DEF RecordBackend, RecordFailure, Goto
    <2> HIDE DEF new
    <2>3. QED
        BY <1>11, <2>1, <2>2 DEF RecordBackend, RecordFailure, Goto
<1>12. ASSUME NEW c \in Create, StoreSecret(c)
      PROVE  StageOK'
    BY <1>12, StoreSecretRow DEF StoreSecret, Goto
<1>13. ASSUME NEW c \in Create, Rollback(c)
      PROVE  StageOK'
    BY <1>13 DEF Rollback, Goto, NothingToAuthenticate
<1>14. ASSUME NEW d \in Teardown, NEW a \in Create, BeginTeardown(d, a)
      PROVE  StageOK'
    BY <1>14 DEF BeginTeardown
<1>15. ASSUME NEW d \in Teardown, DeleteProject(d)
      PROVE  StageOK'
    BY <1>15 DEF DeleteProject, TeardownOK, TeardownWorking
<1>16. ASSUME NEW d \in Teardown, MarkDeleted(d)
      PROVE  StageOK'
    <2>1. \A c \in Create : /\ row'[c] # NoRow <=> row[c] # NoRow
                           /\ row'[c].port = row[c].port
                           /\ row'[c].secret = row[c].secret
        BY <1>16, MarkDeletedRow, NoRowAssumption
    <2>2. QED
        BY <1>16, <2>1 DEF MarkDeleted
<1>17. CASE Crash
    BY <1>17 DEF Crash
<1>18. CASE UNCHANGED vars
    BY <1>18
<1>19. QED
    BY <1>1, <1>2, <1>3, <1>4, <1>5, <1>6, <1>7, <1>8, <1>9, <1>10, <1>11, <1>12, <1>13, <1>14, <1>15, <1>16, <1>17, <1>18 DEF Next, CreateStep, TeardownStep, Terminated


\* How a step changes which agents are recorded and at which ports: not at
\* all, or by one new row at a port no row has.
LEMMA PortsFrame ==
    ASSUME TypeOK, StageOK, TeardownOK, [Next]_vars
    PROVE  \/ /\ Recorded' = Recorded
              /\ \A c \in Recorded : row'[c].port = row[c].port
           \/ \E c \in Create :
                  /\ c \notin Recorded /\ Recorded' = Recorded \cup {c}
                  /\ pc[c] = "record" /\ UNCHANGED <<sess, contested, session>>
                  /\ row'[c].port \in Nat \ UsedPorts
                  /\ \A o \in Recorded : row'[o].port = row[o].port
<1>1. CASE row' = row
    BY <1>1 DEF Recorded
<1>2. ASSUME NEW c \in Create, RecordBackend(c), row' # row
      PROVE  /\ c \notin Recorded /\ Recorded' = Recorded \cup {c}
             /\ pc[c] = "record" /\ UNCHANGED <<sess, contested, session>>
             /\ row'[c].port \in Nat \ UsedPorts
             /\ \A o \in Recorded : row'[o].port = row[o].port
    <2> DEFINE new == [port |-> port[c], secret |-> FALSE, deleted |-> FALSE]
    <2>1. new # NoRow /\ new.port = port[c] /\ port[c] \in Nat
        BY RowNew DEF TypeOK
    <2>2. row' = [row EXCEPT ![c] = new] /\ port[c] \notin UsedPorts
        BY <1>2 DEF RecordBackend, PortTaken
    <2>3. c \notin Recorded
        BY <1>2 DEF RecordBackend, StageOK
    <2> HIDE DEF new
    <2>4. QED
        BY <1>2, <2>1, <2>2, <2>3 DEF RecordBackend, Recorded, TypeOK
<1>3. ASSUME NEW c \in Create, StoreSecret(c)
      PROVE  /\ Recorded' = Recorded
             /\ \A o \in Recorded : row'[o].port = row[o].port
    BY <1>3, StoreSecretRow, NoRowAssumption DEF Recorded
<1>4. ASSUME NEW d \in Teardown, MarkDeleted(d)
      PROVE  /\ Recorded' = Recorded
             /\ \A o \in Recorded : row'[o].port = row[o].port
    BY <1>4, MarkDeletedRow, NoRowAssumption DEF Recorded
<1>5. QED
    BY <1>1, <1>2, <1>3, <1>4
    DEF Next, CreateStep, TeardownStep, Terminated, vars, callVars, turncallVars, teardownVars,
        OpenSession, FinalizeConfig, OpenEditSession, Begin, ReadPort, CreateProject, CreateKey,
        RegisterWebhook, CreateAgent, LinkSession, Rollback, BeginTeardown, DeleteProject, Crash

LEMMA TopExistsStep ==
    ASSUME TypeOK, StageOK, TeardownOK, TopExists, [Next]_vars
    PROVE  TopExists'
<1>1. UsedPorts \subseteq Nat
    BY DEF TypeOK, UsedPorts, Recorded, Row
<1>2. CASE /\ Recorded' = Recorded
           /\ \A c \in Recorded : row'[c].port = row[c].port
    <2>1. UsedPorts' = UsedPorts
        BY <1>2 DEF UsedPorts
    <2>2. QED
        BY <2>1 DEF TopExists
<1>3. ASSUME NEW c \in Create, Recorded' = Recorded \cup {c},
             row'[c].port \in Nat,
             \A o \in Recorded : row'[o].port = row[o].port
      PROVE  TopExists'
    <2> DEFINE p == row'[c].port
    <2>1. UsedPorts' = UsedPorts \cup {p}
        BY <1>3 DEF UsedPorts
    <2>2. p \in Nat
        BY <1>3
    <2> HIDE DEF p
    <2>3. CASE UsedPorts = {}
        BY <2>1, <2>2, <2>3 DEF TopExists
    <2>4. CASE UsedPorts # {}
        <3>1. PICK m \in UsedPorts : \A q \in UsedPorts : m >= q
            BY <2>4 DEF TopExists
        <3>2. CASE m >= p
            BY <3>1, <3>2, <2>1 DEF TopExists
        <3>3. CASE ~(m >= p)
            <4>1. \A q \in UsedPorts : p >= q
                BY <3>1, <3>3, <2>2, <1>1
            <4>2. QED
                BY <4>1, <2>1, <2>2 DEF TopExists
        <3>4. QED
            BY <3>2, <3>3
    <2>5. QED
        BY <2>3, <2>4
<1>4. QED
    BY <1>2, <1>3, PortsFrame

LEMMA PortsUniqueStep ==
    ASSUME TypeOK, StageOK, TeardownOK, PortsUnique, [Next]_vars
    PROVE  PortsUnique'
<1>1. CASE /\ Recorded' = Recorded
           /\ \A c \in Recorded : row'[c].port = row[c].port
    BY <1>1 DEF PortsUnique
<1>2. ASSUME NEW c \in Create, c \notin Recorded, Recorded' = Recorded \cup {c},
             row'[c].port \notin UsedPorts,
             \A o \in Recorded : row'[o].port = row[o].port
      PROVE  PortsUnique'
    BY <1>2 DEF PortsUnique, UsedPorts
<1>3. QED
    BY <1>1, <1>2, PortsFrame

\* Rows stay: a recorded agent remains recorded.
LEMMA RowsStay ==
    ASSUME TypeOK, StageOK, TeardownOK, [Next]_vars
    PROVE  Recorded \subseteq Recorded'
    BY PortsFrame

LEMMA TeardownStepOK ==
    ASSUME TypeOK, StageOK, TeardownOK, [Next]_vars
    PROVE  TeardownOK'
<1>1. Recorded \subseteq Recorded'
    BY RowsStay
<1>2. \A d \in Teardown : dpc'[d] \in TeardownWorking =>
          \/ dpc[d] \in TeardownWorking /\ target'[d] = target[d]
          \/ target'[d] \in Recorded
    BY ZenonT(30) DEF Next, CreateStep, TeardownStep, Terminated, vars, callVars, turncallVars, teardownVars,
           TeardownWorking, TypeOK,
           OpenSession, FinalizeConfig, OpenEditSession, Begin, ReadPort, CreateProject, CreateKey,
           RegisterWebhook, CreateAgent, LinkSession, RecordBackend, StoreSecret, Rollback,
           BeginTeardown, DeleteProject, MarkDeleted, Crash
<1>3. QED
    BY <1>1, <1>2 DEF TeardownOK


\* Calls that are running for a session or have recorded an agent for it.
Busy(c) == InFlight(c) \/ c \in Recorded

\* Two busy calls of one session ran at the same time once, and a session that
\* has a recorded agent, or is about to, says so.
SerialOK ==
    /\ \A c1, c2 \in Create :
          Busy(c1) /\ Busy(c2) /\ sess[c1] = sess[c2] /\ c1 # c2 => sess[c1] \in contested
    /\ \A c \in Create :
          c \in Recorded \/ pc[c] \in {"record", "secret"} =>
              sess[c] \in Session /\ session[sess[c]].agent # NoAgent

\* The session's agent: set to an agent that exists, by its own call or by an
\* edit session, and never unset.
LEMMA LinkStep ==
    ASSUME TypeOK, StageOK, LinkOK, [Next]_vars
    PROVE  LinkOK'
<1> USE DEF TypeOK, LinkOK, SessionRow, vars, callVars, turncallVars, teardownVars
<1>1. ASSUME NEW s \in Session, OpenSession(s)
      PROVE  LinkOK'
    BY <1>1 DEF OpenSession
<1>2. ASSUME NEW s \in Session, FinalizeConfig(s)
      PROVE  LinkOK'
    BY <1>2 DEF FinalizeConfig
<1>3. ASSUME NEW s \in Session, NEW a \in Create, OpenEditSession(s, a)
      PROVE  LinkOK'
    BY <1>3 DEF OpenEditSession, StageOK, Recorded
<1>4. ASSUME NEW c \in Create, NEW s \in Session, Begin(c, s)
      PROVE  LinkOK'
    BY <1>4 DEF Begin, Goto, AlreadyCreated
<1>5. ASSUME NEW c \in Create, ReadPort(c)
      PROVE  LinkOK'
    BY <1>5 DEF ReadPort, Goto
<1>6. ASSUME NEW c \in Create, CreateProject(c)
      PROVE  LinkOK'
    BY <1>6 DEF CreateProject, Goto
<1>7. ASSUME NEW c \in Create, CreateKey(c)
      PROVE  LinkOK'
    BY <1>7 DEF CreateKey, Goto
<1>8. ASSUME NEW c \in Create, RegisterWebhook(c)
      PROVE  LinkOK'
    BY <1>8 DEF RegisterWebhook, Goto
<1>9. ASSUME NEW c \in Create, CreateAgent(c)
      PROVE  LinkOK'
    BY <1>9 DEF CreateAgent, Goto
<1>10. ASSUME NEW c \in Create, LinkSession(c)
      PROVE  LinkOK'
    <2>1. agent[c] /\ agent' = agent
        BY <1>10 DEF LinkSession, StageOK
    <2>2. \A s \in Session : session'[s].agent \in {session[s].agent, c}
        BY <1>10 DEF LinkSession
    <2>3. QED
        BY <2>1, <2>2
<1>11. ASSUME NEW c \in Create, RecordBackend(c)
      PROVE  LinkOK'
    BY <1>11 DEF RecordBackend, Goto
<1>12. ASSUME NEW c \in Create, StoreSecret(c)
      PROVE  LinkOK'
    BY <1>12 DEF StoreSecret, Goto
<1>13. ASSUME NEW c \in Create, Rollback(c)
      PROVE  LinkOK'
    BY <1>13 DEF Rollback, Goto
<1>14. ASSUME NEW d \in Teardown, NEW a \in Create, BeginTeardown(d, a)
      PROVE  LinkOK'
    BY <1>14 DEF BeginTeardown
<1>15. ASSUME NEW d \in Teardown, DeleteProject(d)
      PROVE  LinkOK'
    BY <1>15 DEF DeleteProject
<1>16. ASSUME NEW d \in Teardown, MarkDeleted(d)
      PROVE  LinkOK'
    BY <1>16 DEF MarkDeleted
<1>17. CASE Crash
    BY <1>17 DEF Crash
<1>18. CASE UNCHANGED vars
    BY <1>18
<1>19. QED
    BY <1>1, <1>2, <1>3, <1>4, <1>5, <1>6, <1>7, <1>8, <1>9, <1>10, <1>11, <1>12, <1>13, <1>14, <1>15, <1>16, <1>17, <1>18 DEF Next, CreateStep, TeardownStep, Terminated

\* Only a rollback or a teardown deletes a project, and a rollback's project is
\* not recorded.
LEMMA RecordedIsLiveStep ==
    ASSUME TypeOK, StageOK, TeardownOK, RecordedIsLive, [Next]_vars
    PROVE  RecordedIsLive'
<1> USE DEF TypeOK, RecordedIsLive, vars, callVars, turncallVars, teardownVars
<1>1. ASSUME NEW s \in Session, OpenSession(s)
      PROVE  RecordedIsLive'
    BY <1>1 DEF OpenSession, Recorded
<1>2. ASSUME NEW s \in Session, FinalizeConfig(s)
      PROVE  RecordedIsLive'
    BY <1>2 DEF FinalizeConfig, Recorded
<1>3. ASSUME NEW s \in Session, NEW a \in Create, OpenEditSession(s, a)
      PROVE  RecordedIsLive'
    BY <1>3 DEF OpenEditSession, Recorded
<1>4. ASSUME NEW c \in Create, NEW s \in Session, Begin(c, s)
      PROVE  RecordedIsLive'
    BY <1>4 DEF Begin, Goto, AlreadyCreated, Recorded
<1>5. ASSUME NEW c \in Create, ReadPort(c)
      PROVE  RecordedIsLive'
    BY <1>5 DEF ReadPort, Goto, Recorded
<1>6. ASSUME NEW c \in Create, CreateProject(c)
      PROVE  RecordedIsLive'
    BY <1>6 DEF CreateProject, Goto, Recorded
<1>7. ASSUME NEW c \in Create, CreateKey(c)
      PROVE  RecordedIsLive'
    BY <1>7 DEF CreateKey, Goto, KeyFailure, Recorded
<1>8. ASSUME NEW c \in Create, RegisterWebhook(c)
      PROVE  RecordedIsLive'
    BY <1>8 DEF RegisterWebhook, Goto, Recorded
<1>9. ASSUME NEW c \in Create, CreateAgent(c)
      PROVE  RecordedIsLive'
    BY <1>9 DEF CreateAgent, Goto, Recorded
<1>10. ASSUME NEW c \in Create, LinkSession(c)
      PROVE  RecordedIsLive'
    BY <1>10 DEF LinkSession, Goto, Recorded
<1>11. ASSUME NEW c \in Create, RecordBackend(c)
      PROVE  RecordedIsLive'
    <2>1. project[c] = "live"
        BY <1>11 DEF RecordBackend, StageOK, LiveStages
    <2>2. Recorded' \subseteq Recorded \cup {c} /\ UNCHANGED <<project, dpc, target>>
        BY <1>11 DEF RecordBackend, Recorded
    <2>3. QED
        BY <2>1, <2>2
<1>12. ASSUME NEW c \in Create, StoreSecret(c)
      PROVE  RecordedIsLive'
    <2>1. Recorded' = Recorded
        BY <1>12, StoreSecretRow, NoRowAssumption DEF Recorded
    <2>2. QED
        BY <1>12, <2>1 DEF StoreSecret
<1>13. ASSUME NEW c \in Create, Rollback(c)
      PROVE  RecordedIsLive'
    <2>1. c \notin Recorded
        BY <1>13 DEF Rollback, StageOK
    <2>2. /\ Recorded' = Recorded /\ UNCHANGED <<dpc, target>>
          /\ \A o \in Create : o # c => project'[o] = project[o]
        BY <1>13 DEF Rollback, Recorded
    <2>3. QED
        BY <2>1, <2>2 DEF Recorded
<1>14. ASSUME NEW d \in Teardown, NEW a \in Create, BeginTeardown(d, a)
      PROVE  RecordedIsLive'
    BY <1>14 DEF BeginTeardown, Recorded
<1>15. ASSUME NEW d \in Teardown, DeleteProject(d)
      PROVE  RecordedIsLive'
    BY <1>15 DEF DeleteProject, TeardownWorking, Recorded
<1>16. ASSUME NEW d \in Teardown, MarkDeleted(d)
      PROVE  RecordedIsLive'
    <2>1. Recorded' = Recorded
        BY <1>16, MarkDeletedRow, NoRowAssumption DEF Recorded
    <2>2. /\ UNCHANGED <<project, target>> /\ dpc'[d] \in {"deleted", "error"}
          /\ \A e \in Teardown : e # d => dpc'[e] = dpc[e]
        BY <1>16 DEF MarkDeleted
    <2>3. QED
        BY <2>1, <2>2
<1>17. CASE Crash
    BY <1>17 DEF Crash, Recorded, TeardownWorking
<1>18. CASE UNCHANGED vars
    BY <1>18 DEF Recorded
<1>19. QED
    BY <1>1, <1>2, <1>3, <1>4, <1>5, <1>6, <1>7, <1>8, <1>9, <1>10, <1>11, <1>12, <1>13, <1>14, <1>15, <1>16, <1>17, <1>18 DEF Next, CreateStep, TeardownStep, Terminated

\* Two calls of one session are both busy only if they overlapped: the second
\* to begin saw either the other running or its agent.
LEMMA SerialStep ==
    ASSUME TypeOK, StageOK, TeardownOK, SerialOK, [Next]_vars
    PROVE  SerialOK'
<1> USE DEF TypeOK, SerialOK, Busy, Working, Answered, vars, callVars, turncallVars, teardownVars
<1>1. ASSUME NEW s \in Session, OpenSession(s)
      PROVE  SerialOK'
    BY <1>1 DEF OpenSession, Recorded, InFlight
<1>2. ASSUME NEW s \in Session, FinalizeConfig(s)
      PROVE  SerialOK'
    BY <1>2 DEF FinalizeConfig, Recorded, InFlight
<1>3. ASSUME NEW s \in Session, NEW a \in Create, OpenEditSession(s, a)
      PROVE  SerialOK'
    <2>1. \A z \in Session : session[z].agent # NoAgent => session'[z].agent # NoAgent
        BY <1>3, ConstantsAssumption DEF OpenEditSession
    <2>2. QED
        BY <1>3, <2>1 DEF OpenEditSession, Recorded, InFlight
<1>4. ASSUME NEW c \in Create, NEW s \in Session, Begin(c, s)
      PROVE  SerialOK'
    <2>1. Recorded' = Recorded /\ c \notin Recorded /\ session' = session
        BY <1>4 DEF Begin, Recorded, StageOK
    <2>2. \A o \in Create : o # c => sess'[o] = sess[o] /\ pc'[o] = pc[o]
        BY <1>4 DEF Begin, Goto
    <2>3. /\ sess'[c] = s /\ contested \subseteq contested'
          /\ (\E o \in Create : sess[o] = s /\ InFlight(o)) => s \in contested'
        BY <1>4 DEF Begin
    <2>4. pc'[c] \in {"existing", "bad_request", "port"}
        BY <1>4 DEF Begin, Goto
    <2>5. pc'[c] = "port" => session[s].agent = NoAgent
        BY <1>4 DEF Begin, Goto, AlreadyCreated
    <2>6. \A o \in Create : o # c => (InFlight(o)' <=> InFlight(o))
        BY <2>2 DEF InFlight
    <2>7. InFlight(c)' => pc'[c] = "port"
        BY <2>4 DEF InFlight, Working
    <2>8. ASSUME NEW c1 \in Create, NEW c2 \in Create, Busy(c1)', Busy(c2)',
                 sess'[c1] = sess'[c2], c1 # c2
          PROVE  sess'[c1] \in contested'
        <3>1. CASE c1 # c /\ c2 # c
            BY <2>1, <2>2, <2>3, <2>6, <2>8, <3>1
        <3>2. ASSUME NEW o \in Create, o # c, Busy(o)', Busy(c)', sess'[o] = s
              PROVE  s \in contested'
            <4>1. pc'[c] = "port" /\ session[s].agent = NoAgent
                BY <2>1, <2>5, <2>7, <3>2
            <4>2. sess[o] = s /\ Busy(o)
                BY <2>1, <2>2, <2>6, <3>2
            <4>3. InFlight(o)
                BY <4>1, <4>2
            <4>4. QED
                BY <2>3, <4>2, <4>3
        <3>3. QED
            BY <2>3, <2>8, <3>1, <3>2
    <2>9. ASSUME NEW o \in Create, o \in Recorded' \/ pc'[o] \in {"record", "secret"}
          PROVE  sess'[o] \in Session /\ session'[sess'[o]].agent # NoAgent
        BY <2>1, <2>2, <2>4, <2>9
    <2>10. QED
        BY <2>8, <2>9
<1>5. ASSUME NEW c \in Create, ReadPort(c)
      PROVE  SerialOK'
    BY <1>5 DEF ReadPort, Goto, Recorded, InFlight
<1>6. ASSUME NEW c \in Create, CreateProject(c)
      PROVE  SerialOK'
    BY <1>6 DEF CreateProject, Goto, Recorded, InFlight
<1>7. ASSUME NEW c \in Create, CreateKey(c)
      PROVE  SerialOK'
    BY <1>7 DEF CreateKey, Goto, KeyFailure, Recorded, InFlight
<1>8. ASSUME NEW c \in Create, RegisterWebhook(c)
      PROVE  SerialOK'
    BY <1>8 DEF RegisterWebhook, Goto, Recorded, InFlight
<1>9. ASSUME NEW c \in Create, CreateAgent(c)
      PROVE  SerialOK'
    BY <1>9 DEF CreateAgent, Goto, Recorded, InFlight
<1>10. ASSUME NEW c \in Create, LinkSession(c)
      PROVE  SerialOK'
    <2>1. sess[c] \in Session /\ InFlight(c)
        BY <1>10 DEF LinkSession, StageOK, InFlight, Working
    <2>2. /\ \A z \in Session : session[z].agent # NoAgent => session'[z].agent # NoAgent
          /\ pc'[c] = "record" => session'[sess[c]].agent # NoAgent
        BY <1>10, <2>1, ConstantsAssumption DEF LinkSession, Goto, SessionRow
    <2>3. QED
        BY <1>10, <2>1, <2>2 DEF LinkSession, Goto, Recorded, InFlight
<1>11. ASSUME NEW c \in Create, RecordBackend(c)
      PROVE  SerialOK'
    <2>1. Recorded' \subseteq Recorded \cup {c} /\ InFlight(c) /\ pc[c] = "record"
        BY <1>11 DEF RecordBackend, Recorded, InFlight, Working
    <2>2. \A o \in Create : Busy(o)' => Busy(o)
        BY <1>11, <2>1 DEF RecordBackend, Goto, InFlight
    <2>3. QED
        BY <1>11, <2>1, <2>2 DEF RecordBackend, Goto
<1>12. ASSUME NEW c \in Create, StoreSecret(c)
      PROVE  SerialOK'
    <2>1. Recorded' = Recorded
        BY <1>12, StoreSecretRow, NoRowAssumption DEF Recorded
    <2>2. \A o \in Create : Busy(o)' => Busy(o)
        BY <1>12, <2>1 DEF StoreSecret, Goto, InFlight, Working
    <2>3. QED
        BY <1>12, <2>1, <2>2 DEF StoreSecret, Goto
<1>13. ASSUME NEW c \in Create, Rollback(c)
      PROVE  SerialOK'
    BY <1>13 DEF Rollback, Goto, NothingToAuthenticate, Recorded, InFlight
<1>14. ASSUME NEW d \in Teardown, NEW a \in Create, BeginTeardown(d, a)
      PROVE  SerialOK'
    BY <1>14 DEF BeginTeardown, Recorded, InFlight
<1>15. ASSUME NEW d \in Teardown, DeleteProject(d)
      PROVE  SerialOK'
    BY <1>15 DEF DeleteProject, TeardownWorking, Recorded, InFlight
<1>16. ASSUME NEW d \in Teardown, MarkDeleted(d)
      PROVE  SerialOK'
    <2>1. Recorded' = Recorded
        BY <1>16, MarkDeletedRow, NoRowAssumption DEF Recorded
    <2>2. QED
        BY <1>16, <2>1 DEF MarkDeleted, InFlight
<1>17. CASE Crash
    BY <1>17 DEF Crash, Recorded, InFlight
<1>18. CASE UNCHANGED vars
    BY <1>18 DEF Recorded, InFlight
<1>19. QED
    BY <1>1, <1>2, <1>3, <1>4, <1>5, <1>6, <1>7, <1>8, <1>9, <1>10, <1>11, <1>12, <1>13, <1>14, <1>15, <1>16, <1>17, <1>18 DEF Next, CreateStep, TeardownStep, Terminated

Inv ==
    /\ TypeOK /\ StageOK /\ LinkOK /\ TeardownOK /\ TopExists
    /\ PortsUnique /\ RecordedIsLive /\ SerialOK

LEMMA InitInv == Init => Inv
<1> SUFFICES ASSUME Init PROVE Inv
    OBVIOUS
<1>1. Recorded = {}
    BY DEF Init, Recorded
<1>2. TypeOK
    <2>1. [open |-> FALSE, ready |-> FALSE, agent |-> NoAgent] \in SessionRow
        BY DEF SessionRow
    <2>2. QED
        BY <2>1 DEF Init, TypeOK, NoPort
<1>3. StageOK
    BY <1>1 DEF Init, StageOK, LiveStages, InFlight, Working
<1>4. LinkOK /\ TeardownOK
    BY DEF Init, LinkOK, TeardownOK, TeardownWorking
<1>5. TopExists /\ PortsUnique /\ RecordedIsLive
    BY <1>1 DEF TopExists, UsedPorts, PortsUnique, RecordedIsLive
<1>6. SerialOK
    BY <1>1 DEF Init, SerialOK, Busy, InFlight, Working
<1>7. QED
    BY <1>2, <1>3, <1>4, <1>5, <1>6 DEF Inv

LEMMA NextInv == Inv /\ [Next]_vars => Inv'
    BY TypeStep, StageStep, LinkStep, TeardownStepOK, TopExistsStep, PortsUniqueStep,
       RecordedIsLiveStep, SerialStep DEF Inv

THEOREM Invariance == Spec => []Inv
<1>1. QED
    BY InitInv, NextInv, PTL DEF Spec


\* The type invariant, for every value of the constants.
THEOREM TypeCorrect == Spec => []TypeOK
<1>1. Inv => TypeOK
    BY DEF Inv
<1>2. QED
    BY <1>1, Invariance, PTL

\* A call that answered created:true left a registered agent, at the port and
\* with the secret its tools and webhook were given.
THEOREM CreatedIsOwnedThm == Spec => []CreatedIsOwned
<1>1. Inv => CreatedIsOwned
    BY DEF Inv, StageOK, CreatedIsOwned
<1>2. QED
    BY <1>1, Invariance, PTL

\* No rollback ever deletes the project of a recorded agent.
THEOREM RecordedIsLiveThm == Spec => []RecordedIsLive
<1>1. Inv => RecordedIsLive
    BY DEF Inv
<1>2. QED
    BY <1>1, Invariance, PTL

\* Recorded agents were told distinct ports, however their calls overlapped.
THEOREM PortsExclusiveThm == Spec => []PortsExclusive
<1>1. Inv => PortsExclusive
    BY DEF Inv, StageOK, PortsUnique, PortsExclusive, Recorded
<1>2. QED
    BY <1>1, Invariance, PTL

\* A project abandoned for want of a key holds no agent and no session's link.
THEOREM OrphanIsInertThm == Spec => []OrphanIsInert
<1>1. Inv => OrphanIsInert
    BY ConstantsAssumption DEF Inv, StageOK, LinkOK, OrphanIsInert
<1>2. QED
    BY <1>1, Invariance, PTL

\* Creates of a session that never overlap record at most one agent, through
\* every fault, retry and crash.
THEOREM OneAgentPerSessionThm == Spec => []OneAgentPerSession
<1>1. Inv => OneAgentPerSession
    BY DEF Inv, SerialOK, Busy, OneAgentPerSession, Recorded
<1>2. QED
    BY <1>1, Invariance, PTL

-------------------------------------------------------------------------------
(* Refinement of ProjectCustody.                                           *)

LEMMA SameCustody ==
    ASSUME NEW o \in Create, project'[o] = project[o],
           o \in Recorded' <=> o \in Recorded,
           o \in Recorded => row'[o].deleted = row[o].deleted,
           \/ InFlight(o)' <=> InFlight(o)
           \/ o \in Recorded
           \/ project[o] = "none"
    PROVE  CustodyOf(o)' = CustodyOf(o)
    BY DEF CustodyOf

LEMMA QuietCustody ==
    ASSUME NEW o \in Create, project'[o] = project[o], row'[o] = row[o],
           (InFlight(o)' <=> InFlight(o)) \/ project[o] = "none"
    PROVE  CustodyOf(o)' = CustodyOf(o)
    BY DEF CustodyOf, Recorded

LEMMA OneMoves ==
    ASSUME NEW c \in Create, NEW from, NEW to,
           CustodyOf(c) = from, CustodyOf(c)' = to,
           \A o \in Create : o # c => CustodyOf(o)' = CustodyOf(o)
    PROVE  Ledger!Move(c, from, to)
    BY DEF Ledger!Move

LEMMA NoneMoves ==
    ASSUME \A o \in Create : CustodyOf(o)' = CustodyOf(o)
    PROVE  UNCHANGED [c \in Create |-> CustodyOf(c)]
    OBVIOUS


\* One step of a call moves at most its own project, along an edge the custody
\* allows; a crash orphans the projects of every running call.
LEMMA CustodyStep ==
    ASSUME Inv, [Next]_vars
    PROVE  Ledger!Next \/ UNCHANGED [c \in Create |-> CustodyOf(c)]
<1> USE DEF Inv
<1>1. CASE UNCHANGED <<project, row, pc>>
    BY <1>1 DEF CustodyOf, Recorded, InFlight
<1>2. ASSUME NEW c \in Create, NEW s \in Session, Begin(c, s)
      PROVE  UNCHANGED [b \in Create |-> CustodyOf(b)]
    <2>1. project[c] = "none"
        BY <1>2 DEF Begin, StageOK
    <2>2. \A o \in Create :
              /\ project'[o] = project[o] /\ row'[o] = row[o]
              /\ (InFlight(o)' <=> InFlight(o)) \/ project[o] = "none"
        BY <1>2, <2>1 DEF Begin, Goto, InFlight, TypeOK, turncallVars
    <2>3. QED
        BY <2>2, QuietCustody
<1>3. ASSUME NEW c \in Create, ReadPort(c)
      PROVE  UNCHANGED [b \in Create |-> CustodyOf(b)]
    <2>1. project[c] = "none"
        BY <1>3 DEF ReadPort, StageOK
    <2>2. \A o \in Create :
              /\ project'[o] = project[o] /\ row'[o] = row[o]
              /\ (InFlight(o)' <=> InFlight(o)) \/ project[o] = "none"
        BY <1>3, <2>1 DEF ReadPort, Goto, InFlight, TypeOK, turncallVars
    <2>3. QED
        BY <2>2, QuietCustody
<1>4. ASSUME NEW c \in Create, CreateProject(c)
      PROVE  Ledger!Next \/ UNCHANGED [b \in Create |-> CustodyOf(b)]
    <2>1. project[c] = "none" /\ c \notin Recorded /\ c \notin Recorded'
        BY <1>4 DEF CreateProject, StageOK, Recorded
    <2>2. \A o \in Create : o # c => CustodyOf(o)' = CustodyOf(o)
        BY <1>4, SameCustody DEF CreateProject, Goto, Recorded, InFlight, TypeOK
    <2>3. CustodyOf(c) = "unborn"
        BY <2>1 DEF CustodyOf
    <2>4. CustodyOf(c)' \in {"unborn", "saga", "orphan"}
        BY <1>4, <2>1 DEF CreateProject, Goto, CustodyOf, InFlight, Working, TypeOK
    <2>5. CASE CustodyOf(c)' = "unborn"
        BY <2>2, <2>3, <2>5, NoneMoves
    <2>6. CASE CustodyOf(c)' = "saga"
        BY <2>2, <2>3, <2>6, OneMoves DEF Ledger!Next, Ledger!Provision
    <2>7. CASE CustodyOf(c)' = "orphan"
        BY <2>2, <2>3, <2>7, OneMoves DEF Ledger!Next, Ledger!BornOrphan
    <2>8. QED
        BY <2>4, <2>5, <2>6, <2>7
<1>5. ASSUME NEW c \in Create,
             CreateKey(c) \/ RegisterWebhook(c) \/ CreateAgent(c) \/ LinkSession(c)
      PROVE  UNCHANGED [b \in Create |-> CustodyOf(b)]
    <2>1. InFlight(c) /\ InFlight(c)'
        BY <1>5 DEF CreateKey, RegisterWebhook, CreateAgent, LinkSession, Goto, KeyFailure,
                    InFlight, Working, TypeOK
    <2>2. \A o \in Create : InFlight(o)' <=> InFlight(o)
        BY <1>5, <2>1 DEF CreateKey, RegisterWebhook, CreateAgent, LinkSession, Goto,
                          InFlight, TypeOK
    <2>3. UNCHANGED <<project, row>>
        BY <1>5 DEF CreateKey, RegisterWebhook, CreateAgent, LinkSession, turncallVars
    <2>4. QED
        BY <2>2, <2>3, QuietCustody
<1>6. ASSUME NEW c \in Create, RecordBackend(c)
      PROVE  Ledger!Next
    <2>1. project[c] = "live" /\ c \notin Recorded /\ InFlight(c)
        BY <1>6 DEF RecordBackend, StageOK, LiveStages, InFlight, Working
    <2>2. CustodyOf(c) = "saga"
        BY <2>1 DEF CustodyOf
    <2>a. \A o \in Create : o # c =>
              /\ project'[o] = project[o] /\ row'[o] = row[o]
              /\ InFlight(o)' <=> InFlight(o)
        BY <1>6 DEF RecordBackend, Goto, InFlight, TypeOK, turncallVars
    <2>3. \A o \in Create : o # c => CustodyOf(o)' = CustodyOf(o)
        BY <2>a, QuietCustody
    <2> DEFINE new == [port |-> port[c], secret |-> FALSE, deleted |-> FALSE]
    <2>4. new # NoRow /\ ~new.deleted
        BY RowNew
    <2>5. \/ row' = [row EXCEPT ![c] = new]
          \/ row' = row /\ pc' = [pc EXCEPT ![c] = "error"]
        BY <1>6 DEF RecordBackend, RecordFailure, Goto
    <2> HIDE DEF new
    <2>6. CustodyOf(c)' \in {"registry", "orphan"}
        <3>1. project'[c] = "live"
            BY <1>6, <2>1 DEF RecordBackend, turncallVars
        <3>2. CASE row' = [row EXCEPT ![c] = new]
            <4>1. c \in Recorded' /\ ~row'[c].deleted
                BY <2>4, <3>2 DEF Recorded, TypeOK
            <4>2. QED
                BY <3>1, <4>1 DEF CustodyOf
        <3>3. CASE row' = row /\ pc' = [pc EXCEPT ![c] = "error"]
            <4>1. c \notin Recorded' /\ ~InFlight(c)'
                BY <2>1, <3>3 DEF Recorded, InFlight, Working, TypeOK
            <4>2. QED
                BY <3>1, <4>1 DEF CustodyOf
        <3>4. QED
            BY <2>5, <3>2, <3>3
    <2>7. CASE CustodyOf(c)' = "registry"
        BY <2>2, <2>3, <2>7, OneMoves DEF Ledger!Next, Ledger!Record
    <2>8. CASE CustodyOf(c)' = "orphan"
        <3>1. Ledger!Abandon({c})
            BY <2>2, <2>3, <2>8 DEF Ledger!Abandon
        <3>2. QED
            BY <3>1 DEF Ledger!Next
    <2>9. QED
        BY <2>6, <2>7, <2>8
<1>7. ASSUME NEW c \in Create, StoreSecret(c)
      PROVE  UNCHANGED [b \in Create |-> CustodyOf(b)]
    <2>1. c \in Recorded /\ Recorded' = Recorded /\ row'[c].deleted = row[c].deleted
        BY <1>7, StoreSecretRow, NoRowAssumption DEF Recorded
    <2>2. \A o \in Create : o # c => row'[o] = row[o] /\ (InFlight(o)' <=> InFlight(o))
        BY <1>7, StoreSecretRow DEF StoreSecret, Goto, InFlight, TypeOK
    <2>3. project' = project
        BY <1>7 DEF StoreSecret, turncallVars
    <2>4. CustodyOf(c)' = CustodyOf(c)
        BY <2>1, <2>3, SameCustody
    <2>5. \A o \in Create : o # c => CustodyOf(o)' = CustodyOf(o)
        BY <2>2, <2>3, QuietCustody
    <2>6. QED
        BY <2>4, <2>5
<1>8. ASSUME NEW c \in Create, Rollback(c)
      PROVE  Ledger!Next
    <2>1. /\ project[c] = "live" /\ InFlight(c)
          /\ c \notin Recorded /\ c \notin Recorded' /\ ~InFlight(c)'
        BY <1>8 DEF Rollback, StageOK, LiveStages, InFlight, Working, Recorded, Goto, TypeOK
    <2>2. CustodyOf(c) = "saga"
        BY <2>1 DEF CustodyOf
    <2>3. \A o \in Create : o # c => CustodyOf(o)' = CustodyOf(o)
        BY <1>8, SameCustody DEF Rollback, Goto, Recorded, InFlight, TypeOK
    <2>4. CustodyOf(c)' \in {"reclaimed", "orphan"}
        BY <1>8, <2>1 DEF Rollback, CustodyOf, TypeOK
    <2>5. CASE CustodyOf(c)' = "reclaimed"
        BY <2>2, <2>3, <2>5, OneMoves DEF Ledger!Next, Ledger!Compensate
    <2>6. CASE CustodyOf(c)' = "orphan"
        <3>1. Ledger!Abandon({c})
            BY <2>2, <2>3, <2>6 DEF Ledger!Abandon
        <3>2. QED
            BY <3>1 DEF Ledger!Next
    <2>7. QED
        BY <2>4, <2>5, <2>6
<1>9. ASSUME NEW d \in Teardown, DeleteProject(d)
      PROVE  Ledger!Next \/ UNCHANGED [b \in Create |-> CustodyOf(b)]
    <2>1. target[d] \in Recorded
        BY <1>9 DEF DeleteProject, TeardownOK, TeardownWorking
    <2>2. PICK a \in Recorded : a = target[d]
        BY <2>1
    <2>3. a \in Create /\ project[a] # "none"
        BY <2>2 DEF Recorded, StageOK
    <2>4. /\ \A o \in Create : o # a => project'[o] = project[o]
          /\ project'[a] \in {"deleted", project[a]} /\ UNCHANGED <<row, pc>>
        BY <1>9, <2>2, <2>3 DEF DeleteProject, TypeOK, callVars
    <2>5. \A o \in Create : o # a => CustodyOf(o)' = CustodyOf(o)
        BY <2>4, QuietCustody DEF InFlight
    <2>6. CASE project'[a] = project[a]
        <3>1. CustodyOf(a)' = CustodyOf(a)
            BY <2>3, <2>4, <2>6, QuietCustody DEF InFlight
        <3>2. QED
            BY <3>1, <2>5, NoneMoves
    <2>7. CASE project'[a] = "deleted" /\ project[a] # "deleted"
        <3>1. CustodyOf(a) \in {"registry", "shelved"}
            BY <2>2, <2>3, <2>7 DEF CustodyOf
        <3>2. CustodyOf(a)' = "reclaimed"
            BY <2>7 DEF CustodyOf
        <3>3. QED
            BY <2>3, <2>5, <3>1, <3>2, OneMoves DEF Ledger!Next, Ledger!Reclaim
    <2>8. QED
        BY <2>4, <2>6, <2>7
<1>10. ASSUME NEW d \in Teardown, MarkDeleted(d)
      PROVE  Ledger!Next \/ UNCHANGED [b \in Create |-> CustodyOf(b)]
    <2>1. PICK a \in Create : a = target[d]
        BY <1>10, MarkDeletedRow
    <2>2. /\ a \in Recorded /\ a \in Recorded'
          /\ \A o \in Create : o # a => row'[o] = row[o]
          /\ row'[a].deleted \/ row' = row
        BY <1>10, <2>1, MarkDeletedRow, NoRowAssumption DEF Recorded
    <2>3. UNCHANGED <<project, pc>>
        BY <1>10 DEF MarkDeleted, callVars, turncallVars
    <2>4. \A o \in Create : o # a => CustodyOf(o)' = CustodyOf(o)
        BY <2>2, <2>3, QuietCustody DEF InFlight
    <2>5. CASE CustodyOf(a)' = CustodyOf(a)
        BY <2>4, <2>5, NoneMoves
    <2>6. CASE CustodyOf(a)' # CustodyOf(a)
        <3>1. row' # row
            BY <2>3, <2>6 DEF CustodyOf, Recorded, InFlight
        <3>2. CustodyOf(a) = "registry" /\ CustodyOf(a)' = "shelved"
            BY <2>2, <2>3, <2>6, <3>1 DEF CustodyOf
        <3>3. QED
            BY <2>1, <2>4, <3>2, OneMoves DEF Ledger!Next, Ledger!Shelve
    <2>7. QED
        BY <2>5, <2>6
<1>11. CASE Crash
    <2> DEFINE P == {c \in Create : CustodyOf(c) = "saga"}
    <2>1. \A c \in Create : ~InFlight(c)' /\ project'[c] = project[c] /\ row'[c] = row[c]
        BY <1>11 DEF Crash, InFlight, Working, turncallVars
    <2>2. Recorded' = Recorded
        BY <1>11 DEF Crash, Recorded
    <2>3. \A c \in P : CustodyOf(c)' = "orphan"
        BY <2>1, <2>2 DEF CustodyOf
    <2>4. \A c \in Create \ P : CustodyOf(c)' = CustodyOf(c)
        BY <2>1, <2>2 DEF CustodyOf
    <2>5. CASE P = {}
        BY <2>4, <2>5, NoneMoves
    <2>6. CASE P # {}
        <3>1. Ledger!Abandon(P)
            BY <2>3, <2>4, <2>6 DEF Ledger!Abandon
        <3>2. QED
            BY <3>1 DEF Ledger!Next
    <2>7. QED
        BY <2>5, <2>6
<1>12. QED
    BY <1>1, <1>2, <1>3, <1>4, <1>5, <1>6, <1>7, <1>8, <1>9, <1>10, <1>11
    DEF Next, CreateStep, TeardownStep, Terminated, vars, callVars, turncallVars,
        OpenSession, FinalizeConfig, OpenEditSession, BeginTeardown

\* The saga and the teardown implement the custody of TurnCall projects.
THEOREM Refinement == Spec => RefinesCustody
<1>1. Init => Ledger!Init
    BY DEF Init, Ledger!Init, CustodyOf
<1>2. Inv /\ [Next]_vars => [Ledger!Next]_([c \in Create |-> CustodyOf(c)])
    BY CustodyStep
<1>3. QED
    BY <1>1, <1>2, Invariance, PTL DEF Spec, RefinesCustody, Ledger!Spec

-------------------------------------------------------------------------------
(* No call goes back.                                                      *)

\* How many steps a create still has before it, at most; an answer is final.
AwaitsLeft(label) ==
    CASE label = "idle" -> 10 [] label = "port" -> 9 [] label = "project" -> 8
      [] label = "key" -> 7 [] label = "webhook" -> 6 [] label = "agent" -> 5
      [] label = "link" -> 4 [] label = "record" -> 3 [] label = "secret" -> 2
      [] label = "rollback" -> 1 [] OTHER -> 0

TeardownLeft(label) ==
    CASE label = "idle" -> 3 [] label = "delete_project" -> 2 [] label = "mark_deleted" -> 1
      [] OTHER -> 0

\* No call goes back, and a step of its own takes a call on.
Onward(c) ==
    /\ pc'[c] # pc[c] => AwaitsLeft(pc'[c]) < AwaitsLeft(pc[c])
    /\ CreateStep(c) => pc'[c] # pc[c]

OnwardTeardown(d) ==
    /\ dpc'[d] # dpc[d] => TeardownLeft(dpc'[d]) < TeardownLeft(dpc[d])
    /\ TeardownStep(d) => dpc'[d] # dpc[d]

LEMMA CreateMoves ==
    ASSUME TypeOK, NEW c \in Create, CreateStep(c)
    PROVE  /\ \A o \in Create : o # c => pc'[o] = pc[o]
           /\ AwaitsLeft(pc'[c]) < AwaitsLeft(pc[c]) /\ pc'[c] # pc[c]
           /\ dpc' = dpc
<1> USE DEF TypeOK, Goto, AwaitsLeft
<1> DEFINE Moved == /\ \A o \in Create : o # c => pc'[o] = pc[o]
                    /\ AwaitsLeft(pc'[c]) < AwaitsLeft(pc[c]) /\ pc'[c] # pc[c]
                    /\ dpc' = dpc
<1>1. CASE ReadPort(c)
    BY <1>1 DEF ReadPort, teardownVars
<1>2. CASE CreateProject(c)
    BY <1>2 DEF CreateProject, teardownVars
<1>3. CASE CreateKey(c)
    BY <1>3 DEF CreateKey, KeyFailure, teardownVars
<1>4. CASE RegisterWebhook(c)
    BY <1>4 DEF RegisterWebhook, teardownVars
<1>5. CASE CreateAgent(c)
    BY <1>5 DEF CreateAgent, teardownVars
<1>6. CASE LinkSession(c)
    BY <1>6 DEF LinkSession, teardownVars
<1>7. CASE RecordBackend(c)
    BY <1>7 DEF RecordBackend, RecordFailure, teardownVars
<1>8. CASE StoreSecret(c)
    BY <1>8 DEF StoreSecret, teardownVars
<1>9. CASE Rollback(c)
    BY <1>9 DEF Rollback, teardownVars
<1>10. QED
    BY <1>1, <1>2, <1>3, <1>4, <1>5, <1>6, <1>7, <1>8, <1>9 DEF CreateStep

LEMMA TeardownMoves ==
    ASSUME TypeOK, NEW d \in Teardown, TeardownStep(d)
    PROVE  /\ \A e \in Teardown : e # d => dpc'[e] = dpc[e]
           /\ TeardownLeft(dpc'[d]) < TeardownLeft(dpc[d]) /\ dpc'[d] # dpc[d]
           /\ pc' = pc
    BY DEF TeardownStep, DeleteProject, MarkDeleted, TypeOK, TeardownLeft, callVars

LEMMA OnwardStep ==
    ASSUME TypeOK, [Next]_vars
    PROVE  /\ \A c \in Create : Onward(c)
           /\ \A d \in Teardown : OnwardTeardown(d)
<1> DEFINE Forward ==
        /\ \A c \in Create : pc'[c] # pc[c] => AwaitsLeft(pc'[c]) < AwaitsLeft(pc[c])
        /\ \A d \in Teardown : dpc'[d] # dpc[d] => TeardownLeft(dpc'[d]) < TeardownLeft(dpc[d])
<1>1. ASSUME NEW c \in Create, NEW s \in Session, Begin(c, s)
      PROVE  Forward
    BY <1>1 DEF Begin, Goto, TypeOK, AwaitsLeft, teardownVars
<1>2. ASSUME NEW c \in Create, CreateStep(c)
      PROVE  Forward
    BY <1>2, CreateMoves
<1>3. ASSUME NEW d \in Teardown, NEW a \in Create, BeginTeardown(d, a)
      PROVE  Forward
    BY <1>3 DEF BeginTeardown, TypeOK, TeardownLeft, callVars
<1>4. ASSUME NEW d \in Teardown, TeardownStep(d)
      PROVE  Forward
    BY <1>4, TeardownMoves
<1>5. ASSUME Crash
      PROVE  Forward
    BY <1>5 DEF Crash, InFlight, Working, TeardownWorking, AwaitsLeft, TeardownLeft
<1>6. ASSUME NEW s \in Session, NEW a \in Create, OpenEditSession(s, a)
      PROVE  Forward
    BY <1>6 DEF OpenEditSession, callVars, teardownVars
<1>7. ASSUME UNCHANGED vars
      PROVE  Forward
    BY <1>7 DEF vars, callVars, teardownVars
<1>8. ASSUME NEW s \in Session, OpenSession(s) \/ FinalizeConfig(s)
      PROVE  Forward
    BY <1>8 DEF OpenSession, FinalizeConfig, callVars, teardownVars
<1> HIDE DEF Forward
<1>9. Forward
    BY <1>1, <1>2, <1>3, <1>4, <1>5, <1>6, <1>7, <1>8 DEF Next, Terminated
<1>10. ASSUME NEW c \in Create
       PROVE  Onward(c)
    BY <1>9, CreateMoves DEF Forward, Onward
<1>11. ASSUME NEW d \in Teardown
       PROVE  OnwardTeardown(d)
    BY <1>9, TeardownMoves DEF Forward, OnwardTeardown
<1>12. QED
    BY <1>10, <1>11

\* create_agent and delete_agent retry nothing: each await of a call takes it on,
\* so a create has at most ten steps and a teardown three, their start included,
\* and an answer is not revised.
THEOREM CallsGoOnward ==
    Spec => [][/\ \A c \in Create : Onward(c)
               /\ \A d \in Teardown : OnwardTeardown(d)]_vars
<1>1. Inv => TypeOK
    BY DEF Inv
<1>2. QED
    BY <1>1, Invariance, OnwardStep, PTL DEF Spec
===============================================================================
