-------------------------- MODULE PhoneBindingProofs --------------------------
(***************************************************************************)
(* Theorems about PhoneBinding, for every set of requests, numbers and      *)
(* agents, with and without interruptions.                                  *)
(***************************************************************************)
EXTENDS PhoneBinding, TLAPS

\* The request has made its binding and its row, if it makes any.
Past(i) == request[i].at \in {"drop", "done"}

\* A routing and its project go together, and the stored webhook project was
\* there before anything was routed to a webhook.
Fits(type, project) ==
    /\ type \in AgentRouting => project \in Agent
    /\ type = "webhook" => project \in hooks /\ hook # None
    /\ type = "none" => project = None

\* TurnCall holds no binding of the id, or one that the stored key cannot see.
Detached(i) == bound[i] = None \/ bound[i].project \in hooks \ {hook}

HookOK == hook # None => hook \in hooks

BoundOK ==
    \A i \in Request : bound[i] # None =>
        /\ Past(i) \/ request[i].at \in {"sync", "record"}
        /\ bound[i].type # "none" /\ Fits(bound[i].type, bound[i].project)

\* The project of an id never changes.
RowOK ==
    \A i \in Request : mirror[i] # None =>
        /\ Past(i) /\ Fits(mirror[i].type, mirror[i].project)
        /\ bound[i] # None => mirror[i].project = bound[i].project

\* What a request knows of the row it edits or deletes stays true of the row.
Knows(r, i, old) ==
    /\ i \in Request /\ i # r /\ Past(i) /\ old \in Row /\ Fits(old.type, old.project)
    /\ bound[i] # None => old.project = bound[i].project
    /\ mirror[i] # None => mirror[i].num = old.num /\ mirror[i].project = old.project

Target(r) ==
    Active(r) =>
        \/ /\ request[r].kind = "add" /\ request[r].body \in Body
           /\ request[r].at \notin {"put", "unbind", "drop", "project"}
           /\ request[r].id = None /\ request[r].old = None
        \/ /\ request[r].kind = "update" /\ request[r].body \in Body
           /\ request[r].at # "project"
           /\ Knows(r, request[r].id, request[r].old)
        \/ /\ request[r].kind = "delete" /\ request[r].at \in {"unbind", "drop"}
           /\ Knows(r, request[r].id, request[r].old)
        \/ /\ request[r].kind = "remove" /\ request[r].at = "project"
           /\ request[r].project \in Agent /\ request[r].id = None

\* Two requests about one id have seen the same number and project.
PairOK ==
    \A r, s \in Request :
        /\ Active(r) /\ Active(s)
        /\ request[r].id # None /\ request[r].id = request[s].id
        => /\ request[r].old.num = request[s].old.num
           /\ request[r].old.project = request[s].old.project

\* What the stages of a request have established.  A number that moves does so to
\* another project: the id of its row is then the new one.
Stage(r) ==
    LET me == request[r] IN
    /\ me.at \in {"resolve", "mkhook", "savehook"} => me.body.type = "webhook"
    /\ me.at \in {"mkhook", "savehook"} /\ me.id # None => me.old.type # "webhook"
    /\ me.at = "savehook" => r \in hooks
    /\ me.at \in {"put", "bind", "sync"} => me.body.type # "none"
    /\ me.at \in {"put", "bind", "sync", "record"} /\ me.body.type # "none" =>
           Fits(me.body.type, me.project)
    /\ /\ me.at \in {"put", "unbind", "bind", "sync", "record"}
       /\ me.kind \in {"add", "update"} /\ me.body.type \in AgentRouting
       => me.project = me.body.agent
    /\ me.at = "unbind" /\ me.kind = "update" /\ me.body.type \in AgentRouting =>
           me.project # me.old.project
    /\ me.at = "unbind" /\ me.kind = "update" /\ me.body.type = "webhook" =>
           hook # None /\ hook # me.old.project
    /\ me.at = "bind" /\ me.id # None => me.project # me.old.project
    /\ me.at = "put" => me.kind = "update" /\ me.project = me.old.project
    /\ me.at = "sync" => me.body.type = "agent_call_init"
    /\ me.at \in {"sync", "record"} /\ bound[r] # None =>
           me.body.type # "none" /\ bound[r].project = me.project

\* A move or a delete drops its row only after the binding is gone.
DetachedFirst(r) ==
    request[r].id # None =>
        /\ request[r].at \in {"bind", "drop"} => Detached(request[r].id)
        /\ request[r].at \in {"sync", "record"} /\ Id(r) # request[r].id =>
               Detached(request[r].id)

\* A move that keeps the number is about to drop the row it replaces.
Replacing(s) ==
    /\ request[s].at = "drop" /\ request[s].kind = "update"
    /\ request[s].body.num = request[s].old.num
Replaces(s, i) == Replacing(s) /\ request[s].id = i

\* Meanwhile the number has another row that no such move is about to drop,
\* unless it was asked to go.
ReplacedOK ==
    \A r \in Request : Replacing(r) =>
        \/ request[r].old.num \in asked
        \/ \E j \in Request : /\ mirror[j] # None /\ mirror[j].num = request[r].old.num
                              /\ \A s \in Request : ~Replaces(s, j)

\* Until requests overlap there is one, and the project it routes to exists.
SerialOK ==
    "raced" \notin odd =>
        /\ \A r, s \in Request : Active(r) /\ Active(s) => r = s
        /\ \A r \in Request :
              /\ request[r].at \in {"sync", "record"} /\ request[r].body.type # "none" =>
                     request[r].project \notin gone
              /\ request[r].at = "project" =>
                     \A i \in Request : ~RoutesTo(i, request[r].project)

Inv == /\ TypeOK /\ HookOK /\ BoundOK /\ RowOK /\ PairOK /\ ReplacedOK /\ SerialOK
       /\ KeyOutlivesRow
       /\ \A r \in Request : Target(r) /\ Stage(r) /\ DetachedFirst(r)

\* No request has raced, been cut short or lost a routing.
Plain == odd \cap {"raced", "cut", "unrouted"} = {}

\* ... and then the mirror agrees, up to what the one request is doing.
InStep(r) ==
    /\ request[r].at \in {"bind", "drop"} /\ request[r].id # None => bound[request[r].id] = None
    /\ request[r].at \in {"sync", "record"} =>
           /\ bound[Id(r)] = IF request[r].body.type = "none" THEN None ELSE NewRow(r)
           /\ request[r].id \notin {None, Id(r)} => bound[request[r].id] = None

Touched(i) ==
    \E r \in Request :
        \/ request[r].at \in {"bind", "drop"} /\ request[r].id = i
        \/ request[r].at \in {"sync", "record"} /\ i \in {Id(r), request[r].id}

PlainOK ==
    Plain =>
        /\ \A i \in Request : Agrees(i) \/ Touched(i)
        /\ \A r \in Request : InStep(r)
        /\ hooks \subseteq {hook} \/ \E r \in Request : request[r].at = "savehook" /\ hooks = {r}
        /\ \A r \in Request : request[r].at \in {"mkhook", "savehook"} => hook = None

\* The secret of the last Sync, while numbers with caller info have an agent each.
SecretOK ==
    odd = {} =>
        /\ \A i \in Request :
              /\ mirror[i] # None /\ mirror[i].type = "agent_call_init" /\ bound[i] # None
              /\ \A r \in Request : ~(request[r].at \in {"sync", "record"} /\ Id(r) = i)
              => env[mirror[i].project] = i
        /\ \A r \in Request :
              request[r].at = "record" /\ request[r].body.type = "agent_call_init" =>
                  env[request[r].project] = Id(r)

-------------------------------------------------------------------------------
(* What the operators return, and what the steps do to the requests.        *)

Only(r) == \A q \in Request : q # r => request'[q] = request[q]

LEMMA BodyIs ==
    ASSUME NEW b \in Body
    PROVE  /\ b.num \in Number /\ b.type \in Routing
           /\ b.type \in AgentRouting => b.agent \in Agent
    BY DEF Body, Routing, AgentRouting

LEMMA LocalIs ==
    ASSUME NEW local \in Local
    PROVE  /\ local.kind \in {"add", "update", "delete", "remove"}
           /\ local.at \in Label \cup {"idle", "done"}
           /\ local.body \in Body \cup {None} /\ local.id \in Request \cup {None}
           /\ local.old \in Row \cup {None} /\ local.project \in Project \cup {None}
    BY DEF Local

LEMMA IdleIs ==
    /\ Idle \in Local /\ Idle.kind = "add" /\ Idle.at = "idle" /\ Idle.body = None
    /\ Idle.id = None /\ Idle.old = None /\ Idle.project = None
    BY DEF Idle, Local

LEMMA EndedIs ==
    Ended \in Local /\ Ended.at = "done" /\ Ended.kind = "add" /\ Ended.id = None
    BY IdleIs DEF Ended, Local

LEMMA GoMoves ==
    ASSUME TypeOK, NEW r \in Request, NEW local \in Local, Go(r, local)
    PROVE  request'[r] = local /\ Only(r) /\ request' \in [Request -> Local]
    BY DEF TypeOK, Go, Only

\* Everything a request carries but its label and project.
Same(local, old) ==
    local.kind = old.kind /\ local.body = old.body /\ local.id = old.id /\ local.old = old.old

LEMMA MoveToMoves ==
    ASSUME TypeOK, NEW r \in Request, NEW label \in Label, MoveTo(r, label)
    PROVE  /\ request'[r].at = label /\ Same(request'[r], request[r])
           /\ request'[r].project = request[r].project
           /\ Only(r) /\ request' \in [Request -> Local]
<1> DEFINE new == [request[r] EXCEPT !.at = label]
<1>1. request[r] \in Local
    BY DEF TypeOK
<1>2. /\ new \in Local /\ new.at = label /\ new.project = request[r].project
      /\ Same(new, request[r])
    BY <1>1 DEF Local, Same
<1>3. Go(r, new)
    BY DEF MoveTo
<1> HIDE DEF new
<1>4. QED
    BY <1>2, <1>3, GoMoves

LEMMA RoutedIs ==
    ASSUME NEW local \in Local, NEW p \in Project
    PROVE  /\ Routed(local, p) \in Local /\ Same(Routed(local, p), local)
           /\ Routed(local, p).project = p
           /\ ~RoutedRow(local.old) => Routed(local, p).at = "bind"
           /\ RoutedRow(local.old) =>
                  /\ p = local.old.project => Routed(local, p).at = "put"
                  /\ p # local.old.project => Routed(local, p).at = "unbind"
<1> DEFINE label == IF ~RoutedRow(local.old) THEN "bind"
                    ELSE IF p = local.old.project THEN "put" ELSE "unbind"
           new == [local EXCEPT !.project = p, !.at = label]
<1>1. label \in Label
    BY DEF Label
<1>2. Routed(local, p) = new
    BY DEF Routed
<1>3. ASSUME NEW l \in Label
      PROVE  /\ [local EXCEPT !.project = p, !.at = l] \in Local
             /\ Same([local EXCEPT !.project = p, !.at = l], local)
             /\ [local EXCEPT !.project = p, !.at = l].project = p
             /\ [local EXCEPT !.project = p, !.at = l].at = l
    BY <1>3 DEF Local, Same
<1>4. new \in Local /\ Same(new, local) /\ new.project = p /\ new.at = label
    BY <1>1, <1>3
<1>5. QED
    BY <1>2, <1>4

LEMMA ResolvingIs ==
    ASSUME NEW local \in Local, local.body \in Body
    PROVE  /\ Resolving(local) \in Local /\ Same(Resolving(local), local)
           /\ local.body.type \in AgentRouting =>
                  Resolving(local) = Routed(local, local.body.agent)
           /\ local.body.type = "webhook" => Resolving(local).at = "resolve"
           /\ local.body.type = "none" =>
                  /\ RoutedRow(local.old) => Resolving(local).at = "unbind"
                  /\ ~RoutedRow(local.old) => Resolving(local).at = "record"
<1>1. local.body.type \in Routing
    BY BodyIs
<1>2. CASE local.body.type \in AgentRouting
    <2>1. local.body.agent \in Project
        BY <1>2, BodyIs DEF Project
    <2>2. Resolving(local) = Routed(local, local.body.agent)
        BY <1>2 DEF Resolving, AgentRouting
    <2>3. QED
        BY <1>2, <2>1, <2>2, RoutedIs DEF AgentRouting
<1>3. CASE local.body.type = "webhook"
    <2>1. Resolving(local) = [local EXCEPT !.at = "resolve"]
        BY <1>3 DEF Resolving, AgentRouting
    <2>2. QED
        BY <1>3, <2>1 DEF Local, Same, Label, AgentRouting
<1>4. CASE local.body.type = "none"
    <2> DEFINE label == IF RoutedRow(local.old) THEN "unbind" ELSE "record"
    <2>1. Resolving(local) = [local EXCEPT !.at = label]
        BY <1>4 DEF Resolving, AgentRouting
    <2>2. label \in Label
        BY DEF Label
    <2>3. QED
        BY <1>4, <2>1, <2>2 DEF Local, Same, AgentRouting
<1>5. QED
    BY <1>1, <1>2, <1>3, <1>4 DEF Routing

LEMMA NewRowIs ==
    ASSUME TypeOK, NEW r \in Request, request[r].body \in Body,
           request[r].id # None => request[r].old \in Row
    PROVE  /\ NewRow(r) \in Row /\ NewRow(r).num = NewNum(r)
           /\ NewRow(r).type = request[r].body.type
           /\ request[r].body.type = "none" => NewRow(r).project = None
           /\ request[r].body.type # "none" => NewRow(r).project = request[r].project
<1>1. request[r].project \in Project \cup {None}
    BY LocalIs DEF TypeOK
<1>2. request[r].body.num \in Number /\ request[r].body.type \in Routing
    BY BodyIs
<1>3. request[r].id # None => request[r].old.num \in Number
    BY DEF Row
<1>4. Id(r) # None
    BY PhoneAssumption DEF Id, Project
<1>5. NewNum(r) \in Number
    BY <1>2, <1>3, <1>4 DEF NewNum
<1>6. QED
    BY <1>1, <1>2, <1>5 DEF NewRow, Row

LEMMA IdIs ==
    ASSUME NEW r \in Request
    PROVE  Id(r) = r \/ /\ Id(r) = request[r].id /\ request[r].id # None
                        /\ request[r].project = request[r].old.project
                        /\ request[r].body.type # "none"
    BY DEF Id

\* None is none of the things a variable can name.
LEMMA NoneIsNone ==
    /\ \A row \in Row : row # None
    /\ \A b \in Body : b # None
    /\ \A p \in Project : p # None
    BY PhoneAssumption

-------------------------------------------------------------------------------
(* What a step of r leaves alone.                                           *)

\* Webhook projects are not forgotten, nor is the stored one replaced.
Grown == hooks \subseteq hooks' /\ (hook # None => hook' = hook)

\* A step of r unbinds, edits a binding in place, or makes the binding of r.
BoundStep(r) ==
    \A i \in Request : bound'[i] # None =>
        \/ bound'[i] = bound[i]
        \/ /\ bound[i] # None /\ bound'[i].project = bound[i].project
           /\ bound'[i].type # "none" /\ Fits(bound'[i].type, bound'[i].project)
        \/ /\ i = r /\ request[r].at = "bind"
           /\ bound'[i].type # "none" /\ Fits(bound'[i].type, bound'[i].project)

\* Its row, if it writes one, agrees with what requests know of the id.
RowStep(r) ==
    \A i, q \in Request : q # r /\ request[q].id = i /\ Active(q) /\ mirror'[i] # None =>
        mirror'[i].num = request[q].old.num /\ mirror'[i].project = request[q].old.project

\* A step of r that began: the others find everything as they knew it.
Step(r) ==
    /\ Only(r) /\ Grown /\ BoundStep(r) /\ RowStep(r)
    /\ Past(r) => Past(r)'
    /\ request[r].at \in {"sync", "record"} =>
           request'[r].at \in {"sync", "record", "drop", "done"}

LEMMA PastKeeps ==
    ASSUME NEW r \in Request, Step(r), NEW i \in Request, Past(i)
    PROVE  Past(i)'
    BY DEF Step, Only, Past

LEMMA FitsKeeps ==
    ASSUME Grown, NEW type, NEW project, Fits(type, project)
    PROVE  Fits(type, project)'
    BY DEF Grown, Fits

\* The bindings of an id that is past its own binding keep their project.
LEMMA BindingKeeps ==
    ASSUME NEW r \in Request, Step(r), NEW i \in Request, Past(i) \/ i # r, bound'[i] # None
    PROVE  bound[i] # None /\ bound'[i].project = bound[i].project
    BY DEF Step, BoundStep, Past

LEMMA DetachedKeeps ==
    ASSUME Inv, NEW r \in Request, Step(r), NEW i \in Request, Past(i) \/ i # r, Detached(i)
    PROVE  Detached(i)'
<1>1. CASE bound'[i] = None
    BY <1>1 DEF Detached
<1>2. CASE bound'[i] # None
    <2>1. bound[i] # None /\ bound'[i].project = bound[i].project
        BY <1>2, BindingKeeps
    <2>2. bound[i].project \in hooks /\ bound[i].project # hook
        BY <2>1 DEF Detached
    <2>3. bound[i].type # "none" /\ Fits(bound[i].type, bound[i].project)
        BY <2>1 DEF Inv, BoundOK
    <2>4. bound[i].project \notin Agent
        BY <2>2, PhoneAssumption DEF Inv, TypeOK
    <2>5. hook # None
        BY <2>1, <2>3, <2>4 DEF Fits, Inv, TypeOK, Row, Routing
    <2>6. hook' = hook /\ bound[i].project \in hooks'
        BY <2>2, <2>5 DEF Step, Grown
    <2>7. QED
        BY <2>1, <2>2, <2>6 DEF Detached
<1>3. QED
    BY <1>1, <1>2

\* What any request knows of the row it is about, r included, stays true.
LEMMA KnowsKeeps ==
    ASSUME Inv, NEW r \in Request, Step(r), NEW q \in Request, Active(q),
           Knows(q, request[q].id, request[q].old),
           q = r => mirror' = mirror,
           request'[q].id = request[q].id, request'[q].old = request[q].old
    PROVE  Knows(q, request[q].id, request[q].old)'
<1>1. PICK i \in Request : i = request[q].id
    BY DEF Knows
<1>2. PICK old \in Row : old = request[q].old
    BY DEF Knows
<1>3. Knows(q, i, old)
    BY <1>1, <1>2
<1>4. Past(i)' /\ Fits(old.type, old.project)'
    BY <1>3, PastKeeps, FitsKeeps DEF Knows, Step
<1>5. bound'[i] # None => old.project = bound'[i].project
    BY <1>3, BindingKeeps DEF Knows
<1>6. mirror'[i] # None => mirror'[i].num = old.num /\ mirror'[i].project = old.project
    BY <1>1, <1>2, <1>3 DEF Knows, Step, RowStep
<1>7. i # q
    BY <1>3 DEF Knows
<1>8. request'[q].id = i /\ request'[q].old = old
    BY <1>1, <1>2
<1>9. QED
    BY <1>4, <1>5, <1>6, <1>7, <1>8 DEF Knows

LEMMA OthersKeep ==
    ASSUME Inv, NEW r \in Request, Step(r), NEW q \in Request, q # r
    PROVE  Target(q)' /\ Stage(q)' /\ DetachedFirst(q)'
<1>1. request'[q] = request[q]
    BY DEF Step, Only
<1>2. Active(q)' = Active(q)
    BY <1>1 DEF Active
<1>3. Target(q)'
    <2>1. CASE ~Active(q)
        BY <1>2, <2>1 DEF Target
    <2>2. CASE Active(q) /\ Knows(q, request[q].id, request[q].old)
        <3>1. Knows(q, request[q].id, request[q].old)'
            BY <1>1, <2>2, KnowsKeeps
        <3>2. Target(q)
            BY DEF Inv
        <3>3. QED
            BY <1>1, <1>2, <2>2, <3>1, <3>2 DEF Target
    <2>3. CASE Active(q) /\ ~Knows(q, request[q].id, request[q].old)
        BY <1>1, <1>2, <2>3 DEF Inv, Target
    <2>4. QED
        BY <2>1, <2>2, <2>3
<1>4. Stage(q)'
    <2>1. bound'[q] # None => bound[q] # None /\ bound'[q].project = bound[q].project
        BY BindingKeeps
    <2>2. Stage(q) /\ Grown
        BY DEF Inv, Step
    <2>3. Fits(request[q].body.type, request[q].project) =>
              Fits(request[q].body.type, request[q].project)'
        BY <1>1, <2>2 DEF Grown, Fits
    <2>4. QED
        BY <1>1, <2>1, <2>2, <2>3 DEF Stage, Grown
<1>5. DetachedFirst(q)'
    <2>1. CASE request[q].id = None \/ request[q].at \notin {"bind", "drop", "sync", "record"}
        BY <1>1, <2>1 DEF DetachedFirst
    <2>2. CASE request[q].id # None /\ request[q].at \in {"bind", "drop", "sync", "record"}
        <3>1. PICK i \in Request : i = request[q].id /\ Past(i)
            BY <2>2 DEF Inv, Target, Active, Label, Knows
        <3>2. Detached(i) => Detached(i)'
            BY <3>1, DetachedKeeps
        <3>3. DetachedFirst(q) /\ Id(q)' = Id(q)
            BY <1>1 DEF Inv, Id
        <3>4. request'[q].id = i
            BY <1>1, <3>1
        <3>5. QED
            BY <1>1, <3>1, <3>2, <3>3, <3>4 DEF DetachedFirst
    <2>3. QED
        BY <2>1, <2>2
<1>6. QED
    BY <1>3, <1>4, <1>5

\* Bindings and rows keep their project, and come from requests that made them.
LEMMA BoundRowKeep ==
    ASSUME Inv, NEW r \in Request, Step(r), mirror' = mirror,
           bound'[r] # None => request'[r].at \in {"sync", "record", "drop", "done"}
    PROVE  BoundOK' /\ RowOK'
<1>1. ASSUME NEW i \in Request, bound'[i] # None
      PROVE  /\ Past(i)' \/ request'[i].at \in {"sync", "record"}
             /\ bound'[i].type # "none" /\ Fits(bound[i].type, bound[i].project)'
    <2>1. Past(i)' \/ request'[i].at \in {"sync", "record"}
        <3>1. CASE i = r
            BY <1>1, <3>1 DEF Past
        <3>2. CASE i # r
            BY <1>1, <3>2, BindingKeeps DEF Inv, BoundOK, Step, Only, Past
        <3>3. QED
            BY <3>1, <3>2
    <2>2. bound'[i].type # "none" /\ Fits(bound'[i].type, bound'[i].project)
        BY <1>1 DEF Inv, BoundOK, Step, BoundStep
    <2>3. QED
        BY <2>1, <2>2 DEF Step, Grown, Fits
<1>2. ASSUME NEW i \in Request, mirror'[i] # None
      PROVE  /\ Past(i)' /\ Fits(mirror[i].type, mirror[i].project)'
             /\ bound'[i] # None => mirror'[i].project = bound'[i].project
    <2>1. Past(i) /\ Fits(mirror[i].type, mirror[i].project)
          /\ (bound[i] # None => mirror[i].project = bound[i].project)
        BY <1>2 DEF Inv, RowOK
    <2>2. QED
        BY <2>1, PastKeeps, BindingKeeps DEF Step, Grown, Fits
<1>3. QED
    BY <1>1, <1>2 DEF BoundOK, RowOK

-------------------------------------------------------------------------------
\* A request about a row knows it, and is an edit or a delete.
LEMMA AboutRow ==
    ASSUME Inv, NEW q \in Request, Active(q), request[q].id # None
    PROVE  /\ Knows(q, request[q].id, request[q].old) /\ request[q].kind \in {"update", "delete"}
           /\ request[q].kind = "update" => request[q].body \in Body
<1>1. Target(q)
    BY DEF Inv
<1>2. QED
    BY <1>1 DEF Target

\* An unassigned number has neither project nor binding.
LEMMA UnroutedIsUnbound ==
    ASSUME Inv, NEW q \in Request, Active(q), request[q].id # None, ~RoutedRow(request[q].old)
    PROVE  request[q].old.project = None /\ bound[request[q].id] = None
<1>1. PICK i \in Request, old \in Row : /\ i = request[q].id /\ old = request[q].old
                                      /\ Knows(q, i, old)
    BY AboutRow DEF Knows
<1>2. old.type = "none"
    BY <1>1, NoneIsNone DEF RoutedRow
<1>3. old.project = None
    BY <1>1, <1>2 DEF Knows, Fits
<1>4. ASSUME bound[i] # None
      PROVE  FALSE
    <2>1. bound[i].project = None /\ bound[i].type # "none" /\ bound[i] \in Row
          /\ Fits(bound[i].type, bound[i].project)
        BY <1>1, <1>3, <1>4 DEF Knows, Inv, BoundOK, TypeOK
    <2>2. bound[i].type \in AgentRouting \cup {"webhook"}
        BY <2>1 DEF Row, Routing
    <2>3. bound[i].project \in Agent \cup Request
        BY <2>1, <2>2 DEF Fits, Inv, TypeOK
    <2>4. QED
        BY <2>1, <2>3, NoneIsNone DEF Project
<1>5. QED
    BY <1>1, <1>3, <1>4

LEMMA SameRows ==
    ASSUME Inv, NEW r \in Request, mirror' = mirror
    PROVE  RowStep(r)
<1>1. ASSUME NEW i \in Request, NEW q \in Request, q # r, request[q].id = i, Active(q),
             mirror'[i] # None
      PROVE  mirror'[i].num = request[q].old.num /\ mirror'[i].project = request[q].old.project
    <2>1. request[q].id # None
        BY <1>1, NoneIsNone DEF Project
    <2>2. Knows(q, request[q].id, request[q].old)
        BY <1>1, <2>1, AboutRow
    <2>3. QED
        BY <1>1, <2>2 DEF Knows
<1>2. QED
    BY <1>1 DEF RowStep

\* A step of a request that had begun and that writes no row.
LEMMA MoveKeeps ==
    ASSUME Inv, NEW r \in Request, Active(r), Step(r), TypeOK', HookOK',
           UNCHANGED <<mirror, gone, asked>>, odd \subseteq odd',
           bound'[r] # None => request'[r].at \in {"sync", "record", "drop", "done"},
           \/ request'[r].id = None
           \/ request'[r].id = request[r].id /\ request'[r].old = request[r].old,
           ~(request'[r].at = "drop" /\ request'[r].kind = "update"),
           /\ "raced" \notin odd /\ request'[r].at \in {"sync", "record"}
           /\ request'[r].body.type # "none"
           => request'[r].project \notin gone,
           request'[r].at # "project",
           Target(r)', Stage(r)', DetachedFirst(r)'
    PROVE  Inv'
<1>1. \A q \in Request : q # r => request'[q] = request[q]
    BY DEF Step, Only
<1>2. \A q \in Request : Active(q)' => Active(q)
    BY <1>1 DEF Active
<1>3. BoundOK' /\ RowOK'
    BY BoundRowKeep
<1>4. \A q \in Request : Target(q)' /\ Stage(q)' /\ DetachedFirst(q)'
    BY OthersKeep
<1>5. PairOK'
    BY <1>1, <1>2 DEF Inv, PairOK
<1>6. ReplacedOK'
    <2>1. \A q, j \in Request : Replaces(q, j)' => Replaces(q, j)
        BY <1>1 DEF Replaces, Replacing
    <2>2. \A q \in Request : Replacing(q)' => Replacing(q) /\ request'[q] = request[q]
        BY <1>1 DEF Replacing
    <2>3. QED
        BY <2>1, <2>2 DEF Inv, ReplacedOK
<1>7. SerialOK' /\ KeyOutlivesRow'
    <2>1. CASE "raced" \in odd'
        BY <2>1 DEF SerialOK, KeyOutlivesRow
    <2>2. CASE "raced" \notin odd'
        <3>1. "raced" \notin odd
            BY <2>2
        <3>2. SerialOK'
            BY <1>1, <1>2, <3>1 DEF Inv, SerialOK, RoutesTo, RoutedRow
        <3>3. KeyOutlivesRow'
            BY <3>1 DEF Inv, KeyOutlivesRow, RoutedRow
        <3>4. QED
            BY <3>2, <3>3
    <2>3. QED
        BY <2>1, <2>2
<1>8. QED
    BY <1>3, <1>4, <1>5, <1>6, <1>7 DEF Inv

\* A request that ends, with what it has unbound meanwhile.
LEMMA EndKeeps ==
    ASSUME Inv, NEW r \in Request, Active(r), End(r), UNCHANGED <<mirror, hook, hooks, env>>,
           gone' = gone, asked' = asked, odd \subseteq odd', odd' \subseteq Oddity, bound' = bound
    PROVE  Inv'
<1>1. request'[r] = Ended /\ Only(r) /\ request' \in [Request -> Local]
    BY EndedIs, GoMoves DEF Inv, End
<1>2. ~Active(r)'
    BY <1>1, EndedIs DEF Active, Label
<1>3. Step(r)
    BY <1>1, EndedIs, SameRows DEF Step, Grown, BoundStep, Past
<1>4. TypeOK' /\ HookOK'
    BY <1>1 DEF Inv, TypeOK, HookOK
<1>5. Target(r)' /\ Stage(r)' /\ DetachedFirst(r)'
    BY <1>1, <1>2, EndedIs DEF Target, Stage, DetachedFirst
<1>6. QED
    BY <1>1, <1>3, <1>4, <1>5, EndedIs, MoveKeeps

-------------------------------------------------------------------------------
(* The resolution of a routing.                                             *)

\* A request that knows its project goes on to bind, edit in place or unbind.
LEMMA RoutedKeeps ==
    ASSUME Inv, NEW r \in Request, Active(r), request[r].kind \in {"add", "update"},
           ~Past(r), request[r].at \notin {"sync", "record"},
           NEW p \in Request, p \in hooks', request[r].body.type = "webhook",
           Go(r, Routed(request[r], p)),
           UNCHANGED <<bound, mirror, hooks, env, gone, asked, odd>>,
           hook' # None, hook' \in hooks', hook # None => hook' = hook,
           request[r].id # None /\ p # request[r].old.project => hook' # request[r].old.project
    PROVE  Inv'
<1> DEFINE new == Routed(request[r], p)
<1>1. request[r] \in Local /\ p \in Project
    BY DEF Inv, TypeOK, Project
<1>2. /\ new \in Local /\ Same(new, request[r]) /\ new.project = p
      /\ ~RoutedRow(request[r].old) => new.at = "bind"
      /\ RoutedRow(request[r].old) =>
             /\ p = request[r].old.project => new.at = "put"
             /\ p # request[r].old.project => new.at = "unbind"
    BY <1>1, RoutedIs
<1> HIDE DEF new
<1>3. request'[r] = new /\ Only(r) /\ request' \in [Request -> Local]
    BY <1>2, GoMoves DEF Inv, new
<1>4. TypeOK' /\ HookOK'
    BY <1>3 DEF Inv, TypeOK, HookOK
<1>5. Step(r)
    BY <1>3, SameRows DEF Step, Grown, BoundStep
<1>6. new.at \in {"bind", "put", "unbind"}
    BY <1>2
<1>7. bound[r] = None
    BY DEF Inv, BoundOK
<1>8. Target(r)'
    <2>1. CASE request[r].kind = "add"
        <3>1. request[r].old = None /\ request[r].id = None /\ request[r].body \in Body
            BY <2>1 DEF Inv, Target
        <3>2. QED
            BY <1>2, <1>3, <2>1, <3>1 DEF Target, Same, RoutedRow
    <2>2. CASE request[r].kind = "update"
        <3>1. /\ Knows(r, request[r].id, request[r].old) /\ request[r].body \in Body
            BY <2>2 DEF Inv, Target
        <3>2. Knows(r, request[r].id, request[r].old)'
            BY <1>2, <1>3, <1>5, <3>1, KnowsKeeps DEF Same
        <3>3. QED
            BY <1>2, <1>3, <1>6, <2>2, <3>1, <3>2 DEF Target, Same
    <2>3. QED
        BY <2>1, <2>2
<1>9. Stage(r)'
    <2>1. RoutedRow(request[r].old) => request[r].kind = "update"
        <3>1. Target(r)
            BY DEF Inv
        <3>2. QED
            BY <3>1 DEF Target, RoutedRow
    <2>2. request[r].id # None /\ ~RoutedRow(request[r].old) => request[r].old.project = None
        BY UnroutedIsUnbound
    <2>3. new.at = "bind" /\ new.id # None => p # request[r].old.project
        BY <1>1, <1>2, <2>2, NoneIsNone DEF Same
    <2>4. new.at = "unbind" /\ new.kind = "update" => hook' # request[r].old.project
        <3>1. request[r].kind = "update" => request[r].id # None
            BY NoneIsNone DEF Inv, Target, Knows, Project
        <3>2. QED
            BY <1>2, <3>1 DEF Same
    <2>5. new.at = "put" => new.kind = "update" /\ p = request[r].old.project
        BY <1>2, <2>1 DEF Same
    <2>6. Fits("webhook", p)'
        BY DEF Fits, AgentRouting
    <2>7. request'[r].body.type = "webhook" /\ request'[r].old = request[r].old
          /\ request'[r].project = p
        BY <1>2, <1>3 DEF Same
    <2>8. QED
        BY <1>3, <1>6, <2>3, <2>4, <2>5, <2>6, <2>7 DEF Stage, Fits, AgentRouting
<1>10. DetachedFirst(r)'
    <2>1. ASSUME request[r].id # None, new.at = "bind"
          PROVE  bound[request[r].id] = None
        BY <1>2, <2>1, UnroutedIsUnbound
    <2>2. QED
        BY <1>2, <1>3, <1>6, <2>1 DEF DetachedFirst, Detached, Same
<1>11. QED
    BY <1>2, <1>3, <1>4, <1>5, <1>6, <1>7, <1>8, <1>9, <1>10, MoveKeeps DEF Same

-------------------------------------------------------------------------------
(* The beginning of a request.                                              *)

LEMMA UnroutedRowIsUnbound ==
    ASSUME Inv, NEW i \in Request, mirror[i] # None, ~RoutedRow(mirror[i])
    PROVE  mirror[i].project = None /\ bound[i] = None
<1>1. mirror[i].type = "none" /\ mirror[i].project = None
    BY DEF RoutedRow, Inv, RowOK, Fits
<1>2. ASSUME bound[i] # None
      PROVE  FALSE
    <2>1. bound[i].project = None /\ bound[i].type # "none" /\ bound[i] \in Row
          /\ Fits(bound[i].type, bound[i].project)
        BY <1>1, <1>2 DEF Inv, BoundOK, RowOK, TypeOK
    <2>2. bound[i].type \in AgentRouting \cup {"webhook"}
        BY <2>1 DEF Row, Routing
    <2>3. bound[i].project \in Agent \cup Request
        BY <2>1, <2>2 DEF Fits, Inv, TypeOK
    <2>4. QED
        BY <2>1, <2>3, NoneIsNone DEF Project
<1>3. QED
    BY <1>1, <1>2

LEMMA BeginKeeps ==
    ASSUME Inv, NEW r \in Request, request[r].at = "idle", NEW local \in Local,
           Begin(r, local), local.at \in Label \ {"sync"},
           local.at = "record" => local.body.type = "none",
           local.at = "drop" => local.kind # "update",
           local.id # None => /\ local.id \in Request /\ mirror[local.id] # None
                              /\ local.old = mirror[local.id],
           local.at = "project" => \A i \in Request : ~RoutesTo(i, local.project),
           Target(r)', Stage(r)', DetachedFirst(r)'
    PROVE  Inv'
<1>1. Go(r, local) /\ UNCHANGED <<bound, mirror, hook, hooks, env, gone, asked>>
    BY DEF Begin
<1>2. request'[r] = local /\ Only(r) /\ request' \in [Request -> Local]
    BY <1>1, GoMoves DEF Inv
<1>3. odd' = odd \cup {} \/ odd' = odd \cup {"raced"}
    BY DEF Begin
<1>4. "raced" \notin odd' => "raced" \notin odd /\ \A q \in Request : ~Active(q)
    BY DEF Begin, Quiet
<1>5. TypeOK' /\ HookOK'
    BY <1>1, <1>2, <1>3 DEF Inv, TypeOK, HookOK, Oddity
<1>6. Step(r)
    BY <1>1, <1>2, SameRows DEF Step, Grown, BoundStep, Past
<1>7. bound[r] = None
    BY DEF Inv, BoundOK, Past
<1>8. BoundOK' /\ RowOK'
    BY <1>1, <1>6, <1>7, BoundRowKeep
<1>9. \A q \in Request : Target(q)' /\ Stage(q)' /\ DetachedFirst(q)'
    BY <1>6, OthersKeep
<1>10. PairOK'
    <2>1. ASSUME NEW q \in Request, q # r, Active(q), request[q].id # None, request[q].id = local.id
          PROVE  request[q].old.num = local.old.num /\ request[q].old.project = local.old.project
        BY <2>1, AboutRow DEF Knows
    <2>2. QED
        BY <1>2, <2>1 DEF Inv, PairOK, Only, Active
<1>11. ReplacedOK'
    BY <1>1, <1>2 DEF Inv, ReplacedOK, Replaces, Replacing, Only
<1>12. SerialOK'
    BY <1>1, <1>2, <1>4 DEF SerialOK, Only, Active, Label, RoutesTo, RoutedRow
<1>13. KeyOutlivesRow'
    BY <1>1, <1>4 DEF Inv, KeyOutlivesRow, RoutedRow
<1>14. QED
    BY <1>5, <1>8, <1>9, <1>10, <1>11, <1>12, <1>13 DEF Inv

\* An add, or an update of a row, whose routing is being resolved.
LEMMA BeginResolvingKeeps ==
    ASSUME Inv, NEW r \in Request, request[r].at = "idle", NEW base \in Local, base.body \in Body,
           Begin(r, Resolving(base)),
           \/ base.kind = "add" /\ base.id = None /\ base.old = None
           \/ /\ base.kind = "update" /\ base.id \in Request /\ mirror[base.id] # None
              /\ base.old = mirror[base.id]
    PROVE  Inv'
<1> DEFINE new == Resolving(base)
<1>1. /\ new \in Local /\ Same(new, base)
      /\ base.body.type \in AgentRouting => new = Routed(base, base.body.agent)
      /\ base.body.type = "webhook" => new.at = "resolve"
      /\ base.body.type = "none" => /\ RoutedRow(base.old) => new.at = "unbind"
                                    /\ ~RoutedRow(base.old) => new.at = "record"
    BY ResolvingIs
<1>2. base.body.type \in Routing /\ (base.body.type \in AgentRouting => base.body.agent \in Agent)
    BY BodyIs
<1>3. base.body.type \in AgentRouting =>
          /\ new.project = base.body.agent
          /\ ~RoutedRow(base.old) => new.at = "bind"
          /\ RoutedRow(base.old) =>
                 /\ base.body.agent = base.old.project => new.at = "put"
                 /\ base.body.agent # base.old.project => new.at = "unbind"
    BY <1>1, <1>2, RoutedIs DEF Project
<1>4. Begin(r, new)
    OBVIOUS
<1> HIDE DEF new
<1>5. request'[r] = new /\ Only(r) /\ UNCHANGED <<bound, mirror, hook, hooks>>
    BY <1>1, <1>4, GoMoves DEF Begin, Inv
<1>6. /\ new.at \in {"put", "unbind", "bind", "resolve", "record"}
      /\ new.at = "record" => base.body.type = "none"
      /\ new.at = "resolve" => base.body.type = "webhook"
      /\ new.at \in {"put", "bind"} => base.body.type \in AgentRouting
    BY <1>1, <1>2, <1>3 DEF Routing, AgentRouting
<1>7. RoutedRow(base.old) => base.kind = "update"
    BY DEF RoutedRow
<1>8. base.id # None => base.kind = "update"
    OBVIOUS
<1>9. base.id # None /\ ~RoutedRow(base.old) => base.old.project = None /\ bound[base.id] = None
    BY <1>8, UnroutedRowIsUnbound
<1>10. Target(r)'
    <2>1. CASE base.kind = "add"
        <3>1. base.id = None /\ base.old = None /\ ~RoutedRow(base.old)
            BY <1>7, <2>1
        <3>2. new.at \in {"bind", "resolve", "record"}
            BY <1>1, <1>2, <1>3, <1>6, <3>1 DEF Routing
        <3>3. QED
            BY <1>1, <1>5, <2>1, <3>1, <3>2 DEF Target, Same
    <2>2. CASE base.kind = "update"
        <3>1. PICK i \in Request, old \in Row : i = base.id /\ old = base.old
            BY <2>2 DEF Inv, TypeOK
        <3>2. /\ i # r /\ Past(i) /\ Fits(old.type, old.project)
              /\ bound[i] # None => old.project = bound[i].project
              /\ mirror[i] = old
            BY <2>2, <3>1 DEF Inv, RowOK, Past
        <3>3. request'[r].id = i /\ request'[r].old = old
            BY <1>1, <1>5, <3>1 DEF Same
        <3>4. Knows(r, request[r].id, request[r].old)'
            BY <1>5, <3>2, <3>3 DEF Knows, Only, Past, Fits
        <3>5. QED
            BY <1>1, <1>5, <1>6, <2>2, <3>4 DEF Target, Same
    <2>3. QED
        BY <2>1, <2>2
<1>11. Stage(r)'
    <2>1. bound'[r] = None
        BY <1>5 DEF Inv, BoundOK, Past
    <2>2. request'[r].body = base.body /\ request'[r].old = base.old /\ request'[r].id = base.id
          /\ request'[r].kind = base.kind
        BY <1>1, <1>5 DEF Same
    <2>3. CASE base.body.type \in AgentRouting
        <3>1. base.body.type # "none" /\ base.body.type # "webhook"
            BY <2>3 DEF AgentRouting
        <3>2. Fits(base.body.type, new.project)'
            BY <1>2, <1>3, <2>3, <3>1 DEF Fits
        <3>3. new.at = "bind" /\ base.id # None => new.project # base.old.project
            BY <1>2, <1>3, <1>9, <2>3, NoneIsNone DEF Project
        <3>4. new.at = "put" => base.kind = "update" /\ new.project = base.old.project
            BY <1>3, <1>7, <2>3
        <3>5. new.at = "unbind" => new.project # base.old.project
            BY <1>3, <2>3
        <3>6. new.at \in {"put", "unbind", "bind"} /\ new.project = base.body.agent
            BY <1>3, <2>3
        <3>7. QED
            BY <1>5, <2>2, <2>3, <3>1, <3>2, <3>3, <3>4, <3>5, <3>6 DEF Stage, Fits
    <2>4. CASE base.body.type \notin AgentRouting
        <3>1. new.at \in {"unbind", "resolve", "record"}
              /\ (new.at \in {"unbind", "record"} => base.body.type = "none")
              /\ (new.at = "resolve" => base.body.type = "webhook")
            BY <1>1, <1>2, <2>4 DEF Routing
        <3>2. QED
            BY <1>5, <2>1, <2>2, <2>4, <3>1 DEF Stage
    <2>5. QED
        BY <2>3, <2>4
<1>12. DetachedFirst(r)'
    <2>1. new.at = "bind" => ~RoutedRow(base.old)
        BY <1>3, <1>6
    <2>2. new.at = "record" => ~RoutedRow(base.old)
        BY <1>1, <1>6
    <2>3. new.at \in {"bind", "record"} /\ base.id # None => bound[base.id] = None
        BY <1>9, <2>1, <2>2
    <2>4. QED
        BY <1>1, <1>5, <1>6, <2>3 DEF DetachedFirst, Detached, Same
<1>13. QED
    BY <1>1, <1>4, <1>6, <1>8, <1>10, <1>11, <1>12, BeginKeeps DEF Same, Label

LEMMA BeginAddKeeps ==
    ASSUME Inv, NEW r \in Request, BeginAdd(r)
    PROVE  Inv'
<1>1. PICK b \in Body : Begin(r, Resolving([Idle EXCEPT !.body = b]))
    BY DEF BeginAdd
<1> DEFINE base == [Idle EXCEPT !.body = b]
<1>2. base \in Local /\ base.body = b /\ base.kind = "add" /\ base.id = None /\ base.old = None
    BY IdleIs DEF Local
<1>3. Begin(r, Resolving(base)) /\ request[r].at = "idle"
    BY <1>1 DEF Begin
<1> HIDE DEF base
<1>4. QED
    BY <1>2, <1>3, BeginResolvingKeeps

LEMMA BeginUpdateKeeps ==
    ASSUME Inv, NEW r \in Request, BeginUpdate(r)
    PROVE  Inv'
<1>1. PICK i \in Request, b \in Body :
          /\ mirror[i] # None
          /\ Begin(r, Resolving([Idle EXCEPT !.kind = "update", !.body = b, !.id = i,
                                             !.old = mirror[i]]))
    BY DEF BeginUpdate
<1> DEFINE base == [Idle EXCEPT !.kind = "update", !.body = b, !.id = i, !.old = mirror[i]]
<1>2. /\ base \in Local /\ base.body = b /\ base.kind = "update" /\ base.id = i
      /\ base.old = mirror[i]
    BY <1>1, IdleIs DEF Local, Inv, TypeOK
<1>3. Begin(r, Resolving(base)) /\ request[r].at = "idle"
    BY <1>1 DEF Begin
<1> HIDE DEF base
<1>4. QED
    BY <1>1, <1>2, <1>3, BeginResolvingKeeps

LEMMA BeginDeleteKeeps ==
    ASSUME Inv, NEW r \in Request, BeginDelete(r)
    PROVE  Inv'
<1>1. PICK i \in Request :
          /\ mirror[i] # None
          /\ Begin(r, [Idle EXCEPT !.kind = "delete", !.id = i, !.old = mirror[i],
                                   !.at = IF RoutedRow(mirror[i]) THEN "unbind" ELSE "drop"])
    BY DEF BeginDelete
<1> DEFINE label == IF RoutedRow(mirror[i]) THEN "unbind" ELSE "drop"
           new == [Idle EXCEPT !.kind = "delete", !.id = i, !.old = mirror[i], !.at = label]
<1>2. label \in {"unbind", "drop"} /\ label \in Label
    BY DEF Label
<1>3. label = "drop" => ~RoutedRow(mirror[i])
    OBVIOUS
<1> HIDE DEF label
<1>4. /\ new \in Local /\ new.kind = "delete" /\ new.id = i /\ new.old = mirror[i]
      /\ new.at = label
    BY <1>1, <1>2, IdleIs DEF Local, Inv, TypeOK
<1>5. Begin(r, new) /\ request[r].at = "idle"
    BY <1>1 DEF Begin, label
<1> HIDE DEF new
<1>6. request'[r] = new /\ Only(r) /\ UNCHANGED <<bound, mirror, hook, hooks>>
    BY <1>4, <1>5, GoMoves DEF Begin, Inv
<1>7. PICK old \in Row : old = mirror[i]
    BY <1>1 DEF Inv, TypeOK
<1>8. /\ i # r /\ Past(i) /\ Fits(old.type, old.project)
      /\ bound[i] # None => old.project = bound[i].project
    BY <1>1, <1>5, <1>7 DEF Inv, RowOK, Past
<1>9. Knows(r, request[r].id, request[r].old)'
    BY <1>4, <1>6, <1>7, <1>8 DEF Knows, Only, Past, Fits
<1>10. Target(r)'
    BY <1>2, <1>4, <1>6, <1>9 DEF Target
<1>11. Stage(r)'
    BY <1>2, <1>4, <1>6 DEF Stage
<1>12. label = "drop" => bound[i] = None
    BY <1>1, <1>3, UnroutedRowIsUnbound
<1>13. DetachedFirst(r)'
    BY <1>2, <1>4, <1>6, <1>12 DEF DetachedFirst, Detached
<1>14. QED
    BY <1>1, <1>2, <1>4, <1>5, <1>10, <1>11, <1>13, BeginKeeps

LEMMA BeginRemoveKeeps ==
    ASSUME Inv, NEW r \in Request, BeginRemove(r)
    PROVE  Inv'
<1>1. PICK a \in Agent :
          /\ \A i \in Request : ~RoutesTo(i, a)
          /\ Begin(r, [Idle EXCEPT !.kind = "remove", !.at = "project", !.project = a])
    BY DEF BeginRemove
<1> DEFINE new == [Idle EXCEPT !.kind = "remove", !.at = "project", !.project = a]
<1>2. /\ new \in Local /\ new.kind = "remove" /\ new.at = "project" /\ new.project = a
      /\ new.id = None
    BY IdleIs DEF Local, Label, Project
<1>3. Begin(r, new) /\ request[r].at = "idle"
    BY <1>1 DEF Begin
<1> HIDE DEF new
<1>4. request'[r] = new
    BY <1>2, <1>3, GoMoves DEF Begin, Inv
<1>5. Target(r)' /\ Stage(r)' /\ DetachedFirst(r)'
    BY <1>2, <1>4 DEF Target, Stage, DetachedFirst
<1>6. QED
    BY <1>1, <1>2, <1>3, <1>5, BeginKeeps DEF Label

-------------------------------------------------------------------------------
(* The steps of a request.                                                  *)

LEMMA Kinds ==
    ASSUME Inv, NEW r \in Request
    PROVE  /\ request[r].at \in {"resolve", "mkhook", "savehook", "bind", "sync", "record"} =>
                  request[r].kind \in {"add", "update"} /\ request[r].body \in Body
           /\ request[r].at = "put" => request[r].kind = "update" /\ request[r].body \in Body
           /\ request[r].at \in {"unbind", "drop"} => request[r].kind \in {"update", "delete"}
           /\ request[r].at = "unbind" /\ request[r].kind = "update" => request[r].body \in Body
           /\ request[r].at = "project" => request[r].kind = "remove" /\ request[r].project \in Agent
           /\ request[r].kind = "add" /\ Active(r) =>
                  request[r].id = None /\ request[r].old = None
           /\ request[r].kind \in {"update", "delete"} /\ Active(r) =>
                  request[r].id \in Request /\ request[r].id # None
<1>1. Target(r)
    BY DEF Inv
<1>2. request[r].id \in Request => request[r].id # None
    BY NoneIsNone DEF Project
<1>3. QED
    BY <1>1, <1>2 DEF Target, Knows, Active, Label

LEMMA TargetKeeps ==
    ASSUME Inv, NEW r \in Request, Active(r), Step(r), mirror' = mirror,
           Same(request'[r], request[r]), request[r].kind # "remove",
           request[r].kind = "add" => request'[r].at \notin {"put", "unbind", "drop", "project"},
           request[r].kind = "update" => request'[r].at # "project",
           request[r].kind = "delete" => request'[r].at \in {"unbind", "drop"}
    PROVE  Target(r)'
<1>1. Target(r)
    BY DEF Inv
<1>2. CASE request[r].kind = "add"
    BY <1>1, <1>2 DEF Target, Same
<1>3. CASE request[r].kind \in {"update", "delete"}
    <2>1. Knows(r, request[r].id, request[r].old)
        BY <1>1, <1>3 DEF Target
    <2>2. Knows(r, request[r].id, request[r].old)'
        BY <2>1, KnowsKeeps DEF Same
    <2>3. QED
        BY <1>1, <1>3, <2>2 DEF Target, Same
<1>4. QED
    BY <1>1, <1>2, <1>3 DEF Target

LEMMA ReadHookKeeps ==
    ASSUME Inv, NEW r \in Request, ReadHook(r)
    PROVE  Inv'
<1>1. /\ request[r].at = "resolve" /\ request[r].body.type = "webhook" /\ Active(r) /\ ~Past(r)
      /\ request[r].kind \in {"add", "update"}
    BY Kinds DEF ReadHook, Inv, Stage, Active, Label, Past
<1>2. UNCHANGED <<bound, mirror, hook, hooks, env, gone, asked, odd>>
    BY DEF ReadHook
<1>3. CASE hook # None
    <2>1. Go(r, Routed(request[r], hook))
        BY <1>3 DEF ReadHook
    <2>2. hook \in hooks /\ hook \in Request
        BY <1>3 DEF Inv, HookOK, TypeOK
    <2>3. PICK p \in Request : p = hook
        BY <2>2
    <2>4. Go(r, Routed(request[r], p))
        BY <2>1, <2>3
    <2>5. QED
        BY <1>1, <1>2, <1>3, <2>2, <2>3, <2>4, RoutedKeeps
<1>4. CASE hook = None
    <2>1. MoveTo(r, "mkhook")
        BY <1>4 DEF ReadHook
    <2>2. /\ request'[r].at = "mkhook" /\ Same(request'[r], request[r])
          /\ Only(r) /\ request' \in [Request -> Local]
        BY <2>1, MoveToMoves DEF Inv, Label
    <2>3. Step(r)
        BY <1>1, <1>2, <2>2, SameRows DEF Step, Grown, BoundStep
    <2>4. Target(r)'
        BY <1>1, <1>2, <2>2, <2>3, TargetKeeps
    <2>5. request[r].id # None => request[r].old.type # "webhook"
        BY <1>1, <1>4, AboutRow DEF Knows, Fits
    <2>6. Stage(r)' /\ DetachedFirst(r)'
        BY <1>1, <2>2, <2>5 DEF Stage, DetachedFirst, Same
    <2>7. TypeOK' /\ HookOK'
        BY <1>2, <2>2 DEF Inv, TypeOK, HookOK
    <2>8. bound'[r] = None
        BY <1>1, <1>2 DEF Inv, BoundOK
    <2>9. QED
        BY <1>1, <1>2, <2>2, <2>3, <2>4, <2>6, <2>7, <2>8, MoveKeeps DEF Same
<1>5. QED
    BY <1>3, <1>4

LEMMA CreateHookKeeps ==
    ASSUME Inv, NEW r \in Request, CreateHook(r)
    PROVE  Inv'
<1>1. /\ request[r].at = "mkhook" /\ request[r].body.type = "webhook" /\ Active(r) /\ ~Past(r)
      /\ request[r].kind \in {"add", "update"}
    BY Kinds DEF CreateHook, Inv, Stage, Active, Label, Past
<1>2. /\ hooks' = hooks \cup {r} /\ MoveTo(r, "savehook")
      /\ UNCHANGED <<bound, mirror, hook, env, gone, asked, odd>>
    BY DEF CreateHook
<1>3. /\ request'[r].at = "savehook" /\ Same(request'[r], request[r])
      /\ Only(r) /\ request' \in [Request -> Local]
    BY <1>2, MoveToMoves DEF Inv, Label
<1>4. Step(r)
    BY <1>1, <1>2, <1>3, SameRows DEF Step, Grown, BoundStep
<1>5. Target(r)'
    BY <1>1, <1>2, <1>3, <1>4, TargetKeeps
<1>6. Stage(r)
    BY DEF Inv
<1>7. Stage(r)' /\ DetachedFirst(r)'
    BY <1>1, <1>2, <1>3, <1>6 DEF Stage, DetachedFirst, Same
<1>8. TypeOK' /\ HookOK'
    BY <1>2, <1>3 DEF Inv, TypeOK, HookOK
<1>9. bound'[r] = None
    BY <1>1, <1>2 DEF Inv, BoundOK
<1>10. QED
    BY <1>1, <1>2, <1>3, <1>4, <1>5, <1>7, <1>8, <1>9, MoveKeeps DEF Same

LEMMA SaveHookKeeps ==
    ASSUME Inv, NEW r \in Request, SaveHook(r)
    PROVE  Inv'
<1>1. /\ request[r].at = "savehook" /\ request[r].body.type = "webhook" /\ Active(r) /\ ~Past(r)
      /\ request[r].kind \in {"add", "update"} /\ r \in hooks
      /\ request[r].id # None => request[r].old.type # "webhook"
    BY Kinds DEF SaveHook, Inv, Stage, Active, Label, Past
<1>2. /\ hook' = IF hook = None THEN r ELSE hook
      /\ Go(r, Routed(request[r], r))
      /\ UNCHANGED <<bound, mirror, hooks, env, gone, asked, odd>>
    BY DEF SaveHook
<1>3. hook' # None /\ hook' \in hooks' /\ hook' \in Request /\ (hook # None => hook' = hook)
    BY <1>1, <1>2, NoneIsNone DEF Inv, HookOK, TypeOK, Project
<1>4. ASSUME request[r].id # None
      PROVE  hook' # request[r].old.project
    <2>1. /\ request[r].old \in Row
          /\ Fits(request[r].old.type, request[r].old.project)
        BY <1>1, <1>4, AboutRow DEF Knows
    <2>2. request[r].old.type \in AgentRouting \cup {"none"}
        BY <1>1, <1>4, <2>1 DEF Row, Routing
    <2>3. request[r].old.project \in Agent \cup {None}
        BY <2>1, <2>2 DEF Fits
    <2>4. QED
        BY <1>3, <2>3, PhoneAssumption
<1>5. QED
    BY <1>1, <1>2, <1>3, <1>4, RoutedKeeps

LEMMA PutKeeps ==
    ASSUME Inv, NEW r \in Request, Put(r)
    PROVE  Inv'
<1>1. /\ request[r].at = "put" /\ Active(r) /\ ~Past(r) /\ request[r].kind = "update"
      /\ request[r].body \in Body /\ request[r].body.type # "none"
      /\ request[r].project = request[r].old.project
      /\ Fits(request[r].body.type, request[r].project)
    BY Kinds DEF Put, Inv, Stage, Active, Label, Past
<1>2. UNCHANGED <<mirror, hook, hooks, env, gone, asked, odd>>
    BY DEF Put
<1>3. CASE End(r) /\ UNCHANGED bound
    BY <1>1, <1>2, <1>3, EndKeeps DEF Inv, TypeOK
<1>4. CASE /\ request[r].project \notin gone
           /\ bound[request[r].id] # None
           /\ bound[request[r].id].project = request[r].project
           /\ bound' = [bound EXCEPT ![request[r].id] = [@ EXCEPT !.type = request[r].body.type]]
           /\ MoveTo(r, AfterAnswer(request[r].body.type))
    <2>1. PICK i \in Request : i = request[r].id /\ i # None /\ i # r
        BY <1>1, Kinds, AboutRow DEF Knows
    <2> DEFINE new == [bound[i] EXCEPT !.type = request[r].body.type]
    <2>2. request[r].body.type \in Routing /\ bound[i] \in Row
        BY <1>1, <1>4, <2>1, BodyIs DEF Inv, TypeOK
    <2>3. new \in Row /\ new.type = request[r].body.type /\ new.project = request[r].project
        BY <1>4, <2>1, <2>2 DEF Row
    <2>4. bound' = [bound EXCEPT ![i] = new]
        BY <1>4, <2>1
    <2> HIDE DEF new
    <2>5. AfterAnswer(request[r].body.type) \in {"sync", "record"}
          /\ (AfterAnswer(request[r].body.type) = "sync" =>
                  request[r].body.type = "agent_call_init")
        BY DEF AfterAnswer
    <2>6. /\ request'[r].at \in {"sync", "record"} /\ Same(request'[r], request[r])
          /\ request'[r].at = "sync" => request[r].body.type = "agent_call_init"
          /\ request'[r].project = request[r].project
          /\ Only(r) /\ request' \in [Request -> Local]
        BY <1>4, <2>5, MoveToMoves DEF Inv, Label
    <2>7. bound' \in [Request -> Row \cup {None}] /\ bound'[i] = new
          /\ \A j \in Request : j # i => bound'[j] = bound[j]
        BY <2>3, <2>4 DEF Inv, TypeOK
    <2>8. BoundStep(r)
        BY <1>1, <1>4, <2>1, <2>3, <2>7 DEF BoundStep
    <2>9. Step(r)
        BY <1>1, <1>2, <2>6, <2>8, SameRows DEF Step, Grown
    <2>10. bound'[r] = None
        BY <1>1, <2>1, <2>7 DEF Inv, BoundOK
    <2>11. Target(r)'
        BY <1>1, <1>2, <2>6, <2>9, TargetKeeps
    <2>12. Stage(r)
        BY DEF Inv
    <2>13. Stage(r)'
        BY <1>1, <1>2, <2>6, <2>10, <2>12 DEF Stage, Same, Fits
    <2>14. DetachedFirst(r)'
        BY <1>1, <2>1, <2>6 DEF DetachedFirst, Id, Same
    <2>15. TypeOK' /\ HookOK'
        BY <1>2, <2>6, <2>7 DEF Inv, TypeOK, HookOK
    <2>16. QED
        BY <1>1, <1>2, <1>4, <2>6, <2>9, <2>10, <2>11, <2>13, <2>14, <2>15, MoveKeeps DEF Same
<1>5. QED
    BY <1>3, <1>4 DEF Put

-------------------------------------------------------------------------------
LEMMA UnboundIs ==
    ASSUME NEW local \in Local, local.kind \in {"update", "delete"}, hook \in Request \cup {None},
           local.kind = "update" => local.body \in Body
    PROVE  /\ Unbound(local) \in Local /\ Same(Unbound(local), local)
           /\ local.kind = "delete" => Unbound(local).at = "drop"
           /\ local.kind = "update" =>
                  /\ local.body.type = "none" => Unbound(local).at = "record"
                  /\ local.body.type # "none" => Unbound(local).at = "bind"
                  /\ local.body.type = "webhook" => Unbound(local).project = hook
                  /\ local.body.type \in AgentRouting => Unbound(local).project = local.project
<1>1. ASSUME NEW l \in Label
      PROVE  /\ [local EXCEPT !.at = l] \in Local /\ Same([local EXCEPT !.at = l], local)
             /\ [local EXCEPT !.at = l].at = l
             /\ [local EXCEPT !.at = l].project = local.project
    BY <1>1 DEF Local, Same
<1>2. LET new == [local EXCEPT !.at = "bind", !.project = hook] IN
      new \in Local /\ Same(new, local) /\ new.at = "bind" /\ new.project = hook
    BY DEF Local, Same, Label, Project
<1>3. {"drop", "record", "bind"} \subseteq Label
    BY DEF Label
<1>4. CASE local.kind = "delete"
    <2>1. Unbound(local) = [local EXCEPT !.at = "drop"]
        BY <1>4 DEF Unbound
    <2>2. QED
        BY <1>1, <1>3, <1>4, <2>1
<1>5. CASE local.kind = "update" /\ local.body.type = "none"
    <2>1. Unbound(local) = [local EXCEPT !.at = "record"]
        BY <1>5 DEF Unbound
    <2>2. QED
        BY <1>1, <1>3, <1>5, <2>1 DEF AgentRouting
<1>6. CASE local.kind = "update" /\ local.body.type = "webhook"
    <2>1. Unbound(local) = [local EXCEPT !.at = "bind", !.project = hook]
        BY <1>6 DEF Unbound
    <2>2. QED
        BY <1>2, <1>6, <2>1 DEF AgentRouting
<1>7. CASE local.kind = "update" /\ local.body.type \notin {"none", "webhook"}
    <2>1. Unbound(local) = [local EXCEPT !.at = "bind"]
        BY <1>7 DEF Unbound
    <2>2. QED
        BY <1>1, <1>3, <1>7, <2>1
<1>8. QED
    BY <1>4, <1>5, <1>6, <1>7

\* The stored key unbinds every number it can see.
LEMMA UnbindKeeps ==
    ASSUME Inv, NEW r \in Request, Unbind(r)
    PROVE  Inv'
<1>1. /\ request[r].at = "unbind" /\ Active(r) /\ ~Past(r)
      /\ request[r].kind \in {"update", "delete"}
      /\ request[r].kind = "update" => request[r].body \in Body
      /\ request[r] \in Local /\ hook \in Request \cup {None}
    BY Kinds DEF Unbind, Inv, TypeOK, Active, Label, Past
<1>2. UNCHANGED <<mirror, hook, hooks, env, gone, asked, odd>>
    BY DEF Unbind
<1>3. CASE End(r) /\ UNCHANGED bound
    BY <1>1, <1>2, <1>3, EndKeeps DEF Inv, TypeOK
<1>4. CASE /\ bound' = [bound EXCEPT ![request[r].id] =
                           IF @ # None /\ @.project = KeyProject(request[r].old) THEN None ELSE @]
           /\ Go(r, Unbound(request[r]))
    <2>1. PICK i \in Request, old \in Row : /\ i = request[r].id /\ old = request[r].old
                                          /\ i # None /\ i # r /\ Knows(r, i, old)
        BY <1>1, Kinds, AboutRow DEF Knows
    <2>2. /\ bound' \in [Request -> Row \cup {None}]
          /\ \A j \in Request : j # i => bound'[j] = bound[j]
          /\ bound'[i] = IF bound[i] # None /\ bound[i].project = KeyProject(old) THEN None
                         ELSE bound[i]
        BY <1>4, <2>1 DEF Inv, TypeOK
    <2>3. Detached(i)'
        <3>1. ASSUME bound'[i] # None
              PROVE  bound[i].project \in hooks \ {hook}
            <4>1. /\ bound'[i] = bound[i] /\ bound[i] # None
                  /\ old.project = bound[i].project /\ old.project # KeyProject(old)
                BY <2>1, <2>2, <3>1 DEF Knows
            <4>2. old.type \notin AgentRouting /\ KeyProject(old) = hook
                BY <4>1 DEF KeyProject
            <4>3. old.type # "none"
                BY <1>1, <2>1, <4>1, UnroutedIsUnbound DEF RoutedRow
            <4>4. old.type = "webhook"
                BY <4>2, <4>3 DEF Row, Routing
            <4>5. QED
                BY <2>1, <4>1, <4>2, <4>4 DEF Knows, Fits
        <3>2. QED
            BY <1>2, <2>2, <3>1 DEF Detached
    <2> DEFINE new == Unbound(request[r])
    <2>4. /\ new \in Local /\ Same(new, request[r])
          /\ request[r].kind = "delete" => new.at = "drop"
          /\ request[r].kind = "update" =>
                 /\ request[r].body.type = "none" => new.at = "record"
                 /\ request[r].body.type # "none" => new.at = "bind"
                 /\ request[r].body.type = "webhook" => new.project = hook
                 /\ request[r].body.type \in AgentRouting => new.project = request[r].project
        BY <1>1, UnboundIs
    <2> HIDE DEF new
    <2>5. request'[r] = new /\ Only(r) /\ request' \in [Request -> Local]
        BY <1>4, <2>4, GoMoves DEF Inv, new
    <2>6. BoundStep(r)
        BY <2>2 DEF BoundStep
    <2>7. Step(r)
        BY <1>1, <1>2, <2>5, <2>6, SameRows DEF Step, Grown
    <2>8. bound'[r] = None
        BY <1>1, <2>1, <2>2 DEF Inv, BoundOK
    <2>9. Target(r)'
        BY <1>1, <1>2, <2>4, <2>5, <2>7, TargetKeeps DEF Same
    <2>10. Stage(r)'
        <3>1. CASE request[r].kind = "delete"
            BY <2>4, <2>5, <3>1 DEF Stage, Same
        <3>2. CASE request[r].kind = "update" /\ request[r].body.type = "none"
            BY <2>4, <2>5, <2>8, <3>2 DEF Stage, Same, AgentRouting
        <3>3. CASE request[r].kind = "update" /\ request[r].body.type = "webhook"
            <4>1. hook # None /\ hook # request[r].old.project /\ hook \in hooks
                BY <1>1, <3>3 DEF Inv, Stage, HookOK
            <4>2. Fits("webhook", hook)'
                BY <1>2, <4>1 DEF Fits, AgentRouting
            <4>3. new.at = "bind" /\ new.project = hook
                BY <2>4, <3>3
            <4>4. /\ request'[r].body.type = "webhook" /\ request'[r].old = request[r].old
                  /\ request'[r].at = "bind" /\ request'[r].project = hook
                BY <2>4, <2>5, <3>3, <4>3 DEF Same
            <4>5. QED
                BY <1>2, <4>1, <4>2, <4>4 DEF Stage, AgentRouting, Fits
        <3>4. CASE request[r].kind = "update" /\ request[r].body.type \in AgentRouting
            <4>1. /\ request[r].project = request[r].body.agent
                  /\ request[r].project # request[r].old.project
                BY <1>1, <3>4 DEF Inv, Stage
            <4>2. request[r].body.agent \in Agent
                BY <1>1, <3>4, BodyIs
            <4>3. request[r].body.type \notin {"none", "webhook"}
                BY <3>4 DEF AgentRouting
            <4>4. new.at = "bind" /\ new.project = request[r].project
                BY <2>4, <3>4, <4>3
            <4>5. /\ request'[r].body = request[r].body /\ request'[r].old = request[r].old
                  /\ request'[r].at = "bind" /\ request'[r].project = request[r].project
                BY <2>4, <2>5, <4>4 DEF Same
            <4>6. Fits(request'[r].body.type, request'[r].project)
                BY <4>1, <4>2, <4>3, <4>5 DEF Fits
            <4>7. Fits(request[r].body.type, request[r].project)'
                BY <1>2, <4>6 DEF Fits
            <4>8. QED
                BY <4>1, <4>3, <4>5, <4>7 DEF Stage, Fits
        <3>5. QED
            BY <1>1, <3>1, <3>2, <3>3, <3>4, BodyIs DEF Routing
    <2>11. DetachedFirst(r)'
        <3>1. request'[r].id = i
            BY <2>1, <2>4, <2>5 DEF Same
        <3>2. new.at \notin {"sync"} /\ (new.at = "record" => request'[r].body.type = "none")
            BY <1>1, <2>4, <2>5 DEF Same
        <3>3. new.at = "record" => Id(r)' # i
            BY <2>1, <2>5, <3>2 DEF Id
        <3>4. QED
            BY <2>3, <2>5, <3>1, <3>2, <3>3 DEF DetachedFirst
    <2>12. TypeOK' /\ HookOK'
        BY <1>2, <2>2, <2>5 DEF Inv, TypeOK, HookOK
    <2>13. /\ ~(new.at = "drop" /\ new.kind = "update")
           /\ new.at \in {"sync", "record"} => new.body.type = "none"
           /\ new.at # "project"
        BY <1>1, <2>4 DEF Same
    <2>14. QED
        BY <1>1, <1>2, <2>4, <2>5, <2>7, <2>8, <2>9, <2>10, <2>11, <2>12, <2>13, MoveKeeps
           DEF Same
<1>5. QED
    BY <1>3, <1>4 DEF Unbind

-------------------------------------------------------------------------------
\* The new binding is the one of r, with the project that r resolved.
LEMMA BindKeeps ==
    ASSUME Inv, NEW r \in Request, Bind(r)
    PROVE  Inv'
<1>1. /\ request[r].at = "bind" /\ Active(r) /\ ~Past(r) /\ request[r].kind \in {"add", "update"}
      /\ request[r].body \in Body /\ request[r].body.type # "none"
      /\ Fits(request[r].body.type, request[r].project)
      /\ request[r].id # None => request[r].project # request[r].old.project
    BY Kinds DEF Bind, Inv, Stage, Active, Label, Past
<1>2. UNCHANGED <<mirror, hook, hooks, env, gone, asked>>
    BY DEF Bind
<1>3. CASE /\ End(r) /\ UNCHANGED bound
           /\ odd' = odd \cup (IF RoutedRow(request[r].old) THEN {"unrouted"} ELSE {})
    <2>1. odd \subseteq odd' /\ odd' \subseteq Oddity
        BY <1>3 DEF Inv, TypeOK, Oddity
    <2>2. QED
        BY <1>1, <1>2, <1>3, <2>1, EndKeeps
<1>4. CASE /\ request[r].project \notin gone
           /\ bound' = [bound EXCEPT ![r] = NewRow(r)]
           /\ MoveTo(r, AfterAnswer(request[r].body.type))
           /\ UNCHANGED odd
    <2> DEFINE new == NewRow(r)
    <2>1. /\ new \in Row /\ new.type = request[r].body.type
          /\ new.project = request[r].project
        BY <1>1, AboutRow, NewRowIs DEF Inv, Knows
    <2>2. bound' = [bound EXCEPT ![r] = new]
        BY <1>4
    <2> HIDE DEF new
    <2>3. /\ bound' \in [Request -> Row \cup {None}] /\ bound'[r] = new
          /\ \A j \in Request : j # r => bound'[j] = bound[j]
        BY <2>1, <2>2 DEF Inv, TypeOK
    <2>4. AfterAnswer(request[r].body.type) \in {"sync", "record"}
          /\ (AfterAnswer(request[r].body.type) = "sync" =>
                  request[r].body.type = "agent_call_init")
        BY DEF AfterAnswer
    <2>5. /\ request'[r].at \in {"sync", "record"} /\ Same(request'[r], request[r])
          /\ request'[r].at = "sync" => request[r].body.type = "agent_call_init"
          /\ request'[r].project = request[r].project
          /\ Only(r) /\ request' \in [Request -> Local]
        BY <1>4, <2>4, MoveToMoves DEF Inv, Label
    <2>6. BoundStep(r)
        BY <1>1, <1>2, <2>1, <2>3 DEF BoundStep, Fits
    <2>7. Step(r)
        BY <1>1, <1>2, <2>5, <2>6, SameRows DEF Step, Grown
    <2>8. Target(r)'
        BY <1>1, <1>2, <2>5, <2>7, TargetKeeps
    <2>9. Stage(r)
        BY DEF Inv
    <2>10. Stage(r)'
        BY <1>1, <1>2, <2>1, <2>3, <2>5, <2>9 DEF Stage, Same, Fits
    <2>11. DetachedFirst(r)'
        <3>1. ASSUME request[r].id # None
              PROVE  Detached(request[r].id)'
            <4>1. PICK i \in Request : i = request[r].id /\ i # r
                BY <1>1, <3>1, AboutRow DEF Knows
            <4>2. Detached(i)
                BY <1>1, <3>1, <4>1 DEF Inv, DetachedFirst
            <4>3. Detached(i)'
                BY <2>7, <4>1, <4>2, DetachedKeeps
            <4>4. request'[r].id = i
                BY <2>5, <4>1 DEF Same
            <4>5. QED
                BY <4>1, <4>3, <4>4 DEF Detached
        <3>2. QED
            BY <2>5, <3>1 DEF DetachedFirst, Same
    <2>12. TypeOK' /\ HookOK'
        BY <1>2, <1>4, <2>3, <2>5 DEF Inv, TypeOK, HookOK
    <2>13. QED
        BY <1>1, <1>2, <1>4, <2>5, <2>7, <2>8, <2>10, <2>11, <2>12, MoveKeeps DEF Same
<1>5. QED
    BY <1>3, <1>4 DEF Bind

LEMMA SyncKeeps ==
    ASSUME Inv, NEW r \in Request, Sync(r)
    PROVE  Inv'
<1>1. /\ request[r].at = "sync" /\ Active(r) /\ ~Past(r) /\ request[r].kind \in {"add", "update"}
    BY Kinds DEF Sync, Inv, Active, Label, Past
<1>2. /\ UNCHANGED <<bound, mirror, hook, hooks, gone, asked>> /\ MoveTo(r, "record")
      /\ odd \subseteq odd'
      /\ env' = [env EXCEPT ![request[r].body.agent] = Secret(r)]
    BY DEF Sync
<1>3. odd' = odd \cup {"crowded"} \/ odd' = odd \cup {}
    BY DEF Sync
<1>4. Secret(r) \in Request
    BY LocalIs DEF Secret, Id, Inv, TypeOK
<1>5. env' \in [Agent -> Request \cup {None}]
    BY <1>2, <1>4 DEF Inv, TypeOK
<1>6. /\ request'[r].at = "record" /\ Same(request'[r], request[r])
      /\ request'[r].project = request[r].project
      /\ Only(r) /\ request' \in [Request -> Local]
    BY <1>2, MoveToMoves DEF Inv, Label
<1>7. Step(r)
    BY <1>1, <1>2, <1>6, SameRows DEF Step, Grown, BoundStep
<1>8. Target(r)'
    BY <1>1, <1>2, <1>6, <1>7, TargetKeeps
<1>9. Stage(r) /\ DetachedFirst(r)
    BY DEF Inv
<1>10. Stage(r)'
    BY <1>1, <1>2, <1>6, <1>9 DEF Stage, Same, Fits
<1>11. DetachedFirst(r)'
    BY <1>1, <1>2, <1>6, <1>9 DEF DetachedFirst, Detached, Id, Same
<1>12. TypeOK' /\ HookOK'
    BY <1>2, <1>3, <1>5, <1>6 DEF Inv, TypeOK, HookOK, Oddity
<1>13. "raced" \notin odd /\ request[r].body.type # "none" => request[r].project \notin gone
    BY <1>1 DEF Inv, SerialOK
<1>14. QED
    BY <1>1, <1>2, <1>6, <1>7, <1>8, <1>10, <1>11, <1>12, <1>13, MoveKeeps DEF Same

LEMMA InterruptKeeps ==
    ASSUME Inv, NEW r \in Request, Interrupt(r)
    PROVE  Inv'
<1>1. /\ Active(r) /\ End(r) /\ UNCHANGED <<bound, mirror, hook, hooks, env, gone, asked>>
      /\ odd \subseteq odd'
    BY DEF Interrupt
<1>2. odd' \subseteq Oddity
    <2>1. odd' = odd \cup {"cut"} \/ odd' = odd \cup {"unrouted"} \/ odd' = odd \cup {}
        BY DEF Interrupt
    <2>2. QED
        BY <2>1 DEF Inv, TypeOK, Oddity
<1>3. QED
    BY <1>1, <1>2, EndKeeps

-------------------------------------------------------------------------------
LEMMA EndsWell ==
    ASSUME Inv, NEW r \in Request, End(r)
    PROVE  /\ Only(r) /\ request' \in [Request -> Local]
           /\ request'[r].at = "done" /\ request'[r].id = None /\ ~Active(r)' /\ Past(r)'
           /\ Target(r)' /\ Stage(r)' /\ DetachedFirst(r)'
<1>1. request'[r] = Ended /\ Only(r) /\ request' \in [Request -> Local]
    BY EndedIs, GoMoves DEF Inv, End
<1>2. ~Active(r)'
    BY <1>1, EndedIs DEF Active, Label
<1>3. Target(r)' /\ Stage(r)' /\ DetachedFirst(r)'
    BY <1>1, <1>2, EndedIs DEF Target, Stage, DetachedFirst
<1>4. QED
    BY <1>1, <1>2, <1>3, EndedIs DEF Past

\* The row that r writes: in place it repeats the number and the project, else it
\* is the first row of its id, which nobody is about.
LEMMA RecordedRow ==
    ASSUME Inv, NEW r \in Request, request[r].at = "record"
    PROVE  /\ Id(r) \in Request /\ request[r].body \in Body
           /\ NewRow(r) \in Row
           /\ Id(r) = r => NewRow(r).num = request[r].body.num
           /\ Fits(NewRow(r).type, NewRow(r).project)
           /\ bound[Id(r)] # None => NewRow(r).project = bound[Id(r)].project
           /\ \A q \in Request : Active(q) /\ request[q].id = Id(r) =>
                  /\ Id(r) = request[r].id /\ Past(Id(r))
                  /\ NewRow(r).num = request[q].old.num
                  /\ NewRow(r).project = request[q].old.project
           /\ \A q \in Request : request[q].at = "drop" => request[q].id # r
           /\ Id(r) # r => /\ Id(r) = request[r].id /\ Past(Id(r))
                           /\ mirror[Id(r)] # None => mirror[Id(r)].num = NewRow(r).num
           /\ mirror[r] = None
<1>1. /\ Active(r) /\ ~Past(r) /\ request[r].body \in Body
      /\ request[r].kind \in {"add", "update"}
    BY Kinds DEF Active, Label, Past
<1>2. /\ NewRow(r) \in Row /\ NewRow(r).num = NewNum(r)
      /\ NewRow(r).type = request[r].body.type
      /\ request[r].body.type = "none" => NewRow(r).project = None
      /\ request[r].body.type # "none" => NewRow(r).project = request[r].project
    BY <1>1, AboutRow, NewRowIs DEF Inv, Knows
<1>3. \A q \in Request : Active(q) /\ request[q].id # None =>
          /\ request[q].id \in Request /\ Past(request[q].id)
          /\ bound[request[q].id] # None => request[q].old.project = bound[request[q].id].project
          /\ mirror[request[q].id] # None => mirror[request[q].id].num = request[q].old.num
    BY AboutRow DEF Knows
<1>4. r # None
    BY NoneIsNone DEF Project
<1>5. \A q \in Request : Active(q) => request[q].id # r
    BY <1>1, <1>3, <1>4
<1>6. /\ Id(r) = r => NewNum(r) = request[r].body.num
      /\ Id(r) # r => NewNum(r) = request[r].old.num
    BY <1>1, <1>5, IdIs DEF NewNum
<1>7. Id(r) # r => /\ Id(r) = request[r].id /\ request[r].id # None
                   /\ request[r].project = request[r].old.project
                   /\ request[r].body.type # "none"
    BY IdIs
<1>8. Stage(r)
    BY DEF Inv
<1>9. Fits(NewRow(r).type, NewRow(r).project)
    BY <1>1, <1>2, <1>8 DEF Stage, Fits, AgentRouting
<1>10. bound[Id(r)] # None => NewRow(r).project = bound[Id(r)].project
    <2>1. CASE Id(r) = r
        BY <1>2, <1>8, <2>1 DEF Stage
    <2>2. CASE Id(r) # r
        BY <1>1, <1>2, <1>3, <1>7, <2>2
    <2>3. QED
        BY <2>1, <2>2
<1>11. ASSUME NEW q \in Request, Active(q), request[q].id = Id(r)
       PROVE  /\ Id(r) = request[r].id /\ Past(Id(r))
              /\ NewRow(r).num = request[q].old.num
              /\ NewRow(r).project = request[q].old.project
    <2>1. Id(r) # r
        BY <1>5, <1>11
    <2>2. /\ request[r].old.num = request[q].old.num
          /\ request[r].old.project = request[q].old.project
        BY <1>1, <1>7, <1>11, <2>1 DEF Inv, PairOK
    <2>3. QED
        BY <1>1, <1>2, <1>3, <1>6, <1>7, <2>1, <2>2
<1>12. \A q \in Request : request[q].at = "drop" => request[q].id # r
    BY <1>5 DEF Active, Label
<1>13. Id(r) \in Request
    BY <1>1, <1>3, <1>7
<1>14. mirror[r] = None
    BY <1>1 DEF Inv, RowOK
<1>15. Id(r) # r => /\ Id(r) = request[r].id /\ Past(Id(r))
                    /\ mirror[Id(r)] # None => mirror[Id(r)].num = NewRow(r).num
    BY <1>1, <1>2, <1>3, <1>6, <1>7
<1>16. QED
    BY <1>1, <1>2, <1>6, <1>9, <1>10, <1>11, <1>12, <1>13, <1>14, <1>15

-------------------------------------------------------------------------------
LEMMA RecordKeeps ==
    ASSUME Inv, NEW r \in Request, Record(r)
    PROVE  Inv'
<1>1. /\ request[r].at = "record" /\ Active(r) /\ ~Past(r)
      /\ request[r].kind \in {"add", "update"} /\ request[r].body \in Body
      /\ UNCHANGED <<bound, hook, hooks, env, gone, asked, odd>>
    BY Kinds DEF Record, Inv, Active, Label, Past
<1> DEFINE row == NewRow(r)
<1>2. PICK x \in Request : x = Id(r)
    BY <1>1, RecordedRow
<1>3. /\ row \in Row /\ Fits(row.type, row.project)
      /\ x = r => row.num = request[r].body.num
      /\ bound[x] # None => row.project = bound[x].project
      /\ \A q \in Request : Active(q) /\ request[q].id = x =>
             /\ x = request[r].id /\ Past(x)
             /\ row.num = request[q].old.num /\ row.project = request[q].old.project
      /\ \A q \in Request : request[q].at = "drop" => request[q].id # r
      /\ x # r => /\ x = request[r].id /\ Past(x)
                  /\ mirror[x] # None => mirror[x].num = row.num
      /\ mirror[r] = None
    BY <1>1, <1>2, RecordedRow
<1>4. row.type # "none" => row.project = request[r].project /\ request[r].body.type # "none"
    BY <1>1, AboutRow, NewRowIs DEF Inv, Knows
<1>5. mirror' = [mirror EXCEPT ![x] = row]
    BY <1>2 DEF Record
<1> HIDE DEF row
<1>6. /\ mirror' \in [Request -> Row \cup {None}] /\ mirror'[x] = row /\ row # None
      /\ \A i \in Request : i # x => mirror'[i] = mirror[i]
    BY <1>3, <1>5, NoneIsNone DEF Inv, TypeOK
<1>7. /\ Only(r) /\ request' \in [Request -> Local] /\ Past(r)'
      /\ \/ request'[r].at = "done" /\ request'[r].id = None
         \/ /\ request'[r].at = "drop" /\ Same(request'[r], request[r])
            /\ request[r].id # None /\ request[r].id # x
    <2>1. CASE request[r].id \in {None, Id(r)}
        BY <2>1, EndsWell DEF Record
    <2>2. CASE request[r].id \notin {None, Id(r)}
        <3>1. MoveTo(r, "drop")
            BY <2>2 DEF Record
        <3>2. request'[r].at = "drop" /\ Same(request'[r], request[r]) /\ Only(r)
              /\ request' \in [Request -> Local]
            BY <3>1, MoveToMoves DEF Inv, Label
        <3>3. QED
            BY <1>2, <2>2, <3>2 DEF Past
    <2>3. QED
        BY <2>1, <2>2
<1>8. RowStep(r)
    <2>1. ASSUME NEW i \in Request, NEW q \in Request, q # r, request[q].id = i, Active(q),
                 mirror'[i] # None
          PROVE  mirror'[i].num = request[q].old.num /\ mirror'[i].project = request[q].old.project
        <3>1. CASE i = x
            BY <1>3, <1>6, <2>1, <3>1
        <3>2. CASE i # x
            <4>1. Knows(q, request[q].id, request[q].old)
                BY <2>1, AboutRow, NoneIsNone DEF Project
            <4>2. QED
                BY <1>6, <2>1, <3>2, <4>1 DEF Knows
        <3>3. QED
            BY <3>1, <3>2
    <2>2. QED
        BY <2>1 DEF RowStep
<1>9. Step(r)
    BY <1>1, <1>7, <1>8 DEF Step, Grown, BoundStep, Past
<1>10. \A q \in Request : Active(q)' => Active(q)
    BY <1>1, <1>7 DEF Active, Only
<1>11. TypeOK' /\ HookOK'
    BY <1>1, <1>6, <1>7 DEF Inv, TypeOK, HookOK
<1>12. BoundOK'
    BY <1>1, <1>7 DEF Inv, BoundOK, Only, Past, Fits
<1>13. RowOK'
    <2>1. ASSUME NEW i \in Request, mirror'[i] # None
          PROVE  /\ Past(i)' /\ Fits(mirror[i].type, mirror[i].project)'
                 /\ bound'[i] # None => mirror'[i].project = bound'[i].project
        <3>1. CASE i = x
            <4>1. Past(x)'
                BY <1>3, <1>7, <1>9, PastKeeps
            <4>2. QED
                BY <1>1, <1>3, <1>6, <3>1, <4>1 DEF Fits
        <3>2. CASE i # x
            <4>1. /\ Past(i) /\ Fits(mirror[i].type, mirror[i].project)
                  /\ bound[i] # None => mirror[i].project = bound[i].project
                BY <1>6, <2>1, <3>2 DEF Inv, RowOK
            <4>2. QED
                BY <1>1, <1>6, <1>9, <3>2, <4>1, PastKeeps DEF Fits
        <3>3. QED
            BY <3>1, <3>2
    <2>2. QED
        BY <2>1 DEF RowOK
<1>14. PairOK'
    BY <1>7, <1>10 DEF Inv, PairOK, Only, Same
<1>15. ReplacedOK'
    <2>1. ASSUME Replacing(r)'
          PROVE  /\ x = r /\ mirror'[r] # None /\ mirror'[r].num = request[r].old.num
                 /\ \A s \in Request : ~Replaces(s, r)'
                 /\ request'[r].old = request[r].old
        <3>1. x = r
            BY <1>3, <1>7, <2>1 DEF Replacing
        <3>2. request[r].body.num = request[r].old.num /\ request[r].id # r
            BY <1>1, <1>7, <2>1, AboutRow DEF Knows, Replacing, Same
        <3>3. \A s \in Request : ~Replaces(s, r)'
            BY <1>3, <1>7, <3>2 DEF Replaces, Replacing, Only, Same
        <3>4. request'[r].old = request[r].old
            BY <1>7, <2>1 DEF Replacing, Same
        <3>5. row.num = request[r].old.num
            BY <1>3, <3>1, <3>2
        <3>6. QED
            BY <1>6, <3>1, <3>3, <3>4, <3>5
    <2>2. ASSUME NEW q \in Request, Replacing(q)'
          PROVE  \/ request'[q].old.num \in asked
                 \/ \E j \in Request : /\ mirror'[j] # None
                                       /\ mirror'[j].num = request'[q].old.num
                                       /\ \A s \in Request : ~Replaces(s, j)'
        <3>1. CASE q = r
            BY <2>1, <2>2, <3>1
        <3>2. CASE q # r /\ request[q].old.num \notin asked
            <4>1. request'[q] = request[q]
                BY <1>7, <3>2 DEF Only
            <4>2. PICK j \in Request : /\ mirror[j] # None /\ mirror[j].num = request[q].old.num
                                       /\ \A s \in Request : ~Replaces(s, j)
                BY <2>2, <3>2, <4>1 DEF Inv, ReplacedOK, Replacing
            <4>3. mirror'[j] # None /\ mirror'[j].num = mirror[j].num
                BY <1>3, <1>6, <4>2
            <4>4. CASE Replacing(r)' /\ request[r].id = j
                <5>1. mirror[j].num = request[r].old.num
                    BY <1>1, <1>7, <4>2, <4>4, AboutRow DEF Knows, Replacing
                <5>2. QED
                    BY <2>1, <4>1, <4>2, <4>4, <5>1
            <4>5. CASE ~(Replacing(r)' /\ request[r].id = j)
                <5>1. \A s \in Request : ~Replaces(s, j)'
                    BY <1>7, <4>2, <4>5 DEF Replaces, Replacing, Only, Same
                <5>2. QED
                    BY <4>1, <4>2, <4>3, <5>1
            <4>6. QED
                BY <4>4, <4>5
        <3>3. CASE q # r /\ request[q].old.num \in asked
            BY <1>7, <3>3 DEF Only
        <3>4. QED
            BY <3>1, <3>2, <3>3
    <2>3. QED
        BY <1>1, <2>2 DEF ReplacedOK
<1>16. SerialOK'
    <2>1. ASSUME "raced" \notin odd
          PROVE  /\ \A q, s \in Request : Active(q)' /\ Active(s)' => q = s
                 /\ \A q \in Request : request'[q].at \notin {"sync", "record", "project"}
        <3>1. \A q, s \in Request : Active(q) /\ Active(s) => q = s
            BY <2>1 DEF Inv, SerialOK
        <3>2. \A q \in Request : q # r => ~Active(q)
            BY <1>1, <3>1
        <3>3. QED
            BY <1>7, <1>10, <3>1, <3>2 DEF Only, Active, Label
    <2>2. QED
        BY <1>1, <2>1 DEF SerialOK
<1>17. KeyOutlivesRow'
    <2>1. ASSUME "raced" \notin odd, NEW i \in Request, mirror'[i] # None, mirror'[i].type # "none"
          PROVE  mirror'[i].project \notin gone
        <3>1. CASE i = x
            BY <1>1, <1>4, <1>6, <2>1, <3>1 DEF Inv, SerialOK
        <3>2. CASE i # x
            BY <1>6, <2>1, <3>2 DEF Inv, KeyOutlivesRow, RoutedRow
        <3>3. QED
            BY <3>1, <3>2
    <2>2. QED
        BY <1>1, <2>1 DEF KeyOutlivesRow, RoutedRow
<1>18. Target(r)' /\ Stage(r)' /\ DetachedFirst(r)'
    <2>1. CASE request'[r].at = "done"
        BY <1>7, <2>1 DEF Target, Stage, DetachedFirst, Active, Label
    <2>2. CASE request'[r].at = "drop"
        <3>1. /\ Same(request'[r], request[r]) /\ request[r].id # None
              /\ request[r].id # x /\ request[r].kind = "update"
              /\ Knows(r, request[r].id, request[r].old)
            BY <1>1, <1>7, <2>2, AboutRow, Kinds
        <3>2. PICK i \in Request, old \in Row : i = request[r].id /\ old = request[r].old
            BY <3>1 DEF Knows
        <3>3. Knows(r, i, old) /\ i # x
            BY <3>1, <3>2
        <3>4. Knows(r, i, old)'
            BY <1>1, <1>6, <1>9, <3>3, PastKeeps DEF Knows, Fits
        <3>5. Target(r)'
            BY <1>1, <2>2, <3>1, <3>2, <3>4 DEF Target, Same
        <3>6. Detached(i)
            BY <1>1, <1>2, <3>1, <3>2 DEF Inv, DetachedFirst
        <3>7. DetachedFirst(r)'
            BY <1>1, <2>2, <3>1, <3>2, <3>6 DEF DetachedFirst, Detached, Same
        <3>8. Stage(r)'
            BY <2>2 DEF Stage
        <3>9. QED
            BY <3>5, <3>7, <3>8
    <2>3. QED
        BY <1>7, <2>1, <2>2
<1>19. \A q \in Request : Target(q)' /\ Stage(q)' /\ DetachedFirst(q)'
    BY <1>9, <1>18, OthersKeep
<1>20. QED
    BY <1>11, <1>12, <1>13, <1>14, <1>15, <1>16, <1>17, <1>19 DEF Inv

LEMMA DropKeeps ==
    ASSUME Inv, NEW r \in Request, Drop(r)
    PROVE  Inv'
<1>1. /\ request[r].at = "drop" /\ Active(r) /\ Past(r) /\ request[r].kind \in {"update", "delete"}
      /\ End(r) /\ UNCHANGED <<bound, hook, hooks, env, gone, odd>>
      /\ asked' = asked \cup (IF Unlists(request[r]) THEN {request[r].old.num} ELSE {})
    BY Kinds DEF Drop, Inv, Active, Label, Past
<1>2. PICK i \in Request, old \in Row : /\ i = request[r].id /\ old = request[r].old
                                      /\ Knows(r, i, old)
    BY <1>1, Kinds, AboutRow DEF Knows
<1>3. /\ mirror' \in [Request -> Row \cup {None}] /\ mirror'[i] = None
      /\ \A j \in Request : j # i => mirror'[j] = mirror[j]
    BY <1>2 DEF Drop, Without, Inv, TypeOK
<1>4. /\ Only(r) /\ request' \in [Request -> Local] /\ request'[r].at = "done"
      /\ Past(r)' /\ ~Active(r)' /\ Target(r)' /\ Stage(r)' /\ DetachedFirst(r)'
    BY <1>1, EndsWell
<1>5. asked \subseteq asked' /\ asked' \subseteq Number
    BY <1>1, <1>2 DEF Inv, TypeOK, Row
<1>6. RowStep(r)
    <2>1. \A q \in Request : Active(q) /\ request[q].id \in Request =>
              Knows(q, request[q].id, request[q].old)
        BY AboutRow, NoneIsNone DEF Project
    <2>2. QED
        BY <1>3, <2>1 DEF RowStep, Knows
<1>7. Step(r)
    BY <1>1, <1>4, <1>6 DEF Step, Grown, BoundStep
<1>8. \A q \in Request : Active(q)' => Active(q) /\ request'[q] = request[q]
    BY <1>4 DEF Active, Only
<1>9. TypeOK' /\ HookOK'
    BY <1>1, <1>3, <1>4, <1>5 DEF Inv, TypeOK, HookOK
<1>10. BoundOK'
    BY <1>1, <1>4 DEF Inv, BoundOK, Only, Past, Fits
<1>11. RowOK'
    BY <1>1, <1>3, <1>4 DEF Inv, RowOK, Only, Past, Fits
<1>12. PairOK'
    BY <1>8 DEF Inv, PairOK
<1>13. ReplacedOK'
    <2>1. ASSUME NEW q \in Request, Replacing(q)',
                 request'[q].old.num \notin asked'
          PROVE  \E j \in Request : /\ mirror'[j] # None
                                    /\ mirror'[j].num = request'[q].old.num
                                    /\ \A s \in Request : ~Replaces(s, j)'
        <3>1. request'[q] = request[q]
            BY <1>4, <2>1 DEF Only, Replacing
        <3>2. PICK j \in Request : /\ mirror[j] # None /\ mirror[j].num = request[q].old.num
                                   /\ \A s \in Request : ~Replaces(s, j)
            BY <1>5, <2>1, <3>1 DEF Inv, ReplacedOK, Replacing
        <3>3. j # i
            <4>1. CASE ~Unlists(request[r])
                BY <1>1, <1>2, <3>2, <4>1 DEF Replaces, Replacing, Unlists
            <4>2. CASE Unlists(request[r])
                BY <1>1, <1>2, <2>1, <3>1, <3>2, <4>2 DEF Knows
            <4>3. QED
                BY <4>1, <4>2
        <3>4. \A s \in Request : ~Replaces(s, j)'
            BY <1>4, <3>2 DEF Replaces, Replacing, Only
        <3>5. QED
            BY <1>3, <3>1, <3>2, <3>3, <3>4
    <2>2. QED
        BY <2>1 DEF ReplacedOK
<1>14. SerialOK'
    BY <1>1, <1>3, <1>4, <1>8 DEF Inv, SerialOK, RoutesTo, RoutedRow, Only
<1>15. KeyOutlivesRow'
    BY <1>1, <1>3 DEF Inv, KeyOutlivesRow, RoutedRow
<1>16. \A q \in Request : Target(q)' /\ Stage(q)' /\ DetachedFirst(q)'
    BY <1>4, <1>7, OthersKeep
<1>17. QED
    BY <1>9, <1>10, <1>11, <1>12, <1>13, <1>14, <1>15, <1>16 DEF Inv

LEMMA RemoveProjectKeeps ==
    ASSUME Inv, NEW r \in Request, RemoveProject(r)
    PROVE  Inv'
<1>1. /\ request[r].at = "project" /\ Active(r) /\ ~Past(r) /\ End(r)
      /\ UNCHANGED <<mirror, hook, hooks, env, asked, odd>>
    BY DEF RemoveProject, Active, Label, Past
<1>2. PICK a \in Agent : a = request[r].project
    BY <1>1, Kinds
<1>3. /\ gone' \subseteq gone \cup {a} /\ gone' \subseteq Agent
      /\ bound' \in [Request -> Row \cup {None}]
      /\ \A i \in Request : bound'[i] # None => bound'[i] = bound[i]
    BY <1>2 DEF RemoveProject, Inv, TypeOK
<1>4. /\ Only(r) /\ request' \in [Request -> Local] /\ request'[r].at = "done"
      /\ Past(r)' /\ ~Active(r)' /\ Target(r)' /\ Stage(r)' /\ DetachedFirst(r)'
    BY <1>1, EndsWell
<1>5. Step(r)
    BY <1>1, <1>3, <1>4, SameRows DEF Step, Grown, BoundStep
<1>6. \A q \in Request : Active(q)' => Active(q) /\ request'[q] = request[q]
    BY <1>4 DEF Active, Only
<1>7. TypeOK' /\ HookOK'
    BY <1>1, <1>3, <1>4 DEF Inv, TypeOK, HookOK
<1>8. BoundOK' /\ RowOK'
    BY <1>1, <1>4, <1>5, BoundRowKeep
<1>9. PairOK'
    BY <1>6 DEF Inv, PairOK
<1>10. ReplacedOK'
    BY <1>1, <1>4 DEF Inv, ReplacedOK, Replaces, Replacing, Only
<1>11. "raced" \notin odd => /\ \A q \in Request : ~Active(q)'
                             /\ \A i \in Request : ~RoutesTo(i, a)
    BY <1>1, <1>2, <1>4, <1>6 DEF Inv, SerialOK
<1>12. SerialOK'
    BY <1>1, <1>11 DEF SerialOK, Active, Label
<1>13. KeyOutlivesRow'
    BY <1>1, <1>3, <1>11 DEF Inv, KeyOutlivesRow, RoutedRow, RoutesTo
<1>14. \A q \in Request : Target(q)' /\ Stage(q)' /\ DetachedFirst(q)'
    BY <1>4, <1>5, OthersKeep
<1>15. QED
    BY <1>7, <1>8, <1>9, <1>10, <1>12, <1>13, <1>14 DEF Inv

-------------------------------------------------------------------------------
(* The theorems.                                                            *)

LEMMA Initial == Init => Inv
<1> SUFFICES ASSUME Init
             PROVE  Inv
    OBVIOUS
<1>1. \A r \in Request : request[r] = Idle /\ bound[r] = None /\ mirror[r] = None
    BY DEF Init
<1>2. TypeOK
    BY IdleIs DEF Init, TypeOK
<1>3. \A r \in Request : ~Active(r) /\ request[r].at = "idle"
    BY <1>1, IdleIs DEF Active, Label
<1>4. HookOK /\ BoundOK /\ RowOK /\ PairOK /\ ReplacedOK
    BY <1>1, <1>3 DEF Init, HookOK, BoundOK, RowOK, PairOK, ReplacedOK, Replacing
<1>5. SerialOK /\ KeyOutlivesRow
    BY <1>1, <1>3 DEF SerialOK, KeyOutlivesRow, RoutedRow
<1>6. \A r \in Request : Target(r) /\ Stage(r) /\ DetachedFirst(r)
    BY <1>3 DEF Target, Stage, DetachedFirst
<1>7. QED
    BY <1>2, <1>4, <1>5, <1>6 DEF Inv

LEMMA StutterKeeps ==
    ASSUME Inv, UNCHANGED vars
    PROVE  Inv'
<1>1. TypeOK' /\ HookOK' /\ SerialOK' /\ KeyOutlivesRow'
    BY DEF vars, Inv, TypeOK, HookOK, SerialOK, KeyOutlivesRow, Active, RoutesTo, RoutedRow
<1>2. BoundOK' /\ RowOK'
    BY DEF vars, Inv, BoundOK, RowOK, Past, Fits
<1>3. PairOK' /\ ReplacedOK'
    BY DEF vars, Inv, PairOK, ReplacedOK, Replaces, Replacing, Active
<1>4. ASSUME NEW r \in Request
      PROVE  Target(r)' /\ Stage(r)' /\ DetachedFirst(r)'
    <2>1. Target(r) /\ Stage(r) /\ DetachedFirst(r)
        BY DEF Inv
    <2>2. Target(r)'
        BY <2>1 DEF vars, Target, Active, Knows, Past, Fits
    <2>3. Stage(r)'
        BY <2>1 DEF vars, Stage, Fits
    <2>4. DetachedFirst(r)'
        BY <2>1 DEF vars, DetachedFirst, Detached, Id
    <2>5. QED
        BY <2>2, <2>3, <2>4
<1>5. QED
    BY <1>1, <1>2, <1>3, <1>4 DEF Inv

LEMMA NextKeeps ==
    ASSUME Inv, Next
    PROVE  Inv'
<1>1. PICK r \in Request :
          \/ BeginAdd(r) \/ BeginUpdate(r) \/ BeginDelete(r) \/ BeginRemove(r)
          \/ ReadHook(r) \/ CreateHook(r) \/ SaveHook(r)
          \/ Put(r) \/ Unbind(r) \/ Bind(r)
          \/ Sync(r) \/ Record(r) \/ Drop(r) \/ RemoveProject(r)
          \/ Interrupt(r)
    BY DEF Next
<1>2. CASE BeginAdd(r) \/ BeginUpdate(r) \/ BeginDelete(r) \/ BeginRemove(r)
    BY <1>2, BeginAddKeeps, BeginUpdateKeeps, BeginDeleteKeeps, BeginRemoveKeeps
<1>3. CASE ReadHook(r) \/ CreateHook(r) \/ SaveHook(r)
    BY <1>3, ReadHookKeeps, CreateHookKeeps, SaveHookKeeps
<1>4. CASE Put(r) \/ Unbind(r) \/ Bind(r)
    BY <1>4, PutKeeps, UnbindKeeps, BindKeeps
<1>5. CASE Sync(r) \/ Record(r) \/ Drop(r)
    BY <1>5, SyncKeeps, RecordKeeps, DropKeeps
<1>6. CASE RemoveProject(r) \/ Interrupt(r)
    BY <1>6, RemoveProjectKeeps, InterruptKeeps
<1>7. QED
    BY <1>1, <1>2, <1>3, <1>4, <1>5, <1>6

\* The inductive invariant: what each request in flight knows and has established.
THEOREM Invariant == Spec => []Inv
<1>1. Inv /\ [Next]_vars => Inv'
    BY NextKeeps, StutterKeeps
<1>2. QED
    BY Initial, <1>1, PTL DEF Spec

\* Bindings, rows, secrets and requests in flight are what their types say.
THEOREM TypeCorrect == Spec => []TypeOK
<1>1. Inv => TypeOK
    BY DEF Inv
<1>2. QED
    BY <1>1, Invariant, PTL

\* phones.py and agents.py:135: the agent whose project a listed number needs is not
\* deleted under it, however requests fail, as long as they come one at a time.
THEOREM KeyOutlivesRowThm == Spec => []KeyOutlivesRow
<1>1. Inv => KeyOutlivesRow
    BY DEF Inv
<1>2. QED
    BY <1>1, Invariant, PTL

\* Only Record and Drop write the mirror.
LEMMA OthersLeaveTheMirror ==
    ASSUME Inv, Next
    PROVE  UNCHANGED mirror \/ \E r \in Request : Record(r) \/ Drop(r)
    BY DEF Next, BeginAdd, BeginUpdate, BeginDelete, BeginRemove, Begin, ReadHook, CreateHook,
           SaveHook, Put, Unbind, Bind, Sync, RemoveProject, Interrupt

LEMMA RecordListsAll ==
    ASSUME Inv, NEW r \in Request, Record(r)
    PROVE  /\ \A i \in Request : mirror[i] # None => mirror'[i] # None
           /\ \A n \in Number : Listed(n) => Listed(n)'
<1>1. PICK x \in Request : x = Id(r)
    BY RecordedRow DEF Record
<1>2. PICK row \in Row : row = NewRow(r)
    BY RecordedRow DEF Record
<1>3. x # r => (mirror[x] # None => mirror[x].num = row.num)
    BY <1>1, <1>2, RecordedRow DEF Record
<1>4. mirror[r] = None
    BY RecordedRow DEF Record
<1>5. mirror' = [mirror EXCEPT ![x] = row]
    BY <1>1, <1>2 DEF Record
<1>6. \A i \in Request : mirror[i] # None =>
          mirror'[i] # None /\ mirror'[i].num = mirror[i].num
    BY <1>3, <1>4, <1>5, NoneIsNone DEF Inv, TypeOK
<1>7. QED
    BY <1>6 DEF Listed

LEMMA DropUnlistsAsked ==
    ASSUME Inv, NEW r \in Request, Drop(r)
    PROVE  /\ \A i \in Request : mirror[i] # None /\ mirror'[i] = None => Detached(i)
           /\ \A n \in Number : Listed(n) /\ ~Listed(n)' => n \in asked'
<1>1. /\ request[r].at = "drop" /\ Active(r) /\ request[r].kind \in {"update", "delete"}
      /\ asked' = asked \cup (IF Unlists(request[r]) THEN {request[r].old.num} ELSE {})
    BY Kinds DEF Drop, Active, Label
<1>2. PICK i \in Request, old \in Row : /\ i = request[r].id /\ old = request[r].old
                                      /\ i # None /\ Knows(r, i, old)
    BY <1>1, Kinds, AboutRow DEF Knows
<1>3. mirror'[i] = None /\ \A j \in Request : j # i => mirror'[j] = mirror[j]
    BY <1>2 DEF Drop, Without, Inv, TypeOK
<1>4. Detached(i)
    BY <1>1, <1>2 DEF Inv, DetachedFirst
<1>5. ASSUME NEW n \in Number, Listed(n), ~Listed(n)', n \notin asked'
      PROVE  FALSE
    <2>1. PICK j \in Request : mirror[j] # None /\ mirror[j].num = n
        BY <1>5 DEF Listed
    <2>2. j = i /\ n = old.num
        BY <1>2, <1>3, <1>5, <2>1 DEF Listed, Knows
    <2>3. Replacing(r) /\ n \notin asked
        BY <1>1, <1>2, <1>5, <2>2 DEF Replacing, Unlists
    <2>4. PICK k \in Request : /\ mirror[k] # None /\ mirror[k].num = n
                               /\ \A s \in Request : ~Replaces(s, k)
        BY <1>1, <1>2, <2>2, <2>3 DEF Inv, ReplacedOK
    <2>5. k # i
        BY <1>2, <2>3, <2>4 DEF Replaces
    <2>6. QED
        BY <1>3, <1>5, <2>4, <2>5 DEF Listed
<1>6. QED
    BY <1>3, <1>4, <1>5

\* phones.py:29-45, 243-260: whatever races or fails, a number leaves the list only
\* when a DELETE or a move to another asked for it, and a row only once its binding is gone.
THEOREM ListedUntilDeletedThm == Spec => ListedUntilDeleted
<1> DEFINE Step1 == /\ \A i \in Request : mirror[i] # None /\ mirror'[i] = None =>
                           bound[i] = None \/ bound[i].project \in hooks \ {hook}
                    /\ \A n \in Number : Listed(n) /\ ~Listed(n)' => n \in asked'
<1>1. ASSUME Inv, [Next]_vars
      PROVE  Step1
    <2>1. CASE UNCHANGED mirror
        BY <2>1 DEF Listed
    <2>2. ASSUME NEW r \in Request, Record(r)
          PROVE  Step1
        BY <1>1, <2>2, RecordListsAll
    <2>3. ASSUME NEW r \in Request, Drop(r)
          PROVE  Step1
        BY <1>1, <2>3, DropUnlistsAsked DEF Detached
    <2>4. CASE UNCHANGED vars
        BY <2>1, <2>4 DEF vars
    <2>5. QED
        BY <1>1, <2>1, <2>2, <2>3, <2>4, OthersLeaveTheMirror
<1>2. QED
    BY <1>1, Invariant, PTL DEF Spec, ListedUntilDeleted

-------------------------------------------------------------------------------
(* The mirror agrees and the .env verifies, when requests come one at a time *)
(* and none is cut short.                                                   *)

Recording(r) == request[r].at \in {"sync", "record"}

\* What r, the only request in flight, has in hand.
InHand(r, i) == \/ request[r].at \in {"bind", "drop"} /\ request[r].id = i
                \/ Recording(r) /\ i \in {Id(r), request[r].id}

LEMMA PlainIs ==
    ASSUME Inv, PlainOK, Plain, NEW r \in Request, Active(r)
    PROVE  /\ \A q \in Request : q # r => ~Active(q)
           /\ InStep(r) /\ \A i \in Request : Agrees(i) \/ InHand(r, i)
           /\ hooks \subseteq {hook} \/ (request[r].at = "savehook" /\ hooks = {r})
           /\ request[r].at \in {"mkhook", "savehook"} => hook = None
<1>1. \A q \in Request : q # r => ~Active(q)
    BY DEF Inv, SerialOK, Plain
<1>2. \A i \in Request : Touched(i) => InHand(r, i)
    BY <1>1 DEF Touched, InHand, Recording, Active, Label
<1>3. QED
    BY <1>1, <1>2 DEF PlainOK, Active, Label

LEMMA PlainKeeps ==
    ASSUME NEW r \in Request, Only(r), odd \subseteq odd',
           Plain => /\ \A q \in Request : q # r => ~Active(q)
                    /\ Plain' =>
                       /\ \A i \in Request : Agrees(i)' \/ InHand(r, i)'
                       /\ InStep(r)'
                       /\ hooks' \subseteq {hook'} \/ (request'[r].at = "savehook" /\ hooks' = {r})
                       /\ request'[r].at \in {"mkhook", "savehook"} => hook' = None
    PROVE  PlainOK'
<1> SUFFICES ASSUME Plain'
             PROVE  /\ \A i \in Request : Agrees(i)' \/ Touched(i)'
                    /\ \A q \in Request : InStep(q)'
                    /\ \/ hooks' \subseteq {hook'}
                       \/ \E q \in Request : request'[q].at = "savehook" /\ hooks' = {q}
                    /\ \A q \in Request : request'[q].at \in {"mkhook", "savehook"} => hook' = None
    BY DEF PlainOK
<1>1. Plain
    BY DEF Plain
<1>2. \A q \in Request : q # r => request'[q].at \notin Label
    BY <1>1 DEF Only, Active
<1>3. \A q \in Request : InStep(q)'
    BY <1>1, <1>2 DEF InStep, Label
<1>4. \A i \in Request : Agrees(i)' \/ Touched(i)'
    BY <1>1 DEF Touched, InHand, Recording
<1>5. QED
    BY <1>1, <1>2, <1>3, <1>4 DEF Label

\* A step of r that writes neither a row nor a secret.
LEMMA SecretKeeps ==
    ASSUME Inv, SecretOK, NEW r \in Request, Only(r), odd \subseteq odd',
           odd = {} => \A q \in Request : q # r => ~Active(q),
           odd' = {} => ~Recording(r), env' = env,
           \A i \in Request : mirror'[i] # None =>
               /\ mirror'[i] = mirror[i]
               /\ bound'[i] # None => bound[i] # None \/ (Recording(r)' /\ Id(r)' = i),
           request'[r].at = "record" => request'[r].body.type # "agent_call_init"
    PROVE  SecretOK'
<1> SUFFICES ASSUME odd' = {}
             PROVE  SecretOK'
    BY DEF SecretOK
<1>1. odd = {} /\ ~Recording(r) /\ \A q \in Request : q # r => ~Active(q)
    OBVIOUS
<1>2. \A q \in Request : ~Recording(q)
    BY <1>1 DEF Recording, Active, Label
<1>3. ASSUME NEW i \in Request, mirror'[i] # None, mirror'[i].type = "agent_call_init",
             bound'[i] # None, \A q \in Request : ~(Recording(q)' /\ Id(q)' = i)
      PROVE  env'[mirror'[i].project] = i
    <2>1. mirror[i] # None /\ mirror[i].type = "agent_call_init" /\ bound[i] # None
        BY <1>3
    <2>2. QED
        BY <1>1, <1>2, <1>3, <2>1 DEF SecretOK, Recording
<1>4. \A q \in Request : q # r => request'[q].at # "record"
    BY <1>1 DEF Only, Active, Label
<1>5. QED
    BY <1>3, <1>4 DEF SecretOK, Recording

LEMMA SerialOdd ==
    ASSUME Inv, PlainOK, NEW r \in Request, Active(r), odd = {}
    PROVE  Plain /\ \A q \in Request : q # r => ~Active(q)
<1>1. Plain
    BY DEF Plain
<1>2. QED
    BY <1>1, PlainIs

LEMMA BeginAgrees ==
    ASSUME Inv, PlainOK, SecretOK, NEW r \in Request, NEW local \in Local, Begin(r, local),
           local.at \notin {"sync", "mkhook", "savehook"},
           local.at = "record" => local.body.type = "none",
           local.at \in {"bind", "drop", "record"} /\ local.id # None => bound[local.id] = None
    PROVE  PlainOK' /\ SecretOK'
<1>1. /\ Go(r, local) /\ UNCHANGED <<bound, mirror, hook, hooks, env, gone, asked>>
      /\ request[r].at = "idle" /\ odd \subseteq odd'
    BY DEF Begin
<1>2. request'[r] = local /\ Only(r)
    BY <1>1, GoMoves DEF Inv
<1>3. "raced" \notin odd' => \A q \in Request : ~Active(q)
    BY DEF Begin, Quiet
<1>4. bound[r] = None /\ ~Recording(r)
    BY <1>1 DEF Inv, BoundOK, Past, Recording
<1>5. ASSUME Plain'
      PROVE  /\ \A q \in Request : ~Active(q)
             /\ \A i \in Request : Agrees(i)' \/ InHand(r, i)'
             /\ InStep(r)'
             /\ hooks' \subseteq {hook'} \/ (request'[r].at = "savehook" /\ hooks' = {r})
             /\ request'[r].at \in {"mkhook", "savehook"} => hook' = None
    <2>1. Plain /\ \A q \in Request : ~Active(q)
        BY <1>1, <1>3, <1>5 DEF Plain
    <2>2. /\ \A i \in Request : Agrees(i)
          /\ hooks \subseteq {hook}
        BY <2>1 DEF PlainOK, Touched, Active, Label
    <2>3. \A i \in Request : Agrees(i)'
        BY <1>1, <2>2 DEF Agrees, RoutedRow
    <2>4. InStep(r)'
        <3>1. local.at = "record" => Id(r)' = r
            BY <1>2 DEF Id
        <3>2. QED
            BY <1>1, <1>2, <1>4, <3>1 DEF InStep
    <2>5. QED
        BY <1>1, <1>2, <2>1, <2>2, <2>3, <2>4
<1>6. PlainOK'
    <2>1. Plain' => \A q \in Request : ~Active(q)
        BY <1>5
    <2>2. CASE Plain'
        BY <1>1, <1>2, <1>5, <2>1, <2>2, PlainKeeps
    <2>3. CASE ~Plain'
        BY <2>3 DEF PlainOK
    <2>4. QED
        BY <2>2, <2>3
<1>7. SecretOK'
    <2>1. CASE odd' = {}
        <3>1. \A q \in Request : ~Active(q)
            BY <1>3, <2>1
        <3>2. local.at = "record" => local.body.type # "agent_call_init"
            OBVIOUS
        <3>3. QED
            BY <1>1, <1>2, <1>4, <3>1, <3>2, SecretKeeps
    <2>2. CASE odd' # {}
        BY <2>2 DEF SecretOK
    <2>3. QED
        BY <2>1, <2>2
<1>8. QED
    BY <1>6, <1>7

\* A request that ends without a change, with nothing in hand.
LEMMA EndAgrees ==
    ASSUME Inv, PlainOK, SecretOK, NEW r \in Request, Active(r), End(r),
           UNCHANGED <<bound, mirror, hook, hooks, env>>, odd \subseteq odd',
           Plain' => \A i \in Request : Agrees(i),
           Plain' => ~Recording(r) /\ request[r].at # "savehook"
    PROVE  PlainOK' /\ SecretOK'
<1>1. Only(r) /\ request'[r].at = "done"
    BY EndsWell
<1>2. PlainOK'
    <2>1. ASSUME Plain
          PROVE  /\ \A q \in Request : q # r => ~Active(q)
                 /\ hooks \subseteq {hook} \/ request[r].at = "savehook"
        BY <2>1, PlainIs
    <2>2. Plain' => \A i \in Request : Agrees(i)'
        BY DEF Agrees, RoutedRow
    <2>3. InStep(r)'
        BY <1>1 DEF InStep
    <2>4. QED
        BY <1>1, <2>1, <2>2, <2>3, PlainKeeps
<1>3. odd' = {} => Plain'
    BY DEF Plain
<1>4. SecretOK'
    BY <1>1, <1>3, SerialOdd, SecretKeeps
<1>5. QED
    BY <1>2, <1>4

-------------------------------------------------------------------------------
LEMMA BeginResolvingAgrees ==
    ASSUME Inv, PlainOK, SecretOK, NEW r \in Request, NEW base \in Local, base.body \in Body,
           Begin(r, Resolving(base)),
           base.id # None => /\ base.id \in Request /\ mirror[base.id] # None
                             /\ base.old = mirror[base.id]
    PROVE  PlainOK' /\ SecretOK'
<1> DEFINE new == Resolving(base)
<1>1. /\ new \in Local /\ Same(new, base)
      /\ base.body.type \in AgentRouting => new = Routed(base, base.body.agent)
      /\ base.body.type = "webhook" => new.at = "resolve"
      /\ base.body.type = "none" => /\ RoutedRow(base.old) => new.at = "unbind"
                                    /\ ~RoutedRow(base.old) => new.at = "record"
    BY ResolvingIs
<1>2. base.body.type \in Routing /\ (base.body.type \in AgentRouting => base.body.agent \in Agent)
    BY BodyIs
<1>3. base.body.type \in AgentRouting =>
          /\ ~RoutedRow(base.old) => new.at = "bind"
          /\ RoutedRow(base.old) => new.at \in {"put", "unbind"}
    BY <1>1, <1>2, RoutedIs DEF Project
<1>4. Begin(r, new)
    OBVIOUS
<1> HIDE DEF new
<1>5. /\ new.at \notin {"sync", "mkhook", "savehook", "drop"}
      /\ new.at = "record" => base.body.type = "none"
      /\ new.at \in {"bind", "record"} => ~RoutedRow(base.old)
    BY <1>1, <1>2, <1>3 DEF Routing, AgentRouting
<1>6. base.id # None /\ ~RoutedRow(base.old) => bound[base.id] = None
    BY UnroutedRowIsUnbound
<1>7. new.id = base.id /\ new.body = base.body
    BY <1>1 DEF Same
<1>8. QED
    BY <1>1, <1>4, <1>5, <1>6, <1>7, BeginAgrees

LEMMA BeginsAgree ==
    ASSUME Inv, PlainOK, SecretOK, NEW r \in Request,
           BeginAdd(r) \/ BeginUpdate(r) \/ BeginDelete(r) \/ BeginRemove(r)
    PROVE  PlainOK' /\ SecretOK'
<1>1. CASE BeginAdd(r)
    <2>1. PICK b \in Body : Begin(r, Resolving([Idle EXCEPT !.body = b]))
        BY <1>1 DEF BeginAdd
    <2> DEFINE base == [Idle EXCEPT !.body = b]
    <2>2. base \in Local /\ base.body = b /\ base.id = None
        BY IdleIs DEF Local
    <2>3. Begin(r, Resolving(base))
        BY <2>1
    <2> HIDE DEF base
    <2>4. QED
        BY <2>2, <2>3, BeginResolvingAgrees
<1>2. CASE BeginUpdate(r)
    <2>1. PICK i \in Request, b \in Body :
              /\ mirror[i] # None
              /\ Begin(r, Resolving([Idle EXCEPT !.kind = "update", !.body = b, !.id = i,
                                                 !.old = mirror[i]]))
        BY <1>2 DEF BeginUpdate
    <2> DEFINE base == [Idle EXCEPT !.kind = "update", !.body = b, !.id = i, !.old = mirror[i]]
    <2>2. base \in Local /\ base.body = b /\ base.id = i /\ base.old = mirror[i]
        BY <2>1, IdleIs DEF Local, Inv, TypeOK
    <2>3. Begin(r, Resolving(base))
        BY <2>1
    <2> HIDE DEF base
    <2>4. QED
        BY <2>1, <2>2, <2>3, BeginResolvingAgrees
<1>3. CASE BeginDelete(r)
    <2>1. PICK i \in Request :
              /\ mirror[i] # None
              /\ Begin(r, [Idle EXCEPT !.kind = "delete", !.id = i, !.old = mirror[i],
                                       !.at = IF RoutedRow(mirror[i]) THEN "unbind" ELSE "drop"])
        BY <1>3 DEF BeginDelete
    <2> DEFINE label == IF RoutedRow(mirror[i]) THEN "unbind" ELSE "drop"
               new == [Idle EXCEPT !.kind = "delete", !.id = i, !.old = mirror[i], !.at = label]
    <2>2. label \in Label /\ label \in {"unbind", "drop"} /\ (label = "drop" => ~RoutedRow(mirror[i]))
        BY DEF Label
    <2>3. Begin(r, new)
        BY <2>1
    <2> HIDE DEF label
    <2>4. new \in Local /\ new.id = i /\ new.at = label
        BY <2>1, <2>2, IdleIs DEF Local, Inv, TypeOK
    <2> HIDE DEF new
    <2>5. label = "drop" => bound[i] = None
        BY <2>1, <2>2, UnroutedRowIsUnbound
    <2>6. QED
        BY <2>2, <2>3, <2>4, <2>5, BeginAgrees
<1>4. CASE BeginRemove(r)
    <2>1. PICK a \in Agent :
              Begin(r, [Idle EXCEPT !.kind = "remove", !.at = "project", !.project = a])
        BY <1>4 DEF BeginRemove
    <2> DEFINE new == [Idle EXCEPT !.kind = "remove", !.at = "project", !.project = a]
    <2>2. new \in Local /\ new.at = "project"
        BY IdleIs DEF Local, Label, Project
    <2>3. Begin(r, new)
        BY <2>1
    <2> HIDE DEF new
    <2>4. QED
        BY <2>2, <2>3, BeginAgrees
<1>5. QED
    BY <1>1, <1>2, <1>3, <1>4

\* A step of a request that changes neither bindings nor rows nor secrets.
LEMMA QuietStepAgrees ==
    ASSUME Inv, PlainOK, SecretOK, NEW r \in Request, Active(r), Only(r),
           UNCHANGED <<bound, mirror, env, odd>>,
           request[r].at \notin {"bind", "drop", "sync", "record"},
           request'[r].at \notin {"drop", "sync", "record"},
           request'[r].at = "bind" /\ request'[r].id # None => bound[request'[r].id] = None,
           hooks' \subseteq {hook'} \/ ~Plain \/ (request'[r].at = "savehook" /\ hooks' = {r}),
           request'[r].at \in {"mkhook", "savehook"} => hook' = None
    PROVE  PlainOK' /\ SecretOK'
<1>1. PlainOK'
    <2>1. ASSUME Plain
          PROVE  /\ \A q \in Request : q # r => ~Active(q)
                 /\ \A i \in Request : Agrees(i)'
                 /\ InStep(r)'
                 /\ hooks' \subseteq {hook'} \/ (request'[r].at = "savehook" /\ hooks' = {r})
        <3>1. \A q \in Request : q # r => ~Active(q)
            BY <2>1, PlainIs
        <3>2. \A i \in Request : Agrees(i)
            BY <2>1, PlainIs DEF InHand, Recording
        <3>3. \A i \in Request : Agrees(i)'
            BY <3>2 DEF Agrees, RoutedRow
        <3>4. InStep(r)'
            BY DEF InStep
        <3>5. QED
            BY <2>1, <3>1, <3>3, <3>4
    <2>2. QED
        BY <2>1, PlainKeeps
<1>2. SecretOK'
    BY SerialOdd, SecretKeeps DEF Recording
<1>3. QED
    BY <1>1, <1>2

LEMMA RoutedAgrees ==
    ASSUME Inv, NEW r \in Request, Active(r), NEW p \in Project, Go(r, Routed(request[r], p)),
           bound' = bound
    PROVE  /\ Only(r) /\ request'[r].at \in {"put", "unbind", "bind"}
           /\ request'[r].at = "bind" /\ request'[r].id # None => bound[request'[r].id] = None
<1> DEFINE new == Routed(request[r], p)
<1>1. request[r] \in Local
    BY DEF Inv, TypeOK
<1>2. /\ new \in Local /\ Same(new, request[r])
      /\ ~RoutedRow(request[r].old) => new.at = "bind"
      /\ RoutedRow(request[r].old) => new.at \in {"put", "unbind"}
    BY <1>1, RoutedIs
<1> HIDE DEF new
<1>3. request'[r] = new /\ Only(r)
    BY <1>2, GoMoves DEF Inv, new
<1>4. request[r].id # None /\ ~RoutedRow(request[r].old) => bound[request[r].id] = None
    BY UnroutedIsUnbound
<1>5. QED
    BY <1>2, <1>3, <1>4 DEF Same

LEMMA HooksAgree ==
    ASSUME Inv, PlainOK, SecretOK, NEW r \in Request,
           ReadHook(r) \/ CreateHook(r) \/ SaveHook(r)
    PROVE  PlainOK' /\ SecretOK'
<1>1. CASE ReadHook(r)
    <2>1. /\ request[r].at = "resolve" /\ Active(r)
          /\ UNCHANGED <<bound, mirror, hook, hooks, env, odd>>
        BY <1>1 DEF ReadHook, Active, Label
    <2>2. Plain => hooks \subseteq {hook}
        BY <2>1, PlainIs
    <2>3. CASE hook = None
        <3>1. MoveTo(r, "mkhook")
            BY <1>1, <2>3 DEF ReadHook
        <3>2. request'[r].at = "mkhook" /\ Only(r)
            BY <3>1, MoveToMoves DEF Inv, Label
        <3>3. QED
            BY <2>1, <2>2, <2>3, <3>2, QuietStepAgrees
    <2>4. CASE hook # None
        <3>1. Go(r, Routed(request[r], hook)) /\ hook \in Request
            BY <1>1, <2>4 DEF ReadHook, Inv, TypeOK
        <3>2. PICK p \in Project : p = hook
            BY <3>1 DEF Project
        <3>3. Go(r, Routed(request[r], p))
            BY <3>1, <3>2
        <3>4. /\ Only(r) /\ request'[r].at \in {"put", "unbind", "bind"}
              /\ request'[r].at = "bind" /\ request'[r].id # None => bound[request'[r].id] = None
            BY <2>1, <3>3, RoutedAgrees
        <3>5. QED
            BY <2>1, <2>2, <3>4, QuietStepAgrees
    <2>5. QED
        BY <2>3, <2>4
<1>2. CASE CreateHook(r)
    <2>1. /\ request[r].at = "mkhook" /\ Active(r) /\ hooks' = hooks \cup {r}
          /\ MoveTo(r, "savehook") /\ UNCHANGED <<bound, mirror, hook, env, odd>>
        BY <1>2 DEF CreateHook, Active, Label
    <2>2. request'[r].at = "savehook" /\ Only(r)
        BY <2>1, MoveToMoves DEF Inv, Label
    <2>3. Plain => hook = None /\ hooks = {}
        <3>1. None \notin hooks
            BY NoneIsNone DEF Inv, TypeOK, Project
        <3>2. QED
            BY <2>1, <3>1, PlainIs
    <2>4. Plain => hooks' = {r} /\ hook' = None
        BY <2>1, <2>3
    <2>5. CASE Plain
        BY <2>1, <2>2, <2>4, <2>5, QuietStepAgrees
    <2>6. CASE ~Plain
        <3>1. ~Plain' /\ odd' # {}
            BY <2>1, <2>6 DEF Plain
        <3>2. QED
            BY <3>1 DEF PlainOK, SecretOK
    <2>7. QED
        BY <2>5, <2>6
<1>3. CASE SaveHook(r)
    <2>1. /\ request[r].at = "savehook" /\ Active(r)
          /\ hook' = (IF hook = None THEN r ELSE hook) /\ Go(r, Routed(request[r], r))
          /\ UNCHANGED <<bound, mirror, hooks, env, odd>>
        BY <1>3 DEF SaveHook, Active, Label
    <2>2. PICK p \in Project : p = r
        BY DEF Project
    <2>3. Go(r, Routed(request[r], p))
        BY <2>1, <2>2
    <2>4. /\ Only(r) /\ request'[r].at \in {"put", "unbind", "bind"}
          /\ request'[r].at = "bind" /\ request'[r].id # None => bound[request'[r].id] = None
        BY <2>1, <2>3, RoutedAgrees
    <2>5. Plain => hooks' \subseteq {hook'}
        <3>1. None \notin hooks /\ r \in hooks
            BY <2>1, NoneIsNone DEF Inv, TypeOK, Project, Stage
        <3>2. QED
            BY <2>1, <3>1, PlainIs
    <2>6. QED
        BY <2>1, <2>4, <2>5, QuietStepAgrees
<1>4. QED
    BY <1>1, <1>2, <1>3

-------------------------------------------------------------------------------
LEMMA RowIs ==
    ASSUME NEW a \in Row, NEW b \in Row, a.num = b.num, a.type = b.type, a.project = b.project
    PROVE  a = b
    BY DEF Row

LEMMA PutAgrees ==
    ASSUME Inv, PlainOK, SecretOK, NEW r \in Request, Put(r)
    PROVE  PlainOK' /\ SecretOK'
<1>1. /\ request[r].at = "put" /\ Active(r) /\ request[r].kind = "update"
      /\ request[r].body \in Body /\ request[r].body.type # "none"
      /\ request[r].project = request[r].old.project
      /\ UNCHANGED <<mirror, hook, hooks, env, odd>>
    BY Kinds DEF Put, Inv, Stage, Active, Label
<1>2. Plain => /\ \A q \in Request : q # r => ~Active(q)
               /\ \A i \in Request : Agrees(i)
               /\ hooks \subseteq {hook}
    BY <1>1, PlainIs DEF InHand, Recording
<1>3. Plain' = Plain
    BY <1>1 DEF Plain
<1>4. CASE End(r) /\ UNCHANGED bound
    BY <1>1, <1>2, <1>3, <1>4, EndAgrees DEF Recording
<1>5. CASE /\ bound[request[r].id] # None
           /\ bound[request[r].id].project = request[r].project
           /\ bound' = [bound EXCEPT ![request[r].id] = [@ EXCEPT !.type = request[r].body.type]]
           /\ MoveTo(r, AfterAnswer(request[r].body.type))
    <2>1. PICK i \in Request : i = request[r].id /\ i # None /\ i # r
        BY <1>1, Kinds, AboutRow DEF Knows
    <2> DEFINE new == [bound[i] EXCEPT !.type = request[r].body.type]
    <2>2. request[r].body.type \in Routing /\ bound[i] \in Row
        BY <1>1, <1>5, <2>1, BodyIs DEF Inv, TypeOK
    <2>3. /\ new \in Row /\ new.type = request[r].body.type /\ new.project = request[r].project
          /\ new.num = bound[i].num
        BY <1>5, <2>1, <2>2 DEF Row
    <2>4. bound' = [bound EXCEPT ![i] = new]
        BY <1>5, <2>1
    <2> HIDE DEF new
    <2>5. bound'[i] = new /\ \A j \in Request : j # i => bound'[j] = bound[j]
        BY <2>4 DEF Inv, TypeOK
    <2>6. AfterAnswer(request[r].body.type) \in {"sync", "record"}
          /\ (AfterAnswer(request[r].body.type) = "record" =>
                  request[r].body.type # "agent_call_init")
        BY DEF AfterAnswer
    <2>7. /\ request'[r].at \in {"sync", "record"} /\ Same(request'[r], request[r])
          /\ request'[r].at = "record" => request[r].body.type # "agent_call_init"
          /\ request'[r].project = request[r].project /\ Only(r)
        BY <1>5, <2>6, MoveToMoves DEF Inv, Label
    <2>8. Id(r)' = i
        BY <1>1, <2>1, <2>7 DEF Id, Same
    <2>9. Plain => new.num = request[r].old.num
        BY <1>1, <1>2, <1>5, <2>1, <2>3, AboutRow DEF Agrees, Knows
    <2>10. NewRow(r) \in Row /\ NewRow(r).num = request[r].old.num
           /\ NewRow(r).type = new.type /\ NewRow(r).project = new.project
        <3>1. Id(r) = request[r].id
            BY <1>1, <2>1 DEF Id
        <3>2. QED
            BY <1>1, <2>1, <2>3, <3>1, AboutRow, NewRowIs DEF Inv, Knows, NewNum
    <2>11. Plain => new = NewRow(r)
        BY <2>3, <2>9, <2>10, RowIs
    <2>12. NewRow(r)' = NewRow(r)
        BY <2>7 DEF NewRow, NewNum, Id, Same
    <2>13. Plain => InStep(r)'
        BY <1>1, <2>1, <2>5, <2>7, <2>8, <2>11, <2>12 DEF InStep, Same
    <2>14. ASSUME Plain, NEW j \in Request
           PROVE  Agrees(j)' \/ InHand(r, j)'
        BY <1>1, <1>2, <2>5, <2>7, <2>8, <2>14 DEF Agrees, RoutedRow, InHand, Recording
    <2>15. PlainOK'
        BY <1>1, <1>2, <2>7, <2>13, <2>14, PlainKeeps
    <2>16. SecretOK'
        BY <1>1, <1>5, <2>1, <2>5, <2>7, SerialOdd, SecretKeeps DEF Recording, Same
    <2>17. QED
        BY <2>15, <2>16
<1>6. QED
    BY <1>4, <1>5 DEF Put

LEMMA UnbindAgrees ==
    ASSUME Inv, Inv', PlainOK, SecretOK, NEW r \in Request, Unbind(r)
    PROVE  PlainOK' /\ SecretOK'
<1>1. /\ request[r].at = "unbind" /\ Active(r) /\ ~Past(r)
      /\ request[r].kind \in {"update", "delete"}
      /\ request[r].kind = "update" => request[r].body \in Body
      /\ request[r] \in Local /\ hook \in Request \cup {None}
      /\ UNCHANGED <<mirror, hook, hooks, env, odd>>
    BY Kinds DEF Unbind, Inv, TypeOK, Active, Label, Past
<1>2. Plain => /\ \A q \in Request : q # r => ~Active(q)
               /\ \A i \in Request : Agrees(i)
               /\ hooks \subseteq {hook}
    BY <1>1, PlainIs DEF InHand, Recording
<1>3. Plain' = Plain
    BY <1>1 DEF Plain
<1>4. CASE End(r) /\ UNCHANGED bound
    BY <1>1, <1>2, <1>3, <1>4, EndAgrees DEF Recording
<1>5. CASE /\ bound' = [bound EXCEPT ![request[r].id] =
                           IF @ # None /\ @.project = KeyProject(request[r].old) THEN None ELSE @]
           /\ Go(r, Unbound(request[r]))
    <2>1. PICK i \in Request : i = request[r].id /\ i # None /\ i # r
        BY <1>1, Kinds, AboutRow DEF Knows
    <2>2. /\ \A j \in Request : j # i => bound'[j] = bound[j]
          /\ bound'[i] # None => bound[i] # None
        BY <1>5, <2>1 DEF Inv, TypeOK
    <2> DEFINE new == Unbound(request[r])
    <2>3. /\ new \in Local /\ Same(new, request[r]) /\ new.at \in {"drop", "bind", "record"}
          /\ new.at = "record" => request[r].body.type = "none"
        BY <1>1, UnboundIs
    <2> HIDE DEF new
    <2>4. request'[r] = new /\ Only(r)
        BY <1>5, <2>3, GoMoves DEF Inv, new
    <2>5. request'[r].id = i /\ (request'[r].at = "record" => Id(r)' = r)
        BY <2>1, <2>3, <2>4 DEF Same, Id
    <2>6. Detached(i)'
        <3>1. DetachedFirst(r)'
            BY DEF Inv
        <3>2. QED
            BY <2>1, <2>3, <2>4, <2>5, <3>1 DEF DetachedFirst, Detached
    <2>7. Plain => bound'[i] = None
        BY <1>1, <1>2, <2>6 DEF Detached
    <2>8. bound'[r] = None
        BY <1>1, <2>1, <2>2 DEF Inv, BoundOK
    <2>9. Plain => InStep(r)'
        BY <2>3, <2>4, <2>5, <2>7, <2>8 DEF InStep, Same
    <2>10. ASSUME Plain, NEW j \in Request
           PROVE  Agrees(j)' \/ InHand(r, j)'
        BY <1>1, <1>2, <2>2, <2>3, <2>4, <2>5, <2>10 DEF Agrees, RoutedRow, InHand, Recording
    <2>11. PlainOK'
        BY <1>1, <1>2, <2>3, <2>4, <2>9, <2>10, PlainKeeps
    <2>12. SecretOK'
        BY <1>1, <2>2, <2>3, <2>4, SerialOdd, SecretKeeps DEF Recording, Same
    <2>13. QED
        BY <2>11, <2>12
<1>6. QED
    BY <1>4, <1>5 DEF Unbind

\* A request that loses a bind, or is cut short before it, with no binding at stake.
LEMMA LostAgrees ==
    ASSUME Inv, PlainOK, NEW r \in Request, request[r].at = "bind", Plain,
           ~RoutedRow(request[r].old)
    PROVE  \A i \in Request : Agrees(i)
<1>1. Active(r)
    BY DEF Active, Label
<1>2. ASSUME NEW i \in Request, ~Agrees(i)
      PROVE  FALSE
    <2>1. request[r].id = i /\ i # None
        BY <1>1, <1>2, PlainIs, NoneIsNone DEF InHand, Recording, Project
    <2>2. /\ request[r].old.project = None /\ bound[i] = None
          /\ mirror[i] # None => mirror[i].project = None
        BY <1>1, <2>1, UnroutedIsUnbound, AboutRow DEF Knows
    <2>3. mirror[i] # None /\ mirror[i].type # "none" /\ mirror[i].project = None
        BY <1>2, <2>2 DEF Agrees, RoutedRow
    <2>4. mirror[i] \in Row /\ Fits(mirror[i].type, mirror[i].project)
        BY <2>3 DEF Inv, TypeOK, RowOK
    <2>5. mirror[i].project \in Agent \cup Request
        BY <2>3, <2>4 DEF Row, Routing, Fits, Inv, TypeOK
    <2>6. QED
        BY <2>3, <2>5, NoneIsNone DEF Project
<1>3. QED
    BY <1>2

LEMMA BindAgrees ==
    ASSUME Inv, PlainOK, SecretOK, NEW r \in Request, Bind(r)
    PROVE  PlainOK' /\ SecretOK'
<1>1. /\ request[r].at = "bind" /\ Active(r) /\ ~Past(r) /\ request[r].body \in Body
      /\ request[r].body.type # "none"
      /\ request[r].id # None => request[r].project # request[r].old.project
      /\ UNCHANGED <<mirror, hook, hooks, env>>
    BY Kinds DEF Bind, Inv, Stage, Active, Label, Past
<1>2. Plain => /\ \A q \in Request : q # r => ~Active(q)
               /\ \A i \in Request : Agrees(i) \/ request[r].id = i
               /\ request[r].id # None => bound[request[r].id] = None
               /\ hooks \subseteq {hook}
    BY <1>1, PlainIs DEF InHand, Recording, InStep
<1>3. CASE /\ End(r) /\ UNCHANGED bound
           /\ odd' = odd \cup (IF RoutedRow(request[r].old) THEN {"unrouted"} ELSE {})
    <2>1. Plain' => Plain /\ ~RoutedRow(request[r].old)
        BY <1>3 DEF Plain
    <2>2. QED
        BY <1>1, <1>3, <2>1, LostAgrees, EndAgrees DEF Recording
<1>4. CASE /\ bound' = [bound EXCEPT ![r] = NewRow(r)]
           /\ MoveTo(r, AfterAnswer(request[r].body.type))
           /\ UNCHANGED odd
    <2>1. bound'[r] = NewRow(r) /\ \A j \in Request : j # r => bound'[j] = bound[j]
        BY <1>4 DEF Inv, TypeOK
    <2>2. AfterAnswer(request[r].body.type) \in {"sync", "record"}
          /\ (AfterAnswer(request[r].body.type) = "record" =>
                  request[r].body.type # "agent_call_init")
        BY DEF AfterAnswer
    <2>3. /\ request'[r].at \in {"sync", "record"} /\ Same(request'[r], request[r])
          /\ request'[r].at = "record" => request[r].body.type # "agent_call_init"
          /\ request'[r].project = request[r].project /\ Only(r)
        BY <1>4, <2>2, MoveToMoves DEF Inv, Label
    <2>4. Id(r)' = r
        BY <1>1, <2>3 DEF Id, Same
    <2>5. NewRow(r)' = NewRow(r)
        BY <2>3 DEF NewRow, NewNum, Id, Same
    <2>6. request[r].id # None => request[r].id \in Request /\ request[r].id # r
        BY <1>1, AboutRow DEF Knows
    <2>7. Plain => InStep(r)'
        BY <1>1, <1>2, <2>1, <2>3, <2>4, <2>5, <2>6 DEF InStep, Same
    <2>8. ASSUME Plain, NEW j \in Request
          PROVE  Agrees(j)' \/ InHand(r, j)'
        BY <1>1, <1>2, <2>1, <2>3, <2>4, <2>8 DEF Agrees, RoutedRow, InHand, Recording, Same
    <2>9. PlainOK'
        BY <1>1, <1>2, <1>4, <2>3, <2>7, <2>8, PlainKeeps
    <2>10. SecretOK'
        BY <1>1, <1>4, <2>1, <2>3, <2>4, SerialOdd, SecretKeeps DEF Recording, Same
    <2>11. QED
        BY <2>9, <2>10
<1>5. QED
    BY <1>3, <1>4 DEF Bind

-------------------------------------------------------------------------------
LEMMA SyncAgrees ==
    ASSUME Inv, PlainOK, SecretOK, NEW r \in Request, Sync(r)
    PROVE  PlainOK' /\ SecretOK'
<1> DEFINE a == request[r].body.agent
<1>1. /\ request[r].at = "sync" /\ Active(r) /\ request[r].body \in Body
      /\ UNCHANGED <<bound, mirror, hook, hooks>> /\ MoveTo(r, "record")
      /\ env' = [env EXCEPT ![a] = Id(r)] /\ odd \subseteq odd'
    BY Kinds DEF Sync, Secret, Active, Label
<1>2. /\ request[r].body.type = "agent_call_init" /\ request[r].project = a
    <2>1. Stage(r) /\ request[r].kind \in {"add", "update"}
        BY <1>1, Kinds DEF Inv
    <2>2. QED
        BY <1>1, <2>1 DEF Stage, AgentRouting
<1>3. a \in Agent
    BY <1>1, <1>2, BodyIs DEF AgentRouting
<1>4. /\ request'[r].at = "record" /\ Same(request'[r], request[r])
      /\ request'[r].project = request[r].project /\ Only(r)
    BY <1>1, MoveToMoves DEF Inv, Label
<1>5. Id(r)' = Id(r) /\ NewRow(r)' = NewRow(r)
    BY <1>4 DEF Id, NewRow, NewNum, Same
<1>6. Plain => /\ \A q \in Request : q # r => ~Active(q)
               /\ InStep(r) /\ \A i \in Request : Agrees(i) \/ InHand(r, i)
               /\ hooks \subseteq {hook}
    BY <1>1, PlainIs
<1>7. PlainOK'
    <2>1. ASSUME Plain, NEW i \in Request
          PROVE  Agrees(i)' \/ InHand(r, i)'
        BY <1>1, <1>4, <1>5, <1>6, <2>1 DEF Agrees, RoutedRow, InHand, Recording, Same
    <2>2. Plain => InStep(r)'
        BY <1>1, <1>4, <1>5, <1>6 DEF InStep, Same
    <2>3. QED
        BY <1>1, <1>4, <1>6, <2>1, <2>2, PlainKeeps
<1>8. ASSUME odd' = {}
      PROVE  SecretOK'
    <2>1. odd = {} /\ Plain
        BY <1>1, <1>8 DEF Plain
    <2>2. ~\E i \in Request \ {Id(r)} : /\ bound[i] # None /\ bound[i].project = a
                                        /\ bound[i].type = "agent_call_init"
        BY <1>8 DEF Sync
    <2>3. ASSUME NEW i \in Request, mirror'[i] # None, mirror'[i].type = "agent_call_init",
                 bound'[i] # None, \A q \in Request : ~(Recording(q)' /\ Id(q)' = i)
          PROVE  env'[mirror'[i].project] = i
        <3>1. i # Id(r) /\ mirror[i] # None /\ bound[i] # None
            BY <1>1, <1>4, <1>5, <2>3 DEF Recording
        <3>2. i # request[r].id
            BY <1>1, <1>6, <2>1, <3>1, NoneIsNone DEF InStep, Project
        <3>3. bound[i] = mirror[i]
            BY <1>1, <1>6, <2>1, <3>1, <3>2 DEF InHand, Recording, Agrees
        <3>4. mirror[i].project # a
            BY <1>1, <2>2, <2>3, <3>1, <3>3
        <3>5. \A q \in Request : ~(Recording(q) /\ Id(q) = i)
            BY <1>6, <2>1, <3>1 DEF Recording, Active, Label
        <3>6. env[mirror[i].project] = i
            BY <1>1, <2>1, <2>3, <3>1, <3>5 DEF SecretOK, Recording
        <3>7. mirror[i].project \in Agent
            BY <1>1, <2>3, <3>1 DEF Inv, RowOK, Fits, AgentRouting
        <3>8. QED
            BY <1>1, <1>3, <3>4, <3>6, <3>7 DEF Inv, TypeOK
    <2>4. env'[request'[r].project] = Id(r)'
        BY <1>1, <1>2, <1>3, <1>4, <1>5 DEF Inv, TypeOK
    <2>5. \A q \in Request : q # r => request'[q].at # "record"
        BY <1>4, <1>6, <2>1 DEF Only, Active, Label
    <2>6. QED
        BY <2>3, <2>4, <2>5 DEF SecretOK, Recording
<1>9. QED
    BY <1>7, <1>8 DEF SecretOK

LEMMA RecordAgrees ==
    ASSUME Inv, PlainOK, SecretOK, NEW r \in Request, Record(r)
    PROVE  PlainOK' /\ SecretOK'
<1>1. /\ request[r].at = "record" /\ Active(r) /\ request[r].body \in Body
      /\ UNCHANGED <<bound, hook, hooks, env, odd>>
    BY Kinds DEF Record, Active, Label
<1> DEFINE row == NewRow(r)
<1>2. PICK x \in Request : x = Id(r)
    BY <1>1, RecordedRow
<1>3. /\ row \in Row /\ row # None /\ row.type = request[r].body.type
      /\ row.type # "none" => row.project = request[r].project
    BY <1>1, AboutRow, NewRowIs, NoneIsNone DEF Inv, Knows
<1>4. mirror' = [mirror EXCEPT ![x] = row]
    BY <1>2 DEF Record
<1>5. Plain => /\ \A q \in Request : q # r => ~Active(q)
               /\ \A i \in Request : Agrees(i) \/ i \in {x, request[r].id}
               /\ bound[x] = (IF request[r].body.type = "none" THEN None ELSE row)
               /\ request[r].id \notin {None, x} => bound[request[r].id] = None
               /\ hooks \subseteq {hook}
    BY <1>1, <1>2, PlainIs DEF InHand, Recording, InStep
<1> HIDE DEF row
<1>6. mirror'[x] = row /\ \A i \in Request : i # x => mirror'[i] = mirror[i]
    BY <1>4 DEF Inv, TypeOK
<1>7. /\ Only(r)
      /\ \/ request'[r].at = "done" /\ request[r].id \in {None, x}
         \/ /\ request'[r].at = "drop" /\ request'[r].id = request[r].id
            /\ request[r].id \notin {None, x}
    <2>1. CASE request[r].id \in {None, Id(r)}
        BY <1>2, <2>1, EndsWell DEF Record
    <2>2. CASE request[r].id \notin {None, Id(r)}
        <3>1. MoveTo(r, "drop")
            BY <2>2 DEF Record
        <3>2. request'[r].at = "drop" /\ Same(request'[r], request[r]) /\ Only(r)
            BY <3>1, MoveToMoves DEF Inv, Label
        <3>3. QED
            BY <1>2, <2>2, <3>2 DEF Same
    <2>3. QED
        BY <2>1, <2>2
<1>8. PlainOK'
    <2>1. ASSUME Plain, NEW i \in Request
          PROVE  Agrees(i)' \/ InHand(r, i)'
        <3>1. CASE i = x
            BY <1>1, <1>3, <1>5, <1>6, <2>1, <3>1 DEF Agrees, RoutedRow
        <3>2. CASE i # x /\ i = request[r].id
            BY <1>7, <3>2, NoneIsNone DEF InHand, Project
        <3>3. CASE i # x /\ i # request[r].id
            BY <1>1, <1>5, <1>6, <2>1, <3>3 DEF Agrees, RoutedRow
        <3>4. QED
            BY <3>1, <3>2, <3>3
    <2>2. Plain => InStep(r)'
        BY <1>1, <1>5, <1>7 DEF InStep
    <2>3. QED
        BY <1>1, <1>5, <1>7, <2>1, <2>2, PlainKeeps
<1>9. ASSUME odd' = {}
      PROVE  SecretOK'
    <2>1. odd = {} /\ Plain
        BY <1>1, <1>9 DEF Plain
    <2>2. ASSUME NEW i \in Request, mirror'[i] # None, mirror'[i].type = "agent_call_init",
                 bound'[i] # None
          PROVE  env'[mirror'[i].project] = i
        <3>1. CASE i = x
            <4>1. /\ request[r].body.type = "agent_call_init"
                  /\ mirror'[i].project = request[r].project
                BY <1>3, <1>6, <2>2, <3>1
            <4>2. env[request[r].project] = x
                BY <1>1, <1>2, <2>1, <4>1 DEF SecretOK
            <4>3. QED
                BY <1>1, <3>1, <4>1, <4>2
        <3>2. CASE i # x
            <4>1. \A q \in Request : ~(Recording(q) /\ Id(q) = i)
                BY <1>2, <1>5, <2>1, <3>2 DEF Recording, Active, Label
            <4>2. QED
                BY <1>1, <1>6, <2>1, <2>2, <3>2, <4>1 DEF SecretOK, Recording
        <3>3. QED
            BY <3>1, <3>2
    <2>3. \A q \in Request : request'[q].at # "record"
        BY <1>5, <1>7, <2>1 DEF Only, Active, Label
    <2>4. QED
        BY <2>2, <2>3 DEF SecretOK
<1>10. QED
    BY <1>8, <1>9 DEF SecretOK

LEMMA DropAgrees ==
    ASSUME Inv, PlainOK, SecretOK, NEW r \in Request, Drop(r)
    PROVE  PlainOK' /\ SecretOK'
<1>1. /\ request[r].at = "drop" /\ Active(r) /\ End(r)
      /\ UNCHANGED <<bound, hook, hooks, env, odd>>
    BY DEF Drop, Active, Label
<1>2. PICK i \in Request : i = request[r].id /\ i # None
    BY <1>1, Kinds
<1>3. mirror'[i] = None /\ \A j \in Request : j # i => mirror'[j] = mirror[j]
    BY <1>2 DEF Drop, Without, Inv, TypeOK
<1>4. Only(r) /\ request'[r].at = "done"
    BY <1>1, EndsWell
<1>5. Plain => /\ \A q \in Request : q # r => ~Active(q)
               /\ \A j \in Request : Agrees(j) \/ j = i
               /\ bound[i] = None /\ hooks \subseteq {hook}
    BY <1>1, <1>2, PlainIs DEF InHand, Recording, InStep
<1>6. ASSUME Plain, NEW j \in Request
      PROVE  Agrees(j)'
    BY <1>1, <1>3, <1>5, <1>6 DEF Agrees, RoutedRow
<1>7. PlainOK'
    BY <1>1, <1>4, <1>5, <1>6, PlainKeeps DEF InStep
<1>8. SecretOK'
    BY <1>1, <1>3, <1>4, SerialOdd, SecretKeeps DEF Recording
<1>9. QED
    BY <1>7, <1>8

LEMMA RemoveProjectAgrees ==
    ASSUME Inv, PlainOK, SecretOK, NEW r \in Request, RemoveProject(r)
    PROVE  PlainOK' /\ SecretOK'
<1>1. /\ request[r].at = "project" /\ Active(r) /\ End(r)
      /\ UNCHANGED <<mirror, hook, hooks, env, odd>>
    BY DEF RemoveProject, Active, Label
<1>2. PICK a \in Agent : a = request[r].project
    BY <1>1, Kinds
<1>3. \A i \in Request : \/ bound'[i] = bound[i]
                         \/ bound'[i] = None /\ bound[i] # None /\ bound[i].project = a
    BY <1>2 DEF RemoveProject, Inv, TypeOK
<1>4. Only(r) /\ request'[r].at = "done"
    BY <1>1, EndsWell
<1>5. Plain => /\ \A q \in Request : q # r => ~Active(q)
               /\ \A j \in Request : Agrees(j)
               /\ hooks \subseteq {hook}
    BY <1>1, PlainIs DEF InHand, Recording
<1>6. ASSUME Plain, NEW i \in Request
      PROVE  Agrees(i)'
    <2>1. ~RoutesTo(i, a)
        BY <1>1, <1>2, <1>6 DEF Inv, SerialOK, Plain
    <2>2. bound[i] # None => bound[i] = mirror[i] /\ bound[i].type # "none"
        BY <1>5, <1>6 DEF Agrees, Inv, BoundOK
    <2>3. bound'[i] = bound[i]
        BY <1>3, <2>1, <2>2 DEF RoutesTo, RoutedRow
    <2>4. QED
        BY <1>1, <1>5, <1>6, <2>3 DEF Agrees, RoutedRow
<1>7. PlainOK'
    BY <1>1, <1>4, <1>5, <1>6, PlainKeeps DEF InStep
<1>8. SecretOK'
    BY <1>1, <1>3, <1>4, SerialOdd, SecretKeeps DEF Recording
<1>9. QED
    BY <1>7, <1>8

LEMMA InterruptAgrees ==
    ASSUME Inv, PlainOK, SecretOK, NEW r \in Request, Interrupt(r)
    PROVE  PlainOK' /\ SecretOK'
<1>1. /\ Active(r) /\ End(r) /\ UNCHANGED <<bound, mirror, hook, hooks, env>> /\ odd \subseteq odd'
    BY DEF Interrupt
<1>2. ASSUME Plain'
      PROVE  /\ Plain /\ request[r].at \notin {"savehook", "sync", "record", "drop"}
             /\ request[r].at = "bind" => ~RoutedRow(request[r].old)
    <2>1. request[r].at \in {"savehook", "sync", "record", "drop"} => "cut" \in odd'
        BY DEF Interrupt
    <2>2. request[r].at = "bind" /\ RoutedRow(request[r].old) => "unrouted" \in odd'
        BY DEF Interrupt
    <2>3. QED
        BY <1>1, <1>2, <2>1, <2>2 DEF Plain
<1>3. ASSUME Plain', NEW i \in Request
      PROVE  Agrees(i)
    <2>1. CASE request[r].at = "bind"
        BY <1>2, <1>3, <2>1, LostAgrees
    <2>2. CASE request[r].at # "bind"
        BY <1>1, <1>2, <1>3, <2>2, PlainIs DEF InHand, Recording
    <2>3. QED
        BY <2>1, <2>2
<1>4. QED
    BY <1>1, <1>2, <1>3, EndAgrees DEF Recording

THEOREM Agreement == Spec => [](Inv /\ PlainOK /\ SecretOK)
<1>1. ASSUME Init
      PROVE  PlainOK /\ SecretOK
    <2>1. \A r \in Request : request[r].at = "idle" /\ bound[r] = None /\ mirror[r] = None
        BY <1>1, IdleIs DEF Init
    <2>2. hooks = {}
        BY <1>1 DEF Init
    <2>3. QED
        BY <2>1, <2>2 DEF PlainOK, SecretOK, Agrees, RoutedRow, InStep
<1>2. ASSUME Inv, PlainOK, SecretOK, [Next]_vars
      PROVE  (Inv /\ PlainOK /\ SecretOK)'
    <2>1. Inv'
        BY <1>2, NextKeeps, StutterKeeps
    <2>2. ASSUME NEW r \in Request,
                 \/ BeginAdd(r) \/ BeginUpdate(r) \/ BeginDelete(r) \/ BeginRemove(r)
                 \/ ReadHook(r) \/ CreateHook(r) \/ SaveHook(r)
                 \/ Put(r) \/ Unbind(r) \/ Bind(r)
                 \/ Sync(r) \/ Record(r) \/ Drop(r) \/ RemoveProject(r)
                 \/ Interrupt(r)
          PROVE  PlainOK' /\ SecretOK'
        <3>1. CASE BeginAdd(r) \/ BeginUpdate(r) \/ BeginDelete(r) \/ BeginRemove(r)
            BY <1>2, <3>1, BeginsAgree
        <3>2. CASE ReadHook(r) \/ CreateHook(r) \/ SaveHook(r)
            BY <1>2, <3>2, HooksAgree
        <3>3. CASE Put(r) \/ Unbind(r) \/ Bind(r)
            BY <1>2, <2>1, <3>3, PutAgrees, UnbindAgrees, BindAgrees
        <3>4. CASE Sync(r) \/ Record(r) \/ Drop(r)
            BY <1>2, <3>4, SyncAgrees, RecordAgrees, DropAgrees
        <3>5. CASE RemoveProject(r) \/ Interrupt(r)
            BY <1>2, <3>5, RemoveProjectAgrees, InterruptAgrees
        <3>6. QED
            BY <2>2, <3>1, <3>2, <3>3, <3>4, <3>5
    <2>3. CASE Next
        <3>1. PICK r \in Request :
                 \/ BeginAdd(r) \/ BeginUpdate(r) \/ BeginDelete(r) \/ BeginRemove(r)
                 \/ ReadHook(r) \/ CreateHook(r) \/ SaveHook(r)
                 \/ Put(r) \/ Unbind(r) \/ Bind(r)
                 \/ Sync(r) \/ Record(r) \/ Drop(r) \/ RemoveProject(r)
                 \/ Interrupt(r)
            BY <2>3 DEF Next
        <3>2. PlainOK' /\ SecretOK'
            BY <2>2, <3>1
        <3>3. QED
            BY <2>1, <3>2
    <2>4. CASE UNCHANGED vars
        <3>1. PlainOK'
            BY <1>2, <2>4 DEF vars, PlainOK, Plain, Agrees, RoutedRow, Touched, InStep, Id, NewRow, NewNum
        <3>2. SecretOK'
            BY <1>2, <2>4 DEF vars, SecretOK, Id
        <3>3. QED
            BY <2>1, <3>1, <3>2
    <2>5. QED
        BY <1>2, <2>1, <2>3, <2>4
<1>3. QED
    BY Initial, <1>1, <1>2, PTL DEF Spec

\* phones.py: with requests one at a time and none cut short, the list the console
\* shows is TurnCall's, whatever was added, edited, moved, deleted or refused.
THEOREM MirrorAgreesThm == Spec => []MirrorAgrees
<1>1. Inv /\ PlainOK => MirrorAgrees
    BY DEF PlainOK, Plain, MirrorAgrees, Touched, Quiet, Active, Label
<1>2. QED
    BY <1>1, Agreement, PTL

\* phones.py:107: the secret in the agent's .env is the one of the number that routes
\* to it with caller info, while it is the only one.
THEOREM CallInitVerifiesThm == Spec => []CallInitVerifies
<1>1. ASSUME Inv, PlainOK, SecretOK
      PROVE  CallInitVerifies
    <2>1. SUFFICES ASSUME Quiet, odd = {}, NEW i \in Request, mirror[i] # None,
                          mirror[i].type = "agent_call_init"
                   PROVE  env[mirror[i].project] = i
        BY DEF CallInitVerifies
    <2>2. \A r \in Request : request[r].at \notin Label
        BY <2>1 DEF Quiet, Active
    <2>3. Agrees(i)
        BY <1>1, <2>1, <2>2 DEF PlainOK, Plain, Touched, Label
    <2>4. bound[i] # None
        BY <2>1, <2>3 DEF Agrees, RoutedRow
    <2>5. QED
        BY <1>1, <2>1, <2>2, <2>4 DEF SecretOK, Label
<1>2. QED
    BY <1>1, Agreement, PTL
===============================================================================
