----------------------------- MODULE PhoneBinding -----------------------------
(***************************************************************************)
(* Phone numbers: the bindings TurnCall holds, the mirror table the console *)
(* lists, the shared webhook project, the call-init secret in each agent's  *)
(* .env, and the requests that add, edit and delete numbers or delete the   *)
(* agent they route to.  TurnCall names a binding when it is made; here the *)
(* name is the request that made it, which also stands for its signing      *)
(* secret, for the local id of an unassigned number, and for the webhook    *)
(* project that the request created.  An agent stands for its own project.  *)
(***************************************************************************)
EXTENDS Naturals, FiniteSets

CONSTANTS
    Request,     \* the API requests of a behaviour
    Number,      \* phone numbers
    Agent,       \* agents with a recorded backend
    None,        \* no row, no binding, no project, no secret
    Interrupts   \* a request may stop between any two of its steps

VARIABLES
    bound,    \* TurnCall: the bindings, by id
    mirror,   \* phone_numbers, by id
    hook,     \* webhook_project: the stored project
    hooks,    \* TurnCall: the webhook projects created
    env,      \* CALL_INIT_SECRET of each agent's .env
    gone,     \* TurnCall: the agents whose project, and so whose key, is deleted
    request,  \* per request: where it is and what it carries (Local)
    asked,    \* history: the numbers a DELETE, or a move to another, has unlisted
    odd       \* history: what excuses a drifted mirror

vars == <<bound, mirror, hook, hooks, env, gone, request, asked, odd>>

Oddity == {"raced",     \* two requests overlapped
           "cut",       \* a request stopped after a call it had not recorded
           "unrouted",  \* a move lost its old binding and got no new one
           "crowded"}   \* two numbers with caller info route to one agent

-------------------------------------------------------------------------------
AgentRouting == {"agent", "agent_call_init"}
Routing == AgentRouting \cup {"webhook", "none"}

\* PhoneBind, with agent_id only where the routing looks at it.
Body == [num : Number, type : AgentRouting, agent : Agent]
        \cup [num : Number, type : {"webhook", "none"}, agent : {None}]

Project == Agent \cup Request
Row == [num : Number, type : Routing, project : Project \cup {None}]

ASSUME PhoneAssumption ==
    /\ None \notin Project \cup Body \cup Row
    /\ Request \cap Agent = {}
    /\ Interrupts \in BOOLEAN

Label == {"resolve", "mkhook", "savehook", "put", "unbind", "bind", "sync",
          "record", "drop", "project"}

Local == [kind : {"add", "update", "delete", "remove"}, at : Label \cup {"idle", "done"},
          body : Body \cup {None}, id : Request \cup {None}, old : Row \cup {None},
          project : Project \cup {None}]

Idle == [kind |-> "add", at |-> "idle", body |-> None, id |-> None, old |-> None,
         project |-> None]
Ended == [Idle EXCEPT !.at = "done"]

Active(r) == request[r].at \in Label
Quiet == \A r \in Request : ~Active(r)
Listed(n) == \E i \in Request : mirror[i] # None /\ mirror[i].num = n
RoutedRow(row) == row # None /\ row.type # "none"

IdFresh(r) == r

\* The id the request records under: the row it edits in place, else its own.
Id(r) == IF request[r].id # None /\ request[r].project = request[r].old.project
            /\ request[r].body.type # "none"
         THEN request[r].id ELSE r

\* In place the row keeps its number; the body's is the one that is bound anew.
NewNum(r) == IF Id(r) = request[r].id THEN request[r].old.num ELSE request[r].body.num

NewRow(r) == [num |-> NewNum(r), type |-> request[r].body.type,
              project |-> IF request[r].body.type = "none" THEN None ELSE request[r].project]

Go(r, local) == request' = [request EXCEPT ![r] = local]
MoveTo(r, label) == Go(r, [request[r] EXCEPT !.at = label])
End(r) == Go(r, Ended)

Init ==
    /\ bound = [i \in Request |-> None]
    /\ mirror = [i \in Request |-> None]
    /\ hook = None
    /\ hooks = {}
    /\ env = [a \in Agent |-> None]
    /\ gone = {}
    /\ request = [r \in Request |-> Idle]
    /\ asked = {}
    /\ odd = {}

-------------------------------------------------------------------------------
(* Where a request goes once it knows the project its routing resolves to.  *)

Routed(local, p) ==
    [local EXCEPT !.project = p,
                  !.at = IF ~RoutedRow(local.old) THEN "bind"
                         ELSE IF p = local.old.project THEN "put" ELSE "unbind"]

\* _resolve_routing: the agent's project at once, the webhook project after
\* ensure_webhook_project; an unassigned number has none.
Resolving(local) ==
    CASE local.body.type \in AgentRouting -> Routed(local, local.body.agent)
      [] local.body.type = "webhook" -> [local EXCEPT !.at = "resolve"]
      [] OTHER -> [local EXCEPT !.at = IF RoutedRow(local.old) THEN "unbind" ELSE "record"]

Begin(r, local) ==
    /\ request[r].at = "idle"
    /\ Go(r, local)
    /\ odd' = odd \cup (IF Quiet THEN {} ELSE {"raced"})
    /\ UNCHANGED <<bound, mirror, hook, hooks, env, gone, asked>>

BeginAdd(r) ==
    \E b \in Body : Begin(r, Resolving([Idle EXCEPT !.body = b]))

\* The body may name another number than the row it edits.
BeginUpdate(r) ==
    \E i \in Request, b \in Body :
        /\ mirror[i] # None
        /\ Begin(r, Resolving([Idle EXCEPT !.kind = "update", !.body = b, !.id = i,
                                           !.old = mirror[i]]))

BeginDelete(r) ==
    \E i \in Request :
        /\ mirror[i] # None
        /\ Begin(r, [Idle EXCEPT !.kind = "delete", !.id = i, !.old = mirror[i],
                                 !.at = IF RoutedRow(mirror[i]) THEN "unbind" ELSE "drop"])

RoutesDirectly(i, a) == mirror[i] # None /\ mirror[i].type = "agent" /\ mirror[i].project = a
RoutesTo(i, a) == RoutedRow(mirror[i]) /\ mirror[i].project = a

\* DELETE /agents/{id}: refused while a listed number routes to the agent.
BeginRemove(r) ==
    \E a \in Agent :
        /\ \A i \in Request : ~RoutesTo(i, a)
        /\ Begin(r, [Idle EXCEPT !.kind = "remove", !.at = "project", !.project = a])

-------------------------------------------------------------------------------
(* ensure_webhook_project                                                  *)

ReadHook(r) ==
    /\ request[r].at = "resolve"
    /\ IF hook = None THEN MoveTo(r, "mkhook") ELSE Go(r, Routed(request[r], hook))
    /\ UNCHANGED <<bound, mirror, hook, hooks, env, gone, asked, odd>>

CreateHook(r) ==
    /\ request[r].at = "mkhook"
    /\ hooks' = hooks \cup {r}
    /\ MoveTo(r, "savehook")
    /\ UNCHANGED <<bound, mirror, hook, env, gone, asked, odd>>

\* ON CONFLICT DO NOTHING: the first insert stays, and each request goes on
\* with the project it created itself.
SaveHook(r) ==
    /\ request[r].at = "savehook"
    /\ hook' = IF hook = None THEN r ELSE hook
    /\ Go(r, Routed(request[r], r))
    /\ UNCHANGED <<bound, mirror, hooks, env, gone, asked, odd>>

-------------------------------------------------------------------------------
(* TurnCall calls.  A key of a deleted project is rejected, a key sees only *)
(* the bindings of its project, and a number is bound once.                 *)

AfterAnswerUnsynced(type) == "record"
AfterAnswer(type) == IF type = "agent_call_init" THEN "sync" ELSE "record"

Put(r) ==
    LET me == request[r] IN
    /\ me.at = "put"
    /\ IF /\ me.project \notin gone
          /\ bound[me.id] # None /\ bound[me.id].project = me.project
       THEN /\ bound' = [bound EXCEPT ![me.id] = [@ EXCEPT !.type = me.body.type]]
            /\ MoveTo(r, AfterAnswer(me.body.type))
       ELSE End(r) /\ UNCHANGED bound
    /\ UNCHANGED <<mirror, hook, hooks, env, gone, asked, odd>>

KeyProjectShared(row) == hook

\* _key_for_number: the agent's key, or the key of the stored webhook project.
KeyProject(row) == IF row.type \in AgentRouting THEN row.project ELSE hook

\* What follows the unbind: a delete drops the row, a move binds anew; the
\* webhook project was resolved before the unbind, so it is stored by now.
Unbound(local) ==
    IF local.kind = "delete" THEN [local EXCEPT !.at = "drop"]
    ELSE CASE local.body.type = "none" -> [local EXCEPT !.at = "record"]
           [] local.body.type = "webhook" -> [local EXCEPT !.at = "bind", !.project = hook]
           [] OTHER -> [local EXCEPT !.at = "bind"]

\* 404 means already unbound; any other refusal ends the request unchanged.
Unbind(r) ==
    LET me == request[r] IN
    /\ me.at = "unbind"
    /\ IF KeyProject(me.old) \in gone THEN End(r) /\ UNCHANGED bound
       ELSE /\ bound' = [bound EXCEPT ![me.id] =
                            IF @ # None /\ @.project = KeyProject(me.old) THEN None ELSE @]
            /\ Go(r, Unbound(me))
    /\ UNCHANGED <<mirror, hook, hooks, env, gone, asked, odd>>

Bind(r) ==
    LET me == request[r]
        accepted == /\ me.project \notin gone
                    /\ \A i \in Request : bound[i] # None => bound[i].num # me.body.num IN
    /\ me.at = "bind"
    /\ \/ /\ accepted
          /\ bound' = [bound EXCEPT ![r] = NewRow(r)]
          /\ MoveTo(r, AfterAnswer(me.body.type))
          /\ UNCHANGED odd
       \/ /\ ~accepted
          /\ End(r)
          /\ odd' = odd \cup (IF RoutedRow(me.old) THEN {"unrouted"} ELSE {})
          /\ UNCHANGED bound
    /\ UNCHANGED <<mirror, hook, hooks, env, gone, asked>>

-------------------------------------------------------------------------------
(* What the request does after TurnCall's answer.                          *)

SecretMisread(r) == request[r].body.agent
Secret(r) == Id(r)

\* _sync_call_init_secret: one secret per .env, whatever was there before.
Sync(r) ==
    LET a == request[r].body.agent IN
    /\ request[r].at = "sync"
    /\ env' = [env EXCEPT ![a] = Secret(r)]
    /\ MoveTo(r, "record")
    /\ odd' = odd \cup
        (IF \E i \in Request \ {Id(r)} : /\ bound[i] # None /\ bound[i].project = a
                                         /\ bound[i].type = "agent_call_init"
         THEN {"crowded"} ELSE {})
    /\ UNCHANGED <<bound, mirror, hook, hooks, gone, asked>>

\* record_number upserts by id; a move then drops the row it replaces.
Record(r) ==
    /\ request[r].at = "record"
    /\ mirror' = [mirror EXCEPT ![Id(r)] = NewRow(r)]
    /\ IF request[r].id \in {None, Id(r)} THEN End(r) ELSE MoveTo(r, "drop")
    /\ UNCHANGED <<bound, hook, hooks, env, gone, asked, odd>>

\* delete_number
WithoutNumber(i) ==
    [j \in Request |-> IF mirror[i] # None /\ mirror[j] # None /\ mirror[j].num = mirror[i].num
                       THEN None ELSE mirror[j]]
\* A DELETE asks for the number to go, and so does a move to another number.
Unlists(local) == local.kind = "delete" \/ local.body.num # local.old.num

Without(i) == [mirror EXCEPT ![i] = None]

Drop(r) ==
    LET me == request[r] IN
    /\ me.at = "drop"
    /\ mirror' = Without(me.id)
    /\ asked' = asked \cup (IF Unlists(me) THEN {me.old.num} ELSE {})
    /\ End(r)
    /\ UNCHANGED <<bound, hook, hooks, env, gone, odd>>

\* The agent's project goes with its key and bindings; a failure is only
\* logged, and the registry row is hidden either way.
RemoveProject(r) ==
    LET a == request[r].project IN
    /\ request[r].at = "project"
    /\ \/ /\ gone' = gone \cup {a}
          /\ bound' = [i \in Request |-> IF bound[i] # None /\ bound[i].project = a
                                         THEN None ELSE bound[i]]
       \/ UNCHANGED <<gone, bound>>
    /\ End(r)
    /\ UNCHANGED <<mirror, hook, hooks, env, asked, odd>>

\* A refused or lost call, a failed statement, a missing service_dir, the death
\* of the process: the request ends where it is and nothing is undone.
Interrupt(r) ==
    /\ Interrupts /\ Active(r)
    /\ End(r)
    /\ odd' = odd \cup
        (CASE request[r].at \in {"savehook", "sync", "record", "drop"} -> {"cut"}
           [] request[r].at = "bind" /\ RoutedRow(request[r].old) -> {"unrouted"}
           [] OTHER -> {})
    /\ UNCHANGED <<bound, mirror, hook, hooks, env, gone, asked>>

-------------------------------------------------------------------------------
Next ==
    \E r \in Request :
        \/ BeginAdd(r) \/ BeginUpdate(r) \/ BeginDelete(r) \/ BeginRemove(r)
        \/ ReadHook(r) \/ CreateHook(r) \/ SaveHook(r)
        \/ Put(r) \/ Unbind(r) \/ Bind(r)
        \/ Sync(r) \/ Record(r) \/ Drop(r) \/ RemoveProject(r)
        \/ Interrupt(r)

Spec == Init /\ [][Next]_vars

-------------------------------------------------------------------------------
(* Properties                                                              *)

TypeOK ==
    /\ bound \in [Request -> Row \cup {None}]
    /\ mirror \in [Request -> Row \cup {None}]
    /\ hook \in Request \cup {None}
    /\ hooks \subseteq Request
    /\ env \in [Agent -> Request \cup {None}]
    /\ gone \subseteq Agent
    /\ request \in [Request -> Local]
    /\ asked \subseteq Number
    /\ odd \subseteq Oddity

\* The console's list is the truth: once requests have come one at a time and
\* none was cut short, the rows that claim a routing are exactly TurnCall's
\* bindings, number, routing and project alike.
Agrees(i) == (bound[i] # None \/ RoutedRow(mirror[i])) => bound[i] = mirror[i]

MirrorAgrees ==
    Quiet /\ odd \cap {"raced", "cut", "unrouted"} = {} => \A i \in Request : Agrees(i)

\* ADR-0006: the mirror can drift only if numbers are changed outside the builder.
MirrorNeverDrifts == Quiet => \A i \in Request : Agrees(i)

\* phones.py:29-45, 243-260: whatever races or fails, a row leaves the list only
\* when TurnCall no longer holds its binding, and a number only when a DELETE,
\* or a move to another number, asked for it.  The one exception is a binding in
\* a second webhook project, which the stored key cannot see: its 404 is taken
\* for unbound.
ListedUntilDeleted ==
    [][/\ \A i \in Request :
             mirror[i] # None /\ mirror'[i] = None =>
                 bound[i] = None \/ bound[i].project \in hooks \ {hook}
       /\ \A n \in Number : Listed(n) /\ ~Listed(n)' => n \in asked']_vars

\* A listed number can be unbound: the project whose key that takes is only
\* deleted while no number routes to the agent, unless a bind overlaps.
KeyOutlivesRow ==
    "raced" \notin odd =>
        \A i \in Request : RoutedRow(mirror[i]) => mirror[i].project \notin gone

\* The agent's .env verifies the calls of the number that routes to it with
\* caller info, through in-place edits and moves, as long as it is the only one.
CallInitVerifies ==
    Quiet /\ odd = {} =>
        \A i \in Request : mirror[i] # None /\ mirror[i].type = "agent_call_init" =>
            env[mirror[i].project] = i
===============================================================================
