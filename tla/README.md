# Verification of turncall-builder-api

TLA+ models, TLC configurations and TLAPS proofs for the backend in `src/`: a FastAPI
service that turns a chat into a voice agent on TurnCall, generates and runs a tool
backend for each agent, and keeps the registries (Postgres) a management console reads.

The program has one event loop per process and no lock of its own. Each `await` is a point
where every other request and background task may move; TurnCall, docker, git and Postgres
share no transaction. The models make each await that matters a step, and each failure of an
awaited call a choice. They are written from the code; where a document or comment says
something else, the disagreement is a run of its own (see *Findings*).

## Inventory

| Component | State | Operations | Interacts with | Hard part | Correct when |
|---|---|---|---|---|---|
| Provisioning saga (`routers/sessions.py`, `store.py`, `backends/registry.py`) | `sessions.agent_id`, `agent_backends`; TurnCall projects, keys, agents | `POST /sessions/{sid}/create`, `_rollback_provisioning`, `_generate_backend` | TurnCall client, registry, spawns the build | remote saga without a transaction: lost answers, crashes, overlapping creates | nothing recorded is reclaimed, nothing answered as created is unowned, ports are exclusive, orphans are inert |
| Generated backend (`agent_update.py`, `backends/generator.py`, `routers/agents.py`) | registry row, repository on disk, `.env`, image and container | update/apply, start, build and regeneration workers, startup reap | TurnCall, docker, git, phone binds | unserialised background workers over one directory and one container | code, image, badge and config agree; user edits and secrets survive |
| Teardown (`routers/agents.py`) | row, container, TurnCall project | `DELETE /agents/{id}` | phones, TurnCall | best-effort steps, racing workers | a deleted agent is down and stays hidden |
| Phone numbers (`routers/phones.py`, `backends/phones.py`) | mirror table, webhook project, TurnCall bindings, `CALL_INIT_SECRET` | add, update, delete a number | TurnCall, the agent's `.env`, teardown | two stores and a singleton made by check, create, insert | the list shows what is bound, nothing is unlisted while bound, the secret verifies |
| GitHub (`routers/github.py`, `github_store.py`, `github.py`) | connection, link, baseline hash | connect, disconnect, link, unlink, push | GitHub, the agent's files | a push in flight while the link or the branch changes | edits made on GitHub survive a push with a baseline, a divergence found under a path is real |
| Builder sessions (`routers/sessions.py`, `store.py`) | history, draft config | open, message, edit, apply | builder model, agent update | read, await the model, overwrite; lost answers | the history is the answered turns, the draft the last one answered |
| Takeaways (`routers/takeaways.py`) | TurnCall takeaways, the config's ids | create, delete | every other writer of the config | read, change, write back over HTTP; stale forms | attached exactly when they exist |
| Knowledge base (`routers/knowledge.py`) | TurnCall knowledge bases, links, documents | upload, delete | TurnCall | list, create and link are three calls | what is uploaded reaches the agent |
| Provider catalog (`provider_catalog.py`) | cache of listings with expiry | list models, list voices | providers | overlapping fetches, stale fallback | a failing provider does not empty the form |
| Accounts and login (`auth_store.py`, `routers/auth.py`) | `users`, Workspaces, `user_sessions` | signup, login, Google callback, logout | RBAC gate | first logins of one email racing | one account per email, sessions belong to it |
| RBAC gate (`deps.py`) | none | `require_role` | accounts, members | role read before the handler | a revoked role admits nobody any more (not so of calls under way, see *Observations*) |
| Members and invites (`auth_store.py`, `routers/members.py`) | `memberships`, `invites` | change role, remove, invite, accept | `require_admin` | READ COMMITTED, row locks, deadlocks | a Workspace keeps an admin, an invite works once |
| Pure logic (`mapper.py`, `_helpers.py`, `diff.py`, `schema_check.py`, redaction in `github.py`, ranges in `calls.py`, errors in `builder.py`) | none | normalise, map, compare, mask, slice, classify | all of the above | two functions that must agree, boundaries | agrees with a reference definition |
| Text and wiring (builder prompt and tool schema, `scaffold.py`, `toolgen.py`, webhook signatures, `webrtc`, settings, runtime, listings, migrations) | | | | single calls, no state | see *Not modelled* |

`PROJECT.json` lists the components with their status, and every hazard at its line.

## Modules

    ProjectCustody         who answers for a TurnCall project (abstract specification)
      ^ implemented by
    CreateSaga             create, compensation, teardown of the project and the row
    AgentBackend           build, update, regenerate, start, bind, delete, reap
    WorkspaceRoster        members and invites, one call at a time (abstract specification)
      ^ implemented by
    Members                the members of a Workspace under row locks
    PhoneBinding           numbers: TurnCall's bindings, the mirror, the secret
    GitHubPush             connections, the link, pushes beside other committers
    AgentEdits             edit sessions, form edits and takeaways of one agent
    AgentKnowledge         the implicit knowledge base
    ProviderCatalog        the listing cache
    Accounts               signup, logins, the role gate
    ConsoleContracts       pure functions against reference definitions

Each of the first five state machines has an instance for TLC, `MC<module>`; the last five
modules, which share no state, run together as `MCConsole`. Theorems are in `<module>Proofs`,
those of `AgentEdits` and `AgentKnowledge` in `AgentContentProofs`, those of `ProviderCatalog`,
`ConsoleContracts` and the parts of `MCConsole` together in `ConsoleProofs`.

### CreateSaga

`session`, `row`, `project` and `agent` are the `sessions` table, the `agent_backends` table
and what TurnCall holds; `pc`, `port`, `key` and `secret` are the locals of each create call.
A call creates at most one project and one agent, and TurnCall's ids are fresh, so both are
named by the call. Each action is one await of `create_agent` with what follows it up to the
next: `ReadPort`, `CreateProject` (before the compensated block, so its failure undoes
nothing), `CreateKey`, `RegisterWebhook` (best-effort), `CreateAgent`, `LinkSession`,
`RecordBackend` and `StoreSecret` (after the block, so their failure is an uncaught 500),
`Rollback` (needs the key). Failures are of five kinds (`Fault`): a request refused, a request
done with its answer lost, a statement that fails, a statement that commits with its
acknowledgement lost, and the death of the process, which nothing at startup repairs.

`RefinesCustody` is the refinement: `CustodyOf` maps the state of a call to who answers for
its project, and `CreateSaga` implements `ProjectCustody` under that mapping. It says which
handovers can happen at all; for instance that the registry loses a project only to a
teardown, and that an orphan is never found again.

### AgentBackend

One agent after the saga recorded it. `row` is its registry row, `disk` its `service_dir`
(which tools `app.py` serves, what `.env` holds, whether there is a git repository and an
uncommitted user edit), `container` what docker runs, `live` the config on TurnCall. A request that
spawns a worker ends there, so a task is the request and then its worker. The steps are those
of `apply_update` (push, store, mark, spawn), of `materialize_and_run` (commit user edits,
write, git init and commit, compose up, with an await between them), of the status updates
behind it, and of `delete_agent`. `.env` is looked at before the commit of user edits and
written after it, as in the code. `restart` reuses an image that exists. `CrashAndBoot` ends
every task and runs the startup reaper.

Much of what one would like to say of a backend is false once tasks overlap, because nothing
serialises them. The history variable `odd` names the circumstances that excuse a stale
backend (tasks overlapped, a task died or its failure was ignored, a restart stood in for a
failed build, a deleted agent was worked on), and each property names the ones it excuses.
`EditsKept` and `RegenSparesEnv` excuse no overlap.

The user may edit at any moment. An edit is `safe` if every worker under way still has its commit
before it, and `exposed` if one has passed it, or if the commit failed: the exit codes of git are
ignored, so a failed `git add`, `git commit` or `git init` goes on to the overwrite. `EditsKept`
says that no step turns a safe edit into a lost one; that exposed edits can be lost is an
observation (`NothingLost`). A worker may raise wherever it renders or calls git or docker, a
missing binary and a full disk included (`WorkerRaises`), and then records `failed`.

Left out: half-written repositories, and exceptions of the requests themselves at a delete or a
bind.

### Members

One Workspace. `role` is the committed state of `memberships`; each call carries what it read,
which rows its `SELECT ... FOR UPDATE` still has to lock, and what it waits for; `holder` and
`redeemer` are the row locks. A plain `SELECT` is a read without a lock, `SnapshotAdmins` is
the snapshot of `_other_admins_exist`, `LockAdmin` takes one of its rows in any order and
re-reads it, `WriteRole` is the `UPDATE` or `DELETE` with the `COMMIT` behind it (nobody sees
the difference: the lock is held over both). `change_member_role` and `remove_member` are one
sequence of actions; a removal sets the role to `NotMember`. Deadlocks are detected and broken
as Postgres does; connections may break at any time. Initial states are all Workspaces with
an admin, as signup, `create_workspace` and earlier calls leave them. What a request is
answered is left out: no property tells the answers apart.

`RefinesRoster` is the refinement: the same `role`, `invite` and `overtaken`, with the locks and
the calls hidden, are those of `WorkspaceRoster`, where each call is one step. It says that what
other users can see is what some order of whole calls would have done: an invite is used up in
the very step that makes its user a member, with its role; a role changes only by a change or a
removal of that member; and admin is taken only beside another admin, or by a call that was
overtaken, which the roster marks.

### PhoneBinding

`bound` is what TurnCall routes, `mirror` the table the console lists, `hook` the row of the
shared webhook project and `hooks` the webhook projects that exist, `env` the secret in each
agent's `.env`. A binding is named by the request that made it, and so are its row and signing
secret. A request is a sequence of labels, one per await: `ReadHook`, `CreateHook` and
`SaveHook` (`ensure_webhook_project`, whose insert does nothing on a conflict while the request
goes on with the project it made), `Put` (an in-place update of the binding), `Unbind` and
`Bind` (a move, or a deletion's first half), `Sync` (`_sync_call_init_secret`), `Record` and
`Drop` (the mirror), `RemoveProject` (the teardown of the agent). TurnCall's side is external and
modelled by what the handlers rely on: a key of a deleted project is refused, a key sees the
bindings of its own project only, a number is bound once. `Interrupt` ends a request before any
of its steps: a refused or lost call, a failed statement, a dead process. The body of an update may
name another number than its row: in place the row keeps its own (`NewNum`), a move binds the
body's. What restarting the container after `Sync` does is `AgentBackend`'s.

`odd` records what excuses a mirror that disagrees: requests overlapped, one was cut short after
a call it had not recorded, or a move lost its old binding and got no new one. `ListedUntilDeleted`
excuses none of these.

### GitHubPush

One agent. `link` is the `github_*` columns of its row, `remote` the files each target (repository,
branch and path) holds, `None` where its branch does not exist. Versions of the agent's files are
trees as well (`FilesOf`), and a version stands for its own `tree_hash`, which like `_collect` looks
at the files that are not in `_NEVER_PUSH` only (`Seen`). `ReadBaseline`, `Clone`, `Upload` and
`Record` are the awaits of a push. `Clone` starts a missing branch from the default branch, compares
with the baseline unless there are no files to compare, and makes the copy that will be pushed: a
path is replaced, a root keeps what the version does not overwrite, older files of the builder's own
among it. A copy with nothing to commit is a success without a push. `Upload` is a push without
force: `cloned` says whether the branch is still where it was cloned. A push that fails for any
reason, with or without effect, is recorded as rejected; `error` tells that from a difference found
by the comparison, which the code does not. `Upstream` is anyone else's commit: it may change the
target, empty it, leave files in `_NEVER_PUSH`, create or delete the branch, or touch the rest of the
repository only. `Disconnect` clears the links and the ids requests still hold. Link and push requests
share slots that are used again and again.

### AgentEdits

Whatever writes one agent's config: sessions opened from the registry (`ReadSeed`,
`InsertSession`), turns (`BeginTurn`, `ModelAnswers`, `SaveDraft`, `SaveHistory`), hand edits,
`apply`, the form edit, and takeaways, which read the attached ids, call TurnCall and write them
back. A config is who wrote it and which takeaways it attaches. A model that finalizes may leave
the attachments out, since its tool's schema does not have them, and a form saves whatever its body
attaches (`BeginPut`), be it older than a takeaway. A statement may commit and its acknowledgement,
or the process, be lost before anyone is answered (`LostAnswer`). `answered` and `drafted` record
what callers were told; `contested`, `unheard`, `calm` and `behind` record writers of a session that
overlapped or died, sessions whose last turn was saved unheard, writers of the config that overlapped
or died, and an update that carried other attachments than the registry's.

### AgentKnowledge

Uploads and deletes resolve the base by name in a listing (any base of that name may come
first); an upload that finds none creates one and links it, a call each. `alone` is that one
upload created the base and went on to link it.

### ProviderCatalog

One entry of `_CACHE`, of any kind and provider. A miss begins a fetch that keeps the time and
the entry it saw; success and failure both cache for a TTL from that time. The fetchers are
operators: without a key or with nothing usable some return the builder's own list, some
nothing.

### Accounts

`users`, the Workspace signup creates with them, login sessions, and one role per user in the
Workspace a call names. Signup and logins end in `CreateLoginSession`; `GoogleLookup` and
`GoogleInsert` are the two statements of `upsert_google_user` with its conflict branch. A
console call passes `ResolveSession`, `ResolveMembership` and `Handle`, an await apart, while
`ChangeRole` may revoke the role it was admitted with (`ActsWithinRole`, under *Observations*). `Canonical` (strip and lower) is a constant. Hashing and the OAuth exchange
are their outcomes.

### ConsoleContracts

Pure functions, each posed every input of a bounded space as a case: configs (server, custom
tools and their URLs, pipeline, region, optional blocks) through `Normalize`, `External`, `Wired`,
`ToolsChanged` and the request body's `Fields`; nested values through `Redact`; byte ranges through
`Recording`; vendor errors and unusable tool calls through `ClassifyVendorError` and `TurnStatus`.
A vendor error has a cause, a status and the phrases its text holds; `Told` says how each cause is
reported, and leaves every text free to hold any phrase besides.
The reference definitions (`Effect`, `UnderSecret`, `Public`, the bytes asked for, the cause) are
stated beside them. Nested values are built level by level, `MaxDepth` deep with lists of at most
`MaxItems` items, and the functions that descend into them are recursive functions.

## Runs

| Run | Instance | Shows |
|---|---|---|
| `saga` | 2 creates, 2 sessions, 1 teardown, every fault | types, ownership, exclusive ports, inert orphans, the refinement |
| `backend` | first build and 2 more tasks, 3 configs (two differ in tools, two only in the prompt), every fault | code/image/badge/config agreement, teardown, committed user edits, the secret; a generating badge is always replaced |
| `members` | 3 users, 3 calls, 1 invite for admin, 2 roles | the last admin, single-use invites, the refinement of `WorkspaceRoster` |
| `members_live` | same, 2 calls | every transaction ends, deadlocks included |
| `phones` | 4 requests, 2 numbers, 1 agent and the webhook project, interruptions | mirror against bindings, unlisting, keys that outlive rows, the secret |
| `github` | 1 user, a path and a root target, 3 file names (one never pushed), 2 versions, 2 slots, every fault | edits on GitHub survive a push with a baseline, the baseline is the remote, a difference found under a path is real |
| `console` | one part per behaviour: 3 requests on 2 sessions; 3 requests, 3 bases; 2 readers, TTL 2, time to 5; 4 callers, 3 spellings; all cases with 2 tools, values nested 2 deep with lists of up to 2, recordings up to 5 bytes | a property or more of each part |
| `saga_raises` | as `saga`, no fault | finding 1 |
| `saga_twice` | 1 session, 2 creates, no fault | finding 2 |
| `backend_env` | as `backend`, no fault | finding 3 |
| `backend_sync` | as `backend`, docker faults | finding 4 |
| `members_last` | as `members` | finding 5 |

Bounds. Two creates are enough for each conflict of the saga: a shared port, a shared session,
a compensation beside a recorded agent; a teardown works on one agent. One backend task beside
another gives each overlap of two workers; the third lets a bind or a delete arrive between
them, which finding 3 needs. Three calls on the members are what finding 5 needs (a stale
removal, a promotion, a demotion); two suffice for a cycle of lock waits. Editor and viewer
are alike to the last-admin logic, so two roles stand for three.

Four phone requests are two that add numbers and two that race about them (an edit and a
deletion, two moves, a deletion of the agent and a bind), and two numbers are what one secret per
agent can be wrong about. The agent and the webhook project are the two projects a move goes
between. In `github` the slots are reused, so pushes and relinks follow one another without end;
two at a time give each overlap, and a path and a root target the two ways of copying. The second
version lacks a file of the first, which stays at the root; others leave an edited file or, under the
path, nothing but a file that is never pushed. The first
three requests of `console` are two writers and one that arrives between their steps; the
catalog's time runs for two TTLs and more, and a caller in `accounts` may create, log in, be
demoted and act, with another beside it. Every counter that could grow is bounded by a finite set of
requests, each used once, or by `MaxTime`, `MaxLength`, `MaxDepth` and `MaxItems`, which are
constants; the theorems hold for all of their values.

Symmetry, only in runs without liveness: calls and the two users no invite names in `members`,
requests and numbers in `phones`, slots in `github`, three requests in `console`. `backend` has a
liveness property and so no symmetry; its two tasks are interchangeable, and the constraint
`FirstThingsFirst` lets the first begin before the second.

A stopped system is a proper end where requests are a finite set (every call made and
answered), and in the catalog when time stops, so the configurations of all modules but
`CreateSaga` switch the deadlock check off. `CreateSaga` says with `Terminated` what a proper end
is, and the check stays on.

Fairness, in `backend` and `members_live`. Weak fairness of the steps of each task or call, and
nothing else: the event loop runs what can run, the TurnCall client has timeouts, Postgres grants a
lock that stays free.
Docker and git commands are awaited without a timeout (`generator._run`), so `GeneratingSettles`
assumes that each of them ends. Nobody has to make a request, edit, or crash.

Each property of a passing run has a mutant in `PROJECT.json`: an operator beside the original
(`NextPortNoDefault`, `KeepsEnvNever`, `AcceptedForced`, ...) that changes it as a plausible bug
would and that TLC finds out by that property.

## Proofs

Theorems hold for every set of sessions, calls, users, numbers, targets and so on, and every
combination of faults. They assume what the `ASSUME`s state: the null values are not proper
values, agents and requests have different names, the base port and the TTL are positive, `Admin`
is a role, invites name a user and a role, canonicalizing twice is canonicalizing once, the keys
that are secret are keys, bounds are natural numbers. Every invariant of the runs is a theorem, and
both refinements are. Types apart, no invariant of the state machines is inductive as it stands.

`CreateSagaProofs`. None of the saga's invariants is inductive: that a recorded agent is live
depends on where its call is. `Inv` adds `StageOK` (what a call has done, by where it is, and
what the registry knows, by what it has done), `LinkOK`, `TeardownOK`, `PortsUnique` (of the
rows, while `PortsExclusive` is about the calls), and `TopExists`, that the ports in use have a
largest, which types `next_port` without an argument on finite sets. One lemma per part shows
each action preserves it; `Invariance` collects them, and the theorems for `TypeOK`,
`CreatedIsOwned`, `RecordedIsLive`, `PortsExclusive`, `OrphanIsInert` and `OneAgentPerSession`
follow. `Refinement` shows that each step moves the custody of at most one project (of several
on a crash) as `ProjectCustody` allows. `CallsGoOnward`: each step of a call has fewer steps after
it, so nothing is retried and no answer revised.

`MembersProofs`. `AdminRemains` rests on `WitnessOK`: a call that found another admin still
holds that admin's row, and a held row keeps its role, since only a write by its holder changes
it; and on `GuardOK`: a call about to take admin from an admin it saw has found another. What
the theorem cannot say without `overtaken` is finding 5. `InviteJoinsOnce` rests on `RedeemOK`:
a call about to join holds its invite's row, so the invite is still pending and joined nobody.
`RosterRefinement` needs both, and `JoinFits`: a call that joins does so for the user its invite
names, which its own read established and nothing undoes. `JoinsByInvite` and `InviteKeepsRole`
say of each step who may come in and that joining changes no member's role. `LocksAreLive` (a row
is held by a call that is locking, writing or joining) and `CallsAdvance` (a call goes back to no
label and its rows to lock only get fewer) are the safe half of `EveryCallEnds`.

`AgentBackendProofs`. One lemma per action or piece of one says field by field what it does
(`PushEffect`, `UpEffect`, ...), so that the steps of the invariant never look inside a record.
`Inv` adds `KindOK` (where a task can be, by what it is), `EditsOK` (a safe edit lives in a
repository, and no worker under way is past the commit that keeps it), `EnvOK` (a repository has an `.env`, and a
regeneration that is about to overwrite has seen it), `SerialOK` (tasks that did not overlap are
under way one at a time), `DeletedOK`, and `SyncOK`: what agrees with what when nothing is under
way, and at each step of the one task that is. `EditsKept` and `RegenSparesEnv` hold with any
number of overlapping workers; `DeletedIsDown` and `InSyncWhenSerial` rest on `SerialOK`.
`GeneratingIsOwned` and `OwnersAdvance` are the safe half of `GeneratingSettles`: a badge that says
generating has a worker under way that will replace it, and such a worker moves on, at most seven
steps, unless it dies or its status update fails.

`PhoneBindingProofs`. A request works from what it read of a row, so `Inv` first says that such
knowledge does not go stale: the project of an id never changes (`BoundOK`, `RowOK`: a move makes
a new id), what a request knows of its row stays true (`Knows`, `Target`), and two requests about
one id know the same (`PairOK`). On that rest `Stage` (what each label has established),
`DetachedFirst` (a row is dropped after its binding is gone, or out of the stored key's sight),
`ReplacedOK` (while a move that keeps the number drops a row, the number keeps another), and with them
`ListedUntilDeleted`, under any races and interruptions. `SerialOK` is that before the first
overlap one request is under way, which gives `KeyOutlivesRow`. `MirrorAgrees` needs `PlainOK`,
where the mirror may lag behind by label, and `CallInitVerifies` also `SecretOK`, which row the
last `Sync` was for.

`GitHubPushProofs`. `BaselineSparesEdits` rests on `UploadOK`: a push with a baseline whose branch
has not moved since the clone would replace only what the baseline allows, because the clone compared
and every commit, also the builder's own, outdates the clones of its target. It needs no assumption on
overlaps or relinks. `BaselineIsRemote` and `RefusalIsTruthful` rest on `CalmOK` (the push under
way is about the present link and baseline), `BaselineOK` (they agree up to the push that has
taken effect and is about to be recorded), and `RefusalOK` (a comparison that failed under a path did
so by somebody else's change, or against the default branch).

`AccountsProofs`. `EmailOK`, `GrantOK` (a request about to be given a session carries a canonical
address, whose account it has found) and `LoginOK` give `OneEmailOneAccount`; the conflict branch
of the Google insert is where it would break.

`AgentContentProofs`. `AttachedIffExists` rests on `SoloOK`: while no two writers of the config have
overlapped, the one under way has established what its label says (`WriterOK`). `SessionsAsAnswered`
rests on `ChatOK`: an uncontested session has one request at most, which holds the history it is
about to extend and knows whose draft is stored (`TurnOK`); and, contested or not, on `PastOK`: a turn
about to be saved ends the history it will write. For the knowledge base, `SingleOK`:
while one upload creates and links, no other found no base, and a base not linked yet is the one
it is about to link.

`ConsoleProofs`. For the catalog, `CatSoloOK`: the only fetch under way knows the present cache,
which holds the last answer. The contracts of `ConsoleContracts` hold of every case, so their work
is in lemmas on the functions. `NormalizingIsInvisible` compares a config with its stored and shown
forms tool by tool (`ResolvedAgain`: a URL that was filled in resolves to itself). `SecretsMasked`
is an induction over the depth of nesting, stated as the absence of a least depth that fails
(`NatSet`); `RedactIs`, `UnderSecretIs` and `PublicIs` first show that the recursive functions are
the functions their definitions say. `RangeIsExact` is arithmetic on the ends of an interval. The
parts together keep their types because a step of one leaves the others alone (`ConsoleInvariant`).

Model-checked only: the liveness properties `GeneratingSettles` and `EveryCallEnds`, since fairness
and `ENABLED` are outside the prover (the safe half of each is proved, as said above), and the
violations under *Findings*.

## Findings

1. `GenerateNeverRaises`: the comment at `routers/sessions.py:405` says that recording the
   backend never raises. Two creates that read the same `max(port)` make the second INSERT
   violate `UNIQUE (port)` outside the compensated block.
2. `CreateIsIdempotent`: ADR-0004 says create is idempotent. Overlapping creates of one session
   each provision and record an agent.
3. `EnvNeverClobbered`: `agent_update.py:73` says a live `.env` is never clobbered. The first
   build writes `.env` without looking, also when a regeneration and a bind came first.
4. `InSync`: ADR-0006 says the overwrite edit keeps config and backend in sync. After a failed
   image build, a start reuses the old image and the badge says running.
5. `NeverWithoutAdmin`: `auth_store.py:304-305` says the check blocks the change that leaves a
   Workspace with no admin. The check is skipped on a role read without a lock.

## Observations

Met while modelling; they are no runs of their own. The definitions named are in the modules, and
TLC refutes each under the configuration of its module.

- `MirrorNeverDrifts` (`PhoneBinding`). ADR-0006 says the mirror can drift only if numbers are
  changed outside the builder. A bind that overlaps the deletion of its agent, a move whose
  second call is refused, and a request cut between TurnCall and the mirror all drift it. Nothing
  reconciles the two.
- `EditsNeverClobbered` (`GitHubPush`). `CONTEXT.md` says an edit on GitHub makes a push fail. A
  relink forgets the baseline, and the first push after it overwrites. Under a baseline, a path whose
  files were all deleted is filled again, and files in `_NEVER_PUSH` that others committed go.
- `ConflictIsForeign` (`GitHubPush`). `docs/github-setup.md:109-111` says a 409 means changes the
  builder did not make. `github.py:378-383` answers 409 for every failed push (network, rights, branch
  protection, a lost answer), and a root whose older files the builder itself left differs from the
  baseline.
- `NothingLost` (`AgentBackend`). `generator.py:7-9` and ADR-0013 say that nothing is ever lost. An
  edit made after `git add`, or in a repository whose git failed, is overwritten uncommitted.
- `ExistingIsRecorded` (`CreateSaga`). ADR-0004 says create reuses the registry row. A session whose
  create died after the link answers later creates with an agent that has no row.
- `AppliesWhatWasAnswered` (`AgentEdits`). `apply` pushes the session's draft; between the two saves of
  a turn, or after one whose answer was lost, that is a draft nobody has been shown.
- `TakeawaysSurviveUpdates` (`AgentEdits`). `mapper.py:181-182` says attachments must survive
  updates. A session opened, or a form loaded, before a takeaway was attached and applied or saved after
  it detaches it.
- `ActsWithinRole` (`Accounts`). `auth_store.py:156` says a re-roled member's change takes effect
  immediately. A handler that was admitted before the change runs to its end.
- `RetryIffItMayPass` (`ConsoleContracts`). `sessions.py:112-114` tells 503 (try again) from 502 (change
  something first). An unknown model or a malformed request is a 503, and a rate limit whose text names
  the billing page a 502.
- Two first webhook binds make two webhook projects. The one that is not stored keeps its
  binding, which no later unbind can see (`ListedUntilDeleted` makes the exception explicit).
- Two numbers with caller info on one agent share one `CALL_INIT_SECRET`; the last bind wins.
- A knowledge base that was created but not linked is found by later uploads, whose documents do
  not reach the agent.
- A late catalog fetch that failed writes the entry it saw at its start over a newer one.
- The startup probe does not name `aws`, which a config with a region sends.
- A suffix range (`bytes=-n`) is read as the first `n + 1` bytes.
- A tool call of the model without its fields is a 500; `builder.py:33` counts malformed tool
  calls among the errors that become a 502.
- A tool object the model leaves among the names of builtin tools is wired to the backend, which
  has no handler for it.
- A push to a branch that is missing, where the default branch holds the files already, records success
  without creating the branch.
- A missing `git` raises `FileNotFoundError`, and the build is recorded as failed; the docstring of
  `generator.py` says git never blocks generation.

## Not modelled

- The builder's prompt, tool schema and the content of its answers: text. A turn is an await that
  asks, finalizes or fails.
- `toolgen.py` and the templates of `scaffold.py`: generated text. Which files a build writes, keeps
  and commits is in `AgentBackend`.
- The signature check of generated webhooks, browser calls (`webrtc`) and the listings of agents,
  calls and repositories: single calls passed through.
- Settings, the pool, the frame of the process: wiring. The startup reaper is `CrashAndBoot`.
- Migrations, but for the constraints the handlers lean on (unique port, email, membership; the
  singleton webhook project; links cleared with their connection).
- Several processes of the service: one event loop is assumed.

What would extend the project most: `PhoneBinding` and `AgentBackend` composed over one `.env`,
and two agents with four requests in `phones`.
