----------------------------- MODULE AgentBackend -----------------------------
(***************************************************************************)
(* The generated backend of one agent after its saga recorded it: the       *)
(* registry row, the repository on disk, its container, and the requests    *)
(* and background workers that change them.  A request that spawns a worker *)
(* ends there, so both are one task here.  Nothing serialises the tasks of  *)
(* an agent: each await lets every other task move.                         *)
(***************************************************************************)
EXTENDS Naturals, FiniteSets

CONSTANTS
    Task,           \* requests and background workers
    BuildTask,      \* the worker the saga spawned, already running
    Config,         \* agent configs
    InitialConfig,  \* the config the agent was created with
    ToolSet,        \* what the custom_tools of a config can be
    ToolsOf,        \* the custom_tools of each config
    NoTools,        \* no app.py, no image, no recorded tool statuses
    HasSecret,      \* the webhook registration gave a signing secret
    Faults          \* the failures the environment may inject

Fault == {"turncall",  \* a TurnCall request fails, with or without effect
          "docker",    \* a docker command fails
          "git",       \* a git command fails (the index is locked, say)
          "db",        \* a statement fails
          "raise",     \* a build raises: a file cannot be written, a command not started
          "crash"}     \* the builder process dies

Kind == {"build", "update", "start", "bind", "delete"}

ASSUME ConstantsAssumption ==
    /\ BuildTask \in Task
    /\ InitialConfig \in Config
    /\ ToolsOf \in [Config -> ToolSet]
    /\ NoTools \notin ToolSet
    /\ HasSecret \in BOOLEAN
    /\ Faults \subseteq Fault

VARIABLES
    row,        \* agent_backends: config, status, tools (tool_statuses), deleted
    live,       \* TurnCall: the config the agent runs, or "gone"
    disk,       \* service_dir: app.py's tools, .env, .git, an uncommitted user edit
    container,  \* docker: the image's tools, whether it runs, the .env it read
    task,       \* per task: what it is, where it is, what it carries (Local)
    odd         \* history: what happened that excuses a stale backend

vars == <<row, live, disk, container, task, odd>>

\* "raced": two tasks ran at once; "troubled": a task died or its failure was
\* ignored; "shortcut": a restart was asked when the last build had failed;
\* "revived": a task other than a delete began on a deleted agent.
Oddity == {"raced", "troubled", "shortcut", "revived"}

-------------------------------------------------------------------------------
Running == {"push", "store", "mark", "toolgen", "commit", "write", "init", "up",
            "settle", "tools", "fail", "down", "project", "hide"}

Active(t) == task[t].at \in Running
Quiet == \A t \in Task : ~Active(t)

\* The badge of a backend that came up.
Healthy == IF HasSecret THEN "running" ELSE "degraded"
Status == {"generating", "running", "degraded", "failed", "deleted"}

\* tools_changed: the custom tools alone decide whether the code must change.
ToolsChanged(old, new) == ToolsOf[old] # ToolsOf[new]

\* What a task carries: what it is, where it is; an update, the config it works
\* for, and until its worker is spawned the config and the failed badge its
\* request read; a worker, whether it keeps .env, and how compose up ended.
Local == [kind: Kind, at: Running \cup {"idle", "done"}, cfg: Config, old: Config,
          failed: BOOLEAN, keepEnv: BOOLEAN, ok: BOOLEAN]

Idle == [kind |-> "build", at |-> "idle", cfg |-> InitialConfig, old |-> InitialConfig,
         failed |-> FALSE, keepEnv |-> FALSE, ok |-> FALSE]

Ended == [Idle EXCEPT !.at = "done"]

Worker(t, label) == [Idle EXCEPT !.kind = task[t].kind, !.at = label, !.cfg = task[t].cfg]

Become(t, label) ==
    task' = [task EXCEPT ![t] = IF label = "done" THEN Ended ELSE [@ EXCEPT !.at = label]]

\* A worker on its way to its except clause remembers only what it is.
Fail(t) ==
    task' = [task EXCEPT ![t] = [Idle EXCEPT !.kind = task[t].kind, !.at = "fail"]]

Init ==
    /\ row = [config |-> InitialConfig, status |-> "generating", tools |-> NoTools,
              deleted |-> FALSE]
    /\ live = InitialConfig
    /\ disk = [app |-> NoTools, env |-> "absent", edited |-> "none", git |-> FALSE]
    /\ container = [image |-> NoTools, up |-> FALSE, env |-> "absent"]
    /\ task = [t \in Task |-> IF t = BuildTask THEN [Idle EXCEPT !.at = "toolgen"] ELSE Idle]
    /\ odd = {}

-------------------------------------------------------------------------------
(* Requests.  Each reads the row when it begins, deleted or not.           *)

\* What a task starting now says about the history.
Circumstances(kind) ==
    (IF Quiet THEN {} ELSE {"raced"})
    \cup (IF kind \in {"start", "bind"} /\ row.status = "failed" THEN {"shortcut"} ELSE {})
    \cup (IF kind # "delete" /\ row.deleted THEN {"revived"} ELSE {})

Begin(t, kind, local) ==
    /\ task[t].at = "idle"
    /\ task' = [task EXCEPT ![t] = local]
    /\ odd' = odd \cup Circumstances(kind)

\* PUT /agents/{id} and POST /sessions/{sid}/apply.
BeginUpdate(t, c) ==
    /\ Begin(t, "update", [Idle EXCEPT !.kind = "update", !.at = "push", !.cfg = c,
                                       !.old = row.config,
                                       !.failed = row.status = "failed"])
    /\ UNCHANGED <<row, live, disk, container>>

BeginStart(t) ==
    /\ Begin(t, "start", [Idle EXCEPT !.kind = "start", !.at = "mark"])
    /\ UNCHANGED <<row, live, disk, container>>

BeginDeleteOnly(t) ==
    /\ Begin(t, "delete", [Idle EXCEPT !.kind = "delete", !.at = "project"])
    /\ UNCHANGED <<row, live, disk, container>>

BeginDelete(t) ==
    /\ Begin(t, "delete", [Idle EXCEPT !.kind = "delete", !.at = "down"])
    /\ UNCHANGED <<row, live, disk, container>>

\* A managed call-init bind, from TurnCall's answer on: the secret goes into
\* .env and the container is recreated.  Without a service_dir the open fails.
BeginBind(t) ==
    /\ Begin(t, "bind", IF disk.app = NoTools THEN Ended
                        ELSE [Idle EXCEPT !.kind = "bind", !.at = "up"])
    /\ disk' = IF disk.app = NoTools THEN disk ELSE [disk EXCEPT !.env = "bound"]
    /\ UNCHANGED <<row, live, container>>

-------------------------------------------------------------------------------
(* apply_update                                                            *)

PushConfig(t) ==
    /\ task[t].at = "push"
    /\ \/ /\ live # "gone"
          /\ live' = task[t].cfg
          /\ Become(t, "store")
          /\ UNCHANGED odd
       \/ /\ live = "gone" \/ "turncall" \in Faults
          /\ Become(t, "done")
          /\ UNCHANGED <<live, odd>>
       \/ /\ live # "gone" /\ "turncall" \in Faults
          /\ live' = task[t].cfg
          /\ Become(t, "done")
          /\ odd' = odd \cup {"troubled"}
    /\ UNCHANGED <<row, disk, container>>

\* The old config is the one the row had when the request read it.
StoreConfig(t) ==
    /\ task[t].at = "store"
    /\ \/ /\ row' = [row EXCEPT !.config = task[t].cfg]
          /\ IF ToolsChanged(task[t].old, task[t].cfg) \/ task[t].failed
             THEN task' = [task EXCEPT ![t] = Worker(t, "mark")]
             ELSE Become(t, "done")
          /\ UNCHANGED odd
       \/ /\ "db" \in Faults
          /\ Become(t, "done")
          /\ odd' = odd \cup {"troubled"}
          /\ UNCHANGED row
    /\ UNCHANGED <<live, disk, container>>

\* set_status('generating'), then the worker is spawned: of an update it
\* regenerates, of a start it only recreates the container.
MarkGenerating(t) ==
    /\ task[t].at = "mark"
    /\ \/ /\ row' = [row EXCEPT !.status = "generating"]
          /\ task' = [task EXCEPT ![t] =
                         Worker(t, IF task[t].kind = "start" THEN "up" ELSE "toolgen")]
          /\ UNCHANGED odd
       \/ /\ "db" \in Faults
          /\ Become(t, "done")
          /\ odd' = odd \cup {"troubled"}
          /\ UNCHANGED row
    /\ UNCHANGED <<live, disk, container>>

-------------------------------------------------------------------------------
(* The workers: _run_build, _run_regen, _run_restart                       *)

\* A regeneration leaves an existing .env alone; the first build never looks.
KeepsEnvNever(t) == FALSE
KeepsEnv(t) == task[t].kind = "update" /\ disk.env # "absent"

Written(t, keepEnv) ==
    [disk EXCEPT !.app = ToolsOf[task[t].cfg],
                 !.env = IF keepEnv THEN @ ELSE "plain",
                 !.edited = "none"]

MustCommitNever == FALSE
MustCommit == disk.git

\* The handler bodies have arrived.  Without a repository the files are written
\* at once; with one, user edits are committed first, and that is an await.
Render(t) ==
    /\ task[t].at = "toolgen"
    /\ \/ /\ ~MustCommit
          /\ disk' = Written(t, KeepsEnv(t))
          /\ Become(t, "init")
       \/ /\ MustCommit
          /\ task' = [task EXCEPT ![t] = [@ EXCEPT !.at = "commit", !.keepEnv = KeepsEnv(t)]]
          /\ UNCHANGED disk
    /\ UNCHANGED <<row, live, container, odd>>

\* One uncommitted edit is followed, whichever it is, with what protects it:
\* "safe" was made in a repository while no worker was past the commit in front
\* of its overwrite, any other is "exposed".  A commit that fails exposes it.
Exposed == IF disk.edited = "none" THEN "none" ELSE "exposed"

\* git add and commit, whose return codes nobody reads.
CommitEdits(t) ==
    /\ task[t].at = "commit"
    /\ \/ disk' = [disk EXCEPT !.edited = "none"]
       \/ "git" \in Faults /\ disk' = [disk EXCEPT !.edited = Exposed]
    /\ Become(t, "write")
    /\ UNCHANGED <<row, live, container, odd>>

Write(t) ==
    /\ task[t].at = "write"
    /\ disk' = Written(t, task[t].keepEnv)
    /\ task' = [task EXCEPT ![t] = Worker(t, "init")]
    /\ UNCHANGED <<row, live, container, odd>>

\* git init, and the commit of everything there is, edits included; a git that
\* fails at either is ignored.
GitInit(t) ==
    /\ task[t].at = "init"
    /\ \/ disk' = [disk EXCEPT !.git = TRUE, !.edited = "none"]
       \/ "git" \in Faults /\ \E made \in BOOLEAN :
              disk' = [disk EXCEPT !.git = @ \/ made]
    /\ Become(t, "up")
    /\ UNCHANGED <<row, live, container, odd>>

\* docker compose up: with --build the image is rebuilt from the repository,
\* without it an existing image is reused.
ImageAfterUpStale(t) == IF container.image # NoTools THEN container.image ELSE disk.app
ImageAfterUp(t) ==
    IF task[t].kind \in {"start", "bind"} /\ container.image # NoTools
    THEN container.image ELSE disk.app

\* A bind ignores how its restart ended.
Restarted(t, ok) ==
    task' = [task EXCEPT ![t] = IF task[t].kind = "bind" THEN Ended
                                ELSE [@ EXCEPT !.at = "settle", !.ok = ok]]

ComposeUp(t) ==
    /\ task[t].at = "up"
    /\ \/ /\ disk.app # NoTools
          /\ container' = [image |-> ImageAfterUp(t), up |-> TRUE, env |-> disk.env]
          /\ Restarted(t, TRUE)
          /\ UNCHANGED odd
       \/ /\ disk.app = NoTools \/ "docker" \in Faults
          /\ Restarted(t, FALSE)
          /\ odd' = IF task[t].kind = "bind" THEN odd \cup {"troubled"} ELSE odd
          /\ UNCHANGED container
    /\ UNCHANGED <<row, live, disk>>

\* A build or a regeneration raises before it has written the repository or
\* after (one written in part is taken for either); its except clause follows.
WorkerRaises(t) ==
    /\ "raise" \in Faults
    /\ task[t].kind \in {"build", "update"}
    /\ task[t].at \in {"toolgen", "commit", "write", "init", "up"}
    /\ \/ UNCHANGED disk
       \/ task[t].at = "toolgen" /\ ~MustCommit /\ disk' = Written(t, KeepsEnv(t))
       \/ task[t].at = "write" /\ disk' = Written(t, task[t].keepEnv)
    /\ Fail(t)
    /\ UNCHANGED <<row, live, container, odd>>

\* set_status of what came of it.  A build that fails to say so gets a second
\* try from its except clause; a restart has none.
OutcomeRaw(t) == IF task[t].ok THEN "up" ELSE "exited"
OutcomePending(t) == IF task[t].ok THEN Healthy ELSE "generating"
Outcome(t) == IF task[t].ok THEN Healthy ELSE "failed"

Settle(t) ==
    /\ task[t].at = "settle"
    /\ \/ /\ row' = [row EXCEPT !.status = Outcome(t)]
          /\ IF task[t].kind = "start" THEN Become(t, "done")
             ELSE task' = [task EXCEPT ![t] = Worker(t, "tools")]
          /\ UNCHANGED odd
       \/ /\ "db" \in Faults /\ task[t].kind # "start"
          /\ Fail(t)
          /\ UNCHANGED <<row, odd>>
       \/ /\ "db" \in Faults /\ task[t].kind = "start"
          /\ Become(t, "done")
          /\ odd' = odd \cup {"troubled"}
          /\ UNCHANGED row
    /\ UNCHANGED <<live, disk, container>>

SetToolStatuses(t) ==
    /\ task[t].at = "tools"
    /\ \/ /\ row' = [row EXCEPT !.tools = ToolsOf[task[t].cfg]]
          /\ Become(t, "done")
       \/ /\ "db" \in Faults
          /\ Fail(t)
          /\ UNCHANGED row
    /\ UNCHANGED <<live, disk, container, odd>>

\* The except clause of a worker: set_status('failed'), outside any try.
RecordFailure(t) ==
    /\ task[t].at = "fail"
    /\ \/ /\ row' = [row EXCEPT !.status = "failed"]
          /\ UNCHANGED odd
       \/ /\ "db" \in Faults
          /\ odd' = odd \cup {"troubled"}
          /\ UNCHANGED row
    /\ Become(t, "done")
    /\ UNCHANGED <<live, disk, container>>

-------------------------------------------------------------------------------
(* delete_agent                                                            *)

\* docker compose down runs in service_dir: without one the request fails;
\* with one its outcome is ignored.
ComposeDown(t) ==
    /\ task[t].at = "down"
    /\ \/ /\ disk.app # NoTools
          /\ container' = [container EXCEPT !.up = FALSE]
          /\ Become(t, "project")
          /\ UNCHANGED odd
       \/ /\ disk.app # NoTools /\ "docker" \in Faults
          /\ Become(t, "project")
          /\ odd' = odd \cup {"troubled"}
          /\ UNCHANGED container
       \/ /\ disk.app = NoTools
          /\ Become(t, "done")
          /\ UNCHANGED <<container, odd>>
    /\ UNCHANGED <<row, live, disk>>

DeleteProject(t) ==
    /\ task[t].at = "project"
    /\ \/ live' = "gone"
       \/ "turncall" \in Faults /\ UNCHANGED live
    /\ Become(t, "hide")
    /\ UNCHANGED <<row, disk, container, odd>>

MarkDeleted(t) ==
    /\ task[t].at = "hide"
    /\ \/ /\ row' = [row EXCEPT !.deleted = TRUE, !.status = "deleted"]
          /\ UNCHANGED odd
       \/ /\ "db" \in Faults
          /\ odd' = odd \cup {"troubled"}
          /\ UNCHANGED row
    /\ Become(t, "done")
    /\ UNCHANGED <<live, disk, container>>

-------------------------------------------------------------------------------
(* The environment                                                         *)

\* The user edits a generated file, at any moment.
Protection ==
    IF disk.git /\ \A t \in Task : task[t].at # "write" THEN "safe" ELSE "exposed"

UserEdit ==
    /\ disk.app # NoTools /\ disk.edited = "none"
    /\ disk' = [disk EXCEPT !.edited = Protection]
    /\ UNCHANGED <<row, live, container, task, odd>>

\* No task survives the process.  The next start reaps the container of an
\* agent that is not in the list of backends any more, if docker answers.
CrashAndBoot ==
    /\ "crash" \in Faults
    /\ task' = [t \in Task |-> IF Active(t) THEN Ended ELSE task[t]]
    /\ odd' = IF Quiet THEN odd ELSE odd \cup {"troubled"}
    /\ \/ container' = IF row.deleted THEN [container EXCEPT !.up = FALSE] ELSE container
       \/ "docker" \in Faults /\ UNCHANGED container
    /\ UNCHANGED <<row, live, disk>>

-------------------------------------------------------------------------------
Step(t) ==
    \/ PushConfig(t) \/ StoreConfig(t) \/ MarkGenerating(t)
    \/ Render(t) \/ CommitEdits(t) \/ Write(t) \/ GitInit(t) \/ ComposeUp(t)
    \/ WorkerRaises(t) \/ Settle(t) \/ SetToolStatuses(t) \/ RecordFailure(t)
    \/ ComposeDown(t) \/ DeleteProject(t) \/ MarkDeleted(t)

Next ==
    \/ \E t \in Task, c \in Config : BeginUpdate(t, c)
    \/ \E t \in Task : BeginStart(t) \/ BeginBind(t) \/ BeginDelete(t)
    \/ \E t \in Task : Step(t)
    \/ UserEdit
    \/ CrashAndBoot

Spec == Init /\ [][Next]_vars

\* A spawned worker and an accepted request run until they end: every await in
\* them completes.  Nobody is obliged to make a request, edit or crash.
FairSpec == Spec /\ \A t \in Task : WF_vars(Step(t))

-------------------------------------------------------------------------------
(* What the backend promises.                                              *)

Tools == ToolSet \cup {NoTools}
Env == {"absent", "plain", "bound"}

TypeOK ==
    /\ row \in [config: Config, status: Status, tools: Tools, deleted: BOOLEAN]
    /\ live \in Config \cup {"gone"}
    /\ disk \in [app: Tools, env: Env, edited: {"none", "safe", "exposed"}, git: BOOLEAN]
    /\ container \in [image: Tools, up: BOOLEAN, env: Env]
    /\ task \in [Task -> Local]
    /\ odd \subseteq Oddity

\* The repository, the image and the recorded provenance are those of the
\* config the registry holds, and TurnCall runs that config.
Matches ==
    /\ disk.app = ToolsOf[row.config] /\ row.tools = disk.app
    /\ container = [image |-> disk.app, up |-> TRUE, env |-> disk.env]
    /\ live = row.config

\* Config and backend are in sync whenever nothing is under way and the badge
\* says the backend is up, as long as tasks came one at a time, none died, and
\* no restart stood in for a failed build.
InSyncWhenSerial ==
    Quiet /\ odd = {} /\ row.status = Healthy => Matches

\* A deleted agent has no container and its row says so, as long as tasks came
\* one at a time, none died, and nothing but deletes was asked afterwards.
DeletedIsDown ==
    Quiet /\ row.deleted /\ odd \subseteq {"shortcut"} =>
        row.status = "deleted" /\ ~container.up

\* A user's edit that is in a repository and that no worker was past committing
\* when it was made stops being uncommitted only where a worker runs git: however
\* workers overlap and raise, none overwrites it before.
EditsKept ==
    [][disk.edited = "safe" /\ disk'.edited # "safe" =>
         \E t \in Task : task[t].at \in {"commit", "init"} /\ task'[t].at \in {"write", "up"}]_vars

\* A call-init secret in .env is lost to the first build at most: no
\* regeneration, restart or bind takes it away.
RegenSparesEnv ==
    [][disk.env = "bound" /\ disk'.env # "bound" =>
         /\ task[BuildTask].at \in {"toolgen", "write"}
         /\ task'[BuildTask].at \in {"init", "fail"}]_disk

\* A backend shown as generating leaves that state, unless a task died.
GeneratingSettles ==
    row.status = "generating" ~> (row.status # "generating" \/ "troubled" \in odd)

\* agent_update.py: "Never clobber a live .env — a bind may have added
\* CALL_INIT_SECRET"; scaffold.py: "so a bind-time CALL_INIT_SECRET is never
\* clobbered".
EnvNeverClobbered == [][disk.env = "bound" => disk'.env = "bound"]_vars

\* docs/adr/0006: "Keeps config and backend in sync without a versioning
\* surface", here for tasks that come one at a time and do not die.
InSync == Quiet /\ odd \subseteq {"shortcut"} /\ row.status = Healthy => Matches

\* generator.py: "any user edits are committed *before* a regeneration overwrites
\* them - nothing in a generated repo is ever lost".
NothingLost ==
    [][\A t \in Task :
         task[t].at = "write" /\ task'[t].at = "init" => disk.edited = "none"]_vars
===============================================================================
