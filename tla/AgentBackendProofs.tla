-------------------------- MODULE AgentBackendProofs --------------------------
(***************************************************************************)
(* Theorems about AgentBackend, for every set of tasks and configs and      *)
(* every combination of faults.                                             *)
(***************************************************************************)
EXTENDS AgentBackend, TLAPS

Disk == [app: Tools, env: Env, edited: {"none", "safe", "exposed"}, git: BOOLEAN]

\* Where a task can be follows from what it is.
KindOK ==
    \A t \in Task :
        /\ task[t].at \in {"push", "store"} => task[t].kind = "update"
        /\ task[t].at = "mark" => task[t].kind \in {"update", "start"}
        /\ task[t].at \in {"toolgen", "commit", "write", "init", "tools", "fail"} =>
               task[t].kind \in {"build", "update"}
        /\ task[t].at = "up" => task[t].kind # "delete"
        /\ task[t].at = "settle" => task[t].kind \in {"build", "update", "start"}
        /\ task[t].at \in {"down", "project", "hide"} => task[t].kind = "delete"
        /\ Active(t) /\ task[t].kind = "build" => t = BuildTask

\* A safe edit is in a repository, and no worker is about to overwrite it.
EditsOK ==
    disk.edited = "safe" => disk.git /\ \A t \in Task : task[t].at # "write"

\* A repository has an .env, and a regeneration of one has seen it.
EnvOK ==
    /\ disk.git => disk.env # "absent"
    /\ \A t \in Task :
          /\ task[t].at = "init" => disk.env # "absent"
          /\ task[t].at \in {"commit", "write"} =>
                 disk.git /\ (task[t].kind = "update" => task[t].keepEnv)

\* Tasks that come one at a time are under way one at a time.
SerialOK ==
    "raced" \notin odd => \A s, t \in Task : Active(s) /\ Active(t) => s = t

\* Nothing but deletes is under way on a deleted agent, which stays down, and
\* a delete past compose down has stopped the container.
DeletedOK ==
    odd \subseteq {"shortcut"} =>
        /\ row.deleted => row.status = "deleted" /\ ~container.up
        /\ \A t \in Task : Active(t) =>
               /\ row.deleted => task[t].kind = "delete"
               /\ task[t].at \in {"project", "hide"} => ~container.up

\* In an ordinary history: what agrees with what when nothing is under way ...
RestOK ==
    /\ row.status # "generating"
    /\ row.status = Healthy => Matches

\* ... and at each step of the task that is.
CodeIs(cfg) == disk.app = ToolsOf[cfg]
RunsConfig == live = row.config

StepOK(t) ==
    /\ task[t].at \in {"push", "store"} =>
           /\ row.status # "generating" /\ task[t].old = row.config
           /\ task[t].failed <=> row.status = "failed"
    /\ task[t].at = "push" => (row.status = Healthy => Matches)
    /\ task[t].at = "store" =>
           /\ live = task[t].cfg
           /\ row.status = Healthy =>
                /\ CodeIs(row.config) /\ row.tools = disk.app
                /\ container = [image |-> disk.app, up |-> TRUE, env |-> disk.env]
    /\ task[t].at \in Running \ {"push", "store", "fail", "down", "project", "hide"} =>
           RunsConfig
    /\ task[t].at \in {"mark", "toolgen", "commit", "write", "init", "up", "settle", "tools"}
         /\ task[t].kind \in {"build", "update"} => task[t].cfg = row.config
    /\ task[t].at \in {"init", "up", "settle", "tools"} => CodeIs(row.config)
    /\ task[t].at = "mark" /\ task[t].kind = "start" => Matches
    /\ task[t].at \in {"up", "settle"} /\ task[t].kind \in {"start", "bind"} =>
           row.tools = disk.app
    /\ task[t].at = "up" /\ task[t].kind \in {"start", "bind"} => container.image = disk.app
    /\ task[t].at = "up" /\ task[t].kind = "bind" => row.status # "generating"
    /\ (task[t].at = "settle" /\ task[t].ok) \/ (task[t].at = "tools" /\ row.status = Healthy) =>
           container = [image |-> disk.app, up |-> TRUE, env |-> disk.env]
    /\ task[t].at = "tools" => row.status # "generating"
    /\ task[t].at = "down" => RestOK
    /\ task[t].at \in {"project", "hide"} => row.status # "generating"

SyncOK ==
    odd = {} =>
        /\ row.status \in {"generating", Healthy, "failed", "deleted"}
        /\ row.status = "deleted" => row.deleted
        /\ Quiet => RestOK
        /\ \A t \in Task : Active(t) => StepOK(t)

Inv == TypeOK /\ KindOK /\ EditsOK /\ EnvOK /\ SerialOK /\ DeletedOK /\ SyncOK

-------------------------------------------------------------------------------
(* What the pieces of the actions do to the tasks.                         *)

\* Only t moves, to label.
MovesOnly(t, label) ==
    /\ task' \in [Task -> Local]
    /\ \A s \in Task : s # t => task'[s] = task[s]
    /\ task'[t].at = label

Stage == Running \cup {"idle", "done"}

LEMMA IdleLocal == Idle \in Local /\ Ended \in Local /\ Ended.at = "done" /\ Idle.at = "idle"
    BY ConstantsAssumption DEF Idle, Ended, Local, Kind, Running

LEMMA AtLocal ==
    ASSUME NEW x \in Local, NEW label \in Stage
    PROVE  /\ [x EXCEPT !.at = label] \in Local
           /\ [x EXCEPT !.at = label].at = label
           /\ [x EXCEPT !.at = label].kind = x.kind
           /\ [x EXCEPT !.at = label].cfg = x.cfg
           /\ [x EXCEPT !.at = label].old = x.old
           /\ [x EXCEPT !.at = label].failed = x.failed
           /\ [x EXCEPT !.at = label].keepEnv = x.keepEnv
           /\ [x EXCEPT !.at = label].ok = x.ok
    BY DEF Local, Stage

\* A task that goes on keeps what it carries.
LEMMA BecomeEffect ==
    ASSUME TypeOK, NEW t \in Task, NEW label \in Stage, Become(t, label)
    PROVE  /\ MovesOnly(t, label)
           /\ label # "done" =>
                /\ task'[t].kind = task[t].kind /\ task'[t].cfg = task[t].cfg
                /\ task'[t].old = task[t].old /\ task'[t].failed = task[t].failed
                /\ task'[t].keepEnv = task[t].keepEnv /\ task'[t].ok = task[t].ok
<1>1. task \in [Task -> Local]
    BY DEF TypeOK
<1>2. CASE label = "done"
    <2>1. task' = [task EXCEPT ![t] = Ended]
        BY <1>2 DEF Become
    <2>2. QED
        BY <1>1, <1>2, <2>1, IdleLocal DEF MovesOnly
<1>3. CASE label # "done"
    <2> DEFINE new == [task[t] EXCEPT !.at = label]
    <2>1. task' = [task EXCEPT ![t] = new]
        BY <1>3 DEF Become
    <2>2. /\ new \in Local /\ new.at = label /\ new.kind = task[t].kind
          /\ new.cfg = task[t].cfg /\ new.old = task[t].old /\ new.failed = task[t].failed
          /\ new.keepEnv = task[t].keepEnv /\ new.ok = task[t].ok
        BY <1>1, AtLocal
    <2> HIDE DEF new
    <2>3. QED
        BY <1>1, <1>3, <2>1, <2>2 DEF MovesOnly
<1>4. QED
    BY <1>2, <1>3

\* A worker carries its kind and its config.
LEMMA WorkerEffect ==
    ASSUME TypeOK, NEW t \in Task, NEW label \in Stage,
           task' = [task EXCEPT ![t] = Worker(t, label)]
    PROVE  /\ MovesOnly(t, label)
           /\ task'[t].kind = task[t].kind /\ task'[t].cfg = task[t].cfg
           /\ task'[t].keepEnv = FALSE
<1>1. task \in [Task -> Local]
    BY DEF TypeOK
<1>2. /\ Worker(t, label) \in Local /\ Worker(t, label).at = label
      /\ Worker(t, label).kind = task[t].kind /\ Worker(t, label).cfg = task[t].cfg
      /\ Worker(t, label).keepEnv = FALSE
    BY <1>1, ConstantsAssumption DEF Worker, Idle, Local, Stage
<1>3. QED
    BY <1>1, <1>2 DEF MovesOnly

\* A render that has to commit first remembers whether it found an .env.
LEMMA CommitEffect ==
    ASSUME TypeOK, NEW t \in Task, NEW b \in BOOLEAN,
           task' = [task EXCEPT ![t] = [@ EXCEPT !.at = "commit", !.keepEnv = b]]
    PROVE  /\ MovesOnly(t, "commit")
           /\ task'[t].kind = task[t].kind /\ task'[t].cfg = task[t].cfg
           /\ task'[t].keepEnv = b
<1>1. task[t] \in Local
    BY DEF TypeOK
<1> DEFINE new == [[task[t] EXCEPT !.at = "commit"] EXCEPT !.keepEnv = b]
<1>2. task' = [task EXCEPT ![t] = new]
    BY DEF TypeOK
<1>3. /\ new \in Local /\ new.at = "commit" /\ new.keepEnv = b
      /\ new.kind = task[t].kind /\ new.cfg = task[t].cfg
    BY <1>1 DEF Local, Running
<1> HIDE DEF new
<1>4. QED
    BY <1>2, <1>3 DEF MovesOnly, TypeOK

\* Where docker compose up leaves its task.
LEMMA RestartedEffect ==
    ASSUME TypeOK, NEW t \in Task, NEW ok \in BOOLEAN, Restarted(t, ok)
    PROVE  /\ MovesOnly(t, IF task[t].kind = "bind" THEN "done" ELSE "settle")
           /\ task[t].kind # "bind" =>
                /\ task'[t].kind = task[t].kind /\ task'[t].cfg = task[t].cfg
                /\ task'[t].ok = ok
<1>1. task \in [Task -> Local]
    BY DEF TypeOK
<1>2. CASE task[t].kind = "bind"
    <2>1. task' = [task EXCEPT ![t] = Ended]
        BY <1>2 DEF Restarted
    <2>2. QED
        BY <1>1, <1>2, <2>1, IdleLocal DEF MovesOnly
<1>3. CASE task[t].kind # "bind"
    <2> DEFINE new == [[task[t] EXCEPT !.at = "settle"] EXCEPT !.ok = ok]
    <2>1. task' = [task EXCEPT ![t] = new]
        BY <1>3 DEF Restarted
    <2>2. /\ new \in Local /\ new.at = "settle" /\ new.ok = ok
          /\ new.kind = task[t].kind /\ new.cfg = task[t].cfg
        BY <1>1 DEF Local, Running
    <2> HIDE DEF new
    <2>3. QED
        BY <1>1, <1>3, <2>1, <2>2 DEF MovesOnly
<1>4. QED
    BY <1>2, <1>3

\* What a beginning task may add to the history.
Excuses(kind) ==
    /\ odd \subseteq odd' /\ odd' \subseteq Oddity
    /\ "troubled" \in odd' => "troubled" \in odd
    /\ "raced" \notin odd' => Quiet
    /\ "revived" \notin odd' => kind = "delete" \/ ~row.deleted
    /\ "shortcut" \notin odd' => kind \notin {"start", "bind"} \/ row.status # "failed"

\* A task begins as what it was asked for.
LEMMA BeginEffect ==
    ASSUME TypeOK, NEW t \in Task, NEW kind \in Kind, NEW local \in Local,
           Begin(t, kind, local)
    PROVE  /\ MovesOnly(t, local.at) /\ task'[t] = local /\ task[t].at = "idle"
           /\ Excuses(kind)
<1>1. MovesOnly(t, local.at) /\ task'[t] = local /\ task[t].at = "idle"
    BY DEF Begin, TypeOK, MovesOnly
<1>2. Excuses(kind)
    BY DEF Begin, Circumstances, TypeOK, Oddity, Excuses
<1>3. QED
    BY <1>1, <1>2

LEMMA UpdateEffect ==
    ASSUME TypeOK, NEW t \in Task, NEW c \in Config, BeginUpdate(t, c)
    PROVE  /\ task[t].at = "idle" /\ MovesOnly(t, "push") /\ task'[t].kind = "update"
           /\ task'[t].old = row.config /\ (task'[t].failed <=> row.status = "failed")
           /\ Excuses("update") /\ UNCHANGED <<row, live, disk, container>>
<1> DEFINE new == [Idle EXCEPT !.kind = "update", !.at = "push", !.cfg = c,
                               !.old = row.config, !.failed = row.status = "failed"]
<1>1. /\ new \in Local /\ new.kind = "update" /\ new.at = "push"
      /\ new.old = row.config /\ (new.failed <=> row.status = "failed")
    BY DEF TypeOK, Idle, Local, Kind, Running
<1>2. Begin(t, "update", new) /\ UNCHANGED <<row, live, disk, container>>
    BY DEF BeginUpdate
<1> HIDE DEF new
<1>3. QED
    BY <1>1, <1>2, BeginEffect DEF Kind

LEMMA StartEffect ==
    ASSUME TypeOK, NEW t \in Task, BeginStart(t)
    PROVE  /\ task[t].at = "idle" /\ MovesOnly(t, "mark") /\ task'[t].kind = "start"
           /\ Excuses("start") /\ UNCHANGED <<row, live, disk, container>>
<1> DEFINE new == [Idle EXCEPT !.kind = "start", !.at = "mark"]
<1>1. new \in Local /\ new.kind = "start" /\ new.at = "mark"
    BY ConstantsAssumption DEF Idle, Local, Kind, Running
<1>2. Begin(t, "start", new) /\ UNCHANGED <<row, live, disk, container>>
    BY DEF BeginStart
<1> HIDE DEF new
<1>3. QED
    BY <1>1, <1>2, BeginEffect DEF Kind

LEMMA DeleteEffect ==
    ASSUME TypeOK, NEW t \in Task, BeginDelete(t)
    PROVE  /\ task[t].at = "idle" /\ MovesOnly(t, "down") /\ task'[t].kind = "delete"
           /\ Excuses("delete") /\ UNCHANGED <<row, live, disk, container>>
<1> DEFINE new == [Idle EXCEPT !.kind = "delete", !.at = "down"]
<1>1. new \in Local /\ new.kind = "delete" /\ new.at = "down"
    BY ConstantsAssumption DEF Idle, Local, Kind, Running
<1>2. Begin(t, "delete", new) /\ UNCHANGED <<row, live, disk, container>>
    BY DEF BeginDelete
<1> HIDE DEF new
<1>3. QED
    BY <1>1, <1>2, BeginEffect DEF Kind

\* A bind goes on only where there is a repository to write its secret to.
LEMMA BindEffect ==
    ASSUME TypeOK, NEW t \in Task, BeginBind(t)
    PROVE  /\ task[t].at = "idle" /\ Excuses("bind") /\ UNCHANGED <<row, live, container>>
           /\ \/ disk.app = NoTools /\ disk' = disk /\ MovesOnly(t, "done")
              \/ /\ disk.app # NoTools /\ disk' = [disk EXCEPT !.env = "bound"]
                 /\ MovesOnly(t, "up") /\ task'[t].kind = "bind"
<1> DEFINE new == [Idle EXCEPT !.kind = "bind", !.at = "up"]
<1>1. new \in Local /\ new.kind = "bind" /\ new.at = "up"
    BY ConstantsAssumption DEF Idle, Local, Kind, Running
<1>2. Begin(t, "bind", IF disk.app = NoTools THEN Ended ELSE new)
    BY DEF BeginBind
<1>3. disk' = IF disk.app = NoTools THEN disk ELSE [disk EXCEPT !.env = "bound"]
    BY DEF BeginBind
<1>4. UNCHANGED <<row, live, container>>
    BY DEF BeginBind
<1> HIDE DEF new
<1>5. CASE disk.app = NoTools
    BY <1>2, <1>3, <1>4, <1>5, IdleLocal, BeginEffect DEF Kind
<1>6. CASE disk.app # NoTools
    BY <1>1, <1>2, <1>3, <1>4, <1>6, BeginEffect DEF Kind
<1>7. QED
    BY <1>5, <1>6

\* Where docker compose up leaves everything.
LEMMA UpEffect ==
    ASSUME TypeOK, NEW t \in Task, ComposeUp(t)
    PROVE  /\ task[t].at = "up" /\ UNCHANGED <<row, live, disk>>
           /\ task[t].kind = "bind" => MovesOnly(t, "done")
           /\ task[t].kind # "bind" =>
                 /\ MovesOnly(t, "settle")
                 /\ task'[t].kind = task[t].kind /\ task'[t].cfg = task[t].cfg
           /\ \/ /\ disk.app # NoTools /\ odd' = odd /\ (task[t].kind # "bind" => task'[t].ok)
                 /\ container' = [image |-> ImageAfterUp(t), up |-> TRUE, env |-> disk.env]
              \/ /\ container' = container
                 /\ task[t].kind = "bind" => odd' = odd \cup {"troubled"}
                 /\ task[t].kind # "bind" => odd' = odd /\ ~task'[t].ok
<1>1. CASE task[t].kind = "bind"
    BY <1>1, RestartedEffect DEF ComposeUp
<1>2. CASE task[t].kind # "bind"
    BY <1>2, RestartedEffect DEF ComposeUp
<1>3. QED
    BY <1>1, <1>2

LEMMA TaskFields ==
    ASSUME TypeOK, NEW t \in Task
    PROVE  /\ task[t].kind \in Kind /\ task[t].at \in Stage
           /\ task[t].cfg \in Config /\ task[t].old \in Config
           /\ task[t].keepEnv \in BOOLEAN /\ task[t].ok \in BOOLEAN
           /\ ToolsOf[task[t].cfg] \in ToolSet
    BY ConstantsAssumption DEF TypeOK, Local, Stage

\* Where the store of a config leaves its task.
LEMMA StoreEffect ==
    ASSUME TypeOK, NEW t \in Task, StoreConfig(t)
    PROVE  /\ task[t].at = "store" /\ UNCHANGED <<live, disk, container>>
           /\ \/ /\ row' = [row EXCEPT !.config = task[t].cfg] /\ odd' = odd
                 /\ \/ /\ ToolsChanged(task[t].old, task[t].cfg) \/ task[t].failed
                       /\ MovesOnly(t, "mark") /\ task'[t].kind = task[t].kind
                       /\ task'[t].cfg = task[t].cfg
                    \/ /\ ~ToolsChanged(task[t].old, task[t].cfg) /\ ~task[t].failed
                       /\ MovesOnly(t, "done")
              \/ row' = row /\ odd' = odd \cup {"troubled"} /\ MovesOnly(t, "done")
<1> DEFINE changed == ToolsChanged(task[t].old, task[t].cfg) \/ task[t].failed
<1>1. CASE changed
    BY <1>1, BecomeEffect, WorkerEffect DEF StoreConfig, Stage, Running
<1>2. CASE ~changed
    BY <1>2, BecomeEffect DEF StoreConfig, Stage, Running
<1>3. QED
    BY <1>1, <1>2

\* set_status('generating') spawns the worker of its kind.
LEMMA MarkEffect ==
    ASSUME TypeOK, NEW t \in Task, MarkGenerating(t)
    PROVE  /\ task[t].at = "mark" /\ UNCHANGED <<live, disk, container>>
           /\ \/ /\ row' = [row EXCEPT !.status = "generating"] /\ odd' = odd
                 /\ task'[t].kind = task[t].kind /\ task'[t].cfg = task[t].cfg
                 /\ task[t].kind = "start" => MovesOnly(t, "up")
                 /\ task[t].kind # "start" => MovesOnly(t, "toolgen")
              \/ row' = row /\ odd' = odd \cup {"troubled"} /\ MovesOnly(t, "done")
<1>1. CASE task[t].kind = "start"
    BY <1>1, BecomeEffect, WorkerEffect DEF MarkGenerating, Stage, Running
<1>2. CASE task[t].kind # "start"
    BY <1>2, BecomeEffect, WorkerEffect DEF MarkGenerating, Stage, Running
<1>3. QED
    BY <1>1, <1>2

\* What an overwrite of the repository leaves in it.
Overwritten(t, keepEnv) ==
    /\ disk' \in Disk
    /\ disk'.app = ToolsOf[task[t].cfg] /\ disk'.edited = "none"
    /\ keepEnv => disk'.env = disk.env
    /\ ~keepEnv => disk'.env = "plain"
    /\ disk'.git = disk.git

LEMMA WrittenEffect ==
    ASSUME TypeOK, NEW t \in Task, NEW keepEnv \in BOOLEAN, disk' = Written(t, keepEnv)
    PROVE  Overwritten(t, keepEnv)
<1>1. ToolsOf[task[t].cfg] \in Tools
    BY TaskFields DEF Tools
<1>2. QED
    BY <1>1 DEF Written, Overwritten, TypeOK, Env, Disk

LEMMA RenderEffect ==
    ASSUME TypeOK, NEW t \in Task, Render(t)
    PROVE  /\ task[t].at = "toolgen" /\ UNCHANGED <<row, live, container, odd>>
           /\ task'[t].kind = task[t].kind /\ task'[t].cfg = task[t].cfg
           /\ \/ ~disk.git /\ Overwritten(t, KeepsEnv(t)) /\ MovesOnly(t, "init")
              \/ /\ disk.git /\ disk' = disk /\ MovesOnly(t, "commit")
                 /\ task'[t].keepEnv = KeepsEnv(t)
<1>1. KeepsEnv(t) \in BOOLEAN
    BY DEF KeepsEnv
<1>2. CASE ~disk.git
    BY <1>1, <1>2, BecomeEffect, WrittenEffect DEF Render, MustCommit, Stage, Running
<1>3. CASE disk.git
    BY <1>1, <1>3, CommitEffect DEF Render, MustCommit
<1>4. QED
    BY <1>2, <1>3

LEMMA WriteEffect ==
    ASSUME TypeOK, NEW t \in Task, Write(t)
    PROVE  /\ task[t].at = "write" /\ UNCHANGED <<row, live, container, odd>>
           /\ task'[t].kind = task[t].kind /\ task'[t].cfg = task[t].cfg
           /\ Overwritten(t, task[t].keepEnv) /\ MovesOnly(t, "init")
<1>1. task[t].keepEnv \in BOOLEAN
    BY TaskFields
<1>2. QED
    BY <1>1, WorkerEffect, WrittenEffect DEF Write, Stage, Running

LEMMA PushEffect ==
    ASSUME TypeOK, NEW t \in Task, PushConfig(t)
    PROVE  /\ task[t].at = "push" /\ UNCHANGED <<row, disk, container>>
           /\ \/ /\ live' = task[t].cfg /\ odd' = odd /\ MovesOnly(t, "store")
                 /\ task'[t].kind = task[t].kind /\ task'[t].cfg = task[t].cfg
                 /\ task'[t].old = task[t].old /\ task'[t].failed = task[t].failed
              \/ live' = live /\ odd' = odd /\ MovesOnly(t, "done")
              \/ /\ live' = task[t].cfg /\ odd' = odd \cup {"troubled"}
                 /\ MovesOnly(t, "done")
    BY BecomeEffect DEF PushConfig, Stage, Running

LEMMA CommitEditsEffect ==
    ASSUME TypeOK, NEW t \in Task, CommitEdits(t)
    PROVE  /\ task[t].at = "commit" /\ UNCHANGED <<row, live, container, odd>>
           /\ MovesOnly(t, "write") /\ task'[t].kind = task[t].kind
           /\ task'[t].cfg = task[t].cfg /\ task'[t].keepEnv = task[t].keepEnv
           /\ disk' \in Disk /\ disk'.app = disk.app /\ disk'.env = disk.env
           /\ disk'.git = disk.git /\ disk'.edited # "safe"
<1>1. task[t].at = "commit" /\ UNCHANGED <<row, live, container, odd>> /\ Become(t, "write")
    BY DEF CommitEdits
<1>2. PICK e \in {"none", "exposed"} : disk' = [disk EXCEPT !.edited = e]
    BY DEF CommitEdits, Exposed
<1>3. /\ disk' \in Disk /\ disk'.app = disk.app /\ disk'.env = disk.env
      /\ disk'.git = disk.git /\ disk'.edited # "safe"
    BY <1>2 DEF TypeOK, Disk
<1>4. QED
    BY <1>1, <1>3, BecomeEffect DEF Stage, Running

\* What git init and the commit after it leave.
LEMMA GitInitEffect ==
    ASSUME TypeOK, NEW t \in Task, GitInit(t)
    PROVE  /\ task[t].at = "init" /\ UNCHANGED <<row, live, container, odd>>
           /\ MovesOnly(t, "up") /\ task'[t].kind = task[t].kind
           /\ task'[t].cfg = task[t].cfg
           /\ disk' \in Disk /\ disk'.app = disk.app /\ disk'.env = disk.env
           /\ disk.git => disk'.git
           /\ disk'.edited \in {"none", disk.edited}
<1>1. task[t].at = "init" /\ UNCHANGED <<row, live, container, odd>> /\ Become(t, "up")
    BY DEF GitInit
<1>2. /\ disk' \in Disk /\ disk'.app = disk.app /\ disk'.env = disk.env
      /\ disk.git => disk'.git
      /\ disk'.edited \in {"none", disk.edited}
    <2>1. CASE disk' = [disk EXCEPT !.git = TRUE, !.edited = "none"]
        BY <2>1 DEF TypeOK, Disk
    <2>2. ASSUME NEW made \in BOOLEAN, disk' = [disk EXCEPT !.git = @ \/ made]
          PROVE  /\ disk' \in Disk /\ disk'.app = disk.app /\ disk'.env = disk.env
                 /\ disk.git => disk'.git
                 /\ disk'.edited \in {"none", disk.edited}
        BY <2>2 DEF TypeOK, Disk
    <2>3. QED
        BY <2>1, <2>2 DEF GitInit
<1>3. QED
    BY <1>1, <1>2, BecomeEffect DEF Stage, Running

\* A worker that goes to its except clause.
LEMMA FailEffect ==
    ASSUME TypeOK, NEW t \in Task, Fail(t)
    PROVE  MovesOnly(t, "fail") /\ task'[t].kind = task[t].kind
<1> DEFINE new == [[Idle EXCEPT !.kind = task[t].kind] EXCEPT !.at = "fail"]
<1>1. task \in [Task -> Local] /\ task' = [task EXCEPT ![t] = new]
    BY DEF TypeOK, Fail
<1>2. new \in Local /\ new.at = "fail" /\ new.kind = task[t].kind
    BY <1>1, ConstantsAssumption DEF Idle, Local, Running
<1> HIDE DEF new
<1>3. QED
    BY <1>1, <1>2 DEF MovesOnly

\* An exception of a build comes before or after it overwrote the repository.
LEMMA RaiseEffect ==
    ASSUME TypeOK, NEW t \in Task, WorkerRaises(t)
    PROVE  /\ task[t].kind \in {"build", "update"}
           /\ task[t].at \in {"toolgen", "commit", "write", "init", "up"}
           /\ UNCHANGED <<row, live, container, odd>>
           /\ MovesOnly(t, "fail") /\ task'[t].kind = task[t].kind
           /\ \/ disk' = disk
              \/ task[t].at = "toolgen" /\ ~disk.git /\ Overwritten(t, KeepsEnv(t))
              \/ task[t].at = "write" /\ Overwritten(t, task[t].keepEnv)
<1>1. KeepsEnv(t) \in BOOLEAN /\ task[t].keepEnv \in BOOLEAN
    BY TaskFields DEF KeepsEnv
<1>2. MovesOnly(t, "fail") /\ task'[t].kind = task[t].kind
    BY FailEffect DEF WorkerRaises
<1>3. QED
    BY <1>1, <1>2, WrittenEffect DEF WorkerRaises, MustCommit

\* What the except clause records.
LEMMA RecordFailureEffect ==
    ASSUME TypeOK, NEW t \in Task, RecordFailure(t)
    PROVE  /\ task[t].at = "fail" /\ UNCHANGED <<live, disk, container>>
           /\ MovesOnly(t, "done")
           /\ \/ row' = [row EXCEPT !.status = "failed"] /\ odd' = odd
              \/ row' = row /\ odd' = odd \cup {"troubled"}
    BY BecomeEffect DEF RecordFailure, Stage, Running

\* What a user's edit leaves.
LEMMA UserEditEffect ==
    ASSUME TypeOK, UserEdit
    PROVE  /\ UNCHANGED <<row, live, container, task, odd>>
           /\ disk' \in Disk /\ disk'.app = disk.app /\ disk'.env = disk.env
           /\ disk'.git = disk.git /\ disk.edited = "none"
           /\ disk'.edited = "safe" => disk.git /\ \A t \in Task : task[t].at # "write"
    BY DEF UserEdit, Protection, TypeOK, Disk

LEMMA DownEffect ==
    ASSUME TypeOK, NEW t \in Task, ComposeDown(t)
    PROVE  /\ task[t].at = "down" /\ UNCHANGED <<row, live, disk>>
           /\ task'[t].kind = task[t].kind \/ MovesOnly(t, "done")
           /\ \/ /\ disk.app # NoTools /\ odd' = odd
                 /\ container' = [container EXCEPT !.up = FALSE] /\ MovesOnly(t, "project")
              \/ /\ container' = container /\ odd' = odd \cup {"troubled"}
                 /\ MovesOnly(t, "project")
              \/ /\ disk.app = NoTools /\ container' = container /\ odd' = odd
                 /\ MovesOnly(t, "done")
    BY BecomeEffect DEF ComposeDown, Stage, Running

LEMMA SettleEffect ==
    ASSUME TypeOK, NEW t \in Task, Settle(t)
    PROVE  /\ task[t].at = "settle" /\ UNCHANGED <<live, disk, container>>
           /\ \/ /\ row' = [row EXCEPT !.status = Outcome(t)] /\ odd' = odd
                 /\ task[t].kind = "start" => MovesOnly(t, "done")
                 /\ task[t].kind # "start" =>
                       /\ MovesOnly(t, "tools") /\ task'[t].kind = task[t].kind
                       /\ task'[t].cfg = task[t].cfg
              \/ /\ row' = row /\ odd' = odd /\ task[t].kind # "start"
                 /\ MovesOnly(t, "fail") /\ task'[t].kind = task[t].kind
              \/ row' = row /\ odd' = odd \cup {"troubled"} /\ MovesOnly(t, "done")
<1>1. CASE task[t].kind = "start"
    BY <1>1, BecomeEffect DEF Settle, Stage, Running
<1>2. CASE task[t].kind # "start"
    BY <1>2, WorkerEffect, FailEffect DEF Settle, Stage, Running
<1>3. QED
    BY <1>1, <1>2

LEMMA ToolsEffect ==
    ASSUME TypeOK, NEW t \in Task, SetToolStatuses(t)
    PROVE  /\ task[t].at = "tools" /\ UNCHANGED <<live, disk, container, odd>>
           /\ \/ /\ row' = [row EXCEPT !.tools = ToolsOf[task[t].cfg]]
                 /\ MovesOnly(t, "done")
              \/ /\ row' = row /\ MovesOnly(t, "fail")
                 /\ task'[t].kind = task[t].kind
    BY BecomeEffect, FailEffect DEF SetToolStatuses, Stage, Running

LEMMA HideEffect ==
    ASSUME TypeOK, NEW t \in Task, MarkDeleted(t)
    PROVE  /\ task[t].at = "hide" /\ UNCHANGED <<live, disk, container>>
           /\ MovesOnly(t, "done")
           /\ \/ /\ row' = [row EXCEPT !.deleted = TRUE, !.status = "deleted"]
                 /\ odd' = odd
              \/ row' = row /\ odd' = odd \cup {"troubled"}
    BY BecomeEffect DEF MarkDeleted, Stage, Running

LEMMA TroubledType ==
    ASSUME TypeOK
    PROVE  odd \cup {"troubled"} \subseteq Oddity
    BY DEF TypeOK, Oddity

\* The end of the process ends every task under way.
LEMMA CrashEffect ==
    ASSUME TypeOK, CrashAndBoot
    PROVE  /\ task' \in [Task -> Local]
           /\ \A t \in Task : ~Active(t)' /\ (~Active(t) => task'[t] = task[t])
           /\ Quiet \/ "troubled" \in odd'
           /\ Quiet => odd' = odd /\ task' = task
           /\ odd \subseteq odd' /\ odd' \subseteq Oddity
           /\ UNCHANGED <<row, live, disk>>
           /\ \/ container' = container
              \/ row.deleted /\ container' = [container EXCEPT !.up = FALSE]
    BY IdleLocal DEF CrashAndBoot, Active, TypeOK, Quiet, Running, Oddity

-------------------------------------------------------------------------------
(* Each part of the invariant is preserved by each action.                 *)

LEMMA TypeStep ==
    ASSUME TypeOK, [Next]_vars
    PROVE  TypeOK'
<1> USE ConstantsAssumption
    DEF TypeOK, MovesOnly, Tools, Env, Disk, Status, Oddity, Running, Healthy, vars
<1>1. ASSUME NEW t \in Task, NEW c \in Config, BeginUpdate(t, c)
      PROVE  TypeOK'
    BY <1>1, UpdateEffect DEF Excuses
<1>2. ASSUME NEW t \in Task, BeginStart(t)
      PROVE  TypeOK'
    BY <1>2, StartEffect DEF Excuses
<1>3. ASSUME NEW t \in Task, BeginBind(t)
      PROVE  TypeOK'
    BY <1>3, BindEffect DEF Excuses
<1>4. ASSUME NEW t \in Task, BeginDelete(t)
      PROVE  TypeOK'
    BY <1>4, DeleteEffect DEF Excuses
<1>5. ASSUME NEW t \in Task, PushConfig(t)
      PROVE  TypeOK'
    <2>1. odd' \subseteq Oddity
        <3>1. odd' = odd \/ odd' = odd \cup {"troubled"}
            BY <1>5, PushEffect
        <3>2. QED
            BY <3>1, TroubledType
    <2>2. task' \in [Task -> Local]
        BY <1>5, PushEffect
    <2>3. row' \in [config: Config, status: Status, tools: Tools, deleted: BOOLEAN]
        BY <1>5, PushEffect, TaskFields
    <2>4. live' \in Config \cup {"gone"}
        BY <1>5, PushEffect, TaskFields
    <2>5. disk' \in Disk
        BY <1>5, PushEffect, TaskFields
    <2>6. container' \in [image: Tools, up: BOOLEAN, env: Env]
        BY <1>5, PushEffect, TaskFields
    <2>7. QED
        BY <2>1, <2>2, <2>3, <2>4, <2>5, <2>6
<1>6. ASSUME NEW t \in Task, StoreConfig(t)
      PROVE  TypeOK'
    BY <1>6, StoreEffect, TaskFields
<1>7. ASSUME NEW t \in Task, MarkGenerating(t)
      PROVE  TypeOK'
    BY <1>7, MarkEffect
<1>8. ASSUME NEW t \in Task, Render(t)
      PROVE  TypeOK'
    <2>1. UNCHANGED <<row, live, container, odd>> /\ task' \in [Task -> Local]
        BY <1>8, RenderEffect
    <2>2. disk' \in Disk
        <3>1. CASE disk' = disk
            BY <3>1
        <3>2. CASE Overwritten(t, KeepsEnv(t))
            BY <3>2 DEF Overwritten
        <3>3. QED
            BY <1>8, <3>1, <3>2, RenderEffect
    <2>3. QED
        BY <2>1, <2>2
<1>9. ASSUME NEW t \in Task, CommitEdits(t)
      PROVE  TypeOK'
    <2>1. odd' \subseteq Oddity
        <3>1. odd' = odd \/ odd' = odd \cup {"troubled"}
            BY <1>9, CommitEditsEffect
        <3>2. QED
            BY <3>1, TroubledType
    <2>2. task' \in [Task -> Local]
        BY <1>9, CommitEditsEffect
    <2>3. row' \in [config: Config, status: Status, tools: Tools, deleted: BOOLEAN]
        BY <1>9, CommitEditsEffect
    <2>4. live' \in Config \cup {"gone"}
        BY <1>9, CommitEditsEffect
    <2>5. disk' \in Disk
        BY <1>9, CommitEditsEffect
    <2>6. container' \in [image: Tools, up: BOOLEAN, env: Env]
        BY <1>9, CommitEditsEffect
    <2>7. QED
        BY <2>1, <2>2, <2>3, <2>4, <2>5, <2>6
<1>10. ASSUME NEW t \in Task, Write(t)
      PROVE  TypeOK'
    <2>1. UNCHANGED <<row, live, container, odd>> /\ task' \in [Task -> Local]
        BY <1>10, WriteEffect
    <2>2. Overwritten(t, task[t].keepEnv)
        BY <1>10, WriteEffect
    <2>3. disk' \in Disk
        BY <2>2 DEF Overwritten
    <2>4. QED
        BY <2>1, <2>3
<1>11. ASSUME NEW t \in Task, GitInit(t)
      PROVE  TypeOK'
    <2>1. UNCHANGED <<row, live, container, odd>>
        BY <1>11, GitInitEffect
    <2>2. task' \in [Task -> Local]
        BY <1>11, GitInitEffect
    <2>3. disk' \in Disk
        BY <1>11, GitInitEffect
    <2>4. QED
        BY <2>1, <2>2, <2>3
<1>12. ASSUME NEW t \in Task, ComposeUp(t)
      PROVE  TypeOK'
    <2>1. odd' \subseteq Oddity
        <3>1. odd' = odd \/ odd' = odd \cup {"troubled"}
            BY <1>12, UpEffect
        <3>2. QED
            BY <3>1, TroubledType
    <2>2. task' \in [Task -> Local]
        BY <1>12, UpEffect
    <2>3. row' \in [config: Config, status: Status, tools: Tools, deleted: BOOLEAN]
        BY <1>12, UpEffect
    <2>4. live' \in Config \cup {"gone"}
        BY <1>12, UpEffect
    <2>5. disk' \in Disk
        BY <1>12, UpEffect
    <2>6. container' \in [image: Tools, up: BOOLEAN, env: Env]
        <3> DEFINE new == [image |-> ImageAfterUp(t), up |-> TRUE, env |-> disk.env]
        <3>1. new \in [image: Tools, up: BOOLEAN, env: Env]
            BY DEF ImageAfterUp
        <3>2. container' = new \/ container' = container
            BY <1>12, UpEffect
        <3> HIDE DEF new
        <3>3. QED
            BY <3>1, <3>2
    <2>7. QED
        BY <2>1, <2>2, <2>3, <2>4, <2>5, <2>6
<1>13. ASSUME NEW t \in Task, Settle(t)
      PROVE  TypeOK'
    BY <1>13, SettleEffect DEF Outcome
<1>14. ASSUME NEW t \in Task, SetToolStatuses(t)
      PROVE  TypeOK'
    BY <1>14, ToolsEffect, TaskFields
<1>15. ASSUME NEW t \in Task, ComposeDown(t)
      PROVE  TypeOK'
    <2>1. odd' \subseteq Oddity
        <3>1. odd' = odd \/ odd' = odd \cup {"troubled"}
            BY <1>15, DownEffect
        <3>2. QED
            BY <3>1, TroubledType
    <2>2. task' \in [Task -> Local]
        BY <1>15, DownEffect
    <2>3. row' \in [config: Config, status: Status, tools: Tools, deleted: BOOLEAN]
        BY <1>15, DownEffect
    <2>4. live' \in Config \cup {"gone"}
        BY <1>15, DownEffect
    <2>5. disk' \in Disk
        BY <1>15, DownEffect
    <2>6. container' \in [image: Tools, up: BOOLEAN, env: Env]
        <3> DEFINE new == [container EXCEPT !.up = FALSE]
        <3>1. new \in [image: Tools, up: BOOLEAN, env: Env]
            OBVIOUS
        <3>2. container' = new \/ container' = container
            BY <1>15, DownEffect
        <3> HIDE DEF new
        <3>3. QED
            BY <3>1, <3>2
    <2>7. QED
        BY <2>1, <2>2, <2>3, <2>4, <2>5, <2>6
<1>16. ASSUME NEW t \in Task, DeleteProject(t)
      PROVE  TypeOK'
    BY <1>16, BecomeEffect DEF DeleteProject, Stage
<1>17. ASSUME NEW t \in Task, MarkDeleted(t)
      PROVE  TypeOK'
    <2>1. odd' \subseteq Oddity
        <3>1. odd' = odd \/ odd' = odd \cup {"troubled"}
            BY <1>17, HideEffect
        <3>2. QED
            BY <3>1, TroubledType
    <2>2. task' \in [Task -> Local]
        BY <1>17, HideEffect
    <2>3. row' \in [config: Config, status: Status, tools: Tools, deleted: BOOLEAN]
        <3> DEFINE new == [row EXCEPT !.deleted = TRUE, !.status = "deleted"]
        <3>1. new \in [config: Config, status: Status, tools: Tools, deleted: BOOLEAN]
            OBVIOUS
        <3>2. row' = new \/ row' = row
            BY <1>17, HideEffect
        <3> HIDE DEF new
        <3>3. QED
            BY <3>1, <3>2
    <2>4. live' \in Config \cup {"gone"}
        BY <1>17, HideEffect
    <2>5. disk' \in Disk
        BY <1>17, HideEffect
    <2>6. container' \in [image: Tools, up: BOOLEAN, env: Env]
        BY <1>17, HideEffect
    <2>7. QED
        BY <2>1, <2>2, <2>3, <2>4, <2>5, <2>6
<1>18. CASE UserEdit
    BY <1>18, UserEditEffect
<1>19. CASE CrashAndBoot
    <2>1. odd' \subseteq Oddity
        BY <1>19, CrashEffect, TroubledType
    <2>2. task' \in [Task -> Local]
        BY <1>19, CrashEffect
    <2>3. row' \in [config: Config, status: Status, tools: Tools, deleted: BOOLEAN]
        BY <1>19, CrashEffect
    <2>4. live' \in Config \cup {"gone"}
        BY <1>19, CrashEffect
    <2>5. disk' \in Disk
        BY <1>19, CrashEffect
    <2>6. container' \in [image: Tools, up: BOOLEAN, env: Env]
        <3> DEFINE new == [container EXCEPT !.up = FALSE]
        <3>1. new \in [image: Tools, up: BOOLEAN, env: Env]
            OBVIOUS
        <3>2. container' = new \/ container' = container
            BY <1>19, CrashEffect
        <3> HIDE DEF new
        <3>3. QED
            BY <3>1, <3>2
    <2>7. QED
        BY <2>1, <2>2, <2>3, <2>4, <2>5, <2>6
<1>20. CASE UNCHANGED vars
    BY <1>20
<1>21. ASSUME NEW t \in Task, WorkerRaises(t)
      PROVE  TypeOK'
    BY <1>21, RaiseEffect DEF Overwritten
<1>22. ASSUME NEW t \in Task, RecordFailure(t)
      PROVE  TypeOK'
    BY <1>22, RecordFailureEffect
<1>23. QED
    BY <1>1, <1>2, <1>3, <1>4, <1>5, <1>6, <1>7, <1>8, <1>9, <1>10, <1>11, <1>12, <1>13,
       <1>14, <1>15, <1>16, <1>17, <1>18, <1>19, <1>20, <1>21, <1>22
    DEF Next, Step

LEMMA KindStep ==
    ASSUME TypeOK, KindOK, [Next]_vars
    PROVE  KindOK'
<1> USE ConstantsAssumption DEF KindOK, MovesOnly, Active, Running, vars
<1>1. ASSUME NEW t \in Task, NEW c \in Config, BeginUpdate(t, c)
      PROVE  KindOK'
    BY <1>1, UpdateEffect
<1>2. ASSUME NEW t \in Task, BeginStart(t)
      PROVE  KindOK'
    BY <1>2, StartEffect
<1>3. ASSUME NEW t \in Task, BeginBind(t)
      PROVE  KindOK'
    BY <1>3, BindEffect
<1>4. ASSUME NEW t \in Task, BeginDelete(t)
      PROVE  KindOK'
    BY <1>4, DeleteEffect
<1>5. ASSUME NEW t \in Task, PushConfig(t)
      PROVE  KindOK'
    BY <1>5, PushEffect
<1>6. ASSUME NEW t \in Task, StoreConfig(t)
      PROVE  KindOK'
    BY <1>6, StoreEffect
<1>7. ASSUME NEW t \in Task, MarkGenerating(t)
      PROVE  KindOK'
    BY <1>7, MarkEffect
<1>8. ASSUME NEW t \in Task, Render(t)
      PROVE  KindOK'
    BY <1>8, RenderEffect DEF Overwritten
<1>9. ASSUME NEW t \in Task, CommitEdits(t)
      PROVE  KindOK'
    BY <1>9, CommitEditsEffect
<1>10. ASSUME NEW t \in Task, Write(t)
      PROVE  KindOK'
    BY <1>10, WriteEffect DEF Overwritten
<1>11. ASSUME NEW t \in Task, GitInit(t)
      PROVE  KindOK'
    BY <1>11, GitInitEffect
<1>12. ASSUME NEW t \in Task, ComposeUp(t)
      PROVE  KindOK'
    BY <1>12, UpEffect, TaskFields DEF Kind
<1>13. ASSUME NEW t \in Task, Settle(t)
      PROVE  KindOK'
    BY <1>13, SettleEffect
<1>14. ASSUME NEW t \in Task, SetToolStatuses(t)
      PROVE  KindOK'
    BY <1>14, ToolsEffect
<1>15. ASSUME NEW t \in Task, ComposeDown(t)
      PROVE  KindOK'
    BY <1>15, DownEffect
<1>16. ASSUME NEW t \in Task, DeleteProject(t)
      PROVE  KindOK'
    BY <1>16, BecomeEffect DEF DeleteProject, Stage
<1>17. ASSUME NEW t \in Task, MarkDeleted(t)
      PROVE  KindOK'
    BY <1>17, HideEffect
<1>18. CASE UserEdit
    BY <1>18, UserEditEffect
<1>19. CASE CrashAndBoot
    BY <1>19, CrashEffect
<1>20. CASE UNCHANGED vars
    BY <1>20
<1>21. ASSUME NEW t \in Task, WorkerRaises(t)
      PROVE  KindOK'
    BY <1>21, RaiseEffect
<1>22. ASSUME NEW t \in Task, RecordFailure(t)
      PROVE  KindOK'
    BY <1>22, RecordFailureEffect
<1>23. QED
    BY <1>1, <1>2, <1>3, <1>4, <1>5, <1>6, <1>7, <1>8, <1>9, <1>10, <1>11, <1>12, <1>13,
       <1>14, <1>15, <1>16, <1>17, <1>18, <1>19, <1>20, <1>21, <1>22
    DEF Next, Step

LEMMA EditsStep ==
    ASSUME TypeOK, EditsOK, [Next]_vars
    PROVE  EditsOK'
<1> USE ConstantsAssumption DEF TypeOK, EditsOK, MovesOnly, Running, vars
<1>1. ASSUME NEW t \in Task, NEW c \in Config, BeginUpdate(t, c)
      PROVE  EditsOK'
    BY <1>1, UpdateEffect DEF Excuses
<1>2. ASSUME NEW t \in Task, BeginStart(t)
      PROVE  EditsOK'
    BY <1>2, StartEffect DEF Excuses
<1>3. ASSUME NEW t \in Task, BeginBind(t)
      PROVE  EditsOK'
    BY <1>3, BindEffect DEF Excuses
<1>4. ASSUME NEW t \in Task, BeginDelete(t)
      PROVE  EditsOK'
    BY <1>4, DeleteEffect DEF Excuses
<1>5. ASSUME NEW t \in Task, PushConfig(t)
      PROVE  EditsOK'
    BY <1>5, PushEffect
<1>6. ASSUME NEW t \in Task, StoreConfig(t)
      PROVE  EditsOK'
    BY <1>6, StoreEffect
<1>7. ASSUME NEW t \in Task, MarkGenerating(t)
      PROVE  EditsOK'
    BY <1>7, MarkEffect
<1>8. ASSUME NEW t \in Task, Render(t)
      PROVE  EditsOK'
    BY <1>8, RenderEffect DEF Overwritten
<1>9. ASSUME NEW t \in Task, CommitEdits(t)
      PROVE  EditsOK'
    BY <1>9, CommitEditsEffect
<1>10. ASSUME NEW t \in Task, Write(t)
      PROVE  EditsOK'
    BY <1>10, WriteEffect DEF Overwritten
<1>11. ASSUME NEW t \in Task, GitInit(t)
      PROVE  EditsOK'
    BY <1>11, GitInitEffect
<1>12. ASSUME NEW t \in Task, ComposeUp(t)
      PROVE  EditsOK'
    BY <1>12, UpEffect
<1>13. ASSUME NEW t \in Task, Settle(t)
      PROVE  EditsOK'
    BY <1>13, SettleEffect
<1>14. ASSUME NEW t \in Task, SetToolStatuses(t)
      PROVE  EditsOK'
    BY <1>14, ToolsEffect
<1>15. ASSUME NEW t \in Task, ComposeDown(t)
      PROVE  EditsOK'
    BY <1>15, DownEffect
<1>16. ASSUME NEW t \in Task, DeleteProject(t)
      PROVE  EditsOK'
    BY <1>16, BecomeEffect DEF DeleteProject, Stage
<1>17. ASSUME NEW t \in Task, MarkDeleted(t)
      PROVE  EditsOK'
    BY <1>17, HideEffect
<1>18. CASE UserEdit
    BY <1>18, UserEditEffect
<1>19. CASE CrashAndBoot
    <2>1. UNCHANGED disk /\ \A u \in Task : ~Active(u)'
        BY <1>19, CrashEffect
    <2>2. QED
        BY <2>1 DEF Active
<1>20. CASE UNCHANGED vars
    BY <1>20
<1>21. ASSUME NEW t \in Task, WorkerRaises(t)
      PROVE  EditsOK'
    BY <1>21, RaiseEffect DEF Overwritten
<1>22. ASSUME NEW t \in Task, RecordFailure(t)
      PROVE  EditsOK'
    BY <1>22, RecordFailureEffect
<1>23. QED
    BY <1>1, <1>2, <1>3, <1>4, <1>5, <1>6, <1>7, <1>8, <1>9, <1>10, <1>11, <1>12, <1>13,
       <1>14, <1>15, <1>16, <1>17, <1>18, <1>19, <1>20, <1>21, <1>22
    DEF Next, Step

LEMMA EnvStep ==
    ASSUME TypeOK, KindOK, EnvOK, [Next]_vars
    PROVE  EnvOK'
<1> USE ConstantsAssumption DEF TypeOK, KindOK, EnvOK, MovesOnly, Running, vars
<1>1. ASSUME NEW t \in Task, NEW c \in Config, BeginUpdate(t, c)
      PROVE  EnvOK'
    BY <1>1, UpdateEffect
<1>2. ASSUME NEW t \in Task, BeginStart(t)
      PROVE  EnvOK'
    BY <1>2, StartEffect
<1>3. ASSUME NEW t \in Task, BeginBind(t)
      PROVE  EnvOK'
    BY <1>3, BindEffect
<1>4. ASSUME NEW t \in Task, BeginDelete(t)
      PROVE  EnvOK'
    BY <1>4, DeleteEffect
<1>5. ASSUME NEW t \in Task, PushConfig(t)
      PROVE  EnvOK'
    BY <1>5, PushEffect
<1>6. ASSUME NEW t \in Task, StoreConfig(t)
      PROVE  EnvOK'
    BY <1>6, StoreEffect
<1>7. ASSUME NEW t \in Task, MarkGenerating(t)
      PROVE  EnvOK'
    BY <1>7, MarkEffect
<1>8. ASSUME NEW t \in Task, Render(t)
      PROVE  EnvOK'
    BY <1>8, RenderEffect DEF Overwritten, KeepsEnv
<1>9. ASSUME NEW t \in Task, CommitEdits(t)
      PROVE  EnvOK'
    BY <1>9, CommitEditsEffect
<1>10. ASSUME NEW t \in Task, Write(t)
      PROVE  EnvOK'
    BY <1>10, WriteEffect DEF Overwritten
<1>11. ASSUME NEW t \in Task, GitInit(t)
      PROVE  EnvOK'
    BY <1>11, GitInitEffect
<1>12. ASSUME NEW t \in Task, ComposeUp(t)
      PROVE  EnvOK'
    BY <1>12, UpEffect
<1>13. ASSUME NEW t \in Task, Settle(t)
      PROVE  EnvOK'
    BY <1>13, SettleEffect
<1>14. ASSUME NEW t \in Task, SetToolStatuses(t)
      PROVE  EnvOK'
    BY <1>14, ToolsEffect
<1>15. ASSUME NEW t \in Task, ComposeDown(t)
      PROVE  EnvOK'
    BY <1>15, DownEffect
<1>16. ASSUME NEW t \in Task, DeleteProject(t)
      PROVE  EnvOK'
    BY <1>16, BecomeEffect DEF DeleteProject, Stage
<1>17. ASSUME NEW t \in Task, MarkDeleted(t)
      PROVE  EnvOK'
    BY <1>17, HideEffect
<1>18. CASE UserEdit
    BY <1>18, UserEditEffect
<1>19. CASE CrashAndBoot
    BY <1>19, CrashEffect DEF Active
<1>20. CASE UNCHANGED vars
    BY <1>20
<1>21. ASSUME NEW t \in Task, WorkerRaises(t)
      PROVE  EnvOK'
    BY <1>21, RaiseEffect DEF Overwritten, KeepsEnv
<1>22. ASSUME NEW t \in Task, RecordFailure(t)
      PROVE  EnvOK'
    BY <1>22, RecordFailureEffect
<1>23. QED
    BY <1>1, <1>2, <1>3, <1>4, <1>5, <1>6, <1>7, <1>8, <1>9, <1>10, <1>11, <1>12, <1>13,
       <1>14, <1>15, <1>16, <1>17, <1>18, <1>19, <1>20, <1>21, <1>22
    DEF Next, Step

LEMMA SerialStep ==
    ASSUME TypeOK, SerialOK, [Next]_vars
    PROVE  SerialOK'
<1> USE ConstantsAssumption DEF SerialOK, MovesOnly, Active, Quiet, Running, vars
<1>1. ASSUME NEW t \in Task, NEW c \in Config, BeginUpdate(t, c)
      PROVE  SerialOK'
    BY <1>1, UpdateEffect DEF Excuses
<1>2. ASSUME NEW t \in Task, BeginStart(t)
      PROVE  SerialOK'
    BY <1>2, StartEffect DEF Excuses
<1>3. ASSUME NEW t \in Task, BeginBind(t)
      PROVE  SerialOK'
    BY <1>3, BindEffect DEF Excuses
<1>4. ASSUME NEW t \in Task, BeginDelete(t)
      PROVE  SerialOK'
    BY <1>4, DeleteEffect DEF Excuses
<1>5. ASSUME NEW t \in Task, PushConfig(t)
      PROVE  SerialOK'
    BY <1>5, PushEffect
<1>6. ASSUME NEW t \in Task, StoreConfig(t)
      PROVE  SerialOK'
    BY <1>6, StoreEffect
<1>7. ASSUME NEW t \in Task, MarkGenerating(t)
      PROVE  SerialOK'
    BY <1>7, MarkEffect
<1>8. ASSUME NEW t \in Task, Render(t)
      PROVE  SerialOK'
    BY <1>8, RenderEffect DEF Overwritten
<1>9. ASSUME NEW t \in Task, CommitEdits(t)
      PROVE  SerialOK'
    BY <1>9, CommitEditsEffect
<1>10. ASSUME NEW t \in Task, Write(t)
      PROVE  SerialOK'
    BY <1>10, WriteEffect DEF Overwritten
<1>11. ASSUME NEW t \in Task, GitInit(t)
      PROVE  SerialOK'
    BY <1>11, GitInitEffect
<1>12. ASSUME NEW t \in Task, ComposeUp(t)
      PROVE  SerialOK'
    BY <1>12, UpEffect
<1>13. ASSUME NEW t \in Task, Settle(t)
      PROVE  SerialOK'
    BY <1>13, SettleEffect
<1>14. ASSUME NEW t \in Task, SetToolStatuses(t)
      PROVE  SerialOK'
    BY <1>14, ToolsEffect
<1>15. ASSUME NEW t \in Task, ComposeDown(t)
      PROVE  SerialOK'
    BY <1>15, DownEffect
<1>16. ASSUME NEW t \in Task, DeleteProject(t)
      PROVE  SerialOK'
    BY <1>16, BecomeEffect DEF DeleteProject, Stage
<1>17. ASSUME NEW t \in Task, MarkDeleted(t)
      PROVE  SerialOK'
    BY <1>17, HideEffect
<1>18. CASE UserEdit
    BY <1>18, UserEditEffect
<1>19. CASE CrashAndBoot
    BY <1>19, CrashEffect
<1>20. CASE UNCHANGED vars
    BY <1>20
<1>21. ASSUME NEW t \in Task, WorkerRaises(t)
      PROVE  SerialOK'
    BY <1>21, RaiseEffect
<1>22. ASSUME NEW t \in Task, RecordFailure(t)
      PROVE  SerialOK'
    BY <1>22, RecordFailureEffect
<1>23. QED
    BY <1>1, <1>2, <1>3, <1>4, <1>5, <1>6, <1>7, <1>8, <1>9, <1>10, <1>11, <1>12, <1>13,
       <1>14, <1>15, <1>16, <1>17, <1>18, <1>19, <1>20, <1>21, <1>22
    DEF Next, Step

LEMMA DeletedStep ==
    ASSUME TypeOK, KindOK, SerialOK, DeletedOK, [Next]_vars
    PROVE  DeletedOK'
<1> USE ConstantsAssumption
    DEF TypeOK, KindOK, SerialOK, DeletedOK, MovesOnly, Active, Quiet, Running, Oddity, vars
<1>1. ASSUME NEW t \in Task, NEW c \in Config, BeginUpdate(t, c)
      PROVE  DeletedOK'
    BY <1>1, UpdateEffect DEF Excuses
<1>2. ASSUME NEW t \in Task, BeginStart(t)
      PROVE  DeletedOK'
    BY <1>2, StartEffect DEF Excuses
<1>3. ASSUME NEW t \in Task, BeginBind(t)
      PROVE  DeletedOK'
    BY <1>3, BindEffect DEF Excuses
<1>4. ASSUME NEW t \in Task, BeginDelete(t)
      PROVE  DeletedOK'
    BY <1>4, DeleteEffect DEF Excuses
<1>5. ASSUME NEW t \in Task, PushConfig(t)
      PROVE  DeletedOK'
    BY <1>5, PushEffect
<1>6. ASSUME NEW t \in Task, StoreConfig(t)
      PROVE  DeletedOK'
    BY <1>6, StoreEffect
<1>7. ASSUME NEW t \in Task, MarkGenerating(t)
      PROVE  DeletedOK'
    BY <1>7, MarkEffect
<1>8. ASSUME NEW t \in Task, Render(t)
      PROVE  DeletedOK'
    BY <1>8, RenderEffect DEF Overwritten
<1>9. ASSUME NEW t \in Task, CommitEdits(t)
      PROVE  DeletedOK'
    BY <1>9, CommitEditsEffect
<1>10. ASSUME NEW t \in Task, Write(t)
      PROVE  DeletedOK'
    BY <1>10, WriteEffect DEF Overwritten
<1>11. ASSUME NEW t \in Task, GitInit(t)
      PROVE  DeletedOK'
    BY <1>11, GitInitEffect
<1>12. ASSUME NEW t \in Task, ComposeUp(t)
      PROVE  DeletedOK'
    BY <1>12, UpEffect
<1>13. ASSUME NEW t \in Task, Settle(t)
      PROVE  DeletedOK'
    BY <1>13, SettleEffect DEF Outcome
<1>14. ASSUME NEW t \in Task, SetToolStatuses(t)
      PROVE  DeletedOK'
    <2> SUFFICES ASSUME odd' \subseteq {"shortcut"}
                 PROVE  DeletedOK'
        BY DEF DeletedOK
    <2>1. odd' = odd /\ container' = container /\ row'.deleted = row.deleted
        BY <1>14, ToolsEffect
    <2>2. task[t].at = "tools" /\ ~row.deleted /\ task'[t].at \in {"done", "fail"}
        BY <1>14, <2>1, ToolsEffect
    <2>3. \A u \in Task : u # t => task'[u] = task[u]
        BY <1>14, ToolsEffect
    <2>4. QED
        BY <2>1, <2>2, <2>3
<1>15. ASSUME NEW t \in Task, ComposeDown(t)
      PROVE  DeletedOK'
    <2> SUFFICES ASSUME odd' \subseteq {"shortcut"}
                 PROVE  DeletedOK'
        BY DEF DeletedOK
    <2>1. /\ odd' = odd /\ row' = row /\ "raced" \notin odd
        <3>1. "troubled" \notin odd' /\ "raced" \notin odd'
            OBVIOUS
        <3>2. odd' # odd \cup {"troubled"}
            BY <3>1
        <3>3. QED
            BY <1>15, <3>1, <3>2, DownEffect
    <2>2. \A s \in Task : s # t => task'[s] = task[s] /\ ~Active(s)
        BY <1>15, <2>1, DownEffect
    <2>3. container'.up => container.up
        BY <1>15, DownEffect
    <2>4. task'[t].at = "project" => ~container'.up /\ task'[t].kind = "delete"
        <3>1. task[t].at = "down" /\ task[t].kind = "delete"
            BY <1>15, DownEffect DEF KindOK
        <3>2. task'[t].at = "project" => task'[t].kind = "delete"
            BY <1>15, <3>1, DownEffect
        <3>3. odd # odd \cup {"troubled"}
            BY <2>1
        <3>4. task'[t].at = "project" => container' = [container EXCEPT !.up = FALSE]
            BY <1>15, <2>1, <3>3, DownEffect
        <3>5. ~[container EXCEPT !.up = FALSE].up
            OBVIOUS
        <3>6. QED
            BY <3>2, <3>4, <3>5
    <2>5. task'[t].at \in {"project", "done"}
        BY <1>15, DownEffect
    <2>6. QED
        BY <2>1, <2>2, <2>3, <2>4, <2>5
<1>16. ASSUME NEW t \in Task, DeleteProject(t)
      PROVE  DeletedOK'
    BY <1>16, BecomeEffect DEF DeleteProject, Stage
<1>17. ASSUME NEW t \in Task, MarkDeleted(t)
      PROVE  DeletedOK'
    <2> SUFFICES ASSUME odd' \subseteq {"shortcut"}
                 PROVE  DeletedOK'
        BY DEF DeletedOK
    <2>1. "troubled" \notin odd'
        OBVIOUS
    <2>2. /\ odd' = odd /\ container' = container
          /\ row' = [row EXCEPT !.deleted = TRUE, !.status = "deleted"]
        BY <1>17, <2>1, HideEffect
    <2>3. row'.deleted /\ row'.status = "deleted"
        BY <2>2
    <2>4. task[t].at = "hide" /\ ~container.up
        BY <1>17, <2>2, HideEffect
    <2>5. \A s \in Task : ~Active(s)'
        BY <1>17, <2>2, HideEffect
    <2>6. QED
        BY <2>2, <2>3, <2>4, <2>5
<1>18. CASE UserEdit
    BY <1>18, UserEditEffect
<1>19. CASE CrashAndBoot
    BY <1>19, CrashEffect
<1>20. CASE UNCHANGED vars
    BY <1>20
<1>21. ASSUME NEW t \in Task, WorkerRaises(t)
      PROVE  DeletedOK'
    BY <1>21, RaiseEffect
<1>22. ASSUME NEW t \in Task, RecordFailure(t)
      PROVE  DeletedOK'
    BY <1>22, RecordFailureEffect
<1>23. QED
    BY <1>1, <1>2, <1>3, <1>4, <1>5, <1>6, <1>7, <1>8, <1>9, <1>10, <1>11, <1>12, <1>13,
       <1>14, <1>15, <1>16, <1>17, <1>18, <1>19, <1>20, <1>21, <1>22
    DEF Next, Step

\* In an ordinary history one task is looked at: it moves alone.
LEMMA Alone ==
    ASSUME NEW t \in Task, \A s \in Task : s # t => ~Active(s)',
           odd' = {} =>
             /\ row'.status \in {"generating", Healthy, "failed", "deleted"}
             /\ row'.status = "deleted" => row'.deleted,
           Active(t)' => StepOK(t)', ~Active(t)' => RestOK'
    PROVE  SyncOK'
    BY DEF SyncOK, Quiet

LEMMA SyncStep ==
    ASSUME TypeOK, KindOK, SerialOK, DeletedOK, SyncOK, [Next]_vars
    PROVE  SyncOK'
<1> SUFFICES ASSUME odd' = {}
             PROVE  SyncOK'
    BY DEF SyncOK
<1> USE ConstantsAssumption DEF SyncOK, MovesOnly, Active, Running
<1>1. ASSUME NEW t \in Task, NEW c \in Config, BeginUpdate(t, c)
      PROVE  SyncOK'
    <2>1. odd = {} /\ Quiet
        BY <1>1, UpdateEffect DEF Excuses
    <2>2. \A s \in Task : s # t => ~Active(s)'
        BY <1>1, UpdateEffect, <2>1 DEF Quiet
    <2>3. /\ row'.status \in {"generating", Healthy, "failed", "deleted"}
          /\ row'.status = "deleted" => row'.deleted
        BY <1>1, UpdateEffect, <2>1 DEF TypeOK
    <2>4. Active(t)' => StepOK(t)'
        BY <1>1, UpdateEffect, <2>1
        DEF StepOK, RestOK, Matches, CodeIs, RunsConfig, TypeOK, KindOK, Excuses
    <2>5. ~Active(t)' => RestOK'
        BY <1>1, UpdateEffect, <2>1
        DEF StepOK, RestOK, Matches, CodeIs, RunsConfig, TypeOK, KindOK, Excuses
    <2>6. QED
        BY <2>2, <2>3, <2>4, <2>5, Alone
<1>2. ASSUME NEW t \in Task, BeginStart(t)
      PROVE  SyncOK'
    <2>1. odd = {} /\ Quiet
        BY <1>2, StartEffect DEF Excuses
    <2>2. \A s \in Task : s # t => ~Active(s)'
        BY <1>2, StartEffect, <2>1 DEF Quiet
    <2>3. /\ row'.status \in {"generating", Healthy, "failed", "deleted"}
          /\ row'.status = "deleted" => row'.deleted
        BY <1>2, StartEffect, <2>1 DEF TypeOK
    <2>4. Active(t)' => StepOK(t)'
        BY <1>2, StartEffect, <2>1
        DEF StepOK, RestOK, Matches, CodeIs, RunsConfig, TypeOK, KindOK, Excuses
    <2>5. ~Active(t)' => RestOK'
        BY <1>2, StartEffect, <2>1
        DEF StepOK, RestOK, Matches, CodeIs, RunsConfig, TypeOK, KindOK, Excuses
    <2>6. QED
        BY <2>2, <2>3, <2>4, <2>5, Alone
<1>3. ASSUME NEW t \in Task, BeginBind(t)
      PROVE  SyncOK'
    <2>1. odd = {} /\ Quiet
        BY <1>3, BindEffect DEF Excuses
    <2>2. \A s \in Task : s # t => ~Active(s)'
        BY <1>3, BindEffect, <2>1 DEF Quiet
    <2>3. /\ row'.status \in {"generating", Healthy, "failed", "deleted"}
          /\ row'.status = "deleted" => row'.deleted
        BY <1>3, BindEffect, <2>1 DEF TypeOK
    <2>4. Active(t)' => StepOK(t)'
        BY <1>3, BindEffect, <2>1
        DEF StepOK, RestOK, Matches, CodeIs, RunsConfig, TypeOK, KindOK, Excuses
    <2>5. ~Active(t)' => RestOK'
        BY <1>3, BindEffect, <2>1
        DEF StepOK, RestOK, Matches, CodeIs, RunsConfig, TypeOK, KindOK, Excuses
    <2>6. QED
        BY <2>2, <2>3, <2>4, <2>5, Alone
<1>4. ASSUME NEW t \in Task, BeginDelete(t)
      PROVE  SyncOK'
    <2>1. odd = {} /\ Quiet
        BY <1>4, DeleteEffect DEF Excuses
    <2>2. \A s \in Task : s # t => ~Active(s)'
        BY <1>4, DeleteEffect, <2>1 DEF Quiet
    <2>3. /\ row'.status \in {"generating", Healthy, "failed", "deleted"}
          /\ row'.status = "deleted" => row'.deleted
        BY <1>4, DeleteEffect, <2>1 DEF TypeOK
    <2>4. Active(t)' => StepOK(t)'
        BY <1>4, DeleteEffect, <2>1
        DEF StepOK, RestOK, Matches, CodeIs, RunsConfig, TypeOK, KindOK, Excuses
    <2>5. ~Active(t)' => RestOK'
        BY <1>4, DeleteEffect, <2>1
        DEF StepOK, RestOK, Matches, CodeIs, RunsConfig, TypeOK, KindOK, Excuses
    <2>6. QED
        BY <2>2, <2>3, <2>4, <2>5, Alone
<1>5. ASSUME NEW t \in Task, PushConfig(t)
      PROVE  SyncOK'
    <2>1. odd = {} /\ Active(t)
        BY <1>5, PushEffect
    <2>2. \A s \in Task : s # t => ~Active(s)'
        BY <1>5, PushEffect, <2>1 DEF SerialOK
    <2>3. /\ row'.status \in {"generating", Healthy, "failed", "deleted"}
          /\ row'.status = "deleted" => row'.deleted
        BY <1>5, PushEffect, <2>1 DEF TypeOK
    <2>4. Active(t)' => StepOK(t)'
        BY <1>5, PushEffect, <2>1
        DEF StepOK, RestOK, Matches, CodeIs, RunsConfig, TypeOK, KindOK
    <2>5. ~Active(t)' => RestOK'
        BY <1>5, PushEffect, <2>1
        DEF StepOK, RestOK, Matches, CodeIs, RunsConfig, TypeOK, KindOK
    <2>6. QED
        BY <2>2, <2>3, <2>4, <2>5, Alone
<1>6. ASSUME NEW t \in Task, StoreConfig(t)
      PROVE  SyncOK'
    <2>1. odd = {} /\ Active(t)
        BY <1>6, StoreEffect
    <2>2. \A s \in Task : s # t => ~Active(s)'
        BY <1>6, StoreEffect, <2>1 DEF SerialOK
    <2>3. /\ row'.status \in {"generating", Healthy, "failed", "deleted"}
          /\ row'.status = "deleted" => row'.deleted
        BY <1>6, StoreEffect, <2>1 DEF TypeOK
    <2>4. Active(t)' => StepOK(t)'
        BY <1>6, StoreEffect, <2>1
        DEF StepOK, RestOK, Matches, CodeIs, RunsConfig, TypeOK, KindOK, ToolsChanged
    <2>5. ~Active(t)' => RestOK'
        BY <1>6, StoreEffect, <2>1
        DEF StepOK, RestOK, Matches, CodeIs, RunsConfig, TypeOK, KindOK, ToolsChanged
    <2>6. QED
        BY <2>2, <2>3, <2>4, <2>5, Alone
<1>7. ASSUME NEW t \in Task, MarkGenerating(t)
      PROVE  SyncOK'
    <2>1. odd = {} /\ Active(t)
        BY <1>7, MarkEffect
    <2>2. \A s \in Task : s # t => ~Active(s)'
        BY <1>7, MarkEffect, <2>1 DEF SerialOK
    <2>3. /\ row'.status \in {"generating", Healthy, "failed", "deleted"}
          /\ row'.status = "deleted" => row'.deleted
        BY <1>7, MarkEffect, <2>1 DEF TypeOK
    <2>4. Active(t)' => StepOK(t)'
        BY <1>7, MarkEffect, <2>1
        DEF StepOK, RestOK, Matches, CodeIs, RunsConfig, TypeOK, KindOK
    <2>5. ~Active(t)' => RestOK'
        BY <1>7, MarkEffect, <2>1
        DEF StepOK, RestOK, Matches, CodeIs, RunsConfig, TypeOK, KindOK
    <2>6. QED
        BY <2>2, <2>3, <2>4, <2>5, Alone
<1>8. ASSUME NEW t \in Task, Render(t)
      PROVE  SyncOK'
    <2>1. odd = {} /\ Active(t)
        BY <1>8, RenderEffect DEF Overwritten
    <2>2. \A s \in Task : s # t => ~Active(s)'
        BY <1>8, RenderEffect, <2>1 DEF SerialOK, Overwritten
    <2>3. /\ row'.status \in {"generating", Healthy, "failed", "deleted"}
          /\ row'.status = "deleted" => row'.deleted
        BY <1>8, RenderEffect, <2>1 DEF TypeOK, Overwritten
    <2>4. Active(t)' => StepOK(t)'
        BY <1>8, RenderEffect, <2>1
        DEF StepOK, RestOK, Matches, CodeIs, RunsConfig, TypeOK, KindOK, Overwritten
    <2>5. ~Active(t)' => RestOK'
        BY <1>8, RenderEffect, <2>1
        DEF StepOK, RestOK, Matches, CodeIs, RunsConfig, TypeOK, KindOK, Overwritten
    <2>6. QED
        BY <2>2, <2>3, <2>4, <2>5, Alone
<1>9. ASSUME NEW t \in Task, CommitEdits(t)
      PROVE  SyncOK'
    <2>1. odd = {} /\ Active(t)
        BY <1>9, CommitEditsEffect
    <2>2. \A s \in Task : s # t => ~Active(s)'
        BY <1>9, CommitEditsEffect, <2>1 DEF SerialOK
    <2>3. /\ row'.status \in {"generating", Healthy, "failed", "deleted"}
          /\ row'.status = "deleted" => row'.deleted
        BY <1>9, CommitEditsEffect, <2>1 DEF TypeOK
    <2>4. Active(t)' => StepOK(t)'
        BY <1>9, CommitEditsEffect, <2>1
        DEF StepOK, RestOK, Matches, CodeIs, RunsConfig, TypeOK, KindOK
    <2>5. ~Active(t)' => RestOK'
        BY <1>9, CommitEditsEffect, <2>1
        DEF StepOK, RestOK, Matches, CodeIs, RunsConfig, TypeOK, KindOK
    <2>6. QED
        BY <2>2, <2>3, <2>4, <2>5, Alone
<1>10. ASSUME NEW t \in Task, Write(t)
      PROVE  SyncOK'
    <2>1. odd = {} /\ Active(t)
        BY <1>10, WriteEffect DEF Overwritten
    <2>2. \A s \in Task : s # t => ~Active(s)'
        BY <1>10, WriteEffect, <2>1 DEF SerialOK, Overwritten
    <2>3. /\ row'.status \in {"generating", Healthy, "failed", "deleted"}
          /\ row'.status = "deleted" => row'.deleted
        BY <1>10, WriteEffect, <2>1 DEF TypeOK, Overwritten
    <2>4. Active(t)' => StepOK(t)'
        BY <1>10, WriteEffect, <2>1
        DEF StepOK, RestOK, Matches, CodeIs, RunsConfig, TypeOK, KindOK, Overwritten
    <2>5. ~Active(t)' => RestOK'
        BY <1>10, WriteEffect, <2>1
        DEF StepOK, RestOK, Matches, CodeIs, RunsConfig, TypeOK, KindOK, Overwritten
    <2>6. QED
        BY <2>2, <2>3, <2>4, <2>5, Alone
<1>11. ASSUME NEW t \in Task, GitInit(t)
      PROVE  SyncOK'
    <2>1. odd = {} /\ Active(t) /\ task[t].at = "init" /\ UNCHANGED <<row, live>>
        BY <1>11, GitInitEffect
    <2>2. MovesOnly(t, "up") /\ task'[t].kind = task[t].kind /\ task'[t].cfg = task[t].cfg
        BY <1>11, GitInitEffect
    <2>3. \A s \in Task : s # t => ~Active(s)'
        BY <2>1, <2>2 DEF SerialOK
    <2>4. disk'.app = disk.app
        BY <1>11, GitInitEffect
    <2>5. task'[t].at = "up" /\ task[t].kind \in {"build", "update"}
        BY <2>1, <2>2 DEF KindOK
    <2>6. RunsConfig /\ CodeIs(row.config) /\ task[t].cfg = row.config
        BY <2>1, <2>5 DEF StepOK
    <2>7. StepOK(t)' /\ Active(t)'
        BY <2>1, <2>2, <2>4, <2>5, <2>6 DEF StepOK, RunsConfig, CodeIs
    <2>8. QED
        BY <2>1, <2>3, <2>7, Alone
<1>12. ASSUME NEW t \in Task, ComposeUp(t)
      PROVE  SyncOK'
    <2>1. odd = {} /\ Active(t)
        BY <1>12, UpEffect
    <2>2. \A s \in Task : s # t => ~Active(s)'
        BY <1>12, UpEffect, <2>1 DEF SerialOK
    <2>3. /\ row'.status \in {"generating", Healthy, "failed", "deleted"}
          /\ row'.status = "deleted" => row'.deleted
        BY <1>12, UpEffect, <2>1 DEF TypeOK
    <2>4. Active(t)' => StepOK(t)'
        BY <1>12, UpEffect, <2>1
        DEF StepOK, RestOK, Matches, CodeIs, RunsConfig, TypeOK, KindOK, ImageAfterUp
    <2>5. ~Active(t)' => RestOK'
        BY <1>12, UpEffect, <2>1
        DEF StepOK, RestOK, Matches, CodeIs, RunsConfig, TypeOK, KindOK, ImageAfterUp
    <2>6. QED
        BY <2>2, <2>3, <2>4, <2>5, Alone
<1>13. ASSUME NEW t \in Task, Settle(t)
      PROVE  SyncOK'
    <2>1. odd = {} /\ odd' = odd /\ Active(t)
        <3>1. odd' # odd \cup {"troubled"}
            OBVIOUS
        <3>2. QED
            BY <1>13, <3>1, SettleEffect
    <2>2. \A s \in Task : s # t => ~Active(s)'
        BY <1>13, SettleEffect, <2>1 DEF SerialOK
    <2>3. /\ UNCHANGED <<live, disk, container>> /\ task[t].at = "settle"
          /\ \/ /\ row' = [row EXCEPT !.status = Outcome(t)]
                /\ task[t].kind = "start" => task'[t].at = "done"
                /\ task[t].kind # "start" =>
                      /\ task'[t].at = "tools" /\ task'[t].kind = task[t].kind
                      /\ task'[t].cfg = task[t].cfg
             \/ row' = row /\ task'[t].at = "fail"
        <3>1. odd' # odd \cup {"troubled"}
            OBVIOUS
        <3>2. QED
            BY <1>13, <3>1, SettleEffect
    <2>4. /\ row'.status \in {"generating", Healthy, "failed", "deleted"}
          /\ row'.status = "deleted" => row'.deleted
        BY <2>1, <2>3 DEF TypeOK, Healthy, Outcome
    <2>5. Active(t)' => StepOK(t)'
        <3>1. CASE task'[t].at = "fail"
            BY <3>1 DEF StepOK
        <3>2. CASE task'[t].at = "done"
            BY <3>2
        <3>3. CASE task'[t].at = "tools" /\ row' = [row EXCEPT !.status = Outcome(t)]
            BY <2>1, <2>3, <3>3
            DEF StepOK, RestOK, Matches, CodeIs, RunsConfig, TypeOK, KindOK, Healthy, Outcome
        <3>4. QED
            BY <2>3, <3>1, <3>2, <3>3
    <2>6. ~Active(t)' => RestOK'
        BY <2>1, <2>3
        DEF StepOK, RestOK, Matches, CodeIs, RunsConfig, TypeOK, KindOK, Healthy, Outcome
    <2>7. QED
        BY <2>2, <2>4, <2>5, <2>6, Alone
<1>14. ASSUME NEW t \in Task, SetToolStatuses(t)
      PROVE  SyncOK'
    <2>1. odd = {} /\ Active(t)
        BY <1>14, ToolsEffect
    <2>2. \A s \in Task : s # t => ~Active(s)'
        BY <1>14, ToolsEffect, <2>1 DEF SerialOK
    <2>3. /\ UNCHANGED <<live, disk, container>> /\ task[t].at = "tools"
          /\ \/ /\ row' = [row EXCEPT !.tools = ToolsOf[task[t].cfg]]
                /\ task'[t].at = "done"
             \/ row' = row /\ task'[t].at = "fail"
        BY <1>14, ToolsEffect
    <2>4. /\ row'.status \in {"generating", Healthy, "failed", "deleted"}
          /\ row'.status = "deleted" => row'.deleted
        BY <2>1, <2>3 DEF TypeOK
    <2>5. Active(t)' => StepOK(t)'
        BY <2>3 DEF StepOK
    <2>6. ~Active(t)' => RestOK'
        BY <2>1, <2>3
        DEF StepOK, RestOK, Matches, CodeIs, RunsConfig, TypeOK, KindOK, Healthy
    <2>7. QED
        BY <2>2, <2>4, <2>5, <2>6, Alone
<1>15. ASSUME NEW t \in Task, ComposeDown(t)
      PROVE  SyncOK'
    <2>1. odd = {} /\ Active(t)
        BY <1>15, DownEffect
    <2>2. \A s \in Task : s # t => ~Active(s)'
        BY <1>15, DownEffect, <2>1 DEF SerialOK
    <2>3. /\ row'.status \in {"generating", Healthy, "failed", "deleted"}
          /\ row'.status = "deleted" => row'.deleted
        BY <1>15, DownEffect, <2>1 DEF TypeOK
    <2>4. Active(t)' => StepOK(t)'
        BY <1>15, DownEffect, <2>1
        DEF StepOK, RestOK, Matches, CodeIs, RunsConfig, TypeOK, KindOK
    <2>5. ~Active(t)' => RestOK'
        BY <1>15, DownEffect, <2>1
        DEF StepOK, RestOK, Matches, CodeIs, RunsConfig, TypeOK, KindOK
    <2>6. QED
        BY <2>2, <2>3, <2>4, <2>5, Alone
<1>16. ASSUME NEW t \in Task, DeleteProject(t)
      PROVE  SyncOK'
    <2>1. odd = {} /\ Active(t) /\ task[t].at = "project" /\ row' = row
        BY <1>16 DEF DeleteProject
    <2>2. MovesOnly(t, "hide")
        BY <1>16, BecomeEffect DEF DeleteProject, Stage
    <2>3. \A s \in Task : s # t => ~Active(s)'
        BY <2>1, <2>2 DEF SerialOK
    <2>4. row.status # "generating"
        BY <2>1 DEF StepOK
    <2>5. task'[t].at = "hide"
        BY <2>2
    <2>6. StepOK(t)' /\ Active(t)'
        BY <2>1, <2>4, <2>5 DEF StepOK
    <2>7. QED
        BY <2>1, <2>3, <2>6, Alone
<1>17. ASSUME NEW t \in Task, MarkDeleted(t)
      PROVE  SyncOK'
    <2>1. odd = {} /\ Active(t)
        BY <1>17, HideEffect
    <2>2. \A s \in Task : s # t => ~Active(s)'
        BY <1>17, HideEffect, <2>1 DEF SerialOK
    <2>3. /\ row'.status \in {"generating", Healthy, "failed", "deleted"}
          /\ row'.status = "deleted" => row'.deleted
        BY <1>17, HideEffect, <2>1 DEF TypeOK
    <2>4. Active(t)' => StepOK(t)'
        BY <1>17, HideEffect, <2>1
        DEF StepOK, RestOK, Matches, CodeIs, RunsConfig, TypeOK, KindOK, Healthy
    <2>5. ~Active(t)' => RestOK'
        BY <1>17, HideEffect, <2>1
        DEF StepOK, RestOK, Matches, CodeIs, RunsConfig, TypeOK, KindOK, Healthy
    <2>6. QED
        BY <2>2, <2>3, <2>4, <2>5, Alone
<1>18. CASE UserEdit
    BY <1>18 DEF UserEdit, TypeOK, RestOK, StepOK, Matches, CodeIs, RunsConfig, Quiet
<1>19. CASE CrashAndBoot
    <2>1. Quiet /\ task' = task /\ odd' = odd /\ row' = row
        BY <1>19, CrashEffect
    <2>2. /\ row.status \in {"generating", Healthy, "failed", "deleted"}
          /\ row.status = "deleted" => row.deleted
          /\ RestOK
        BY <2>1
    <2>3. RestOK'
        <3>1. CASE container' = container
            BY <1>19, <2>1, <2>2, <3>1, CrashEffect DEF RestOK, Matches
        <3>2. CASE row.deleted
            BY <2>1, <2>2, <3>2 DEF DeletedOK, RestOK, Healthy
        <3>3. QED
            BY <1>19, <3>1, <3>2, CrashEffect
    <2>4. QED
        BY <2>1, <2>2, <2>3 DEF Quiet
<1>20. CASE UNCHANGED vars
    BY <1>20 DEF vars, RestOK, StepOK, Matches, CodeIs, RunsConfig, Quiet
<1>21. ASSUME NEW t \in Task, WorkerRaises(t)
      PROVE  SyncOK'
    <2>1. odd = {} /\ Active(t) /\ row' = row
        BY <1>21, RaiseEffect
    <2>2. MovesOnly(t, "fail")
        BY <1>21, RaiseEffect
    <2>3. \A s \in Task : s # t => ~Active(s)'
        BY <2>1, <2>2 DEF SerialOK
    <2>4. Active(t)' /\ StepOK(t)'
        BY <2>2 DEF StepOK
    <2>5. QED
        BY <2>1, <2>3, <2>4, Alone
<1>22. ASSUME NEW t \in Task, RecordFailure(t)
      PROVE  SyncOK'
    <2>1. odd' # odd \cup {"troubled"}
        OBVIOUS
    <2>2. /\ odd = {} /\ Active(t) /\ row' = [row EXCEPT !.status = "failed"]
          /\ MovesOnly(t, "done")
        BY <1>22, <2>1, RecordFailureEffect
    <2>3. \A s \in Task : s # t => ~Active(s)'
        BY <2>2 DEF SerialOK
    <2>4. row'.status = "failed"
        BY <2>2 DEF TypeOK
    <2>5. ~Active(t)' /\ RestOK'
        BY <2>2, <2>4 DEF RestOK, Healthy
    <2>6. QED
        BY <2>3, <2>4, <2>5, Alone
<1>23. QED
    BY <1>1, <1>2, <1>3, <1>4, <1>5, <1>6, <1>7, <1>8, <1>9, <1>10, <1>11, <1>12, <1>13,
       <1>14, <1>15, <1>16, <1>17, <1>18, <1>19, <1>20, <1>21, <1>22
    DEF Next, Step

-------------------------------------------------------------------------------
(* The theorems.                                                           *)

LEMMA InitInv == Init => Inv
<1> SUFFICES ASSUME Init
             PROVE  Inv
    OBVIOUS
<1> USE ConstantsAssumption DEF Init
<1>1. \A t \in Task :
          /\ task[t] \in Local /\ task[t].kind = "build"
          /\ t = BuildTask => task[t].at = "toolgen" /\ task[t].cfg = InitialConfig
          /\ t # BuildTask => task[t].at = "idle"
    BY DEF Idle, Local, Kind, Running
<1>2. TypeOK
    BY <1>1 DEF TypeOK, Tools, Env, Status
<1>3. KindOK /\ SerialOK
    BY <1>1 DEF KindOK, SerialOK, Active, Running
<1>4. EditsOK /\ EnvOK
    BY <1>1 DEF EditsOK, EnvOK
<1>5. DeletedOK
    BY <1>1 DEF DeletedOK
<1>6. SyncOK
    <2>1. Active(BuildTask) /\ \A t \in Task : Active(t) => t = BuildTask
        BY <1>1 DEF Active, Running
    <2>2. StepOK(BuildTask)
        BY <1>1 DEF StepOK, RunsConfig
    <2>3. QED
        BY <2>1, <2>2 DEF SyncOK, Quiet
<1>7. QED
    BY <1>2, <1>3, <1>4, <1>5, <1>6 DEF Inv

\* Every reachable state satisfies the inductive invariant.
THEOREM Invariance == Spec => []Inv
<1>1. Inv /\ [Next]_vars => Inv'
    BY TypeStep, KindStep, EditsStep, EnvStep, SerialStep, DeletedStep, SyncStep DEF Inv
<1>2. QED
    BY InitInv, <1>1, PTL DEF Spec

\* The row, the repository, the container and the tasks keep their types,
\* whatever overlaps: apply_update, the workers, delete_agent, the reaper.
THEOREM TypeCorrect == Spec => []TypeOK
<1>1. Inv => TypeOK
    BY DEF Inv
<1>2. QED
    BY <1>1, Invariance, PTL

\* A safe edit stops being uncommitted only at the git steps of a worker.
LEMMA EditsKeptStep ==
    ASSUME Inv, Next, disk.edited = "safe", disk'.edited # "safe"
    PROVE  \E t \in Task : task[t].at \in {"commit", "init"} /\ task'[t].at \in {"write", "up"}
<1> DEFINE Kept ==
        \E t \in Task : task[t].at \in {"commit", "init"} /\ task'[t].at \in {"write", "up"}
<1>1. disk.git /\ \A t \in Task : task[t].at # "write"
    BY DEF Inv, EditsOK
<1>2. TypeOK
    BY DEF Inv
<1>3. ASSUME NEW t \in Task, CommitEdits(t)
      PROVE  Kept
    BY <1>2, <1>3, CommitEditsEffect DEF MovesOnly
<1>4. ASSUME NEW t \in Task, GitInit(t)
      PROVE  Kept
    BY <1>2, <1>4, GitInitEffect DEF MovesOnly
<1>5. ASSUME NEW t \in Task, Render(t)
      PROVE  disk' = disk
    BY <1>1, <1>2, <1>5, RenderEffect
<1>6. ASSUME NEW t \in Task, Write(t)
      PROVE  FALSE
    BY <1>1, <1>2, <1>6, WriteEffect
<1>7. ASSUME NEW t \in Task, WorkerRaises(t)
      PROVE  disk' = disk
    BY <1>1, <1>2, <1>7, RaiseEffect
<1>8. ASSUME NEW t \in Task, BeginBind(t)
      PROVE  disk'.edited = disk.edited
    BY <1>2, <1>8, BindEffect DEF TypeOK
<1>9. CASE UserEdit
    BY <1>2, <1>9, UserEditEffect
<1>10. QED
    BY <1>3, <1>4, <1>5, <1>6, <1>7, <1>8, <1>9
    DEF Next, Step, BeginUpdate, BeginStart, BeginDelete, PushConfig, StoreConfig,
        MarkGenerating, ComposeUp, Settle, SetToolStatuses, RecordFailure, ComposeDown,
        DeleteProject, MarkDeleted, CrashAndBoot

\* materialize_and_run commits before it overwrites: however workers overlap and
\* fail, an edit in the repository that no worker was past committing is never
\* overwritten without a git step in front.
THEOREM EditsKeptThm == Spec => EditsKept
<1>1. Inv /\ [Next]_vars =>
          [disk.edited = "safe" /\ disk'.edited # "safe" =>
             \E t \in Task : task[t].at \in {"commit", "init"}
                            /\ task'[t].at \in {"write", "up"}]_vars
    BY EditsKeptStep DEF vars
<1>2. QED
    BY <1>1, Invariance, PTL DEF Spec, EditsKept

\* After delete_agent the container is down and the row says deleted, when
\* nothing overlapped and nothing but deletes was asked afterwards.
THEOREM DeletedIsDownThm == Spec => []DeletedIsDown
<1>1. Inv => DeletedIsDown
    BY DEF Inv, DeletedOK, DeletedIsDown
<1>2. QED
    BY <1>1, Invariance, PTL

\* apply_update and the workers leave code, image, provenance, registry and
\* TurnCall in agreement, in histories without overlap, death or shortcut.
THEOREM InSyncWhenSerialThm == Spec => []InSyncWhenSerial
<1>1. Inv => InSyncWhenSerial
    BY DEF Inv, SyncOK, RestOK, InSyncWhenSerial
<1>2. QED
    BY <1>1, Invariance, PTL

\* A call-init secret in .env is overwritten by the first build only: a
\* regeneration that overwrites has seen the .env it keeps.
LEMMA EnvStepSpares ==
    ASSUME Inv, Next, disk.env = "bound", disk'.env # "bound"
    PROVE  /\ task[BuildTask].at \in {"toolgen", "write"}
           /\ task'[BuildTask].at \in {"init", "fail"}
<1> USE DEF Inv
<1>1. ASSUME NEW t \in Task, Render(t)
      PROVE  t = BuildTask /\ task[t].at = "toolgen" /\ task'[t].at = "init"
    <2>1. ~KeepsEnv(t) /\ task[t].at = "toolgen" /\ task'[t].at = "init"
        BY <1>1, RenderEffect DEF Overwritten, MovesOnly
    <2>2. task[t].kind = "build"
        BY <2>1 DEF KeepsEnv, KindOK
    <2>3. QED
        BY <2>1, <2>2 DEF KindOK, Active, Running
<1>2. ASSUME NEW t \in Task, Write(t)
      PROVE  t = BuildTask /\ task[t].at = "write" /\ task'[t].at = "init"
    <2>1. ~task[t].keepEnv /\ task[t].at = "write" /\ task'[t].at = "init"
        BY <1>2, WriteEffect DEF Overwritten, MovesOnly
    <2>2. task[t].kind = "build"
        BY <2>1 DEF EnvOK, KindOK
    <2>3. QED
        BY <2>1, <2>2 DEF KindOK, Active, Running
<1>3. ASSUME NEW t \in Task, CommitEdits(t) \/ GitInit(t)
      PROVE  FALSE
    BY <1>3, CommitEditsEffect, GitInitEffect
<1>4. ASSUME NEW t \in Task, BeginBind(t)
      PROVE  FALSE
    BY <1>4, BindEffect DEF TypeOK
<1>5. CASE UserEdit
    BY <1>5, UserEditEffect
<1>6. CASE UNCHANGED disk
    BY <1>6
<1>7. ASSUME NEW t \in Task, WorkerRaises(t)
      PROVE  t = BuildTask /\ task[t].at \in {"toolgen", "write"} /\ task'[t].at = "fail"
    <2>1. task'[t].at = "fail"
        BY <1>7, RaiseEffect DEF MovesOnly
    <2>2. \/ task[t].at = "toolgen" /\ ~KeepsEnv(t)
          \/ task[t].at = "write" /\ ~task[t].keepEnv
        BY <1>7, RaiseEffect DEF Overwritten
    <2>3. task[t].kind = "build"
        BY <1>7, <2>2, RaiseEffect DEF KeepsEnv, EnvOK
    <2>4. QED
        BY <2>1, <2>2, <2>3 DEF KindOK, Active, Running
<1>8. QED
    BY <1>1, <1>2, <1>3, <1>4, <1>5, <1>6, <1>7
    DEF Next, Step, BeginUpdate, BeginStart, BeginDelete,
       PushConfig, StoreConfig, MarkGenerating, ComposeUp, Settle, SetToolStatuses, RecordFailure, ComposeDown,
       DeleteProject, MarkDeleted, CrashAndBoot

\* _run_regen and _run_restart spare the secret a bind put into .env.
THEOREM RegenSparesEnvThm == Spec => RegenSparesEnv
<1>1. Inv /\ [Next]_vars =>
          [disk.env = "bound" /\ disk'.env # "bound" =>
              /\ task[BuildTask].at \in {"toolgen", "write"}
              /\ task'[BuildTask].at \in {"init", "fail"}]_disk
    BY EnvStepSpares DEF vars
<1>2. QED
    BY <1>1, Invariance, PTL DEF Spec, RegenSparesEnv

-------------------------------------------------------------------------------
(* What GeneratingSettles rests on.                                        *)

\* A worker that will replace the generating badge, and how far it has to go.
Owns(t) ==
    /\ task[t].kind \in {"build", "update", "start"}
    /\ task[t].at \in {"toolgen", "commit", "write", "init", "up", "settle", "fail"}

Left(label) ==
    CASE label = "toolgen" -> 7 [] label = "commit" -> 6 [] label = "write" -> 5
      [] label = "init" -> 4 [] label = "up" -> 3 [] label = "settle" -> 2 [] OTHER -> 1

\* A badge that says generating has a worker, unless a task died.
GeneratingIsOwned ==
    row.status = "generating" /\ "troubled" \notin odd => \E t \in Task : Owns(t)

\* What a step may do to such a worker: leave it, bring it nearer to its end,
\* let it replace the badge, or let it die.
OwnerAdvances(t) ==
    Owns(t) => \/ task'[t] = task[t]
               \/ Owns(t)' /\ Left(task'[t].at) < Left(task[t].at)
               \/ task[t].at \in {"settle", "fail"} /\ row'.status # "generating"
               \/ "troubled" \in odd'

LEMMA OwnerStep ==
    ASSUME TypeOK, KindOK, [Next]_vars, NEW s \in Task
    PROVE  OwnerAdvances(s)
<1> USE DEF OwnerAdvances, Owns, MovesOnly, Left, vars
<1>1. ASSUME NEW t \in Task, NEW c \in Config, BeginUpdate(t, c)
      PROVE  OwnerAdvances(s)
    BY <1>1, UpdateEffect
<1>2. ASSUME NEW t \in Task, BeginStart(t)
      PROVE  OwnerAdvances(s)
    BY <1>2, StartEffect
<1>3. ASSUME NEW t \in Task, BeginBind(t)
      PROVE  OwnerAdvances(s)
    BY <1>3, BindEffect
<1>4. ASSUME NEW t \in Task, BeginDelete(t)
      PROVE  OwnerAdvances(s)
    BY <1>4, DeleteEffect
<1>5. ASSUME NEW t \in Task, PushConfig(t)
      PROVE  OwnerAdvances(s)
    BY <1>5, PushEffect
<1>6. ASSUME NEW t \in Task, StoreConfig(t)
      PROVE  OwnerAdvances(s)
    BY <1>6, StoreEffect
<1>7. ASSUME NEW t \in Task, MarkGenerating(t)
      PROVE  OwnerAdvances(s)
    BY <1>7, MarkEffect
<1>8. ASSUME NEW t \in Task, Render(t)
      PROVE  OwnerAdvances(s)
    BY <1>8, RenderEffect
<1>9. ASSUME NEW t \in Task, CommitEdits(t)
      PROVE  OwnerAdvances(s)
    BY <1>9, CommitEditsEffect
<1>10. ASSUME NEW t \in Task, Write(t)
      PROVE  OwnerAdvances(s)
    BY <1>10, WriteEffect
<1>11. ASSUME NEW t \in Task, GitInit(t)
      PROVE  OwnerAdvances(s)
    BY <1>11, GitInitEffect
<1>12. ASSUME NEW t \in Task, ComposeUp(t)
      PROVE  OwnerAdvances(s)
    BY <1>12, UpEffect, TaskFields DEF Kind
<1>13. ASSUME NEW t \in Task, Settle(t)
      PROVE  OwnerAdvances(s)
    BY <1>13, SettleEffect DEF Outcome, Healthy, TypeOK
<1>14. ASSUME NEW t \in Task, SetToolStatuses(t)
      PROVE  OwnerAdvances(s)
    BY <1>14, ToolsEffect
<1>15. ASSUME NEW t \in Task, ComposeDown(t)
      PROVE  OwnerAdvances(s)
    BY <1>15, DownEffect
<1>16. ASSUME NEW t \in Task, DeleteProject(t)
      PROVE  OwnerAdvances(s)
    BY <1>16, BecomeEffect DEF DeleteProject, Stage, Running
<1>17. ASSUME NEW t \in Task, MarkDeleted(t)
      PROVE  OwnerAdvances(s)
    BY <1>17, HideEffect
<1>18. CASE UserEdit
    BY <1>18, UserEditEffect
<1>19. CASE CrashAndBoot
    BY <1>19, CrashEffect DEF Quiet, Active, Running
<1>20. CASE UNCHANGED vars
    BY <1>20
<1>21. ASSUME NEW t \in Task, WorkerRaises(t)
      PROVE  OwnerAdvances(s)
    BY <1>21, RaiseEffect
<1>22. ASSUME NEW t \in Task, RecordFailure(t)
      PROVE  OwnerAdvances(s)
    BY <1>22, RecordFailureEffect DEF TypeOK
<1>23. QED
    BY <1>1, <1>2, <1>3, <1>4, <1>5, <1>6, <1>7, <1>8, <1>9, <1>10, <1>11, <1>12, <1>13,
       <1>14, <1>15, <1>16, <1>17, <1>18, <1>19, <1>20, <1>21, <1>22
    DEF Next, Step

\* Only set_status('generating') of a task shows the badge, and spawns a worker;
\* what excuses a stale badge is never forgotten.
LEMMA BadgeStep ==
    ASSUME TypeOK, KindOK, [Next]_vars
    PROVE  /\ odd \subseteq odd'
           /\ row.status # "generating" /\ row'.status = "generating" =>
                  \E t \in Task : Owns(t)'
<1> DEFINE Badge == /\ odd \subseteq odd'
                    /\ row.status # "generating" /\ row'.status = "generating" =>
                           \E t \in Task : Owns(t)'
<1>1. ASSUME NEW t \in Task, NEW c \in Config, BeginUpdate(t, c)
      PROVE  Badge
    BY <1>1, UpdateEffect DEF Excuses
<1>2. ASSUME NEW t \in Task, BeginStart(t)
      PROVE  Badge
    BY <1>2, StartEffect DEF Excuses
<1>3. ASSUME NEW t \in Task, BeginBind(t)
      PROVE  Badge
    BY <1>3, BindEffect DEF Excuses
<1>4. ASSUME NEW t \in Task, BeginDelete(t)
      PROVE  Badge
    BY <1>4, DeleteEffect DEF Excuses
<1>5. ASSUME NEW t \in Task, PushConfig(t)
      PROVE  Badge
    BY <1>5, PushEffect
<1>6. ASSUME NEW t \in Task, StoreConfig(t)
      PROVE  Badge
    BY <1>6, StoreEffect DEF TypeOK
<1>7. ASSUME NEW t \in Task, MarkGenerating(t)
      PROVE  Badge
    BY <1>7, MarkEffect DEF Owns, KindOK, MovesOnly
<1>8. ASSUME NEW t \in Task, Render(t)
      PROVE  Badge
    BY <1>8, RenderEffect
<1>9. ASSUME NEW t \in Task, CommitEdits(t)
      PROVE  Badge
    BY <1>9, CommitEditsEffect
<1>10. ASSUME NEW t \in Task, Write(t)
      PROVE  Badge
    BY <1>10, WriteEffect
<1>11. ASSUME NEW t \in Task, GitInit(t)
      PROVE  Badge
    BY <1>11, GitInitEffect
<1>12. ASSUME NEW t \in Task, ComposeUp(t)
      PROVE  Badge
    BY <1>12, UpEffect
<1>13. ASSUME NEW t \in Task, Settle(t)
      PROVE  Badge
    BY <1>13, SettleEffect DEF Outcome, Healthy, TypeOK
<1>14. ASSUME NEW t \in Task, SetToolStatuses(t)
      PROVE  Badge
    BY <1>14, ToolsEffect DEF TypeOK
<1>15. ASSUME NEW t \in Task, ComposeDown(t)
      PROVE  Badge
    BY <1>15, DownEffect
<1>16. ASSUME NEW t \in Task, DeleteProject(t)
      PROVE  Badge
    BY <1>16 DEF DeleteProject
<1>17. ASSUME NEW t \in Task, MarkDeleted(t)
      PROVE  Badge
    BY <1>17, HideEffect DEF TypeOK
<1>18. CASE UserEdit
    BY <1>18, UserEditEffect
<1>19. CASE CrashAndBoot
    BY <1>19, CrashEffect
<1>20. CASE UNCHANGED vars
    BY <1>20 DEF vars
<1>21. ASSUME NEW t \in Task, WorkerRaises(t)
      PROVE  Badge
    BY <1>21, RaiseEffect
<1>22. ASSUME NEW t \in Task, RecordFailure(t)
      PROVE  Badge
    BY <1>22, RecordFailureEffect DEF TypeOK
<1>23. QED
    BY <1>1, <1>2, <1>3, <1>4, <1>5, <1>6, <1>7, <1>8, <1>9, <1>10, <1>11, <1>12, <1>13,
       <1>14, <1>15, <1>16, <1>17, <1>18, <1>19, <1>20, <1>21, <1>22
    DEF Next, Step

LEMMA OwnedStep ==
    ASSUME TypeOK, KindOK, GeneratingIsOwned, [Next]_vars
    PROVE  GeneratingIsOwned'
<1> SUFFICES ASSUME row'.status = "generating", "troubled" \notin odd'
             PROVE  \E t \in Task : Owns(t)'
    BY DEF GeneratingIsOwned
<1>1. CASE row.status # "generating"
    BY <1>1, BadgeStep
<1>2. CASE row.status = "generating"
    <2>1. PICK t \in Task : Owns(t)
        BY <1>2, BadgeStep DEF GeneratingIsOwned
    <2>2. OwnerAdvances(t)
        BY OwnerStep
    <2>3. QED
        BY <2>1, <2>2 DEF OwnerAdvances, Owns
<1>3. QED
    BY <1>1, <1>2

\* agent_update.py and the worker of the saga: a backend shown as generating has a
\* worker under way that is about to say what came of it, however tasks overlap,
\* unless a task died or its failure was ignored.
THEOREM GeneratingIsOwnedThm == Spec => []GeneratingIsOwned
<1>1. Init => GeneratingIsOwned
    BY ConstantsAssumption DEF Init, GeneratingIsOwned, Owns, Idle
<1>2. Inv => TypeOK /\ KindOK
    BY DEF Inv
<1>3. QED
    BY <1>1, <1>2, Invariance, OwnedStep, PTL DEF Spec

\* Such a worker only moves on: at most seven steps of its own replace the badge.
THEOREM OwnersAdvance == Spec => [][\A t \in Task : OwnerAdvances(t)]_vars
<1>1. Inv /\ [Next]_vars => \A t \in Task : OwnerAdvances(t)
    BY OwnerStep DEF Inv
<1>2. QED
    BY <1>1, Invariance, PTL DEF Spec
===============================================================================
