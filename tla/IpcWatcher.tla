----------------------------- MODULE IpcWatcher -----------------------------
(* The file-based IPC between the agent containers and the host              *)
(* (host/ipc_watcher.py, the IPC tools of agent-runner/_tools.py and the      *)
(* flag files read by host/main.py).  A tool of a container writes a request  *)
(* as a file under data/ipc/<folder>/messages or tasks; the watcher reads the *)
(* directories (woken by inotify, or polling), handles the files in the order *)
(* of their names and deletes each one afterwards.  Long requests become      *)
(* background jobs; their answers are files under results/ that the tool      *)
(* polls for.  The host may die between any two steps.                        *)
EXTENDS Integers, Sequences, SequencesExt, Functions, FiniteSets

CONSTANTS
    Folders,        \* group folders
    MainFolder,     \* the folder of the main group
    Requests,       \* the requests the containers write
    Plans,          \* what they are: functions from some of them to Request
    _IPC_MAX_FILES_PER_CYCLE,
    MaxCrashes      \* bound: ends of the host process

ASSUME MainAssumption == MainFolder \in Folders
ASSUME CapAssumption == _IPC_MAX_FILES_PER_CYCLE \in Nat

SkillKinds == {"apply_skill", "uninstall_skill"}
MemoryKinds == {"memory_recall", "memory_remember"}
AnsweredKinds == {"list_skills", "memory_search"}
JobKinds == SkillKinds \cup MemoryKinds \cup AnsweredKinds
            \cup {"spawn_agent", "dev_task", "send_file", "restart_host"}
TaskKinds == {"pause_task", "resume_task", "cancel_task", "update_task"}
FlagKinds == {"refresh_groups", "reset_group"}
Kinds == JobKinds \cup TaskKinds \cup FlagKinds
         \cup {"message", "schedule_task", "register_group", "other",
               "empty", "garbage"}

\* What a file says: who wrote it, and the group it is about.
Request == [kind : Kinds, from : Folders, to : Folders]

ASSUME PlansAssumption ==
    \A p \in Plans : DOMAIN p \subseteq Requests /\ \A r \in DOMAIN p : p[r] \in Request

Subdirs == <<"messages", "tasks">>

VARIABLES
    plan,        \* what each request is
    registered,  \* the groups in the database
    loaded,      \* main.py's list of groups in memory
    written,     \* the requests written so far, oldest first
    files,       \* the requests whose file is in its directory
    alerts,      \* number of ipc_error_alert files in the main group's messages
    rejected,    \* the requests whose file is in an errors directory
    handled,     \* how often the handler ran for a request
    tasks,       \* state of the task a schedule_task request created
    pc,          \* where the watcher is
    watch_backend, \* "none", "inotify", "polling", or "closed": inotify was closed
    watched,     \* watch_map: the folders with a watch, never removed
    events,      \* folders with an inotify event not yet read
    todo,        \* <<folders to scan, folders to scan after those>>
    batch,       \* the files left of the directory being processed
    at,          \* <<folder, index of the directory>> being processed
    jobs,        \* background job of each request
    dev_task_active,
    skills_lock, \* requests holding the asyncio lock (none or one)
    timeouts,    \* skill operations given up while their thread was running
    results,     \* requests with an answer under results/; old ones too
    old,         \* answers older than _RESULT_MAX_AGE_SECS
    client,      \* the tool that waits for the answer
    refresh_flag, reset_flag, reset_read, restart_flag,
    crashes

watcherVars == <<pc, watch_backend, watched, events, todo, batch, at>>
jobVars == <<jobs, dev_task_active, skills_lock, timeouts>>
fileVars == <<written, files, alerts, rejected, handled>>
answerVars == <<results, old, client>>
groupVars == <<plan, registered, loaded, tasks>>
flagVars == <<refresh_flag, reset_flag, reset_read, restart_flag>>
ipcVars == <<watcherVars, jobVars, fileVars, answerVars, groupVars, flagVars, crashes>>

None == "none"
Alert == "alert"

ASSUME AlertAssumption == Alert \notin Requests

-----------------------------------------------------------------------------
(* The directories.                                                           *)

\* send_message and send_file write to messages/, every other tool to tasks/.
SubdirOf(r) == IF plan[r].kind \in {"message", "send_file"} THEN "messages" ELSE "tasks"

InDir(r, f, d) == plan[r].from = f /\ SubdirOf(r) = d

\* File names start with the time, except "file_<time>" of send_file and
\* "ipc_error_alert_<time>", which sort after all of them in this order.
LateName(r) == plan[r].kind = "send_file"

Earlier(r, q) == \E i, j \in DOMAIN written : i < j /\ written[i] = r /\ written[j] = q

NameBefore(r, q) ==
    \/ ~LateName(r) /\ LateName(q)
    \/ (LateName(r) <=> LateName(q)) /\ Earlier(r, q)

\* The listing of a directory by name, in a set of one.
SortedDir(f, d) ==
    LET here == {r \in files : InDir(r, f, d)}
        alertFiles == IF f = MainFolder /\ d = "messages"
                      THEN [i \in 1..alerts |-> Alert] ELSE <<>>
    IN {s \o alertFiles : s \in {t \in Surjection(1..Cardinality(here), here) :
                                   \A i, j \in DOMAIN t : i < j => NameBefore(t[i], t[j])}}

FilesToProcessNewest(s) ==
    IF _IPC_MAX_FILES_PER_CYCLE > 0 /\ Len(s) > _IPC_MAX_FILES_PER_CYCLE
    THEN SubSeq(s, Len(s) - _IPC_MAX_FILES_PER_CYCLE + 1, Len(s)) ELSE s

\* At most _IPC_MAX_FILES_PER_CYCLE files of a directory in one go; 0 is no limit.
FilesToProcess(s) ==
    IF _IPC_MAX_FILES_PER_CYCLE > 0 /\ Len(s) > _IPC_MAX_FILES_PER_CYCLE
    THEN SubSeq(s, 1, _IPC_MAX_FILES_PER_CYCLE) ELSE s

IpcInit ==
    /\ plan \in Plans
    \* every group is known but the ones the plan registers
    /\ registered = Folders \ {plan[r].to : r \in {q \in DOMAIN plan :
                                                   plan[q].kind = "register_group"}}
    /\ loaded = registered
    /\ written = <<>> /\ files = {} /\ alerts = 0 /\ rejected = {}
    /\ handled = [r \in Requests |-> 0]
    /\ tasks = [r \in Requests |-> "none"]
    /\ pc = "start" /\ watch_backend = None /\ watched = {} /\ events = {}
    /\ todo = <<{}, {}>> /\ batch = <<>> /\ at = <<MainFolder, 1>>
    /\ jobs = [r \in Requests |-> "none"]
    /\ dev_task_active = {} /\ skills_lock = {} /\ timeouts = 0
    /\ results = {} /\ old = {}
    /\ client = [r \in Requests |-> "idle"]
    /\ refresh_flag = FALSE /\ reset_flag = None /\ reset_read = None
    /\ restart_flag = FALSE
    /\ crashes = 0

-----------------------------------------------------------------------------
(* The tools of the containers.                                               *)

Polls(r) == plan[r].kind \in MemoryKinds \cup {"spawn_agent"}

\* A tool writes the file under a temporary name and renames it; a group has
\* containers only once main.py has loaded it.  The rename raises an event.
WriteIpcFile(r) ==
    /\ r \in DOMAIN plan \ ToSet(written)
    /\ plan[r].from \in loaded
    /\ written' = Append(written, r)
    /\ files' = files \cup {r}
    /\ client' = [client EXCEPT ![r] = IF Polls(r) THEN "waiting" ELSE "done"]
    /\ events' = IF watch_backend = "inotify" /\ plan[r].from \in watched
                 THEN events \cup {plan[r].from} ELSE events
    /\ UNCHANGED <<pc, watch_backend, watched, todo, batch, at, jobVars, alerts, rejected,
                   handled, results, old, groupVars, flagVars, crashes>>

\* The tool finds the answer, reads it and deletes it.
ReadResult(r) ==
    /\ client[r] = "waiting" /\ r \in results
    /\ client' = [client EXCEPT ![r] = "answered"]
    /\ results' = results \ {r} /\ old' = old \ {r}
    /\ UNCHANGED <<watcherVars, jobVars, fileVars, groupVars, flagVars, crashes>>

\* The tool has polled for 60 s (a subagent) or 10 s (memory) and gives up.
GiveUp(r) ==
    /\ client[r] = "waiting" /\ r \notin results
    /\ client' = [client EXCEPT ![r] = "timed_out"]
    /\ UNCHANGED <<watcherVars, jobVars, fileVars, results, old, groupVars, flagVars, crashes>>

-----------------------------------------------------------------------------
(* The watcher's loops.                                                       *)

\* start_ipc_watcher with inotify: a watch for every loaded group, then a scan
\* of every watched directory for the files that were there before.
StartInotify ==
    /\ pc = "start"
    /\ watch_backend' = "inotify" /\ watched' = loaded
    /\ todo' = <<loaded, {}>> /\ pc' = "scan"
    /\ UNCHANGED <<events, batch, at, jobVars, fileVars, answerVars, groupVars, flagVars, crashes>>

\* No inotify, or no watches left while they are armed for the first time.
StartPolling ==
    /\ pc = "start"
    /\ watch_backend' = "polling" /\ pc' = "read"
    /\ UNCHANGED <<watched, events, todo, batch, at, jobVars, fileVars, answerVars,
                   groupVars, flagVars, crashes>>

\* A polling cycle: the groups in memory, one after the other.
PollGroups ==
    /\ pc = "read" /\ watch_backend = "polling"
    /\ todo' = <<loaded, {}>> /\ pc' = "scan"
    /\ UNCHANGED <<watch_backend, watched, events, batch, at, jobVars, fileVars, answerVars,
                   groupVars, flagVars, crashes>>

\* An inotify read returned: the folders of its events are processed.
ReadEvents ==
    /\ pc = "read" /\ watch_backend = "inotify" /\ events # {}
    /\ todo' = <<events, {}>> /\ events' = {} /\ pc' = "scan"
    /\ UNCHANGED <<watch_backend, watched, batch, at, jobVars, fileVars, answerVars,
                   groupVars, flagVars, crashes>>

RefreshAndScan(folders) ==
    /\ pc = "read" /\ watch_backend = "inotify"
    /\ loaded \cup watched # {}
    /\ watched' = watched \cup loaded
    /\ todo' = <<folders, events>> /\ events' = {} /\ pc' = "scan"
    /\ UNCHANGED <<watch_backend, batch, at, jobVars, fileVars, answerVars, groupVars, flagVars, crashes>>

RefreshWatchesNewOnly == RefreshAndScan(loaded \ watched)

\* A read after _REFRESH_INTERVAL: watches for new groups, a scan of every
\* watched folder, and then the folders of the events.
RefreshWatches == RefreshAndScan(watched \cup loaded)

\* The watch limit is met at such a refresh: inotify is closed, the exception
\* ends in the loop's own handler, and every later read raises again.
WatchLimit ==
    /\ pc = "read" /\ watch_backend = "inotify"
    /\ loaded \ watched # {}
    /\ watch_backend' = "closed" /\ events' = {}
    /\ UNCHANGED <<pc, watched, todo, batch, at, jobVars, fileVars, answerVars,
                   groupVars, flagVars, crashes>>

CleanupIn(backends) ==
    /\ pc = "read" /\ watch_backend \in backends /\ old # {}
    /\ results' = results \ old /\ old' = {}
    /\ UNCHANGED <<watcherVars, jobVars, fileVars, client, groupVars, flagVars, crashes>>

CleanupStaleResultsPolling == CleanupIn({"polling"})

\* _cleanup_stale_results, every 60 s (inotify) or 120 cycles (polling).
CleanupStaleResults == CleanupIn({"inotify", "polling"})

\* process_ipc_dir of the next folder; the set is visited in any order.
ProcessIpcDir(f) ==
    /\ pc = "scan" /\ f \in todo[1]
    /\ todo' = <<todo[1] \ {f}, todo[2]>>
    /\ at' = <<f, 1>>
    /\ \E s \in SortedDir(f, Subdirs[1]) : batch' = FilesToProcess(s)
    /\ pc' = "files"
    /\ UNCHANGED <<watch_backend, watched, events, jobVars, fileVars, answerVars, groupVars,
                   flagVars, crashes>>

\* The scan after a refresh is followed by the folders of the events, if any.
ScanDone ==
    /\ pc = "scan" /\ todo[1] = {}
    /\ todo' = <<todo[2], {}>>
    /\ pc' = IF todo[2] = {} THEN "read" ELSE "scan"
    /\ UNCHANGED <<watch_backend, watched, events, batch, at, jobVars, fileVars, answerVars,
                   groupVars, flagVars, crashes>>

\* The files of one directory are done: the next one, or the next folder.
NextDir ==
    /\ pc = "files" /\ batch = <<>>
    /\ IF at[2] = Len(Subdirs)
       THEN pc' = "scan" /\ UNCHANGED <<at, batch>>
       ELSE /\ at' = <<at[1], at[2] + 1>>
            /\ \E s \in SortedDir(at[1], Subdirs[at[2] + 1]) : batch' = FilesToProcess(s)
            /\ UNCHANGED pc
    /\ UNCHANGED <<watch_backend, watched, events, todo, jobVars, fileVars, answerVars,
                   groupVars, flagVars, crashes>>

-----------------------------------------------------------------------------
(* One file.                                                                  *)

IsMain(f) == f = MainFolder

\* The handlers that raise: an operation of the main group asked for by
\* another one, and a task for another group's folder.
Denied(r) ==
    LET k == plan[r].kind IN
    /\ ~IsMain(plan[r].from)
    /\ \/ k \in SkillKinds \cup {"register_group", "reset_group"}
       \/ k = "schedule_task" /\ plan[r].to # plan[r].from

\* An empty file is deleted, one that is not JSON goes to the group's errors.
SkipFile ==
    /\ pc = "files" /\ batch # <<>> /\ Head(batch) # Alert
    /\ plan[Head(batch)].kind \in {"empty", "garbage"}
    /\ files' = files \ {Head(batch)}
    /\ rejected' = IF plan[Head(batch)].kind = "garbage"
                   THEN rejected \cup {Head(batch)} ELSE rejected
    /\ batch' = Tail(batch)
    /\ UNCHANGED <<pc, watch_backend, watched, events, todo, at, jobVars, written, alerts,
                   handled, answerVars, groupVars, flagVars, crashes>>

\* The handler raised: the file goes to ipc/errors and an alert is written
\* for the main group, whose directory the watcher itself reads.
FailFile ==
    /\ pc = "files" /\ batch # <<>> /\ Head(batch) # Alert
    /\ Denied(Head(batch))
    /\ files' = files \ {Head(batch)}
    /\ rejected' = rejected \cup {Head(batch)}
    /\ alerts' = IF MainFolder \in registered THEN alerts + 1 ELSE alerts
    /\ events' = IF watch_backend = "inotify" /\ MainFolder \in watched
                 THEN events \cup {MainFolder} ELSE events
    /\ batch' = Tail(batch)
    /\ UNCHANGED <<pc, watch_backend, watched, todo, at, jobVars, written, handled, answerVars,
                   groupVars, flagVars, crashes>>

\* pause, resume and cancel look the task up and check whose it is; an unknown
\* task, or one of another group, is left alone without an error.
AuthorizedTasks(r) ==
    {s \in Requests : /\ tasks[s] \in {"active", "paused"}
                      /\ plan[s].from = plan[r].to
                      /\ IsMain(plan[r].from) \/ plan[r].to = plan[r].from}

TaskAfter(r, s) ==
    CASE plan[r].kind = "pause_task" -> "paused"
      [] plan[r].kind = "resume_task" -> "active"
      [] plan[r].kind = "cancel_task" -> "cancelled"
      [] OTHER -> tasks[s]

HandleTask(r) ==
    \/ /\ plan[r].kind = "schedule_task"
       /\ tasks' = [tasks EXCEPT ![r] = "active"]
       /\ UNCHANGED <<registered, refresh_flag, reset_flag, jobs>>
    \/ /\ plan[r].kind \in TaskKinds
       /\ \/ AuthorizedTasks(r) = {} /\ UNCHANGED tasks
          \/ \E s \in AuthorizedTasks(r) : tasks' = [tasks EXCEPT ![s] = TaskAfter(r, s)]
       /\ UNCHANGED <<registered, refresh_flag, reset_flag, jobs>>

\* A group is registered in the database only; the flags are files that
\* main.py looks for, one for all requests, the last content wins.
HandleGroup(r) ==
    \/ /\ plan[r].kind = "register_group"
       /\ registered' = registered \cup {plan[r].to}
       /\ UNCHANGED <<refresh_flag, reset_flag>>
    \/ /\ plan[r].kind = "refresh_groups"
       /\ refresh_flag' = TRUE
       /\ UNCHANGED <<registered, reset_flag>>
    \/ /\ plan[r].kind = "reset_group"
       /\ reset_flag' = plan[r].to
       /\ UNCHANGED <<registered, refresh_flag>>

\* _handle_ipc: a long request becomes a background task; the others take
\* effect at once.  A message for another group's chat is dropped silently.
HandleIpc(r) ==
    \/ HandleTask(r)
    \/ HandleGroup(r) /\ UNCHANGED <<tasks, jobs>>
    \/ /\ plan[r].kind \in JobKinds
       /\ jobs' = [jobs EXCEPT ![r] = "created"]
       /\ UNCHANGED <<tasks, registered, refresh_flag, reset_flag>>
    \/ /\ plan[r].kind \in {"message", "other"}
       /\ UNCHANGED <<tasks, registered, refresh_flag, reset_flag, jobs>>

HandleFile ==
    /\ pc = "files" /\ batch # <<>> /\ Head(batch) # Alert
    /\ plan[Head(batch)].kind \notin {"empty", "garbage"}
    /\ ~Denied(Head(batch))
    /\ HandleIpc(Head(batch))
    /\ handled' = [handled EXCEPT ![Head(batch)] = @ + 1]
    /\ pc' = "unlink"
    /\ UNCHANGED <<watch_backend, watched, events, todo, batch, at, dev_task_active, skills_lock,
                   timeouts, written, files, alerts, rejected, answerVars, plan, loaded,
                   reset_read, restart_flag, crashes>>

\* An alert is a message to the main group's own chat.
HandleAlert ==
    /\ pc = "files" /\ batch # <<>> /\ Head(batch) = Alert
    /\ pc' = "unlink"
    /\ UNCHANGED <<watch_backend, watched, events, todo, batch, at, jobVars, fileVars, answerVars,
                   groupVars, flagVars, crashes>>

RemoveFile(removed) ==
    /\ pc = "unlink"
    /\ IF Head(batch) = Alert
       THEN alerts' = alerts - 1 /\ UNCHANGED files
       ELSE files' = files \ removed /\ UNCHANGED alerts
    /\ batch' = Tail(batch) /\ pc' = "files"
    /\ UNCHANGED <<watch_backend, watched, events, todo, at, jobVars, written, rejected, handled,
                   answerVars, groupVars, flagVars, crashes>>

UnlinkFileLater == RemoveFile({r \in {Head(batch)} : jobs[r] = "none"})

\* The handler returned: the file is deleted, also when a job does the work.
UnlinkFile == RemoveFile({Head(batch)})

-----------------------------------------------------------------------------
(* The background jobs.                                                       *)

FinishJob(r, answers) ==
    /\ jobs' = [jobs EXCEPT ![r] = "done"]
    /\ results' = results \cup answers
    /\ UNCHANGED <<watcherVars, fileVars, old, client, groupVars, refresh_flag, reset_flag,
                   reset_read, crashes>>

StartSkill(r, locked) ==
    /\ jobs[r] = "created" /\ plan[r].kind \in SkillKinds
    /\ locked = {}
    /\ skills_lock' = skills_lock \cup {r}
    /\ jobs' = [jobs EXCEPT ![r] = "running"]
    /\ UNCHANGED <<dev_task_active, timeouts, watcherVars, fileVars, answerVars, groupVars,
                   flagVars, crashes>>

RunSkillUnlocked(r) == StartSkill(r, {})

\* _run_apply_skill, _run_uninstall_skill: one at a time, in a worker thread.
RunSkill(r) == StartSkill(r, skills_lock)

\* The operation ended, well (the answer is written) or by an exception (not).
SkillDone(r) ==
    /\ jobs[r] = "running" /\ plan[r].kind \in SkillKinds
    /\ skills_lock' = skills_lock \ {r}
    /\ \E answers \in {{}, {r}} : FinishJob(r, answers)
    /\ UNCHANGED <<dev_task_active, timeouts, restart_flag>>

\* After 300 s the lock is released without an answer; the thread goes on.
SkillTimeout(r) ==
    /\ jobs[r] = "running" /\ plan[r].kind \in SkillKinds
    /\ skills_lock' = skills_lock \ {r}
    /\ timeouts' = timeouts + 1
    /\ jobs' = [jobs EXCEPT ![r] = "abandoned"]
    /\ UNCHANGED <<dev_task_active, watcherVars, fileVars, answerVars, groupVars, flagVars, crashes>>

AbandonedThreadEnds(r) ==
    /\ jobs[r] = "abandoned"
    /\ FinishJob(r, {})
    /\ UNCHANGED <<dev_task_active, skills_lock, timeouts, restart_flag>>

\* The finally around the refusal too: it frees the group for a third task.
RunDevTaskFinally(r) ==
    /\ jobs[r] = "created" /\ plan[r].kind = "dev_task"
    /\ IF plan[r].from \in dev_task_active
       THEN /\ jobs' = [jobs EXCEPT ![r] = "done"]
            /\ dev_task_active' = dev_task_active \ {plan[r].from}
       ELSE /\ dev_task_active' = dev_task_active \cup {plan[r].from}
            /\ jobs' = [jobs EXCEPT ![r] = "running"]
    /\ UNCHANGED <<skills_lock, timeouts, watcherVars, fileVars, answerVars, groupVars,
                   flagVars, crashes>>

\* _run_dev_task: refused while the group is in _dev_task_active.
RunDevTask(r) ==
    /\ jobs[r] = "created" /\ plan[r].kind = "dev_task"
    /\ IF plan[r].from \in dev_task_active
       THEN jobs' = [jobs EXCEPT ![r] = "done"] /\ UNCHANGED dev_task_active
       ELSE /\ dev_task_active' = dev_task_active \cup {plan[r].from}
            /\ jobs' = [jobs EXCEPT ![r] = "running"]
    /\ UNCHANGED <<skills_lock, timeouts, watcherVars, fileVars, answerVars, groupVars,
                   flagVars, crashes>>

\* The engine returned or raised: the finally discards the group.
DevTaskDone(r) ==
    /\ jobs[r] = "running" /\ plan[r].kind = "dev_task"
    /\ dev_task_active' = dev_task_active \ {plan[r].from}
    /\ FinishJob(r, {})
    /\ UNCHANGED <<skills_lock, timeouts, restart_flag>>

\* _run_subagent: a container runs; its output or its error is the answer.
RunSubagent(r) ==
    /\ jobs[r] = "created" /\ plan[r].kind = "spawn_agent"
    /\ jobs' = [jobs EXCEPT ![r] = "running"]
    /\ UNCHANGED <<dev_task_active, skills_lock, timeouts, watcherVars, fileVars, answerVars,
                   groupVars, flagVars, crashes>>

SubagentDone(r) ==
    /\ jobs[r] = "running" /\ plan[r].kind = "spawn_agent"
    /\ FinishJob(r, {r})
    /\ UNCHANGED <<dev_task_active, skills_lock, timeouts, restart_flag>>

\* list_skills and memory_search answer unless they raise.
AnswerQuery(r) ==
    /\ jobs[r] = "created" /\ plan[r].kind \in AnsweredKinds
    /\ \E answers \in {{}, {r}} : FinishJob(r, answers)
    /\ UNCHANGED <<dev_task_active, skills_lock, timeouts, restart_flag>>

\* memory_recall and memory_remember: response_file is a path of the container,
\* /workspace/ipc/results/..., which the host resolves as its own and finds
\* outside the group's results: the answer is refused, and so is the error's.
RunMemory(r) ==
    /\ jobs[r] = "created" /\ plan[r].kind \in MemoryKinds
    /\ FinishJob(r, {})
    /\ UNCHANGED <<dev_task_active, skills_lock, timeouts, restart_flag>>

\* The file, or the notice that it was not found, is sent to the chat.
SendFile(r) ==
    /\ jobs[r] = "created" /\ plan[r].kind = "send_file"
    /\ FinishJob(r, {})
    /\ UNCHANGED <<dev_task_active, skills_lock, timeouts, restart_flag>>

WriteRestartFlag(r) ==
    /\ jobs[r] = "created" /\ plan[r].kind = "restart_host"
    /\ restart_flag' = TRUE
    /\ FinishJob(r, {})
    /\ UNCHANGED <<dev_task_active, skills_lock, timeouts>>

JobStep(r) ==
    \/ RunSkill(r) \/ SkillDone(r) \/ AbandonedThreadEnds(r)
    \/ RunDevTask(r) \/ DevTaskDone(r)
    \/ RunSubagent(r) \/ SubagentDone(r)
    \/ AnswerQuery(r) \/ RunMemory(r) \/ SendFile(r) \/ WriteRestartFlag(r)

\* An hour passes over an answer nobody has read.
Age(r) ==
    /\ r \in results \ old
    /\ old' = old \cup {r}
    /\ UNCHANGED <<watcherVars, jobVars, fileVars, results, client, groupVars, flagVars, crashes>>

-----------------------------------------------------------------------------
(* The flags in main.py's message loop, and the end of the process.           *)

ReloadGroups ==
    /\ refresh_flag
    /\ refresh_flag' = FALSE /\ loaded' = registered
    /\ UNCHANGED <<watcherVars, jobVars, fileVars, answerVars, plan, registered, tasks,
                   reset_flag, reset_read, restart_flag, crashes>>

\* The flag is read in an executor and deleted after it, whatever it holds by then.
ReadResetFlag ==
    /\ reset_flag # None /\ reset_read = None
    /\ reset_read' = reset_flag
    /\ UNCHANGED <<watcherVars, jobVars, fileVars, answerVars, groupVars, refresh_flag,
                   reset_flag, restart_flag, crashes>>

ResetGroup ==
    /\ reset_read # None
    /\ reset_read' = None /\ reset_flag' = None
    /\ UNCHANGED <<watcherVars, jobVars, fileVars, answerVars, groupVars, refresh_flag,
                   restart_flag, crashes>>

\* A new process: jobs, locks and watches are gone, the files are still there.
HostStarts ==
    /\ pc' = "start" /\ watch_backend' = None /\ watched' = {} /\ events' = {}
    /\ todo' = <<{}, {}>> /\ batch' = <<>> /\ at' = <<MainFolder, 1>>
    /\ jobs' = [r \in Requests |-> IF jobs[r] \in {"created", "running", "abandoned"}
                                   THEN "lost" ELSE jobs[r]]
    /\ dev_task_active' = {} /\ skills_lock' = {} /\ timeouts' = 0
    /\ loaded' = registered /\ reset_read' = None
    /\ UNCHANGED <<fileVars, answerVars, plan, registered, tasks, refresh_flag, reset_flag>>

Crash ==
    /\ crashes < MaxCrashes
    /\ crashes' = crashes + 1
    /\ HostStarts /\ UNCHANGED restart_flag

\* main.py finds restart.flag, deletes it and executes itself again.
RestartHost ==
    /\ restart_flag /\ restart_flag' = FALSE
    /\ crashes' = crashes + 1
    /\ HostStarts

\* A read of the closed inotify raises; the loop logs it and tries again.
ReadError == pc = "read" /\ watch_backend = "closed" /\ UNCHANGED ipcVars

WatcherStep ==
    \/ StartInotify \/ StartPolling \/ PollGroups \/ ReadEvents \/ RefreshWatches
    \/ (\E f \in Folders : ProcessIpcDir(f)) \/ ScanDone \/ NextDir
    \/ SkipFile \/ FailFile \/ HandleFile \/ HandleAlert \/ UnlinkFile

\* Between the handler and the unlink the event loop runs another coroutine
\* only if the handler awaited, which it does to route a message.
Yielded == ~(/\ pc = "unlink" /\ Head(batch) # Alert
             /\ plan[Head(batch)].kind # "message")

IpcNext ==
    \/ WatcherStep \/ WatchLimit \/ ReadError \/ CleanupStaleResults
    \/ \E r \in Requests : WriteIpcFile(r) \/ ReadResult(r) \/ GiveUp(r) \/ Age(r)
    \/ Yielded /\ \E r \in Requests : JobStep(r) \/ SkillTimeout(r)
    \/ Yielded /\ (ReloadGroups \/ ReadResetFlag \/ ResetGroup \/ RestartHost)
    \/ Crash

IpcSpec == IpcInit /\ [][IpcNext]_ipcVars

\* The watcher's loop and the timers run as long as the process does: the
\* event loop resumes them, and the clean-up is due again and again.
FairIpcSpec ==
    /\ IpcSpec
    /\ WF_ipcVars(WatcherStep)
    /\ SF_ipcVars(CleanupStaleResults)
    /\ \A r \in Requests : WF_ipcVars(Age(r))

-----------------------------------------------------------------------------
(* Properties.                                                                *)

\* The type invariant: an alert exists only in the main group's directory,
\* and a file on disk has been written (process_ipc_dir, _handle_ipc).
IpcTypeOK ==
    /\ DOMAIN plan \subseteq Requests /\ \A r \in DOMAIN plan : plan[r] \in Request
    /\ registered \subseteq Folders /\ loaded \subseteq registered
    /\ files \cup rejected \subseteq ToSet(written)
    /\ alerts \in 0..Cardinality(rejected)
    /\ handled \in [Requests -> Nat]
    /\ tasks \in [Requests -> {"none", "active", "paused", "cancelled"}]
    /\ pc \in {"start", "read", "scan", "files", "unlink"}
    /\ watch_backend \in {None, "inotify", "polling", "closed"}
    /\ watched \cup events \cup todo[1] \cup todo[2] \subseteq registered
    /\ \A i \in DOMAIN batch : batch[i] \in files \cup {Alert}
    /\ pc = "unlink" => batch # <<>>
    /\ jobs \in [Requests -> {"none", "created", "running", "abandoned", "done", "lost"}]
    /\ Cardinality(skills_lock) <= 1
    /\ old \subseteq results
    /\ client \in [Requests -> {"idle", "waiting", "done", "answered", "timed_out"}]
    /\ crashes \in Nat

\* A request takes effect once in the life of a host process, and again only
\* when a process ended between the handler and the unlink that follows it
\* (process_ipc_dir: the file is deleted after it was handled).
HandledOncePerProcess == \A r \in Requests : handled[r] <= 1 + crashes

\* Requests with time-stamped names take effect in the order in which they were
\* written to a directory, however the backlog is cut into cycles ("FIFO" in
\* process_ipc_dir): none is handled before an older one has left the directory.
FifoPerDirectory ==
    [][\A r, q \in DOMAIN plan :
          (/\ handled'[r] > handled[r]
           /\ q \in files /\ q # r
           /\ InDir(q, plan[r].from, SubdirOf(r))
           /\ ~LateName(q) /\ ~LateName(r))
          => Earlier(r, q)]_ipcVars

\* The guard of _run_dev_task is exact: a group is in _dev_task_active just when
\* one development run of it is under way, and never two are.
DevTaskExclusive ==
    \A f \in Folders :
        Cardinality({r \in DOMAIN plan : /\ plan[r].kind = "dev_task" /\ plan[r].from = f
                                        /\ jobs[r] = "running"})
        = IF f \in dev_task_active THEN 1 ELSE 0

\* Two skill operations run at the same time only after one was given up with
\* its thread still running (_skills_lock around wait_for(to_thread(...), 300)).
SkillOperationsSerialised ==
    Cardinality({r \in DOMAIN plan : /\ plan[r].kind \in SkillKinds
                                    /\ jobs[r] \in {"running", "abandoned"}}) <= 1 + timeouts

\* Every request is taken from its directory in the end, also one written while
\* no watch was armed, while the host was down, or beyond the limit of a cycle,
\* and every answer is read or cleaned up with either backend (the inotify loop
\* once did not call _cleanup_stale_results); except when inotify was closed by
\* a late watch limit.
IpcDrains == []<>(files \cup results = {} \/ watch_backend = "closed")

\* process_ipc_dir and the background jobs it starts: requests take effect once per process
\* and in order, development runs exclude each other, skill operations are serialised.
IpcSound ==
    /\ [](IpcTypeOK /\ HandledOncePerProcess /\ DevTaskExclusive /\ SkillOperationsSerialised)
    /\ FifoPerDirectory

=============================================================================
