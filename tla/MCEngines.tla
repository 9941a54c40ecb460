------------------------------ MODULE MCEngines ------------------------------
(* Small instances of the loops that have to make progress beside the message *)
(* path: the workflow engine's, the memory ingestor's, the self-update's and   *)
(* the IPC watcher's.  They share no state, so a behaviour is one of the part  *)
(* in focus while the others rest in an initial state; each is checked as it   *)
(* is alone.                                                                   *)
EXTENDS WorkflowEngine, MemoryStores, SelfUpdate, IpcWatcher

VARIABLE focus

engineVars == <<focus, wfVars, memVars, updateVars, ipcVars>>

-----------------------------------------------------------------------------
(* Workflows: every graph of four steps along the alphabet, a cycle, and a     *)
(* dependency on a step that does not exist.                                   *)

NoEdges == [s \in WfSteps |-> {}]

SmallGraphs ==
    {g \in [WfSteps -> SUBSET WfSteps] : /\ g["a"] = {}
                                         /\ g["b"] \subseteq {"a"}
                                         /\ g["c"] \subseteq {"a", "b"}
                                         /\ g["d"] \subseteq {"a", "b", "c"}}
    \cup {[NoEdges EXCEPT !["a"] = {"c"}, !["b"] = {"a"}, !["c"] = {"b"}],
          [NoEdges EXCEPT !["a"] = {"e"}]}

-----------------------------------------------------------------------------
(* Memories: one private, one shared; one log.                                *)

Owners == [m1 |-> "a1", m2 |-> "a2", l1 |-> "a1"]
Scopes == [m1 |-> "private", m2 |-> "shared", l1 |-> "private"]

-----------------------------------------------------------------------------
(* IPC: every kind of request meets one that interferes with it.              *)

Req(k, f, t) == [kind |-> k, from |-> f, to |-> t]
Names == <<"r1", "r2", "r3">>
Plan(s) == [r \in {Names[i] : i \in DOMAIN s} |-> s[CHOOSE i \in DOMAIN s : Names[i] = r]]

OneMessage == Plan(<<Req("message", "main", "main")>>)

SmallPlans ==
    {Plan(<<Req("dev_task", "g", "g"), Req("dev_task", "g", "g")>>),
     Plan(<<Req("apply_skill", "main", "main"), Req("uninstall_skill", "main", "main")>>),
     Plan(<<Req("register_group", "main", "g"), Req("refresh_groups", "main", "main"),
            Req("list_skills", "g", "g")>>),
     Plan(<<Req("message", "main", "main"), Req("send_file", "main", "main"),
            Req("message", "main", "main")>>),
     Plan(<<Req("uninstall_skill", "g", "g"), Req("spawn_agent", "g", "g")>>),
     Plan(<<Req("schedule_task", "g", "g"), Req("pause_task", "main", "g")>>),
     Plan(<<Req("schedule_task", "g", "main"), Req("cancel_task", "g", "main")>>),
     Plan(<<Req("memory_recall", "g", "g"), Req("memory_search", "g", "g")>>),
     Plan(<<Req("garbage", "g", "g"), Req("empty", "g", "g"), Req("other", "g", "g")>>),
     Plan(<<Req("restart_host", "main", "main"), Req("reset_group", "main", "g")>>),
     Plan(<<Req("reset_group", "main", "g"), Req("reset_group", "main", "main")>>),
     OneMessage}

-----------------------------------------------------------------------------

AllEngines == {"workflow", "memory", "update", "ipc"}

EngineInit ==
    /\ focus \in AllEngines
    /\ WfInit /\ MemInit /\ UpdateInit /\ IpcInit
    /\ focus # "workflow" => depends_on = NoEdges
    /\ focus # "update" => update_mode = "worktree" /\ ai_mode = "off"
    /\ focus # "ipc" => plan = OneMessage

Rest(parts) == UNCHANGED <<focus, parts>>

BesideWorkflow == Rest(<<memVars, updateVars, ipcVars>>)
BesideMemory == Rest(<<wfVars, updateVars, ipcVars>>)
BesideUpdate == Rest(<<wfVars, memVars, ipcVars>>)
BesideIpc == Rest(<<wfVars, memVars, updateVars>>)

EngineNext ==
    \/ focus = "workflow" /\ WfNext /\ BesideWorkflow
    \/ focus = "memory" /\ MemNext /\ BesideMemory
    \/ focus = "update" /\ UpdateNext /\ BesideUpdate
    \/ focus = "ipc" /\ IpcNext /\ BesideIpc

\* The fairness of WfSpec, MemSpec, FairUpdateSpec and FairIpcSpec.
EngineFairness ==
    /\ WF_engineVars(focus = "workflow" /\ WorkflowStep /\ BesideWorkflow)
    /\ WF_engineVars(focus = "memory" /\ IngestorStep /\ BesideMemory)
    /\ \A u \in Updaters :
          /\ WF_engineVars(focus = "update" /\ AutoUpdateCheck(u) /\ BesideUpdate)
          /\ WF_engineVars(focus = "update" /\ UpdateStep(u) /\ BesideUpdate)
    /\ WF_engineVars(focus = "update" /\ DetectFlag /\ BesideUpdate)
    /\ WF_engineVars(focus = "update" /\ Reexec /\ BesideUpdate)
    /\ WF_engineVars(focus = "ipc" /\ WatcherStep /\ BesideIpc)
    /\ SF_engineVars(focus = "ipc" /\ CleanupStaleResults /\ BesideIpc)
    /\ \A r \in Requests : WF_engineVars(focus = "ipc" /\ Age(r) /\ BesideIpc)

EngineSpec == EngineInit /\ [][EngineNext]_engineVars /\ EngineFairness

\* Every workflow that is started comes to its end and to the right verdict, past
\* failing and timed-out attempts (WorkflowEnds).
EveryWorkflowEnds == []<>(focus = "workflow" => RightVerdict)

=============================================================================
