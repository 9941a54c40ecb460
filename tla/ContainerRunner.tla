--------------------------- MODULE ContainerRunner ---------------------------
(***************************************************************************)
(* host/container_runner.py: run_container_agent, the semaphore that caps  *)
(* the containers, the Docker circuit breaker of each group folder, the    *)
(* table _active_containers, cleanup_orphans and kill_all_containers.      *)
(*                                                                         *)
(* A run is one call of run_container_agent.  The event loop is single     *)
(* threaded, so the code between two awaits is one step; pc[r] says at     *)
(* which await the call is suspended.  docker[r] is what the Docker daemon *)
(* holds under the run's container name, client[r] whether the `docker     *)
(* run` process of the run is alive.  Calls come from GroupQueue, from the *)
(* task scheduler, from DevEngine and, for the runs with a parent, from a  *)
(* spawn_agent message of a running container.                             *)
(*                                                                         *)
(* The faults of a setting say what may go wrong: "prepare", "log_start"   *)
(* (raised between the acquire and the try), "spawn" (exec fails),         *)
(* "docker" (the daemon refuses the container), "slow_docker" (it has not  *)
(* created it when CONTAINER_TIMEOUT fires), "stream" (reading stderr      *)
(* raises, e.g. on a line longer than the reader's limit), "callback"      *)
(* (on_success or on_output raises), "stop" (docker stop and docker rm     *)
(* both fail), "cleanup" (the clean-up's docker ps or docker rm fails),    *)
(* "crash" (the host process ends).                                        *)
(***************************************************************************)
EXTENDS Naturals, Sequences, FiniteSets, SequencesExt

CONSTANTS Runs,              \* calls of run_container_agent
          Folders,           \* group folders
          FolderOf,          \* the folder of each run
          NoParent,
          MAX_CONCURRENT_CONTAINERS,
          DOCKER_CIRCUIT_THRESHOLD,
          DOCKER_HALF_OPEN_SECS,
          Settings,          \* the settings to explore, see setting
          AgentOutputs,      \* what an agent may leave on stdout
          CrashBound         \* host crashes allowed in a behaviour

ASSUME ConstantsAssumption ==
    /\ FolderOf \in [Runs -> Folders]
    /\ \A c \in Settings : /\ c.posix \in BOOLEAN
                          /\ c.faults \subseteq STRING
                          /\ c.parent \in [Runs -> Runs \cup {NoParent}]
    /\ NoParent \notin Runs
    /\ MAX_CONCURRENT_CONTAINERS \in Nat \ {0}
    /\ DOCKER_CIRCUIT_THRESHOLD \in Nat \ {0}
    /\ DOCKER_HALF_OPEN_SECS \in Nat \ {0}
    /\ AgentOutputs \subseteq {"valid", "truncated", "bad_json", "crashed"}
    /\ CrashBound \in Nat

VARIABLES pc,        \* the await each call is suspended at
          permits,   \* _container_semaphore._value
          waiters,   \* _container_semaphore._waiters
          active,    \* keys of _active_containers
          failures,  \* _docker_failures
          age,       \* seconds since _docker_failure_time, capped
          docker,    \* the daemon's container of each run
          client,    \* the `docker run` process is alive
          out,       \* what that process left on stdout when it ended
          evo,       \* the run's row of evolution_runs
          advanced,  \* on_success was called and returned
          replied,   \* on_output was called and returned
          cleanup,   \* cleanup_orphans: where it is, what it has read
          booted,    \* main() is past its first cleanup_orphans
          shutting,  \* main() is in its final shutdown sequence
          crashes,   \* crashes so far
          setting    \* fixed: posix (sys.platform # "win32"), faults (what may go
                     \* wrong), parent (the run whose agent spawned it, or NoParent)

sem     == <<permits, waiters>>
circuit == <<failures, age>>
world   == <<docker, client, out>>
record  == <<evo, advanced, replied>>
process == <<cleanup, booted, shutting, crashes, setting>>
vars    == <<pc, sem, active, circuit, world, record, process>>

Holding == {"granted", "starting", "collecting", "stopping", "cancelling",
            "delivering", "replying", "finishing"}
Places == {"new", "waiting", "done"} \cup Holding
Outputs == {"valid", "truncated", "bad_json", "crashed", "docker_error"}

(* The calls that own a permit of the semaphore. *)
Holders == {r \in Runs : pc[r] \in Holding}

Goto(r, place) == pc' = [pc EXCEPT ![r] = place]

Init ==
    /\ pc = [r \in Runs |-> "new"]
    /\ permits = MAX_CONCURRENT_CONTAINERS
    /\ waiters = <<>>
    /\ active = {}
    /\ failures = [f \in Folders |-> 0]
    /\ age = [f \in Folders |-> 0]
    /\ docker = [r \in Runs |-> "none"]
    /\ client = [r \in Runs |-> FALSE]
    /\ out = [r \in Runs |-> "none"]
    /\ evo = [r \in Runs |-> "none"]
    /\ advanced = [r \in Runs |-> FALSE]
    /\ replied = [r \in Runs |-> FALSE]
    /\ cleanup = [at |-> "idle", live |-> {}, victims |-> {}]
    /\ booted = FALSE
    /\ shutting = FALSE
    /\ crashes = 0
    /\ setting \in Settings

-----------------------------------------------------------------------------
(* The circuit breaker of one folder. *)

RecordDockerSuccess(f) ==
    /\ failures' = [failures EXCEPT ![f] = 0]
    /\ age' = [age EXCEPT ![f] = 0]

RecordDockerFailure(f) ==
    /\ failures' = [failures EXCEPT ![f] = @ + 1]
    /\ age' = [age EXCEPT ![f] = 0]

Tripped(f) == failures[f] >= DOCKER_CIRCUIT_THRESHOLD

CircuitOpen(f) == Tripped(f) /\ age[f] < DOCKER_HALF_OPEN_SECS

(* _docker_circuit_open lets the call through; after the cool-down it also *)
(* sets the counter back to zero.                                          *)
PassCircuit(f) ==
    /\ ~CircuitOpen(f)
    /\ failures' = [failures EXCEPT ![f] = IF Tripped(f) THEN 0 ELSE @]
    /\ UNCHANGED age

Tick ==
    /\ \E f \in Folders : Tripped(f) /\ age[f] < DOCKER_HALF_OPEN_SECS
    /\ age' = [f \in Folders |->
                 IF age[f] < DOCKER_HALF_OPEN_SECS THEN age[f] + 1 ELSE age[f]]
    /\ UNCHANGED <<pc, sem, active, failures, world, record, process>>

-----------------------------------------------------------------------------
(* The semaphore: release hands the permit to the first waiter. *)

ReleasePermit(p) ==
    IF waiters = <<>>
    THEN permits' = permits + 1 /\ waiters' = waiters /\ pc' = p
    ELSE /\ pc' = [p EXCEPT ![Head(waiters)] = "granted"]
         /\ waiters' = Tail(waiters)
         /\ UNCHANGED permits

-----------------------------------------------------------------------------
(* The call, from its first line to the spawn of `docker run`. *)

MayCall(r) ==
    /\ pc[r] = "new" /\ booted /\ ~shutting
    /\ setting.parent[r] # NoParent =>
          pc[setting.parent[r]] = "collecting" /\ docker[setting.parent[r]] = "running"

(* The circuit is open: the caller gets an error, nothing was acquired. *)
Refused(r) ==
    /\ MayCall(r) /\ CircuitOpen(FolderOf[r])
    /\ Goto(r, "done")
    /\ UNCHANGED <<sem, active, circuit, world, record, process>>

Waits(r) ==
    /\ MayCall(r) /\ PassCircuit(FolderOf[r])
    /\ permits = 0 \/ waiters # <<>>
    /\ Goto(r, "waiting")
    /\ waiters' = Append(waiters, r)
    /\ UNCHANGED <<permits, active, world, record, process>>

Registers(r) == active' = active \cup {r}

(* The code between the acquire and the try builds the mounts and the      *)
(* input, registers the container and logs its start.  An exception there  *)
(* leaves the function without entering the finally.                       *)
Prepare(r) ==
    \/ Goto(r, "starting") /\ Registers(r)
    \/ "prepare" \in setting.faults /\ Goto(r, "done") /\ UNCHANGED active
    \/ "log_start" \in setting.faults /\ Goto(r, "done") /\ Registers(r)

Enters(r) ==
    /\ MayCall(r) /\ PassCircuit(FolderOf[r])
    /\ permits > 0 /\ waiters = <<>>
    /\ permits' = permits - 1
    /\ Prepare(r)
    /\ UNCHANGED <<waiters, world, record, process>>

Resumes(r) ==
    /\ pc[r] = "granted"
    /\ Prepare(r)
    /\ UNCHANGED <<sem, circuit, world, record, process>>

Spawn(r) ==
    /\ pc[r] = "starting"
    /\ client' = [client EXCEPT ![r] = TRUE]
    /\ Goto(r, "collecting")
    /\ UNCHANGED <<sem, active, circuit, docker, out, record, process>>

-----------------------------------------------------------------------------
(* Docker and the agent, outside the host process. *)

DockerCreates(r) ==
    /\ client[r] /\ docker[r] = "none" /\ out[r] = "none"
    /\ docker' = [docker EXCEPT ![r] = "running"]
    /\ UNCHANGED <<pc, sem, active, circuit, client, out, record, process>>

DockerRefuses(r) ==
    /\ "docker" \in setting.faults
    /\ client[r] /\ docker[r] = "none" /\ out[r] = "none"
    /\ client' = [client EXCEPT ![r] = FALSE]
    /\ out' = [out EXCEPT ![r] = "docker_error"]
    /\ UNCHANGED <<pc, sem, active, circuit, docker, record, process>>

AgentExits(r, o) ==
    /\ docker[r] = "running"
    /\ docker' = [docker EXCEPT ![r] = "exited"]
    /\ client' = [client EXCEPT ![r] = FALSE]
    /\ out' = [out EXCEPT ![r] = IF client[r] THEN o ELSE @]
    /\ UNCHANGED <<pc, sem, active, circuit, record, process>>

(* Containers ended from outside: their `docker run` ends without output.  *)
Killed(victims, state) ==
    /\ docker' = [r \in Runs |-> IF r \in victims /\ docker[r] # "none" THEN state ELSE docker[r]]
    /\ client' = [r \in Runs |->
         client[r] /\ ~(r \in victims /\ docker[r] = "running")]
    /\ out' = [r \in Runs |->
         IF r \in victims /\ docker[r] = "running" /\ client[r] THEN "crashed" ELSE out[r]]

-----------------------------------------------------------------------------
(* What became of the run. *)

(* record_run: INSERT OR IGNORE keeps the first row of a run. *)
Record(r, success) ==
    evo' = [evo EXCEPT ![r] = IF @ = "none" THEN success ELSE @]

(* The `except Exception` branch. *)
Fails(r) ==
    /\ Record(r, "failure")
    /\ RecordDockerFailure(FolderOf[r])
    /\ Goto(r, "finishing")
    /\ UNCHANGED <<sem, active, advanced, replied, process>>

SpawnFails(r) ==
    /\ "spawn" \in setting.faults /\ pc[r] = "starting"
    /\ Fails(r)
    /\ UNCHANGED world

StreamFails(r) ==
    /\ "stream" \in setting.faults /\ setting.posix
    /\ pc[r] = "collecting" /\ docker[r] = "running"
    /\ Fails(r)
    /\ UNCHANGED world

(* The markers were found and the JSON is a dict. *)
Collected(r) ==
    /\ pc[r] = "collecting" /\ out[r] = "valid"
    /\ Record(r, "success")
    /\ RecordDockerSuccess(FolderOf[r])
    /\ Goto(r, "delivering")
    /\ UNCHANGED <<sem, active, world, advanced, replied, process>>

(* No complete output.  A truncated one is not held against Docker; for a  *)
(* missing one the exit code decides, which may not have been reaped yet   *)
(* when both pipes are at their end.                                       *)
NoOutput(r) ==
    /\ pc[r] = "collecting" /\ out[r] \in {"truncated", "crashed", "docker_error"}
    /\ Record(r, "failure")
    /\ \/ out[r] \in {"truncated", "crashed"} /\ RecordDockerSuccess(FolderOf[r])
       \/ out[r] \in {"crashed", "docker_error"} /\ RecordDockerFailure(FolderOf[r])
    /\ Goto(r, "finishing")
    /\ UNCHANGED <<sem, active, world, advanced, replied, process>>

(* The output is not JSON, or not a dict: counted as a Docker failure. *)
BadJson(r) ==
    /\ pc[r] = "collecting" /\ out[r] = "bad_json"
    /\ Record(r, "failure")
    /\ RecordDockerFailure(FolderOf[r])
    /\ Goto(r, "finishing")
    /\ UNCHANGED <<sem, active, world, advanced, replied, process>>

(* Mutation: the reply goes out before the cursor is advanced. *)
OnSuccessAfterReply(r) ==
    /\ pc[r] = "delivering"
    /\ replied' = [replied EXCEPT ![r] = TRUE]
    /\ Goto(r, "replying")
    /\ UNCHANGED <<sem, active, circuit, world, evo, advanced, process>>

(* The cursor is advanced before the reply is sent. *)
OnSuccess(r) ==
    /\ pc[r] = "delivering"
    /\ advanced' = [advanced EXCEPT ![r] = TRUE]
    /\ Goto(r, "replying")
    /\ UNCHANGED <<sem, active, circuit, world, evo, replied, process>>

OnOutput(r) ==
    /\ pc[r] = "replying"
    /\ replied' = [replied EXCEPT ![r] = TRUE]
    /\ Goto(r, "finishing")
    /\ UNCHANGED <<sem, active, circuit, world, evo, advanced, process>>

CallbackFails(r) ==
    /\ "callback" \in setting.faults /\ pc[r] \in {"delivering", "replying"}
    /\ Fails(r)
    /\ UNCHANGED world

(* CONTAINER_TIMEOUT: the wait for the output is given up. *)
TimesOut(r) ==
    /\ pc[r] = "collecting" /\ out[r] = "none"
    /\ docker[r] = "running" \/ "slow_docker" \in setting.faults
    /\ Goto(r, "stopping")
    /\ UNCHANGED <<sem, active, circuit, world, record, process>>

(* _stop_container: docker stop, and docker rm -f if that fails. *)
StopContainer(r) ==
    \/ Killed({r}, "exited")
    \/ Killed({r}, "none")
    \/ "stop" \in setting.faults /\ UNCHANGED world

(* Mutation: a timeout only reports, the container goes on. *)
StoppedReportOnly(r) ==
    /\ pc[r] = "stopping"
    /\ Record(r, "failure")
    /\ RecordDockerFailure(FolderOf[r])
    /\ Goto(r, "finishing")
    /\ UNCHANGED <<sem, active, world, advanced, replied, process>>


Stopped(r) ==
    /\ pc[r] = "stopping"
    /\ StopContainer(r)
    /\ Record(r, "failure")
    /\ RecordDockerFailure(FolderOf[r])
    /\ Goto(r, "finishing")
    /\ UNCHANGED <<sem, active, advanced, replied, process>>

(* The task is cancelled: by the caller's own timeout or by the shutdown.  *)
(* A waiter only leaves the queue; a running call kills its `docker run`   *)
(* process and stops the container behind asyncio.shield; one that is      *)
(* being stopped goes on to the finally, and so does one that is telling   *)
(* the user of an error, which is the step Finish.                         *)
CancelWaiting(r) ==
    /\ pc[r] = "waiting"
    /\ \E i \in 1..Len(waiters) : waiters[i] = r /\ waiters' = RemoveAt(waiters, i)
    /\ Goto(r, "done")
    /\ UNCHANGED <<permits, active, circuit, world, record, process>>

(* Mutation: a call cancelled just after its grant keeps the permit. *)
CancelGrantedKeepsPermit(r) ==
    /\ pc[r] = "granted"
    /\ Goto(r, "done")
    /\ UNCHANGED <<sem, active, circuit, world, record, process>>


CancelGranted(r) ==
    /\ pc[r] = "granted"
    /\ ReleasePermit([pc EXCEPT ![r] = "done"])
    /\ UNCHANGED <<active, circuit, world, record, process>>

CancelRunning(r) ==
    /\ pc[r] \in {"starting", "collecting", "delivering", "replying"}
    /\ client' = [client EXCEPT ![r] = @ /\ ~setting.posix]
    /\ Goto(r, "cancelling")
    /\ UNCHANGED <<sem, active, circuit, docker, out, record, process>>

CancelStopping(r) ==
    /\ pc[r] = "stopping"
    /\ StopContainer(r)
    /\ Goto(r, "finishing")
    /\ UNCHANGED <<sem, active, circuit, record, process>>

(* Mutation: the cancellation does not stop the container. *)
CancelStoppedLater(r) ==
    /\ pc[r] = "cancelling"
    /\ Goto(r, "finishing")
    /\ UNCHANGED <<sem, active, circuit, world, record, process>>


CancelStopped(r) ==
    /\ pc[r] = "cancelling"
    /\ StopContainer(r)
    /\ Goto(r, "finishing")
    /\ UNCHANGED <<sem, active, circuit, record, process>>

(* Mutation: the semaphore is not released. *)
FinishWithoutRelease(r) ==
    /\ pc[r] = "finishing"
    /\ active' = active \ {r}
    /\ Goto(r, "done")
    /\ UNCHANGED <<sem, circuit, world, record, process>>

(* The finally block.  The `docker rm -f` there names a module that is a   *)
(* local of the function, bound only on the Windows branch: elsewhere the  *)
(* lookup raises and the surrounding except drops it.                      *)
Finish(r) ==
    /\ pc[r] = "finishing"
    /\ active' = active \ {r}
    /\ \/ setting.posix /\ UNCHANGED world
       \/ ~setting.posix /\ Killed({r}, "none")
    /\ ReleasePermit([pc EXCEPT ![r] = "done"])
    /\ UNCHANGED <<circuit, record, process>>

-----------------------------------------------------------------------------
(* cleanup_orphans: at start-up, then every five minutes. *)

CleanupSnapshot ==
    /\ cleanup.at = "idle" /\ ~shutting
    /\ cleanup' = [at |-> "listing", live |-> active, victims |-> {}]
    /\ UNCHANGED <<pc, sem, active, circuit, world, record, booted, shutting, crashes, setting>>

(* Mutation: `docker ps` without -a, only the running containers. *)
CleanupListRunning ==
    /\ cleanup.at = "listing"
    /\ cleanup' = [at |-> "removing", live |-> {},
                   victims |-> {r \in Runs : docker[r] = "running"} \ cleanup.live]
    /\ UNCHANGED <<pc, sem, active, circuit, world, record, booted, shutting, crashes, setting>>

CleanupList ==
    /\ cleanup.at = "listing"
    /\ cleanup' = [at |-> "removing", live |-> {},
                   victims |-> {r \in Runs : docker[r] # "none"} \ cleanup.live]
    /\ UNCHANGED <<pc, sem, active, circuit, world, record, booted, shutting, crashes, setting>>

CleanupRemove ==
    /\ cleanup.at = "removing"
    /\ cleanup' = [at |-> "idle", live |-> {}, victims |-> {}]
    /\ Killed(cleanup.victims, "none")
    /\ booted' = TRUE
    /\ UNCHANGED <<pc, sem, active, circuit, record, shutting, crashes, setting>>

(* An error or a timeout of one of its commands only ends the clean-up.    *)
CleanupFails ==
    /\ "cleanup" \in setting.faults /\ cleanup.at # "idle"
    /\ cleanup' = [at |-> "idle", live |-> {}, victims |-> {}]
    /\ booted' = TRUE
    /\ UNCHANGED <<pc, sem, active, circuit, world, record, shutting, crashes, setting>>

-----------------------------------------------------------------------------
(* The end of the host process. *)

(* After wait_for_active: kill_all_containers, then every task is          *)
(* cancelled.                                                              *)
KillAll ==
    /\ booted /\ ~shutting
    /\ shutting' = TRUE
    /\ \/ Killed(active, "exited")
       \/ "stop" \in setting.faults /\ UNCHANGED world
    /\ UNCHANGED <<pc, sem, active, circuit, record, cleanup, booted, crashes, setting>>

(* The process ends; its containers stay.  The next process starts with an *)
(* empty memory and a clean-up before anything runs.                       *)
Crash ==
    /\ "crash" \in setting.faults /\ crashes < CrashBound
    /\ crashes' = crashes + 1
    /\ pc' = [r \in Runs |-> IF pc[r] = "new" THEN "new" ELSE "done"]
    /\ permits' = MAX_CONCURRENT_CONTAINERS
    /\ waiters' = <<>>
    /\ active' = {}
    /\ failures' = [f \in Folders |-> 0]
    /\ age' = [f \in Folders |-> 0]
    /\ client' = [r \in Runs |-> FALSE]
    /\ cleanup' = [at |-> "idle", live |-> {}, victims |-> {}]
    /\ booted' = FALSE
    /\ shutting' = FALSE
    /\ UNCHANGED <<docker, out, record, setting>>

-----------------------------------------------------------------------------
(* One step of the call itself, of its cancellation, of the world outside. *)
HostStep(r) ==
    \/ Resumes(r) \/ Spawn(r) \/ SpawnFails(r)
    \/ Collected(r) \/ NoOutput(r) \/ BadJson(r) \/ StreamFails(r)
    \/ OnSuccess(r) \/ OnOutput(r) \/ CallbackFails(r)
    \/ TimesOut(r) \/ Stopped(r) \/ CancelStopped(r) \/ Finish(r)

Cancel(r) ==
    CancelWaiting(r) \/ CancelGranted(r) \/ CancelRunning(r) \/ CancelStopping(r)

DockerStep(r) ==
    \/ DockerCreates(r) \/ DockerRefuses(r)
    \/ \E o \in AgentOutputs : AgentExits(r, o)

CleanupStep == CleanupSnapshot \/ CleanupList \/ CleanupRemove \/ CleanupFails

Next ==
    \/ \E r \in Runs :
          \/ Refused(r) \/ Waits(r) \/ Enters(r)
          \/ HostStep(r) \/ Cancel(r) \/ DockerStep(r)
    \/ CleanupStep \/ Tick \/ KillAll \/ Crash

(* A step of a call that is not suspended is taken, a timeout fires, the   *)
(* daemon answers, the clean-up loop comes round.  Nothing obliges an      *)
(* agent to exit or a caller to call.  At shutdown every task is cancelled.*)
Fairness ==
    /\ \A r \in Runs :
          /\ WF_vars(HostStep(r))
          /\ WF_vars(DockerCreates(r))
          /\ WF_vars(shutting /\ Cancel(r))
    /\ WF_vars(CleanupStep)

Spec == Init /\ [][Next]_vars /\ Fairness

-----------------------------------------------------------------------------
(* Types of the variables of run_container_agent and its module. *)
TypeOK ==
    /\ pc \in [Runs -> Places]
    /\ permits \in 0 .. MAX_CONCURRENT_CONTAINERS
    /\ waiters \in Seq(Runs)
    /\ active \subseteq Runs
    /\ failures \in [Folders -> Nat]
    /\ age \in [Folders -> 0 .. DOCKER_HALF_OPEN_SECS]
    /\ docker \in [Runs -> {"none", "running", "exited"}]
    /\ client \in [Runs -> BOOLEAN]
    /\ out \in [Runs -> Outputs \cup {"none"}]
    /\ evo \in [Runs -> {"none", "success", "failure"}]
    /\ advanced \in [Runs -> BOOLEAN]
    /\ replied \in [Runs -> BOOLEAN]
    /\ cleanup \in [at : {"idle", "listing", "removing"},
                    live : SUBSET Runs, victims : SUBSET Runs]
    /\ booted \in BOOLEAN
    /\ shutting \in BOOLEAN
    /\ crashes \in 0 .. CrashBound
    /\ setting \in Settings

(* Every permit is with a call that has not ended or with the semaphore:   *)
(* whichever way a call ends - error, timeout, cancellation while it waits *)
(* or just after it was granted the permit - the permit comes back.        *)
PermitsConserved ==
    permits + Cardinality(Holders) = MAX_CONCURRENT_CONTAINERS

(* No more than MAX_CONCURRENT_CONTAINERS containers execute at a time on  *)
(* the machine, over every path of the code and after a restart.           *)
ContainersBounded ==
    booted => Cardinality({r \in Runs : docker[r] = "running"})
                 <= MAX_CONCURRENT_CONTAINERS

(* A reply goes out only for a run whose cursor was advanced, and the      *)
(* cursor only advances on an output the fitness record calls a success:   *)
(* no duplicate reply when a later step of the delivery fails.             *)
CursorBeforeReply ==
    \A r \in Runs : /\ replied[r] => advanced[r]
                    /\ advanced[r] => out[r] = "valid" /\ evo[r] = "success"

(* When the shutdown has ended every call, no container is executing.      *)
NothingRunsAfterShutdown ==
    (shutting /\ \A r \in Runs : pc[r] \in {"new", "done"})
        => \A r \in Runs : docker[r] # "running"

(* The bookkeeping of run_container_agent is right in every setting: types,*)
(* permits, and the cursor before the reply.                               *)
RunnerSound == TypeOK /\ PermitsConserved /\ CursorBeforeReply

(* Docker itself answers: on POSIX, with calls from the queue only, and    *)
(* none of the faults that leave a container behind a call that has ended. *)
DockerAnswers ==
    /\ setting.posix
    /\ setting.faults \cap {"slow_docker", "stream", "stop", "cleanup"} = {}
    /\ \A r \in Runs : setting.parent[r] = NoParent

(* As long as Docker answers, run_container_agent, kill_all_containers and *)
(* the start-up's cleanup_orphans keep the containers within their limit   *)
(* and leave none executing after a shutdown, whichever await a time-out,  *)
(* a cancellation, a crash or a failed callback interrupts.                *)
ContainersContained ==
    DockerAnswers => ContainersBounded /\ NothingRunsAfterShutdown

(* Every call returns to its caller, however long the agent takes and      *)
(* also when the permits are all with its parent and its siblings: again   *)
(* and again no call is under way.                                         *)
EveryCallReturns == []<>(\A r \in Runs : pc[r] \in {"new", "done"})

(* A container nobody waits for any more is eventually removed by the      *)
(* clean-up loop, as long as Docker answers and until the shutdown.        *)
OrphansRemoved ==
    []<>(DockerAnswers /\ ~shutting => \A r \in Runs : pc[r] = "done" => docker[r] = "none")

=============================================================================
