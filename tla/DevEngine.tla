------------------------------ MODULE DevEngine ------------------------------
(* The development engine (host/dev_engine.py), its callers in ipc_watcher.py *)
(* and the dashboard's /api/dev handlers.  A session is a row of              *)
(* dev_sessions.  run() works on its own copy in memory and writes the whole  *)
(* row at each step; a cancellation and a resumption, from the dashboard's    *)
(* thread or another request, work on the row.                                *)
EXTENDS Integers, Sequences, SequencesExt, FiniteSets

CONSTANTS
    DevGroups,      \* groups whose containers or users ask for development
    DashboardGroup, \* the main group, which gets the dashboard's requests
    Sessions,
    MaxRequests,    \* bound: dev_task requests for existing sessions
    MaxCancels,     \* bound: cancellations
    MaxDevCrashes   \* bound: ends of the host process

ASSUME DashboardAssumption == DashboardGroup \in DevGroups

STAGE_ORDER == <<"analyze", "design", "implement", "test", "review", "document", "deploy">>
Stages == ToSet(STAGE_ORDER)
Modes == {"auto", "interactive"}
Verdicts == {"none", "pass", "fail"}

VARIABLES
    row,        \* the dev_sessions table; NoSession where there is no row
    run,        \* the run each group has in flight: a copy of the row, or NoRun
    requests,   \* dev_task files with a session_id, not yet handled: <<group, session>>
    cancelling, \* cancellations that have loaded a row and not yet saved it
    deployed,   \* for each session, the verdict under which files were written
    budget      \* requests, cancellations and crashes so far

devVars == <<row, run, requests, cancelling, deployed, budget>>

NoSession == [status |-> "no_row"]
NoRun == [at |-> "no_run"]
Row == [status : {"pending", "running", "paused", "completed", "failed", "cancelled"},
        mode : Modes, jid : DevGroups \cup {"dashboard"},
        artifacts : SUBSET Stages, verdict : Verdicts]

DevInit ==
    /\ row = [s \in Sessions |-> NoSession]
    /\ run = [g \in DevGroups |-> NoRun]
    /\ requests = {}
    /\ cancelling = [s \in Sessions |-> NoSession]
    /\ deployed = [s \in Sessions |-> {}]
    /\ budget = [requests |-> 0, cancels |-> 0, crashes |-> 0]

\* save_session: INSERT OR REPLACE of the whole row.
SaveSession(s, copy) == row' = [row EXCEPT ![s] = copy]

\* The stages without an artifact, by their place in the order; the others are skipped.
Remaining(copy) == {i \in DOMAIN STAGE_ORDER : STAGE_ORDER[i] \notin copy.artifacts}

NextStage(copy) == STAGE_ORDER[Min(Remaining(copy))]

\* A run starts: the status is saved as running and the stages are visited.
BeginRun(g, s, copy) ==
    /\ run' = [run EXCEPT ![g] = [at |-> "select", s |-> s,
                                  copy |-> [copy EXCEPT !.status = "running"]]]
    /\ SaveSession(s, run'[g].copy)

EndRun(g, status) ==
    /\ SaveSession(run[g].s, [run[g].copy EXCEPT !.status = status])
    /\ run' = [run EXCEPT ![g] = NoRun]

-----------------------------------------------------------------------------
(* Requests.                                                                  *)

NewRow(mode, jid) == [status |-> "pending", mode |-> mode, jid |-> jid,
                      artifacts |-> {}, verdict |-> "none"]

\* dev_task with a prompt: _run_dev_task refuses a second one of the group,
\* otherwise start() saves the session and run() follows.
StartSession(g, s, mode) ==
    /\ row[s] = NoSession
    /\ run[g] = NoRun
    /\ BeginRun(g, s, NewRow(mode, g))
    /\ UNCHANGED <<requests, cancelling, deployed, budget>>

\* POST /api/dev/start: the row is saved as pending and a dev_task file with
\* the session's id asks the main group's watcher to run it.
DashboardStart(s, mode) ==
    /\ row[s] = NoSession
    /\ budget.requests < MaxRequests
    /\ SaveSession(s, NewRow(mode, "dashboard"))
    /\ requests' = requests \cup {<<DashboardGroup, s>>}
    /\ budget' = [budget EXCEPT !.requests = @ + 1]
    /\ UNCHANGED <<run, cancelling, deployed>>

\* POST /api/dev/resume: only a paused session of a registered group.
DashboardResume(s) ==
    /\ row[s].status = "paused" /\ row[s].jid \in DevGroups
    /\ budget.requests < MaxRequests
    /\ requests' = requests \cup {<<row[s].jid, s>>}
    /\ budget' = [budget EXCEPT !.requests = @ + 1]
    /\ UNCHANGED <<row, run, cancelling, deployed>>

\* "continue <id>" in a chat: the group's agent writes dev_task with the id.
ChatResume(g, s) ==
    /\ row[s] # NoSession
    /\ budget.requests < MaxRequests
    /\ requests' = requests \cup {<<g, s>>}
    /\ budget' = [budget EXCEPT !.requests = @ + 1]
    /\ UNCHANGED <<row, run, cancelling, deployed>>

ResumableAny(status) == status \in {"paused", "failed", "running"}

ResumableCancelled(status) == status \in {"paused", "failed", "cancelled"}

\* resume() takes a paused or a failed session.
Resumable(status) == status \in {"paused", "failed"}

\* The watcher handles the request: refused while the group has a run, or if
\* the row's status does not allow it; otherwise the row is loaded and run.
HandleResume(g, s) ==
    /\ <<g, s>> \in requests
    /\ requests' = requests \ {<<g, s>>}
    /\ IF run[g] = NoRun /\ Resumable(row[s].status)
       THEN BeginRun(g, s, row[s])
       ELSE UNCHANGED <<row, run>>
    /\ UNCHANGED <<cancelling, deployed, budget>>

\* cancel(), or POST /api/dev/cancel in the dashboard's thread: load ...
LoadToCancel(s) ==
    /\ row[s] # NoSession /\ cancelling[s] = NoSession
    /\ budget.cancels < MaxCancels
    /\ cancelling' = [cancelling EXCEPT ![s] = row[s]]
    /\ budget' = [budget EXCEPT !.cancels = @ + 1]
    /\ UNCHANGED <<row, run, requests, deployed>>

\* ... and save what was loaded, as cancelled, over whatever is there now.
SaveCancelled(s) ==
    /\ cancelling[s] # NoSession
    /\ SaveSession(s, [cancelling[s] EXCEPT !.status = "cancelled"])
    /\ cancelling' = [cancelling EXCEPT ![s] = NoSession]
    /\ UNCHANGED <<run, requests, deployed, budget>>

-----------------------------------------------------------------------------
(* run().                                                                     *)

\* The next stage: its name is saved and announced.  After the last one the
\* session is completed.
SelectStage(g) ==
    /\ run[g].at = "select"
    /\ IF Remaining(run[g].copy) = {}
       THEN EndRun(g, "completed")
       ELSE /\ SaveSession(run[g].s, run[g].copy)
            /\ run' = [run EXCEPT ![g].at = NextStage(run[g].copy)]
    /\ UNCHANGED <<requests, cancelling, deployed, budget>>

Record(g, stage, verdict) ==
    /\ run' = [run EXCEPT ![g].at = "announce",
                          ![g].copy.artifacts = @ \cup {stage},
                          ![g].copy.verdict = verdict]
    /\ SaveSession(run[g].s, run'[g].copy)

\* A stage runs in a container and its output becomes an artifact; the review
\* stage's output holds a verdict or none.  No output ends the run as failed.
RunLlmStage(g) ==
    /\ run[g].at \in Stages \ {"deploy"}
    /\ \/ EndRun(g, "failed")
       \/ /\ run[g].at # "review"
          /\ Record(g, run[g].at, run[g].copy.verdict)
       \/ /\ run[g].at = "review"
          /\ \E v \in Verdicts : Record(g, "review", v)
    /\ UNCHANGED <<requests, cancelling, deployed, budget>>

ReviewNotFailed(copy) == copy.verdict # "fail"

\* _review_passed: the review's assessment says PASS.
ReviewPassed(copy) == "review" \in copy.artifacts /\ copy.verdict = "pass"

\* _deploy_files: without a passing review nothing is written and the run fails;
\* a file that cannot be written fails it too, after the others were written.
DeployFiles(g) ==
    /\ run[g].at = "deploy"
    /\ IF ReviewPassed(run[g].copy)
       THEN /\ deployed' = [deployed EXCEPT ![run[g].s] = @ \cup {run[g].copy.verdict}]
            /\ Record(g, "deploy", run[g].copy.verdict) \/ EndRun(g, "failed")
       ELSE EndRun(g, "failed") /\ UNCHANGED deployed
    /\ UNCHANGED <<requests, cancelling, budget>>

\* The stage is announced; an interactive session then pauses.
AfterStage(g) ==
    /\ run[g].at = "announce"
    /\ IF run[g].copy.mode = "interactive"
       THEN EndRun(g, "paused")
       ELSE run' = [run EXCEPT ![g].at = "select"] /\ UNCHANGED row
    /\ UNCHANGED <<requests, cancelling, deployed, budget>>

\* The process ends: runs and unsaved cancellations are gone.
DevCrash ==
    /\ budget.crashes < MaxDevCrashes
    /\ budget' = [budget EXCEPT !.crashes = @ + 1]
    /\ run' = [g \in DevGroups |-> NoRun]
    /\ cancelling' = [s \in Sessions |-> NoSession]
    /\ UNCHANGED <<row, requests, deployed>>

RunStep(g) == SelectStage(g) \/ RunLlmStage(g) \/ DeployFiles(g) \/ AfterStage(g)

DevNext ==
    \/ \E s \in Sessions :
          \/ \E mode \in Modes : DashboardStart(s, mode)
          \/ \E g \in DevGroups, mode \in Modes : StartSession(g, s, mode)
          \/ DashboardResume(s) \/ LoadToCancel(s) \/ SaveCancelled(s)
          \/ \E g \in DevGroups : ChatResume(g, s) \/ HandleResume(g, s)
    \/ \E g \in DevGroups : RunStep(g)
    \/ DevCrash

DevSpec == DevInit /\ [][DevNext]_devVars

-----------------------------------------------------------------------------
(* Properties.                                                                *)

\* The type invariant; artifacts are complete up to a stage (run() visits the
\* stages in STAGE_ORDER and skips only those that have an artifact).
DevTypeOK ==
    /\ \A s \in Sessions : row[s] # NoSession => row[s] \in Row
    /\ \A g \in DevGroups : run[g] # NoRun =>
          run[g].at \in Stages \cup {"select", "announce"} /\ run[g].copy \in Row
    /\ \A s \in Sessions : row[s] # NoSession =>
          \E n \in 0..Len(STAGE_ORDER) : row[s].artifacts = {STAGE_ORDER[i] : i \in 1..n}

\* Two runs never work on the same session, whichever groups ask for it and
\* however cancellations and failures interleave (resume() refuses a session
\* in another state than paused or failed; save_session replaces whole rows).
OneRunPerSession ==
    \A g, h \in DevGroups :
        (run[g] # NoRun /\ run[h] # NoRun /\ g # h) => run[g].s # run[h].s

\* Files reach the project only under a passing review, also after failed
\* deployments and resumptions (_deploy_files, BUG-DE-2).
DeployedReviewed == \A s \in Sessions : deployed[s] \subseteq {"pass"}

\* A session that was cancelled while no run held a copy of it stays cancelled.
CancelledStays ==
    [][\A s \in Sessions :
          (row[s].status = "cancelled" /\ \A g \in DevGroups : run[g] # NoRun => run[g].s # s)
          => row'[s].status = "cancelled"]_devVars

\* "create a new DevEngine session and trigger via IPC" (dashboard.py:2058):
\* once the request has been handled, the session is no longer pending.
DashboardSessionRuns ==
    \A s \in Sessions :
        row[s].status = "pending" => <<DashboardGroup, s>> \in requests

\* DevEngine.run, resume and cancel together: sessions are well formed, worked on by one
\* run, deployed under a passing review only, and a cancelled one stays cancelled.
DevSound == [](DevTypeOK /\ OneRunPerSession /\ DeployedReviewed) /\ CancelledStays

=============================================================================
