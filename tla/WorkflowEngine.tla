--------------------------- MODULE WorkflowEngine ---------------------------
(* WorkflowDAG.run of host/enterprise/workflow_engine.py: rounds of a loop    *)
(* that finds the steps whose dependencies have succeeded, skips those behind *)
(* a failed one, runs the ready steps in parallel with retries and time-outs, *)
(* and merges their results into the context when all of them have ended.     *)
EXTENDS Integers, FiniteSets

CONSTANTS
    WfSteps,     \* the names of the steps
    Graphs,      \* the graphs considered: functions from WfSteps to sets of names
    WfRetries    \* retries of every step

ASSUME RetriesAssumption == WfRetries \in Nat

VARIABLES
    depends_on,  \* the graph of this run
    step_status, \* StepStatus of each step
    remaining,   \* steps not yet classified in some round
    round,       \* "validate", "find", "block", "running" or "end"
    ready,       \* the ready steps of this round
    to_check,    \* steps of this round the skip loop has still to look at
    tries,       \* attempts of each step that have ended
    threads,     \* attempts given up on whose function still runs in a thread
    context,     \* steps whose result is in run.context
    collected,   \* _parallel_results
    deadlocked,  \* steps marked "Deadlock: unsatisfied dependencies"
    run_status

wfVars == <<depends_on, step_status, remaining, round, ready, to_check, tries, threads,
            context, collected, deadlocked, run_status>>

\* Steps that can be reached from s along its dependencies: every set that holds what s
\* depends on, and what its members depend on, holds them.
Behind(s) ==
    {t \in WfSteps : \A C \in SUBSET WfSteps :
        depends_on[s] \subseteq C /\ (\A d \in C : depends_on[d] \subseteq C) => t \in C}

WfInit ==
    /\ depends_on \in Graphs
    /\ step_status = [s \in WfSteps |-> "pending"]
    /\ remaining = WfSteps
    /\ round = "validate"
    /\ ready = {} /\ to_check = {}
    /\ tries = [s \in WfSteps |-> 0]
    /\ threads = [s \in WfSteps |-> 0]
    /\ context = {} /\ collected = {} /\ deadlocked = {}
    /\ run_status = "running"

\* _validate: an unknown dependency or a cycle raises and nothing runs.
Validate ==
    /\ round = "validate"
    /\ round' = IF \/ \E s \in WfSteps : ~(depends_on[s] \subseteq WfSteps)
                   \/ \E s \in WfSteps : s \in Behind(s)
                THEN "rejected" ELSE "find"
    /\ UNCHANGED <<depends_on, step_status, remaining, ready, to_check, tries, threads, context,
                   collected, deadlocked, run_status>>

ReadyAny(s) == depends_on[s] = {} \/ \E d \in depends_on[s] : step_status[d] = "success"

\* All dependencies have succeeded.
Ready(s) == \A d \in depends_on[s] : step_status[d] = "success"

FindReady ==
    /\ round = "find" /\ remaining # {}
    /\ ready' = {s \in remaining : Ready(s)}
    /\ to_check' = {s \in remaining : ~Ready(s)}
    /\ round' = "block"
    /\ UNCHANGED <<depends_on, step_status, remaining, tries, threads, context, collected,
                   deadlocked, run_status>>

\* The loop over the set of the others, in any order: a step is skipped if a
\* dependency has failed or was skipped before, in this loop too.
CheckBlocked(s) ==
    /\ round = "block" /\ s \in to_check
    /\ to_check' = to_check \ {s}
    /\ IF \E d \in depends_on[s] : step_status[d] \in {"failed", "skipped"}
       THEN /\ step_status' = [step_status EXCEPT ![s] = "skipped"]
            /\ remaining' = remaining \ {s}
       ELSE UNCHANGED <<step_status, remaining>>
    /\ UNCHANGED <<depends_on, round, ready, tries, threads, context, collected,
                   deadlocked, run_status>>

BreakOnly ==
    /\ round = "block" /\ to_check = {} /\ ready = {}
    /\ round' = "end"
    /\ UNCHANGED <<depends_on, step_status, remaining, ready, to_check, tries, threads, context,
                   collected, deadlocked, run_status>>

\* Nothing is ready: what is left is marked failed, and the loop ends.
MarkDeadlock ==
    /\ round = "block" /\ to_check = {} /\ ready = {}
    /\ step_status' = [s \in WfSteps |-> IF s \in remaining THEN "failed" ELSE step_status[s]]
    /\ deadlocked' = remaining
    /\ round' = "end"
    /\ UNCHANGED <<depends_on, remaining, ready, to_check, tries, threads, context,
                   collected, run_status>>

\* gather: the ready steps start together, each with a copy of the context.
RunReady ==
    /\ round = "block" /\ to_check = {} /\ ready # {}
    /\ remaining' = remaining \ ready
    /\ step_status' = [s \in WfSteps |-> IF s \in ready THEN "running" ELSE step_status[s]]
    /\ round' = "running"
    /\ UNCHANGED <<depends_on, ready, to_check, tries, threads, context, collected,
                   deadlocked, run_status>>

\* The function returned.  A skill step (add_skill_step) catches what its skill
\* raises and returns it as its result: it always ends here.
StepSucceeds(s) ==
    /\ round = "running" /\ step_status[s] = "running"
    /\ step_status' = [step_status EXCEPT ![s] = "success"]
    /\ collected' = collected \cup {s}
    /\ tries' = [tries EXCEPT ![s] = @ + 1]
    /\ UNCHANGED <<depends_on, remaining, round, ready, to_check, threads, context,
                   deadlocked, run_status>>

FailAttempt(s, last, leftover) ==
    /\ round = "running" /\ step_status[s] = "running"
    /\ tries' = [tries EXCEPT ![s] = @ + 1]
    /\ threads' = [threads EXCEPT ![s] = @ + leftover]
    /\ step_status' = IF tries[s] = last THEN [step_status EXCEPT ![s] = "failed"] ELSE step_status
    /\ UNCHANGED <<depends_on, remaining, round, ready, to_check, context, collected,
                   deadlocked, run_status>>

StepFailsForgets(s) == FailAttempt(s, WfRetries + 1, 0)

\* An attempt raised; the one after the last retry marks the step failed.
StepFails(s) == FailAttempt(s, WfRetries, 0)

\* wait_for gave up; a synchronous function goes on in its executor thread
\* while the next attempt starts.
StepTimesOut(s) == \E leftover \in {0, 1} : FailAttempt(s, WfRetries, leftover)

ThreadEnds(s) ==
    /\ threads[s] > 0
    /\ threads' = [threads EXCEPT ![s] = @ - 1]
    /\ UNCHANGED <<depends_on, step_status, remaining, round, ready, to_check, tries, context,
                   collected, deadlocked, run_status>>

MergeLast ==
    /\ round = "running" /\ \A s \in ready : step_status[s] # "running"
    /\ context' = collected /\ collected' = {}
    /\ round' = "find"
    /\ UNCHANGED <<depends_on, step_status, remaining, ready, to_check, tries, threads,
                   deadlocked, run_status>>

\* All of the round have ended: the results are merged and the loop goes on.
MergeResults ==
    /\ round = "running" /\ \A s \in ready : step_status[s] # "running"
    /\ context' = context \cup collected /\ collected' = {}
    /\ round' = "find"
    /\ UNCHANGED <<depends_on, step_status, remaining, ready, to_check, tries, threads,
                   deadlocked, run_status>>

FinishWorkflow ==
    /\ round \in {"find", "end"} /\ (round = "find" => remaining = {})
    /\ run_status = "running"
    /\ run_status' = IF \E s \in WfSteps : step_status[s] = "failed" THEN "failed" ELSE "success"
    /\ round' = "end"
    /\ UNCHANGED <<depends_on, step_status, remaining, ready, to_check, tries, threads, context,
                   collected, deadlocked>>

WorkflowStep ==
    \/ Validate \/ FindReady \/ MarkDeadlock \/ RunReady \/ MergeResults \/ FinishWorkflow
    \/ \E s \in WfSteps : CheckBlocked(s) \/ StepSucceeds(s) \/ StepFails(s) \/ StepTimesOut(s)

WfNext == WorkflowStep \/ \E s \in WfSteps : ThreadEnds(s)

\* Attempts end: each is bounded by its time-out.
WfSpec == WfInit /\ [][WfNext]_wfVars /\ WF_wfVars(WorkflowStep)

-----------------------------------------------------------------------------
(* Properties.                                                                *)

\* A step runs, and has succeeded, only with the results of everything it depends
\* on, directly or not, in the context it was given (run, "Merge results back").
DependenciesFirst ==
    \A s \in WfSteps : step_status[s] \in {"running", "success"} => Behind(s) \subseteq context

\* A finished run has settled every step, and each step that did not succeed has
\* a cause: all its attempts failed, or something it depends on did not succeed
\* (skips spread along the graph in rounds, in the order of a set).
StepsSettled ==
    run_status # "running" => \A s \in WfSteps :
        \/ step_status[s] = "success"
        \/ step_status[s] = "failed" /\ tries[s] = WfRetries + 1
        \/ step_status[s] \in {"failed", "skipped"} /\ \E d \in depends_on[s] : step_status[d] # "success"

\* The run of a valid graph is over, with the verdict that some step failed if and
\* only if one used up its attempts; that of any other graph was refused.
RightVerdict ==
    \/ round = "rejected"
    \/ /\ run_status # "running"
       /\ (run_status = "failed") = \E s \in WfSteps :
             tries[s] = WfRetries + 1 /\ step_status[s] = "failed"

\* Every run comes to its end and to the right verdict (WorkflowDAG.run).
WorkflowEnds == []<>RightVerdict

\* "Deadlock - mark remaining as failed" (workflow_engine.py:211): the graph has
\* been validated, so no step should ever be reported as deadlocked.
NoFalseDeadlock == deadlocked = {}

\* WorkflowDAG.run: steps run after what they depend on, and a finished run has settled
\* every step for a reason.
WorkflowSound == DependenciesFirst /\ StepsSettled

=============================================================================
