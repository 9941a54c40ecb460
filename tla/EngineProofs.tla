----------------------------- MODULE EngineProofs -----------------------------
(***************************************************************************)
(* Proofs about the loops beside the message path: the workflow engine,    *)
(* the self-update, the memory bus and the IPC watcher.                    *)
(***************************************************************************)
EXTENDS WorkflowEngine, SelfUpdate, MemoryStores, IpcWatcher, FiniteSetTheorems, TLAPS

-----------------------------------------------------------------------------
(* The workflow engine. *)

WfTypes ==
    /\ step_status \in [WfSteps -> {"pending", "running", "success", "failed", "skipped"}]
    /\ tries \in [WfSteps -> Nat]
    /\ round \in {"validate", "find", "block", "running", "end", "rejected"}
    /\ remaining \subseteq WfSteps /\ ready \subseteq WfSteps
    /\ context \subseteq WfSteps /\ collected \subseteq WfSteps
    /\ run_status \in {"running", "success", "failed"}

\* What holds of a step that ended without success.
Caused(s) ==
    \/ step_status[s] = "failed" /\ tries[s] = WfRetries + 1
    \/ step_status[s] \in {"failed", "skipped"}
       /\ \E d \in depends_on[s] : step_status[d] \in {"failed", "skipped"}

\* A step starts with the results of what it depends on in the context, and its own result
\* is in the context or among those of the round.
Supplied(s) ==
    /\ step_status[s] \in {"running", "success"} => depends_on[s] \subseteq context
    /\ step_status[s] = "success" => s \in context \cup collected
    /\ s \in context \cup collected => step_status[s] = "success"

\* Where each step is in the loop over the rounds.
Placed(s) ==
    /\ round # "end" => (s \in remaining <=> step_status[s] = "pending")
    /\ step_status[s] = "running" => s \in ready /\ round = "running" /\ tries[s] <= WfRetries
    /\ step_status[s] = "pending" => tries[s] = 0
    /\ step_status[s] \in {"failed", "skipped"} => Caused(s)
    /\ round = "block" =>
          /\ s \in ready => s \in remaining /\ s \notin to_check /\ Ready(s)
          /\ s \in remaining => s \in ready \/ \E d \in depends_on[s] : step_status[d] # "success"
    /\ round = "end" => step_status[s] \notin {"pending", "running"}

WfInv ==
    /\ WfTypes
    /\ \A s \in WfSteps : Supplied(s) /\ Placed(s)
    /\ round \notin {"validate", "rejected"} => \A s \in WfSteps : depends_on[s] \subseteq WfSteps
    /\ round \in {"validate", "rejected"} => \A s \in WfSteps : step_status[s] = "pending"
    /\ round # "running" => collected = {}
    /\ run_status # "running" => round = "end"

\* A round finds the steps whose dependencies have all succeeded.
LEMMA FindReadyKeeps == ASSUME WfInv, FindReady PROVE WfInv'
<1>1. /\ round = "find" /\ round' = "block"
      /\ ready' = {s \in remaining : Ready(s)} /\ to_check' = {s \in remaining : ~Ready(s)}
      /\ UNCHANGED <<depends_on, step_status, remaining, tries, context, collected, run_status>>
  BY DEF FindReady
<1>2. WfTypes'
  BY <1>1 DEF WfInv, WfTypes
<1>3. ASSUME NEW s \in WfSteps PROVE Supplied(s)' /\ Placed(s)'
  <2>1. Supplied(s) /\ Placed(s) /\ (Ready(s)' <=> Ready(s)) /\ (Caused(s)' <=> Caused(s))
    BY <1>1 DEF WfInv, Ready, Caused
  <2>2. Supplied(s)'
    BY <1>1, <2>1 DEF Supplied
  <2>3. ~Ready(s) => \E d \in depends_on[s] : step_status[d] # "success"
    BY DEF Ready
  <2>4. Placed(s)'
    BY <1>1, <2>1, <2>3 DEF Placed
  <2>5. QED
    BY <2>2, <2>4
<1>4. QED
  BY <1>1, <1>2, <1>3 DEF WfInv

\* A step behind a failed or skipped one is skipped.
LEMMA CheckBlockedKeeps == ASSUME WfInv, NEW b \in WfSteps, CheckBlocked(b) PROVE WfInv'
<1>1. /\ round = "block" /\ b \in to_check /\ to_check' = to_check \ {b}
      /\ UNCHANGED <<depends_on, round, ready, tries, context, collected, run_status>>
  BY DEF CheckBlocked
<1>2. CASE UNCHANGED <<step_status, remaining>>
  <2>1. WfTypes'
    BY <1>1, <1>2 DEF WfInv, WfTypes
  <2>2. ASSUME NEW s \in WfSteps PROVE Supplied(s)' /\ Placed(s)'
    <3>1. Supplied(s) /\ Placed(s) /\ (Ready(s)' <=> Ready(s)) /\ (Caused(s)' <=> Caused(s))
      BY <1>1, <1>2 DEF WfInv, Ready, Caused
    <3>2. Supplied(s)'
      BY <1>1, <1>2, <3>1 DEF Supplied
    <3>3. Placed(s)'
      BY <1>1, <1>2, <3>1 DEF Placed
    <3>4. QED
      BY <3>2, <3>3
  <2>3. QED
    BY <1>1, <1>2, <2>1, <2>2 DEF WfInv
<1>3. CASE /\ \E d \in depends_on[b] : step_status[d] \in {"failed", "skipped"}
           /\ step_status' = [step_status EXCEPT ![b] = "skipped"]
           /\ remaining' = remaining \ {b}
  <2>1. WfTypes'
    BY <1>1, <1>3 DEF WfInv, WfTypes
  <2>2. /\ step_status \in [WfSteps -> {"pending", "running", "success", "failed", "skipped"}]
        /\ \A s \in WfSteps : Placed(s) /\ Supplied(s)
        /\ \A s \in WfSteps : depends_on[s] \subseteq WfSteps
        /\ collected = {} /\ (run_status # "running" => round = "end")
    BY <1>1 DEF WfInv, WfTypes
  <2>3. b \notin ready
    BY <1>1, <2>2 DEF Placed
  <2>4. step_status[b] # "success" /\ b \notin context /\ step_status[b] # "running"
    <3>1. PICK d \in depends_on[b] : step_status[d] \in {"failed", "skipped"}
      BY <1>3
    <3>2. ~(step_status[b] \in {"running", "success"})
      BY <2>2, <3>1 DEF Supplied
    <3>3. QED
      BY <2>2, <3>2 DEF Supplied
  <2>5. \A d \in WfSteps :
            /\ (step_status'[d] = "success") <=> (step_status[d] = "success")
            /\ step_status[d] \in {"failed", "skipped"} => step_status'[d] \in {"failed", "skipped"}
    BY <1>3, <2>2, <2>4
  <2>6. ASSUME NEW s \in WfSteps PROVE Supplied(s)' /\ Placed(s)'
    <3>1. Supplied(s) /\ Placed(s) /\ depends_on[s] \subseteq WfSteps
      BY <2>2
    <3>2. (Ready(s)' <=> Ready(s))
          /\ ((\E d \in depends_on[s] : step_status'[d] # "success") <=>
              (\E d \in depends_on[s] : step_status[d] # "success"))
          /\ ((\E d \in depends_on[s] : step_status[d] \in {"failed", "skipped"}) =>
              (\E d \in depends_on[s] : step_status'[d] \in {"failed", "skipped"}))
      BY <1>1, <2>5, <3>1 DEF Ready
    <3>3. CASE s = b
      <4>1. step_status'[s] = "skipped"
        BY <1>3, <2>2, <3>3
      <4>2. \E d \in depends_on[s] : step_status[d] \in {"failed", "skipped"}
        BY <1>3, <3>3
      <4>3. Caused(s)'
        BY <1>1, <3>2, <4>1, <4>2 DEF Caused
      <4>4. Supplied(s)'
        BY <1>1, <2>2, <2>4, <3>3, <4>1 DEF Supplied
      <4>5. Placed(s)'
        BY <1>1, <1>3, <2>3, <3>3, <4>1, <4>3 DEF Placed
      <4>6. QED
        BY <4>4, <4>5
    <3>4. CASE s # b
      <4>1. step_status'[s] = step_status[s]
        BY <1>3, <2>2, <3>4
      <4>2. Caused(s) => Caused(s)'
        BY <1>1, <3>2, <4>1 DEF Caused
      <4>3. Supplied(s)'
        BY <1>1, <3>1, <4>1 DEF Supplied
      <4>4. Placed(s)'
        BY <1>1, <1>3, <3>1, <3>2, <3>4, <4>1, <4>2 DEF Placed
      <4>5. QED
        BY <4>3, <4>4
    <3>5. QED
      BY <3>3, <3>4
  <2>7. QED
    BY <1>1, <2>1, <2>2, <2>6 DEF WfInv
<1>4. QED
  BY <1>2, <1>3 DEF CheckBlocked

\* Nothing is ready: what is left fails, each step with a dependency that did not succeed.
LEMMA MarkDeadlockKeeps == ASSUME WfInv, MarkDeadlock PROVE WfInv'
<1>1. /\ round = "block" /\ ready = {} /\ round' = "end"
      /\ step_status' = [s \in WfSteps |-> IF s \in remaining THEN "failed" ELSE step_status[s]]
      /\ UNCHANGED <<depends_on, remaining, ready, tries, context, collected, run_status>>
  BY DEF MarkDeadlock
<1>2. /\ step_status \in [WfSteps -> {"pending", "running", "success", "failed", "skipped"}]
      /\ \A s \in WfSteps : Placed(s) /\ Supplied(s)
      /\ \A s \in WfSteps : depends_on[s] \subseteq WfSteps
      /\ collected = {}
  BY <1>1 DEF WfInv, WfTypes
<1>3. WfTypes'
  BY <1>1, <1>2 DEF WfInv, WfTypes
<1>4. \A d \in WfSteps : step_status[d] # "success" => step_status'[d] \in {"failed", "skipped"}
  BY <1>1, <1>2 DEF Placed
<1>5. ASSUME NEW s \in WfSteps PROVE Supplied(s)' /\ Placed(s)'
  <2>1. Supplied(s) /\ Placed(s) /\ depends_on[s] \subseteq WfSteps
    BY <1>2
  <2>2. (\E d \in depends_on[s] : step_status[d] # "success") =>
        (\E d \in depends_on[s] : step_status'[d] \in {"failed", "skipped"})
    BY <1>4, <2>1
  <2>3. CASE s \in remaining
    <3>1. step_status'[s] = "failed"
      BY <1>1, <2>3
    <3>2. \E d \in depends_on[s] : step_status[d] # "success"
      BY <1>1, <2>1, <2>3 DEF Placed
    <3>3. Caused(s)'
      BY <1>1, <2>2, <3>1, <3>2 DEF Caused
    <3>4. s \notin context
      BY <1>1, <2>1, <2>3 DEF Placed, Supplied
    <3>5. Supplied(s)'
      BY <1>1, <1>2, <3>1, <3>4 DEF Supplied
    <3>6. Placed(s)'
      BY <1>1, <3>1, <3>3 DEF Placed
    <3>7. QED
      BY <3>5, <3>6
  <2>4. CASE s \notin remaining
    <3>1. step_status'[s] = step_status[s] /\ step_status[s] \notin {"pending", "running"}
      BY <1>1, <2>1, <2>4 DEF Placed
    <3>2. Caused(s) => Caused(s)'
      <4>1. \A d \in depends_on[s] : step_status[d] \in {"failed", "skipped"} => step_status[d] # "success"
        OBVIOUS
      <4>2. QED
        BY <1>1, <2>2, <3>1, <4>1 DEF Caused
    <3>3. Supplied(s)'
      BY <1>1, <2>1, <3>1 DEF Supplied
    <3>4. Placed(s)'
      BY <1>1, <2>1, <3>1, <3>2 DEF Placed
    <3>5. QED
      BY <3>3, <3>4
  <2>5. QED
    BY <2>3, <2>4
<1>6. QED
  BY <1>1, <1>2, <1>3, <1>5 DEF WfInv

\* The ready steps start with the context of all earlier rounds.
LEMMA RunReadyKeeps == ASSUME WfInv, RunReady PROVE WfInv'
<1>1. /\ round = "block" /\ round' = "running" /\ remaining' = remaining \ ready
      /\ step_status' = [s \in WfSteps |-> IF s \in ready THEN "running" ELSE step_status[s]]
      /\ UNCHANGED <<depends_on, ready, tries, context, collected, run_status>>
  BY DEF RunReady
<1>2. /\ step_status \in [WfSteps -> {"pending", "running", "success", "failed", "skipped"}]
      /\ \A s \in WfSteps : Placed(s) /\ Supplied(s)
      /\ \A s \in WfSteps : depends_on[s] \subseteq WfSteps
      /\ collected = {} /\ run_status = "running"
  BY <1>1 DEF WfInv, WfTypes
<1>3. WfTypes'
  BY <1>1, <1>2 DEF WfInv, WfTypes
<1>4. \A d \in WfSteps :
          step_status[d] \in {"failed", "skipped"} => step_status'[d] \in {"failed", "skipped"}
  BY <1>1, <1>2 DEF Placed
<1>5. ASSUME NEW s \in WfSteps PROVE Supplied(s)' /\ Placed(s)'
  <2>1. Supplied(s) /\ Placed(s) /\ depends_on[s] \subseteq WfSteps
    BY <1>2
  <2>2. (\E d \in depends_on[s] : step_status[d] \in {"failed", "skipped"}) =>
        (\E d \in depends_on[s] : step_status'[d] \in {"failed", "skipped"})
    BY <1>4, <2>1
  <2>3. CASE s \in ready
    <3>1. step_status'[s] = "running"
      BY <1>1, <2>3
    <3>2. s \in remaining /\ Ready(s) /\ step_status[s] = "pending" /\ tries[s] = 0
      BY <1>1, <2>1, <2>3 DEF Placed
    <3>3. depends_on[s] \subseteq context
      <4>1. ASSUME NEW d \in depends_on[s] PROVE d \in context
        BY <1>2, <2>1, <3>2, <4>1 DEF Ready, Supplied
      <4>2. QED
        BY <4>1
    <3>4. Supplied(s)'
      BY <1>1, <2>1, <3>1, <3>2, <3>3 DEF Supplied
    <3>5. Placed(s)'
      BY <1>1, <2>3, <3>1, <3>2, RetriesAssumption DEF Placed
    <3>6. QED
      BY <3>4, <3>5
  <2>4. CASE s \notin ready
    <3>1. step_status'[s] = step_status[s] /\ step_status[s] # "running"
      BY <1>1, <2>1, <2>4 DEF Placed
    <3>2. Caused(s) => Caused(s)'
      BY <1>1, <2>2, <3>1 DEF Caused
    <3>3. Supplied(s)'
      BY <1>1, <2>1, <3>1 DEF Supplied
    <3>4. Placed(s)'
      BY <1>1, <2>1, <2>4, <3>1, <3>2 DEF Placed
    <3>5. QED
      BY <3>3, <3>4
  <2>5. QED
    BY <2>3, <2>4
<1>6. QED
  BY <1>1, <1>2, <1>3, <1>5 DEF WfInv

\* An attempt of a running step ends: with its result, as the last one, or as one of several.
LEMMA AttemptKeeps ==
    ASSUME WfInv, NEW a \in WfSteps, NEW st \in {"running", "success", "failed"},
           round = "running", step_status[a] = "running",
           step_status' = [step_status EXCEPT ![a] = st],
           tries' = [tries EXCEPT ![a] = tries[a] + 1],
           collected' = IF st = "success" THEN collected \cup {a} ELSE collected,
           st = "failed" => tries[a] = WfRetries,
           st = "running" => tries[a] # WfRetries,
           UNCHANGED <<depends_on, remaining, round, ready, context, run_status>>
    PROVE  WfInv'
<1>1. /\ step_status \in [WfSteps -> {"pending", "running", "success", "failed", "skipped"}]
      /\ tries \in [WfSteps -> Nat]
      /\ \A s \in WfSteps : Placed(s) /\ Supplied(s)
      /\ \A s \in WfSteps : depends_on[s] \subseteq WfSteps
      /\ run_status = "running"
  BY DEF WfInv, WfTypes
<1>2. WfTypes'
  BY <1>1 DEF WfInv, WfTypes
<1>3. ASSUME NEW s \in WfSteps PROVE Supplied(s)' /\ Placed(s)'
  <2>1. Supplied(s) /\ Placed(s) /\ depends_on[s] \subseteq WfSteps
    BY <1>1
  <2>2. CASE s = a
    <3>1. step_status'[s] = st /\ tries'[s] = tries[s] + 1 /\ tries[s] \in Nat
      BY <1>1, <2>2
    <3>2. s \in ready /\ tries[s] <= WfRetries /\ s \notin remaining /\ s \notin context
      BY <2>1, <2>2 DEF Placed, Supplied
    <3>3. Supplied(s)'
      BY <2>1, <2>2, <3>1, <3>2 DEF Supplied
    <3>4. st = "failed" => Caused(s)'
      BY <2>2, <3>1 DEF Caused
    <3>5. tries[s] # WfRetries => tries[s] + 1 <= WfRetries
      BY <3>1, <3>2, RetriesAssumption
    <3>6. Placed(s)'
      BY <2>2, <3>1, <3>2, <3>4, <3>5 DEF Placed
    <3>7. QED
      BY <3>3, <3>6
  <2>3. CASE s # a
    <3>1. step_status'[s] = step_status[s] /\ tries'[s] = tries[s]
      BY <1>1, <2>3
    <3>2. Caused(s) => Caused(s)'
      <4>1. \A d \in WfSteps :
                step_status[d] \in {"failed", "skipped"} => step_status'[d] \in {"failed", "skipped"}
        BY <1>1
      <4>2. QED
        BY <2>1, <3>1, <4>1 DEF Caused
    <3>3. Supplied(s)'
      BY <2>1, <2>3, <3>1 DEF Supplied
    <3>4. Placed(s)'
      BY <2>1, <3>1, <3>2 DEF Placed
    <3>5. QED
      BY <3>3, <3>4
  <2>4. QED
    BY <2>2, <2>3
<1>4. QED
  BY <1>1, <1>2, <1>3 DEF WfInv

\* The attempts of the three kinds.
LEMMA StepEnds ==
    ASSUME WfInv, NEW a \in WfSteps, StepSucceeds(a) \/ StepFails(a) \/ StepTimesOut(a)
    PROVE  WfInv'
<1>1. CASE StepSucceeds(a)
  BY <1>1, AttemptKeeps DEF StepSucceeds
<1>2. ASSUME NEW leftover, FailAttempt(a, WfRetries, leftover) PROVE WfInv'
  <2>1. /\ round = "running" /\ step_status[a] = "running"
        /\ tries' = [tries EXCEPT ![a] = tries[a] + 1]
        /\ step_status' = IF tries[a] = WfRetries THEN [step_status EXCEPT ![a] = "failed"] ELSE step_status
        /\ UNCHANGED <<depends_on, remaining, round, ready, context, run_status, collected>>
    BY <1>2 DEF FailAttempt
  <2>2. CASE tries[a] = WfRetries
    BY <2>1, <2>2, AttemptKeeps
  <2>3. CASE tries[a] # WfRetries
    <3>1. step_status' = [step_status EXCEPT ![a] = "running"]
      BY <2>1, <2>3 DEF WfInv, WfTypes
    <3>2. QED
      BY <2>1, <2>3, <3>1, AttemptKeeps
  <2>4. QED
    BY <2>2, <2>3
<1>3. QED
  BY <1>1, <1>2 DEF StepFails, StepTimesOut

\* Every step of the engine, and the end of a thread left over, keeps the invariant.
LEMMA WfKeeps == WfInv /\ [WfNext]_wfVars => WfInv'
<1> SUFFICES ASSUME WfInv, [WfNext]_wfVars PROVE WfInv'
  OBVIOUS
<1>1. CASE UNCHANGED <<depends_on, step_status, remaining, round, ready, to_check, tries, context,
                       collected, run_status>>
  BY <1>1 DEF WfInv, WfTypes, Supplied, Placed, Ready, Caused
<1>2. CASE Validate
  <2>1. /\ round = "validate"
        /\ UNCHANGED <<depends_on, step_status, remaining, ready, tries, context, collected, run_status>>
        /\ \/ round' = "rejected"
           \/ round' = "find" /\ \A s \in WfSteps : depends_on[s] \subseteq WfSteps
    BY <1>2 DEF Validate
  <2>2. \A s \in WfSteps : Supplied(s)' /\ Placed(s)'
    BY <2>1 DEF WfInv, Supplied, Placed, Caused
  <2>3. QED
    BY <2>1, <2>2 DEF WfInv, WfTypes
<1>3. CASE MergeResults
  <2>1. /\ round = "running" /\ \A s \in ready : step_status[s] # "running"
        /\ context' = context \cup collected /\ collected' = {} /\ round' = "find"
        /\ UNCHANGED <<depends_on, step_status, remaining, ready, tries, run_status>>
    BY <1>3 DEF MergeResults
  <2>2. \A s \in WfSteps : Supplied(s)' /\ Placed(s)'
    BY <2>1 DEF WfInv, Supplied, Placed, Caused
  <2>3. QED
    BY <2>1, <2>2 DEF WfInv, WfTypes
<1>4. CASE FinishWorkflow
  <2>1. /\ round \in {"find", "end"} /\ (round = "find" => remaining = {})
        /\ round' = "end" /\ run_status' \in {"failed", "success"}
        /\ UNCHANGED <<depends_on, step_status, remaining, ready, tries, context, collected>>
    BY <1>4 DEF FinishWorkflow
  <2>2. \A s \in WfSteps : Supplied(s)' /\ Placed(s)'
    BY <2>1 DEF WfInv, Supplied, Placed, Caused
  <2>3. QED
    BY <2>1, <2>2 DEF WfInv, WfTypes
<1>5. ASSUME NEW s \in WfSteps, ThreadEnds(s) PROVE WfInv'
  BY <1>1, <1>5 DEF ThreadEnds
<1>6. CASE UNCHANGED wfVars
  BY <1>1, <1>6 DEF wfVars
<1>7. QED
  BY <1>2, <1>3, <1>4, <1>5, <1>6, FindReadyKeeps, CheckBlockedKeeps, MarkDeadlockKeeps,
     RunReadyKeeps, StepEnds DEF WfNext, WorkflowStep

\* WorkflowDAG.run on any graph of any steps, with any failures and time-outs: a step runs
\* only with the results of all that it depends on, directly or not, in its context, and a
\* finished run has settled every step for a reason.
THEOREM WorkflowStaysSound == WfSpec => []WorkflowSound
<1>1. WfInit => WfInv
  BY DEF WfInit, WfInv, WfTypes, Supplied, Placed
<1>2. WfInv => DependenciesFirst
  <2> SUFFICES ASSUME WfInv, NEW s \in WfSteps, step_status[s] \in {"running", "success"},
                      NEW t \in Behind(s)
               PROVE  t \in context
    BY DEF DependenciesFirst
  <2>1. context \in SUBSET WfSteps /\ depends_on[s] \subseteq context
    BY DEF WfInv, WfTypes, Supplied
  <2>2. \A d \in context : depends_on[d] \subseteq context
    BY <2>1 DEF WfInv, Supplied
  <2>3. QED
    BY <2>1, <2>2 DEF Behind
<1>3. WfInv => StepsSettled
  <2> SUFFICES ASSUME WfInv, run_status # "running", NEW s \in WfSteps
               PROVE  step_status[s] = "success" \/ Caused(s)
    BY DEF StepsSettled, Caused
  <2>1. QED
    BY DEF WfInv, WfTypes, Placed
<1>4. QED
  BY <1>1, <1>2, <1>3, WfKeeps, PTL DEF WfSpec, WorkflowSound

-----------------------------------------------------------------------------
(* The self-update, when no update is asked for while another one runs, and    *)
(* git commit does not fail.                                                  *)

Pcs == {"idle", "start", "fetch", "compare", "add", "test", "failed", "ai", "accepted",
        "merge", "flag", "gate", "rollback"}
Updater == [pc : Pcs, attempts : 0 .. MAX_RETRIES, target : Commits]

\* Where an updater is with the sandbox: the worktree it tests is the commit it will merge,
\* and it merges what was tested.
Sandboxed(up, tree, head, ok) ==
    /\ up.pc \notin {"gate", "rollback"}
    /\ up.pc = "test" /\ tree.exists => tree.commit = head
    /\ up.pc = "merge" => head \in ok

\* At most one updater is at work.
OneAtWork == \A u, v \in Updaters : u = v \/ At(u, "idle") \/ At(v, "idle")

\* In place the checkout was tested, except between a pull and the end of the gate or of the
\* roll-back, and then the commit to go back to was.
UpdateInv ==
    /\ UpdateTypeOK /\ OneAtWork
    /\ update_mode = "worktree" =>
          /\ {main_head, running} \subseteq tested
          /\ \A u \in Updaters : Sandboxed(updater[u], worktree, fetch_head, tested)
    /\ update_mode = "inplace" =>
          /\ \A u \in Updaters : updater[u].pc \in {"idle", "start", "gate", "flag", "rollback"}
          /\ ~cut_short =>
                /\ \A u \in Updaters : updater[u].pc \in {"gate", "rollback"} => updater[u].target \in tested
                /\ main_head \in tested \/ \E u \in Updaters : updater[u].pc \in {"gate", "rollback"}

\* The restrictions of the theorem.
Careful == ~Overlap /\ "commit" \notin Faults

\* One updater moves, the others being idle.
LEMMA UpdaterMoves ==
    ASSUME UpdateInv, NEW u \in Updaters, NEW to \in Updater,
           updater' = [updater EXCEPT ![u] = to], \A v \in Updaters \ {u} : At(v, "idle"),
           UNCHANGED <<settings, origin, running, stopping>>,
           {fetch_head', main_head', prev_head'} \subseteq Commits,
           worktree' \in [exists : BOOLEAN, commit : Commits],
           tested' \subseteq Commits, tested \subseteq tested', flags' \subseteq {"self_update", "restart"},
           cut_short' \in BOOLEAN, faults' \in 0 .. FaultBound,
           update_mode = "worktree" =>
               main_head' \in tested' /\ Sandboxed(to, worktree', fetch_head', tested'),
           update_mode = "inplace" =>
               /\ to.pc \in {"idle", "start", "gate", "flag", "rollback"}
               /\ ~cut_short' =>
                     /\ ~cut_short
                     /\ IF to.pc \in {"gate", "rollback"} THEN to.target \in tested' ELSE main_head' \in tested'
    PROVE  UpdateInv'
<1>1. updater \in [Updaters -> Updater]
  BY DEF UpdateInv, UpdateTypeOK, Updater, Pcs
<1>2. /\ updater' \in [Updaters -> Updater] /\ updater'[u] = to
      /\ \A v \in Updaters \ {u} : updater'[v] = updater[v] /\ updater'[v].pc = "idle"
  BY <1>1 DEF At
<1>3. OneAtWork'
  BY <1>2 DEF OneAtWork, At
<1>4. UpdateTypeOK'
  BY <1>2 DEF UpdateInv, UpdateTypeOK, Updater, Pcs, settings
<1>5. ASSUME update_mode' = "worktree"
      PROVE  /\ {main_head', running'} \subseteq tested'
             /\ \A v \in Updaters : Sandboxed(updater'[v], worktree', fetch_head', tested')
  <2>1. update_mode = "worktree" /\ running \in tested
    BY <1>5 DEF UpdateInv, settings
  <2>2. \A v \in Updaters \ {u} : Sandboxed(updater'[v], worktree', fetch_head', tested')
    BY <1>2 DEF Sandboxed
  <2>3. QED
    BY <1>2, <2>1, <2>2
<1>6. ASSUME update_mode' = "inplace"
      PROVE  /\ \A v \in Updaters : updater'[v].pc \in {"idle", "start", "gate", "flag", "rollback"}
             /\ ~cut_short' =>
                   /\ \A v \in Updaters : updater'[v].pc \in {"gate", "rollback"} => updater'[v].target \in tested'
                   /\ main_head' \in tested' \/ \E v \in Updaters : updater'[v].pc \in {"gate", "rollback"}
  <2>1. update_mode = "inplace"
    BY <1>6 DEF settings
  <2>2. QED
    BY <1>2, <2>1
<1>7. QED
  BY <1>3, <1>4, <1>5, <1>6 DEF UpdateInv

\* A change of place, and a return, as changes of the record.
LEMMA Going ==
    ASSUME UpdateInv, NEW u \in Updaters, NEW label \in Pcs, Goto(u, label)
    PROVE  \E to \in Updater : /\ updater' = [updater EXCEPT ![u] = to]
                               /\ to.pc = label /\ to.target = updater[u].target
<1> DEFINE to == [updater[u] EXCEPT !.pc = label]
<1>1. updater[u] \in Updater
  BY DEF UpdateInv, UpdateTypeOK, Updater, Pcs
<1>2. to \in Updater /\ to.pc = label /\ to.target = updater[u].target
  BY <1>1 DEF Updater
<1>3. updater' = [updater EXCEPT ![u] = to]
  BY DEF Goto
<1>4. QED
  BY <1>2, <1>3

\* The end of a call leaves its updater idle.
LEMMA Returning ==
    ASSUME UpdateInv, NEW u \in Updaters, ReturnFrom(u)
    PROVE  \E to \in Updater : updater' = [updater EXCEPT ![u] = to] /\ to.pc = "idle"
<1>1. IdleUpdater \in Updater /\ IdleUpdater.pc = "idle"
  BY UpdateAssumption DEF IdleUpdater, Updater, Pcs, Commit, Commits
<1>2. QED
  BY <1>1 DEF ReturnFrom

\* A failure of a kind that is explored stays within the bound.
LEMMA FaultCounts ==
    ASSUME UpdateInv, NEW kind, Fault(kind) PROVE faults' \in 0 .. FaultBound /\ kind \in Faults
BY UpdateAssumption DEF UpdateInv, UpdateTypeOK, Fault

\* What the steps of an updater at work find.
LEMMA AtWork ==
    ASSUME UpdateInv, NEW u \in Updaters, ~At(u, "idle")
    PROVE  /\ \A v \in Updaters \ {u} : At(v, "idle")
           /\ updater[u] \in Updater
           /\ {fetch_head, main_head, prev_head} \subseteq Commits
           /\ worktree \in [exists : BOOLEAN, commit : Commits] /\ NoWorktree \in [exists : BOOLEAN, commit : Commits]
           /\ tested \subseteq Commits /\ flags \subseteq {"self_update", "restart"}
           /\ cut_short \in BOOLEAN /\ faults \in 0 .. FaultBound
           /\ Commit(origin) \in Commits /\ Commit(0) \in Commits /\ ~NoWorktree.exists
           /\ update_mode = "worktree" =>
                 main_head \in tested /\ Sandboxed(updater[u], worktree, fetch_head, tested)
           /\ update_mode = "inplace" =>
                 /\ updater[u].pc \in {"start", "gate", "flag", "rollback"}
                 /\ ~cut_short => IF updater[u].pc \in {"gate", "rollback"}
                                  THEN updater[u].target \in tested ELSE main_head \in tested
<1>1. \A v \in Updaters \ {u} : At(v, "idle")
  BY DEF UpdateInv, OneAtWork
<1>2. Commit(origin) \in Commits /\ Commit(0) \in Commits
  BY UpdateAssumption DEF UpdateInv, UpdateTypeOK, Commit, Commits
<1>3. NoWorktree \in [exists : BOOLEAN, commit : Commits] /\ ~NoWorktree.exists
  BY <1>2 DEF NoWorktree
<1>4. UpdateTypeOK /\ updater[u] \in Updater
  BY DEF UpdateInv, UpdateTypeOK, Updater, Pcs
<1>5. update_mode = "inplace" =>
          /\ updater[u].pc \in {"start", "gate", "flag", "rollback"}
          /\ ~cut_short => IF updater[u].pc \in {"gate", "rollback"}
                           THEN updater[u].target \in tested ELSE main_head \in tested
  BY <1>1 DEF UpdateInv, At
<1>6. QED
  BY <1>1, <1>2, <1>3, <1>4, <1>5 DEF UpdateInv, UpdateTypeOK

\* A step that changes only the updater, the worktree and the count of faults, in the worktree
\* mode.
LEMMA SandboxMoves ==
    ASSUME UpdateInv, NEW u \in Updaters, ~At(u, "idle"), update_mode = "worktree",
           NEW to \in Updater, updater' = [updater EXCEPT ![u] = to],
           UNCHANGED <<cut_short, settings, gitVars, running, flags, stopping>>,
           worktree' \in [exists : BOOLEAN, commit : Commits], faults' \in 0 .. FaultBound,
           tested' \subseteq Commits, tested \subseteq tested',
           Sandboxed(to, worktree', fetch_head, tested')
    PROVE  UpdateInv'
<1>1. UNCHANGED <<origin, fetch_head, main_head, prev_head>>
  BY DEF gitVars
<1>2. QED
  BY <1>1, AtWork, UpdaterMoves

\* What an earlier run left is removed, or stays.
LEMMA RemoveLeftoverKeeps == ASSUME UpdateInv, NEW u \in Updaters, RemoveLeftover(u) PROVE UpdateInv'
<1>1. /\ update_mode = "worktree" /\ At(u, "start") /\ ~At(u, "idle") /\ Goto(u, "fetch")
      /\ UNCHANGED <<cut_short, settings, gitVars, running, flags, stopping, tested>>
      /\ \/ worktree' = NoWorktree /\ UNCHANGED faults
         \/ Fault("remove") /\ UNCHANGED worktree
  BY DEF RemoveLeftover, At
<1>2. PICK to \in Updater : updater' = [updater EXCEPT ![u] = to] /\ to.pc = "fetch"
  BY <1>1, Going DEF Pcs
<1>3. faults' \in 0 .. FaultBound /\ worktree' \in [exists : BOOLEAN, commit : Commits]
  BY <1>1, AtWork, FaultCounts
<1>4. QED
  BY <1>1, <1>2, <1>3, AtWork, SandboxMoves DEF Sandboxed

\* The fetch moves FETCH_HEAD before any worktree is made of it.
LEMMA FetchOriginKeeps == ASSUME UpdateInv, NEW u \in Updaters, FetchOrigin(u) PROVE UpdateInv'
<1>1. /\ At(u, "fetch") /\ ~At(u, "idle")
      /\ UNCHANGED <<cut_short, settings, origin, main_head, prev_head, running, worktree,
                     flags, stopping, tested>>
      /\ \/ fetch_head' = Commit(origin) /\ Goto(u, "compare") /\ UNCHANGED faults
         \/ Fault("fetch") /\ ReturnFrom(u) /\ UNCHANGED fetch_head
  BY DEF FetchOrigin, At
<1>2. PICK to \in Updater : updater' = [updater EXCEPT ![u] = to] /\ to.pc \in {"compare", "idle"}
  BY <1>1, Going, Returning DEF Pcs
<1>3. faults' \in 0 .. FaultBound /\ fetch_head' \in Commits
  BY <1>1, AtWork, FaultCounts
<1>4. update_mode # "inplace"
  BY <1>1, AtWork DEF At
<1>5. QED
  BY <1>1, <1>2, <1>3, <1>4, AtWork, UpdaterMoves DEF Sandboxed

\* Nothing to do, or a worktree is due.
LEMMA CompareHeadsKeeps == ASSUME UpdateInv, NEW u \in Updaters, CompareHeads(u) PROVE UpdateInv'
<1>1. /\ At(u, "compare") /\ ~At(u, "idle") /\ (ReturnFrom(u) \/ Goto(u, "add"))
      /\ UNCHANGED <<cut_short, settings, gitVars, running, worktree, flags, stopping, tested, faults>>
  BY DEF CompareHeads, At
<1>2. PICK to \in Updater : updater' = [updater EXCEPT ![u] = to] /\ to.pc \in {"add", "idle"}
  BY <1>1, Going, Returning DEF Pcs
<1>3. update_mode = "worktree"
  BY <1>1, AtWork, UpdateAssumption DEF At, UpdateInv, UpdateTypeOK
<1>4. QED
  BY <1>1, <1>2, <1>3, AtWork, SandboxMoves DEF Sandboxed

\* The worktree is made of FETCH_HEAD.
LEMMA AddWorktreeKeeps == ASSUME UpdateInv, NEW u \in Updaters, AddWorktree(u) PROVE UpdateInv'
<1> DEFINE added == [exists |-> TRUE, commit |-> fetch_head]
<1>1. /\ At(u, "add") /\ ~At(u, "idle")
      /\ UNCHANGED <<cut_short, settings, gitVars, running, flags, stopping, tested>>
      /\ \/ worktree' = added /\ Goto(u, "test") /\ UNCHANGED faults
         \/ ReturnFrom(u) /\ UNCHANGED <<worktree, faults>>
         \/ Fault("add") /\ ReturnFrom(u) /\ worktree' \in {NoWorktree, added}
  BY DEF AddWorktree, At
<1>2. PICK to \in Updater :
          /\ updater' = [updater EXCEPT ![u] = to]
          /\ \/ to.pc = "idle"
             \/ to.pc = "test" /\ worktree' = added
  BY <1>1, Going, Returning DEF Pcs
<1>3. added \in [exists : BOOLEAN, commit : Commits] /\ added.commit = fetch_head
  BY <1>1, AtWork
<1>4. faults' \in 0 .. FaultBound /\ worktree' \in [exists : BOOLEAN, commit : Commits]
  BY <1>1, <1>3, AtWork, FaultCounts
<1>5. update_mode = "worktree"
  BY <1>1, AtWork, UpdateAssumption DEF At, UpdateInv, UpdateTypeOK
<1>6. Sandboxed(to, worktree', fetch_head, tested)
  BY <1>2, <1>3 DEF Sandboxed
<1>7. QED
  BY <1>1, <1>2, <1>4, <1>5, <1>6, AtWork, SandboxMoves

\* pytest in the sandbox: what passes is the commit that will be merged.
LEMMA TestWorktreeKeeps == ASSUME UpdateInv, NEW u \in Updaters, TestWorktree(u) PROVE UpdateInv'
<1>1. /\ At(u, "test") /\ ~At(u, "idle")
      /\ UNCHANGED <<cut_short, settings, gitVars, running, worktree, flags, stopping>>
      /\ \/ worktree.exists /\ tested' = tested \cup {worktree.commit} /\ Goto(u, "merge") /\ UNCHANGED faults
         \/ (UNCHANGED faults \/ Fault("test")) /\ Goto(u, "failed") /\ UNCHANGED tested
         \/ ReturnFrom(u) /\ UNCHANGED <<tested, faults>>
  BY DEF TestWorktree, At
<1>2. PICK to \in Updater :
          /\ updater' = [updater EXCEPT ![u] = to]
          /\ \/ to.pc = "merge" /\ worktree.exists /\ tested' = tested \cup {worktree.commit}
             \/ to.pc \in {"failed", "idle"} /\ UNCHANGED tested
  BY <1>1, Going, Returning DEF Pcs
<1>3. update_mode = "worktree"
  BY <1>1, AtWork, UpdateAssumption DEF At, UpdateInv, UpdateTypeOK
<1>4. worktree.exists => worktree.commit = fetch_head
  BY <1>1, <1>3, AtWork DEF At, Sandboxed
<1>5. faults' \in 0 .. FaultBound /\ tested' \subseteq Commits /\ tested \subseteq tested'
  BY <1>1, AtWork, FaultCounts
<1>6. Sandboxed(to, worktree', fetch_head, tested')
  BY <1>2, <1>4 DEF Sandboxed
<1>7. QED
  BY <1>1, <1>2, <1>3, <1>5, <1>6, AtWork, SandboxMoves

\* Tests that failed lead to the AI repair, or to the end.
LEMMA TestsFailedKeeps == ASSUME UpdateInv, NEW u \in Updaters, TestsFailed(u) PROVE UpdateInv'
<1>1. /\ At(u, "failed") /\ ~At(u, "idle")
      /\ UNCHANGED <<cut_short, settings, gitVars, running, flags, stopping, faults, tested>>
      /\ ReturnFrom(u) \/ Goto(u, "ai")
      /\ worktree' \in {worktree, NoWorktree}
  BY DEF TestsFailed, AbandonUpdate, At
<1>2. PICK to \in Updater : updater' = [updater EXCEPT ![u] = to] /\ to.pc \in {"ai", "idle"}
  BY <1>1, Going, Returning DEF Pcs
<1>3. update_mode = "worktree"
  BY <1>1, AtWork, UpdateAssumption DEF At, UpdateInv, UpdateTypeOK
<1>4. QED
  BY <1>1, <1>2, <1>3, AtWork, SandboxMoves DEF Sandboxed

\* An attempt of the AI repair, and its ends without a merge.
LEMMA AttemptFixKeeps == ASSUME UpdateInv, NEW u \in Updaters, AttemptFix(u) PROVE UpdateInv'
<1>1. /\ At(u, "ai") /\ ~At(u, "idle") /\ updater[u].attempts < MAX_RETRIES
      /\ UNCHANGED <<cut_short, settings, gitVars, running, worktree, flags, stopping, tested, faults>>
      /\ \/ Goto(u, "accepted")
         \/ updater' = [updater EXCEPT ![u].attempts = MAX_RETRIES]
         \/ updater' = [updater EXCEPT ![u].attempts = @ + 1]
  BY DEF AttemptFix, At
<1>2. updater[u] \in Updater /\ updater[u].pc = "ai" /\ MAX_RETRIES \in Nat
  BY <1>1, AtWork, UpdateAssumption DEF At
<1>3. ASSUME NEW n \in 0 .. MAX_RETRIES, updater' = [updater EXCEPT ![u].attempts = n]
      PROVE  \E to \in Updater : updater' = [updater EXCEPT ![u] = to] /\ to.pc \in {"accepted", "ai"}
  <2> DEFINE to == [updater[u] EXCEPT !.attempts = n]
  <2>1. to \in Updater /\ to.pc = "ai"
    BY <1>2 DEF Updater
  <2>2. updater' = [updater EXCEPT ![u] = to]
    BY <1>3
  <2>3. QED
    BY <2>1, <2>2
<1>4. \E to \in Updater : updater' = [updater EXCEPT ![u] = to] /\ to.pc \in {"accepted", "ai"}
  <2>1. CASE Goto(u, "accepted")
    BY <2>1, Going DEF Pcs
  <2>2. CASE updater' = [updater EXCEPT ![u].attempts = MAX_RETRIES]
    <3>1. MAX_RETRIES \in 0 .. MAX_RETRIES
      BY <1>2
    <3>2. QED
      BY <1>3, <2>2, <3>1
  <2>3. CASE updater' = [updater EXCEPT ![u].attempts = @ + 1]
    <3>1. updater[u].attempts + 1 \in 0 .. MAX_RETRIES
      BY <1>1, <1>2 DEF Updater
    <3>2. updater' = [updater EXCEPT ![u].attempts = updater[u].attempts + 1]
      BY <2>3
    <3>3. QED
      BY <1>3, <3>1, <3>2
  <2>4. QED
    BY <1>1, <2>1, <2>2, <2>3
<1>5. PICK to \in Updater : updater' = [updater EXCEPT ![u] = to] /\ to.pc \in {"accepted", "ai"}
  BY <1>4
<1>6. update_mode = "worktree"
  BY <1>1, AtWork, UpdateAssumption DEF At, UpdateInv, UpdateTypeOK
<1>7. QED
  BY <1>1, <1>5, <1>6, AtWork, SandboxMoves DEF Sandboxed

\* The repair ends without a merge.
LEMMA AbandonKeeps ==
    ASSUME UpdateInv, NEW u \in Updaters, OpenFailureIssue(u) \/ PushBranchAndOpenPr(u)
    PROVE  UpdateInv'
<1>1. /\ ~At(u, "idle") /\ updater[u].pc \in {"ai", "accepted"} /\ ReturnFrom(u)
      /\ UNCHANGED <<cut_short, settings, gitVars, running, flags, stopping, faults, tested>>
      /\ worktree' = NoWorktree
  BY DEF OpenFailureIssue, PushBranchAndOpenPr, AbandonUpdate, At
<1>2. PICK to \in Updater : updater' = [updater EXCEPT ![u] = to] /\ to.pc = "idle"
  BY <1>1, Returning
<1>3. update_mode = "worktree"
  BY <1>1, AtWork, UpdateAssumption DEF UpdateInv, UpdateTypeOK
<1>4. QED
  BY <1>1, <1>2, <1>3, AtWork, SandboxMoves DEF Sandboxed

\* The repair is committed: FETCH_HEAD names what passed.
LEMMA CommitInlineKeeps ==
    ASSUME UpdateInv, Careful, NEW u \in Updaters, CommitInline(u) PROVE UpdateInv'
<1>1. /\ At(u, "accepted") /\ ~At(u, "idle") /\ Goto(u, "merge")
      /\ fetch_head' = Repaired(worktree.commit)
      /\ tested' = tested \cup {Repaired(worktree.commit)}
      /\ worktree' = [worktree EXCEPT !.commit = Repaired(worktree.commit)]
      /\ UNCHANGED <<cut_short, settings, origin, main_head, prev_head, running, flags, stopping, faults>>
  BY DEF CommitInline, Careful, Fault, At
<1>2. PICK to \in Updater : updater' = [updater EXCEPT ![u] = to] /\ to.pc = "merge"
  BY <1>1, Going DEF Pcs
<1>3. update_mode = "worktree"
  BY <1>1, AtWork, UpdateAssumption DEF At, UpdateInv, UpdateTypeOK
<1>4. Repaired(worktree.commit) \in Commits
  <2>1. worktree.commit \in Commits
    BY <1>1, AtWork
  <2>2. QED
    BY <2>1 DEF Repaired, Commits
<1>5. /\ fetch_head' \in Commits /\ fetch_head' \in tested' /\ tested \subseteq tested'
      /\ worktree' \in [exists : BOOLEAN, commit : Commits] /\ tested' \subseteq Commits
  BY <1>1, <1>4, AtWork
<1>6. Sandboxed(to, worktree', fetch_head', tested')
  BY <1>2, <1>5 DEF Sandboxed
<1>7. main_head' \in tested'
  BY <1>1, <1>3, <1>5, AtWork
<1>8. QED
  BY <1>1, <1>2, <1>3, <1>5, <1>6, <1>7, AtWork, UpdaterMoves

\* The merge takes over what was tested.
LEMMA FastForwardKeeps == ASSUME UpdateInv, NEW u \in Updaters, FastForward(u) PROVE UpdateInv'
<1>1. /\ At(u, "merge") /\ ~At(u, "idle") /\ main_head' \in {main_head, fetch_head}
      /\ prev_head' \in {prev_head, main_head} /\ worktree' \in {worktree, NoWorktree}
      /\ ReturnFrom(u) \/ Goto(u, "flag")
      /\ UNCHANGED faults \/ Fault("merge")
      /\ UNCHANGED <<cut_short, settings, origin, fetch_head, running, flags, stopping, tested>>
  BY DEF FastForward, AbandonUpdate, At
<1>2. PICK to \in Updater : updater' = [updater EXCEPT ![u] = to] /\ to.pc \in {"idle", "flag"}
  BY <1>1, Going, Returning DEF Pcs
<1>3. update_mode = "worktree"
  BY <1>1, AtWork, UpdateAssumption DEF At, UpdateInv, UpdateTypeOK
<1>4. main_head \in tested /\ fetch_head \in tested
  BY <1>1, <1>3, AtWork DEF At, Sandboxed
<1>5. faults' \in 0 .. FaultBound /\ {main_head', prev_head'} \subseteq Commits
      /\ worktree' \in [exists : BOOLEAN, commit : Commits]
  BY <1>1, AtWork, FaultCounts
<1>6. QED
  BY <1>1, <1>2, <1>3, <1>4, <1>5, AtWork, UpdaterMoves DEF Sandboxed

\* The flag is written, in both modes.
LEMMA FlagKeeps ==
    ASSUME UpdateInv, NEW u \in Updaters, WriteFlag(u) \/ FinishInplace(u) PROVE UpdateInv'
<1>1. /\ At(u, "flag") /\ ~At(u, "idle") /\ ReturnFrom(u)
      /\ \/ flags' = flags \cup {"self_update"} /\ UNCHANGED faults
         \/ Fault("pip") /\ UNCHANGED flags
      /\ UNCHANGED <<cut_short, settings, gitVars, running, worktree, stopping, tested>>
  BY DEF WriteFlag, FinishInplace, InstallAndFlag, At
<1>2. PICK to \in Updater : updater' = [updater EXCEPT ![u] = to] /\ to.pc = "idle"
  BY <1>1, Returning
<1>3. faults' \in 0 .. FaultBound /\ flags' \subseteq {"self_update", "restart"}
  BY <1>1, AtWork, FaultCounts
<1>4. UNCHANGED <<origin, fetch_head, main_head, prev_head>>
  BY <1>1 DEF gitVars
<1>5. update_mode = "inplace" /\ ~cut_short => main_head \in tested
  BY <1>1, AtWork DEF At
<1>6. QED
  BY <1>1, <1>2, <1>3, <1>4, <1>5, AtWork, UpdaterMoves DEF Sandboxed

\* git pull: the commit to go back to is the one that was checked out.
LEMMA GitPullKeeps == ASSUME UpdateInv, NEW u \in Updaters, GitPull(u) PROVE UpdateInv'
<1>1. /\ update_mode = "inplace" /\ At(u, "start") /\ ~At(u, "idle")
      /\ UNCHANGED <<cut_short, settings, origin, running, worktree, flags, stopping, tested>>
      /\ \/ /\ fetch_head' = Commit(origin) /\ main_head' = Commit(origin)
            /\ prev_head' = IF main_head = Commit(origin) THEN prev_head ELSE main_head
            /\ updater' = [updater EXCEPT
                  ![u].pc = IF main_head = Commit(origin) THEN "flag" ELSE "gate",
                  ![u].target = prev_head']
            /\ UNCHANGED faults
         \/ Fault("fetch") /\ ReturnFrom(u) /\ UNCHANGED <<fetch_head, main_head, prev_head>>
  BY DEF GitPull, At
<1>2. updater[u] \in Updater /\ (~cut_short => main_head \in tested)
  BY <1>1, AtWork DEF At
<1>3. faults' \in 0 .. FaultBound /\ {fetch_head', main_head', prev_head'} \subseteq Commits
  BY <1>1, AtWork, FaultCounts
<1>4. \E to \in Updater :
          /\ updater' = [updater EXCEPT ![u] = to]
          /\ \/ to.pc = "gate" /\ to.target = main_head
             \/ to.pc \in {"idle", "flag"} /\ main_head' = main_head
  <2>1. CASE Fault("fetch") /\ ReturnFrom(u) /\ UNCHANGED <<fetch_head, main_head, prev_head>>
    BY <2>1, Returning
  <2>2. CASE /\ main_head' = Commit(origin)
             /\ prev_head' = IF main_head = Commit(origin) THEN prev_head ELSE main_head
             /\ updater' = [updater EXCEPT
                   ![u].pc = IF main_head = Commit(origin) THEN "flag" ELSE "gate",
                   ![u].target = prev_head']
    <3>1. PICK label \in {"flag", "gate"}, back \in Commits :
              /\ label = IF main_head = Commit(origin) THEN "flag" ELSE "gate"
              /\ back = prev_head'
      BY <1>3
    <3> DEFINE to == [updater[u] EXCEPT !.pc = label, !.target = back]
    <3>2. updater' = [updater EXCEPT ![u] = to]
      BY <2>2, <3>1
    <3>3. to \in Updater /\ to.pc = label /\ to.target = back
      BY <1>2, <3>1 DEF Updater, Pcs
    <3> HIDE DEF to
    <3>4. QED
      BY <2>2, <3>1, <3>2, <3>3
  <2>3. QED
    BY <1>1, <2>1, <2>2
<1>5. PICK to \in Updater :
          /\ updater' = [updater EXCEPT ![u] = to]
          /\ \/ to.pc = "gate" /\ to.target = main_head
             \/ to.pc \in {"idle", "flag"} /\ main_head' = main_head
  BY <1>4
<1>6. QED
  BY <1>1, <1>2, <1>3, <1>5, AtWork, UpdaterMoves DEF Sandboxed

\* The gate in place: what passes is the checkout.
LEMMA TestGateKeeps == ASSUME UpdateInv, NEW u \in Updaters, TestGate(u) PROVE UpdateInv'
<1>1. /\ At(u, "gate") /\ ~At(u, "idle")
      /\ UNCHANGED <<cut_short, settings, gitVars, running, worktree, flags, stopping>>
      /\ \/ tested' = tested \cup {main_head} /\ Goto(u, "flag") /\ UNCHANGED faults
         \/ (UNCHANGED faults \/ Fault("test")) /\ Goto(u, "rollback") /\ UNCHANGED tested
  BY DEF TestGate, At
<1>2. PICK to \in Updater :
          /\ updater' = [updater EXCEPT ![u] = to] /\ to.target = updater[u].target
          /\ \/ to.pc = "flag" /\ tested' = tested \cup {main_head}
             \/ to.pc = "rollback" /\ tested' = tested
  BY <1>1, Going DEF Pcs
<1>3. UNCHANGED <<origin, fetch_head, main_head, prev_head>>
  BY <1>1 DEF gitVars
<1>4. update_mode # "worktree" /\ (update_mode = "inplace" /\ ~cut_short => updater[u].target \in tested)
  BY <1>1, AtWork DEF At, Sandboxed
<1>5. faults' \in 0 .. FaultBound /\ tested' \subseteq Commits /\ tested \subseteq tested'
  BY <1>1, AtWork, FaultCounts
<1>6. QED
  BY <1>1, <1>2, <1>3, <1>4, <1>5, AtWork, UpdaterMoves

\* A roll-back restores a tested commit, or is known to have been cut short.
LEMMA RollBackKeeps == ASSUME UpdateInv, NEW u \in Updaters, RollBack(u) PROVE UpdateInv'
<1>1. /\ At(u, "rollback") /\ ~At(u, "idle") /\ ReturnFrom(u)
      /\ \/ /\ main_head' = updater[u].target /\ prev_head' = main_head
            /\ UNCHANGED <<cut_short, faults>>
         \/ Fault("reset") /\ cut_short' = TRUE /\ UNCHANGED <<main_head, prev_head>>
      /\ UNCHANGED <<settings, origin, fetch_head, running, worktree, flags, stopping, tested>>
  BY DEF RollBack, At
<1>2. PICK to \in Updater : updater' = [updater EXCEPT ![u] = to] /\ to.pc = "idle"
  BY <1>1, Returning
<1>3. update_mode # "worktree" /\ (update_mode = "inplace" /\ ~cut_short => updater[u].target \in tested)
  BY <1>1, AtWork DEF At, Sandboxed
<1>4. /\ faults' \in 0 .. FaultBound /\ {main_head', prev_head'} \subseteq Commits
      /\ cut_short' \in BOOLEAN
  BY <1>1, AtWork, FaultCounts DEF Updater
<1>5. update_mode = "inplace" /\ ~cut_short' => ~cut_short /\ main_head' \in tested'
  BY <1>1, <1>3
<1>6. worktree' \in [exists : BOOLEAN, commit : Commits] /\ tested' \subseteq Commits /\ tested \subseteq tested'
      /\ flags' \subseteq {"self_update", "restart"} /\ fetch_head' \in Commits
      /\ \A v \in Updaters \ {u} : At(v, "idle")
  BY <1>1, AtWork
<1>7. QED
  BY <1>1, <1>2, <1>3, <1>4, <1>5, <1>6, UpdaterMoves

\* An update begins, or a check finds nothing to do: every updater was idle.
LEMMA BeginKeeps ==
    ASSUME UpdateInv, Careful, NEW u \in Updaters, AutoUpdateCheck(u) \/ SelfUpdateRequested(u)
    PROVE  UpdateInv'
<1>1. /\ \A v \in Updaters : At(v, "idle")
      /\ fetch_head' \in {fetch_head, Commit(origin)}
      /\ UNCHANGED faults \/ Fault("fetch")
      /\ Goto(u, "start") \/ UNCHANGED updater
      /\ UNCHANGED <<cut_short, settings, origin, main_head, prev_head, running, worktree,
                     flags, stopping, tested>>
  BY DEF AutoUpdateCheck, SelfUpdateRequested, MayBegin, Careful, gitVars
<1>2. /\ UpdateTypeOK /\ updater \in [Updaters -> Updater]
      /\ Commit(origin) \in Commits
  BY UpdateAssumption DEF UpdateInv, UpdateTypeOK, Updater, Pcs, Commit, Commits
<1>3. \E to \in Updater : updater' = [updater EXCEPT ![u] = to] /\ to.pc \in {"start", "idle"}
  <2>1. CASE Goto(u, "start")
    BY <2>1, Going DEF Pcs
  <2>2. CASE UNCHANGED updater
    BY <1>1, <1>2, <2>2 DEF At
  <2>3. QED
    BY <1>1, <2>1, <2>2
<1>4. PICK to \in Updater : updater' = [updater EXCEPT ![u] = to] /\ to.pc \in {"start", "idle"}
  BY <1>3
<1>5. faults' \in 0 .. FaultBound
  BY <1>1, <1>2, FaultCounts DEF UpdateTypeOK
<1>6. update_mode = "inplace" /\ ~cut_short => main_head \in tested
  BY <1>1 DEF UpdateInv, At
<1>7. update_mode = "worktree" => main_head' \in tested' /\ Sandboxed(to, worktree', fetch_head', tested')
  BY <1>1, <1>4 DEF UpdateInv, Sandboxed
<1>8. /\ {fetch_head', main_head', prev_head'} \subseteq Commits
      /\ worktree' \in [exists : BOOLEAN, commit : Commits] /\ tested' \subseteq Commits
      /\ flags' \subseteq {"self_update", "restart"} /\ cut_short' \in BOOLEAN
      /\ tested \subseteq tested'
  BY <1>1, <1>2 DEF UpdateTypeOK
<1>9. QED
  BY <1>1, <1>4, <1>5, <1>6, <1>7, <1>8, UpdaterMoves

\* The process starts anew, from the main checkout.
LEMMA StartKeeps ==
    ASSUME UpdateInv, StartProcess, faults' \in 0 .. FaultBound PROVE UpdateInv'
<1>1. /\ running' = main_head /\ updater' = [u \in Updaters |-> IdleUpdater] /\ stopping' = FALSE
      /\ cut_short' = (cut_short \/ \E u \in Updaters : ~At(u, "idle"))
      /\ UNCHANGED <<update_mode, ai_mode, origin, fetch_head, main_head, prev_head, worktree,
                     flags, tested>>
  BY DEF StartProcess, settings, gitVars
<1>2. IdleUpdater \in Updater /\ IdleUpdater.pc = "idle"
  BY UpdateAssumption DEF IdleUpdater, Updater, Pcs, Commit, Commits
<1>3. \A u \in Updaters : updater'[u].pc = "idle" /\ updater'[u] \in Updater
  BY <1>1, <1>2
<1>4. updater' \in [Updaters -> Updater] /\ cut_short' \in BOOLEAN
  BY <1>1, <1>2 DEF UpdateInv, UpdateTypeOK
<1>5. UpdateTypeOK'
  BY <1>1, <1>4 DEF UpdateInv, UpdateTypeOK, Updater, Pcs
<1>6. OneAtWork'
  BY <1>3 DEF OneAtWork, At
<1>7. update_mode = "inplace" /\ ~cut_short' => main_head \in tested
  BY <1>1 DEF UpdateInv, At
<1>8. \A u \in Updaters : Sandboxed(updater'[u], worktree', fetch_head', tested')
  BY <1>3 DEF Sandboxed
<1>9. QED
  BY <1>1, <1>3, <1>5, <1>6, <1>7, <1>8 DEF UpdateInv

\* Every step keeps what is checked out, and what runs, tested.
LEMMA UpdateKeeps == Careful /\ UpdateInv /\ [UpdateNext]_updateVars => UpdateInv'
<1> SUFFICES ASSUME Careful, UpdateInv, [UpdateNext]_updateVars PROVE UpdateInv'
  OBVIOUS
<1>1. ASSUME UNCHANGED <<update_mode, ai_mode, fetch_head, main_head, prev_head, running, worktree,
                         updater, cut_short, tested>>,
             origin' \in 0 .. LastCommit, flags' \subseteq {"self_update", "restart"},
             stopping' \in BOOLEAN, faults' \in 0 .. FaultBound
      PROVE  UpdateInv'
  <2>1. UpdateTypeOK'
    BY <1>1 DEF UpdateInv, UpdateTypeOK
  <2>2. OneAtWork'
    BY <1>1 DEF UpdateInv, OneAtWork, At
  <2>3. QED
    BY <1>1, <2>1, <2>2 DEF UpdateInv
<1>2. UpdateTypeOK
  BY DEF UpdateInv
<1>3. CASE DetectFlag
  BY <1>1, <1>2, <1>3 DEF DetectFlag, settings, gitVars, UpdateTypeOK
<1>4. CASE RestartRequested
  BY <1>1, <1>2, <1>4, FaultCounts DEF RestartRequested, settings, gitVars, UpdateTypeOK
<1>5. CASE Push
  <2>1. origin' \in 0 .. LastCommit
    BY <1>2, <1>5, UpdateAssumption DEF Push, UpdateTypeOK
  <2>2. QED
    BY <1>1, <1>2, <1>5, <2>1 DEF Push, settings, UpdateTypeOK
<1>6. CASE Reexec
  BY <1>2, <1>6, StartKeeps DEF Reexec, UpdateTypeOK
<1>7. CASE UpdaterCrash
  BY <1>7, StartKeeps, FaultCounts DEF UpdaterCrash
<1>8. CASE UNCHANGED updateVars
  BY <1>1, <1>2, <1>8 DEF updateVars, UpdateTypeOK
<1>9. ASSUME NEW u \in Updaters, UpdateStep(u) PROVE UpdateInv'
  BY <1>9, RemoveLeftoverKeeps, FetchOriginKeeps, CompareHeadsKeeps, AddWorktreeKeeps,
     TestWorktreeKeeps, TestsFailedKeeps, AttemptFixKeeps, AbandonKeeps, CommitInlineKeeps,
     FastForwardKeeps, FlagKeeps, GitPullKeeps, TestGateKeeps, RollBackKeeps DEF UpdateStep
<1>10. QED
  BY <1>3, <1>4, <1>5, <1>6, <1>7, <1>8, <1>9, BeginKeeps DEF UpdateNext

\* Any commits, broken or not, any updaters, restarts, crashes and failures, as long as no
\* update begins while another one runs (nothing in the code sees to that) and git commit
\* does not fail (its exit code is not looked at): with the sandbox neither the checkout nor
\* the process is ever at a commit whose tests did not pass, and in place the checkout is not
\* between updates that ran to their end.
THEOREM UpdateStaysSound ==
    ASSUME ~Overlap, "commit" \notin Faults
    PROVE  UpdateSpec => []UpdateSound
<1>1. Careful
  BY DEF Careful
<1>2. UpdateInit => UpdateInv
  <2> SUFFICES ASSUME UpdateInit PROVE UpdateInv
    OBVIOUS
  <2>1. /\ IdleUpdater \in Updater /\ IdleUpdater.pc = "idle" /\ Commit(0) \in Commits
        /\ NoWorktree \in [exists : BOOLEAN, commit : Commits]
    BY UpdateAssumption DEF IdleUpdater, Updater, Pcs, Commit, Commits, NoWorktree
  <2>2. \A u \in Updaters : updater[u].pc = "idle"
    BY <2>1 DEF UpdateInit
  <2>3. updater \in [Updaters -> Updater]
    BY <2>1 DEF UpdateInit
  <2>4. UpdateTypeOK
    <3>1. origin \in 0 .. LastCommit /\ faults \in 0 .. FaultBound
      BY UpdateAssumption DEF UpdateInit
    <3>2. /\ update_mode \in Modes /\ ai_mode \in AiModes
          /\ {fetch_head, main_head, prev_head, running} \subseteq Commits
          /\ worktree \in [exists : BOOLEAN, commit : Commits] /\ tested \subseteq Commits
          /\ flags \subseteq {"self_update", "restart"} /\ stopping \in BOOLEAN
          /\ cut_short \in BOOLEAN
      BY <2>1 DEF UpdateInit
    <3>3. QED
      BY <2>3, <3>1, <3>2 DEF UpdateTypeOK, Updater, Pcs
  <2>5. OneAtWork
    BY <2>2 DEF OneAtWork, At
  <2>6. main_head \in tested /\ running \in tested
    BY DEF UpdateInit
  <2>7. \A u \in Updaters : Sandboxed(updater[u], worktree, fetch_head, tested)
    BY <2>2 DEF Sandboxed
  <2>8. QED
    BY <2>2, <2>4, <2>5, <2>6, <2>7 DEF UpdateInv
<1>3. UpdateInv => UpdateSound
  BY DEF UpdateInv, UpdateSound, OnlyTestedCode, RolledBack, At
<1>4. UpdateInv /\ [UpdateNext]_updateVars => UpdateInv'
  BY <1>1, UpdateKeeps
<1>5. QED
  BY <1>2, <1>3, <1>4, PTL DEF UpdateSpec

-----------------------------------------------------------------------------
(* The memory bus and its stores. *)

Storing == [at : {"store"}, id : Ids, queue : Seq(Ids)]
Done == [at |-> "done"]

\* What a coroutine has in its hands.
InHands(t) == IF storer[t].at = "store" THEN ToSet(storer[t].queue) \cup {storer[t].id} ELSE {}

HotInv ==
    /\ hot \in Seq(Logs \cup {"sync", "week"}) /\ Len(hot) <= HotMax
    /\ \A i, j \in DOMAIN hot : hot[i] \in {"sync", "week"} /\ hot[i] = hot[j] => i = j

StoreTypes ==
    /\ warmLog \in [Logs -> {"none", "new", "vectorized", "pruned"}]
    /\ sharedRows \subseteq Memories /\ vecRows \subseteq Ids
    /\ pendingEmbed \in Seq(Ids) /\ ingest_batch \in Seq(Logs)
    /\ storer \in [Storers -> {IdleStorer, Done} \cup Storing]

\* A coroutine stores what it was started for; the ingestor stores the head of its batch.
Tracked ==
    /\ \A m \in Memories : storer[m].at = "store" => storer[m].id = m
    /\ storer["ingestor"] # Done
    /\ storer["ingestor"].at = "store" =>
          ingest_batch # <<>> /\ storer["ingestor"].id = Head(ingest_batch)

\* A memory counts as forgotten only when nothing can write it again: it is on no row, in
\* nobody's hands, and its remember() has been called.
Gone ==
    \A m \in forgotten :
        /\ m \in Memories /\ storer[m].at # "idle"
        /\ m \notin sharedRows \cup vecRows \cup InFlight

StoresInv == StoreTypes /\ Tracked /\ NoEmbeddingLost /\ Gone

\* What appending and taking off does to the elements of a sequence.
LEMMA Elements ==
    ASSUME NEW S
    PROVE  /\ ToSet(<<>>) = {}
           /\ \A s \in Seq(S) : ToSet(s) \subseteq S
           /\ \A s \in Seq(S), x \in S : Append(s, x) \in Seq(S) /\ ToSet(Append(s, x)) = ToSet(s) \cup {x}
           /\ \A s \in Seq(S) : s # <<>> =>
                 /\ Head(s) \in S /\ Tail(s) \in Seq(S)
                 /\ ToSet(s) = {Head(s)} \cup ToSet(Tail(s))
<1>1. ToSet(<<>>) = {}
  BY DEF ToSet
<1>2. ASSUME NEW s \in Seq(S) PROVE ToSet(s) \subseteq S
  BY DEF ToSet
<1>3. ASSUME NEW s \in Seq(S), NEW x \in S
      PROVE  Append(s, x) \in Seq(S) /\ ToSet(Append(s, x)) = ToSet(s) \cup {x}
  <2>1. /\ Append(s, x) \in Seq(S)
        /\ DOMAIN Append(s, x) = 1..(Len(s) + 1) /\ Append(s, x)[Len(s) + 1] = x
        /\ \A i \in 1..Len(s) : Append(s, x)[i] = s[i]
        /\ DOMAIN s = 1..Len(s) /\ Len(s) \in Nat
    OBVIOUS
  <2>2. /\ Len(s) + 1 \in 1..(Len(s) + 1)
        /\ \A i \in 1..Len(s) : i \in 1..(Len(s) + 1)
        /\ \A i \in 1..(Len(s) + 1) : i \in 1..Len(s) \/ i = Len(s) + 1
    BY <2>1
  <2>3. ToSet(Append(s, x)) \subseteq ToSet(s) \cup {x}
    BY <2>1, <2>2 DEF ToSet
  <2>4. ToSet(s) \cup {x} \subseteq ToSet(Append(s, x))
    <3>1. ASSUME NEW i \in 1..Len(s) PROVE s[i] \in ToSet(Append(s, x))
      BY <2>1, <2>2 DEF ToSet
    <3>2. x \in ToSet(Append(s, x))
      BY <2>1, <2>2 DEF ToSet
    <3>3. QED
      BY <2>1, <3>1, <3>2 DEF ToSet
  <2>5. QED
    BY <2>1, <2>3, <2>4
<1>4. ASSUME NEW s \in Seq(S), s # <<>>
      PROVE  /\ Head(s) \in S /\ Tail(s) \in Seq(S)
             /\ ToSet(s) = {Head(s)} \cup ToSet(Tail(s))
  <2>1. /\ Head(s) \in S /\ Tail(s) \in Seq(S) /\ Head(s) = s[1]
        /\ Len(s) \in Nat /\ Len(s) >= 1 /\ DOMAIN s = 1..Len(s)
        /\ Len(Tail(s)) = Len(s) - 1 /\ DOMAIN Tail(s) = 1..(Len(s) - 1)
        /\ \A i \in 1..(Len(s) - 1) : Tail(s)[i] = s[i+1]
    BY <1>4
  <2>2. /\ 1 \in 1..Len(s)
        /\ \A i \in 1..(Len(s) - 1) : i + 1 \in 1..Len(s)
        /\ \A i \in 1..Len(s) : i = 1 \/ (i - 1 \in 1..(Len(s) - 1) /\ (i - 1) + 1 = i)
    BY <2>1
  <2>3. ToSet(s) \subseteq {Head(s)} \cup ToSet(Tail(s))
    <3>1. ASSUME NEW i \in 1..Len(s) PROVE s[i] \in {Head(s)} \cup ToSet(Tail(s))
      <4>1. CASE i = 1
        BY <2>1, <4>1
      <4>2. CASE i - 1 \in 1..(Len(s) - 1) /\ (i - 1) + 1 = i
        <5>1. Tail(s)[i-1] = s[i]
          BY <2>1, <4>2
        <5>2. QED
          BY <2>1, <4>2, <5>1 DEF ToSet
      <4>3. QED
        BY <2>2, <4>1, <4>2
    <3>2. QED
      BY <2>1, <3>1 DEF ToSet
  <2>4. {Head(s)} \cup ToSet(Tail(s)) \subseteq ToSet(s)
    BY <2>1, <2>2 DEF ToSet
  <2>5. QED
    BY <2>1, <2>3, <2>4
<1>5. QED
  BY <1>1, <1>2, <1>3, <1>4

\* The order in which a batch is stored: some sequence of its logs.
LEMMA BatchOf ==
    ASSUME NEW taken \in SUBSET Logs
    PROVE  SetToSeq(taken) \in Seq(Logs)
<1>1. IsFiniteSet(taken)
  BY MemAssumption, FS_Subset
<1>2. Cardinality(taken) \in Nat /\ ExistsBijection(1..Cardinality(taken), taken)
  BY <1>1, FS_CardinalityType
<1>3. \E f \in [1..Cardinality(taken) -> taken] : IsInjective(f)
  BY <1>2 DEF ExistsBijection, Bijection, Injection
<1>4. SetToSeq(taken) \in [1..Cardinality(taken) -> taken]
  BY <1>3 DEF SetToSeq
<1>5. QED
  BY <1>2, <1>4

\* What is in flight, by who has it.
LEMMA InFlightIs ==
    \A i : i \in InFlight <=> i \in ToSet(pendingEmbed) \/ \E t \in Storers : i \in InHands(t)
BY DEF InFlight, InHands

\* One coroutine moves: what it does not have, nor had, stays where it is.
LEMMA OneStorer ==
    ASSUME NEW t \in Storers, \A s \in Storers \ {t} : storer'[s] = storer[s]
    PROVE  /\ \A i \in InFlight : i \in ToSet(pendingEmbed) \/ i \in InHands(t) \/ i \in InFlight'
           /\ \A i \in InFlight' : i \in ToSet(pendingEmbed)' \/ i \in InHands(t)' \/ i \in InFlight
           /\ \A i : i \in ToSet(pendingEmbed)' \/ i \in InHands(t)' => i \in InFlight'
<1>1. \A s \in Storers \ {t} : InHands(s)' = InHands(s)
  BY DEF InHands
<1>2. \A i : i \in InFlight' <=> i \in ToSet(pendingEmbed)' \/ \E s \in Storers : i \in InHands(s)'
  BY DEF InFlight, InHands
<1>3. QED
  BY <1>1, <1>2, InFlightIs

\* The kinds of coroutine.
LEMMA StorerKinds ==
    /\ IdleStorer.at = "idle" /\ Done.at = "done" /\ IdleStorer # Done
    /\ \A x \in {IdleStorer, Done} \cup Storing :
          /\ x.at \in {"idle", "store", "done"}
          /\ x.at = "store" => x \in Storing /\ x.id \in Ids /\ x.queue \in Seq(Ids)
          /\ x.at = "idle" => x = IdleStorer
          /\ x.at = "done" => x = Done
<1>1. IdleStorer.at = "idle" /\ Done.at = "done"
  BY DEF IdleStorer, Done
<1>2. QED
  BY <1>1 DEF Storing

\* A coroutine enters store() and takes over the queue of failed embeddings.
LEMMA Entering ==
    ASSUME StoresInv, NEW t \in Storers, NEW id \in Ids, storer[t] = IdleStorer, EnterStore(t, id)
    PROVE  /\ pendingEmbed' \in Seq(Ids) /\ storer' \in [Storers -> {IdleStorer, Done} \cup Storing]
           /\ storer'[t].at = "store" /\ storer'[t].id = id /\ \A s \in Storers \ {t} : storer'[s] = storer[s]
           /\ InFlight' = InFlight \cup {id}
<1> DEFINE new == [at |-> "store", id |-> id, queue |-> pendingEmbed]
<1>1. /\ storer' = [storer EXCEPT ![t] = new] /\ pendingEmbed' = <<>>
      /\ storer \in [Storers -> {IdleStorer, Done} \cup Storing] /\ pendingEmbed \in Seq(Ids)
  BY DEF EnterStore, StoresInv, StoreTypes
<1>2. new \in Storing /\ new.at = "store" /\ new.id = id /\ new.queue = pendingEmbed
  BY <1>1 DEF Storing
<1> HIDE DEF new
<1>3. /\ storer' \in [Storers -> {IdleStorer, Done} \cup Storing] /\ storer'[t] = new
      /\ \A s \in Storers \ {t} : storer'[s] = storer[s]
  BY <1>1, <1>2
<1>4. InHands(t)' = ToSet(pendingEmbed) \cup {id} /\ InHands(t) = {}
  BY <1>2, <1>3, StorerKinds DEF InHands
<1>5. ToSet(pendingEmbed)' = {}
  BY <1>1, Elements
<1>6. InFlight' = InFlight \cup {id}
  <2>1. \A i \in ToSet(pendingEmbed) : i \in InFlight
    BY InFlightIs
  <2>2. QED
    BY <1>3, <1>4, <1>5, <2>1, OneStorer
<1>7. QED
  BY <1>1, <1>2, <1>3, <1>6

\* remember() hands its memory to the vector store.
LEMMA RememberKeeps == ASSUME StoresInv, NEW m \in Memories, Remember(m) PROVE StoresInv'
<1>1. /\ storer[m] = IdleStorer /\ EnterStore(m, m) /\ sharedRows' \in {sharedRows, sharedRows \cup {m}}
      /\ UNCHANGED <<hot, warmLog, vecRows, ingest_batch, excused, forgotten>>
  BY DEF Remember
<1>2. m \in Storers /\ m \in Ids /\ m # "ingestor"
  BY MemAssumption DEF Storers, Ids
<1>3. /\ pendingEmbed' \in Seq(Ids) /\ storer' \in [Storers -> {IdleStorer, Done} \cup Storing]
      /\ storer'[m].at = "store" /\ storer'[m].id = m /\ \A s \in Storers \ {m} : storer'[s] = storer[s]
      /\ InFlight' = InFlight \cup {m}
  BY <1>1, <1>2, Entering
<1>4. StoreTypes'
  BY <1>1, <1>3 DEF StoresInv, StoreTypes
<1>5. Tracked'
  BY <1>1, <1>2, <1>3 DEF StoresInv, Tracked, Storers
<1>6. NoEmbeddingLost'
  BY <1>1, <1>3 DEF StoresInv, NoEmbeddingLost, Storers
<1>7. m \notin forgotten
  BY <1>1, StorerKinds DEF StoresInv, Gone
<1>8. Gone'
  BY <1>1, <1>3, <1>7 DEF StoresInv, Gone, Storers
<1>9. QED
  BY <1>4, <1>5, <1>6, <1>8 DEF StoresInv

\* The ingestor hands over the next log of its batch.
LEMMA IngestNextKeeps == ASSUME StoresInv, IngestNext PROVE StoresInv'
<1> DEFINE l == Head(ingest_batch)
<1>1. /\ ingest_batch # <<>> /\ storer["ingestor"] = IdleStorer /\ EnterStore("ingestor", l)
      /\ UNCHANGED <<hot, warmLog, sharedRows, vecRows, ingest_batch, excused, forgotten>>
  BY DEF IngestNext
<1>2. "ingestor" \in Storers /\ "ingestor" \notin Memories /\ l \in Logs /\ l \in Ids
  BY <1>1, MemAssumption DEF Storers, Ids, StoresInv, StoreTypes
<1>3. /\ pendingEmbed' \in Seq(Ids) /\ storer' \in [Storers -> {IdleStorer, Done} \cup Storing]
      /\ storer'["ingestor"].at = "store" /\ storer'["ingestor"].id = l
      /\ \A s \in Storers \ {"ingestor"} : storer'[s] = storer[s]
      /\ InFlight' = InFlight \cup {l}
  BY <1>1, <1>2, Entering
<1>4. StoreTypes'
  BY <1>1, <1>3 DEF StoresInv, StoreTypes
<1>5. Tracked'
  BY <1>1, <1>2, <1>3, StorerKinds DEF StoresInv, Tracked, Storers
<1>6. NoEmbeddingLost'
  BY <1>1, <1>2, <1>3 DEF StoresInv, NoEmbeddingLost, Storers
<1>7. l \notin Memories
  BY <1>2, MemAssumption
<1>8. Gone'
  BY <1>1, <1>2, <1>3, <1>7 DEF StoresInv, Gone, Storers
<1>9. QED
  BY <1>4, <1>5, <1>6, <1>8 DEF StoresInv

\* A retried embedding is written, or goes back to the queue.
LEMMA RetryItemKeeps == ASSUME StoresInv, NEW t \in Storers, RetryItem(t) PROVE StoresInv'
<1> DEFINE item == Head(storer[t].queue)
<1> DEFINE to == [storer[t] EXCEPT !.queue = Tail(storer[t].queue)]
<1>1. /\ storer[t].at = "store" /\ storer[t].queue # <<>>
      /\ storer' = [storer EXCEPT ![t] = to]
      /\ \/ vecRows' = vecRows \cup {item} /\ UNCHANGED pendingEmbed
         \/ pendingEmbed' = Append(pendingEmbed, item) /\ UNCHANGED vecRows
      /\ UNCHANGED <<hot, warmLog, sharedRows, ingest_batch, excused, forgotten>>
  BY DEF RetryItem, RetryHead
<1>2. StoreTypes /\ storer[t] \in Storing
  BY <1>1, StorerKinds DEF StoresInv, StoreTypes
<1>3. storer[t].queue \in Seq(Ids) /\ storer[t].id \in Ids
  BY <1>2 DEF Storing
<1>4. /\ item \in Ids /\ Tail(storer[t].queue) \in Seq(Ids)
      /\ ToSet(storer[t].queue) = {item} \cup ToSet(Tail(storer[t].queue))
  BY <1>1, <1>3, Elements
<1>5. /\ to \in Storing /\ to.at = "store" /\ to.id = storer[t].id
      /\ to.queue = Tail(storer[t].queue)
  BY <1>1, <1>2, <1>4 DEF Storing
<1>6. /\ pendingEmbed' \in Seq(Ids) /\ vecRows' \subseteq Ids /\ vecRows \subseteq vecRows'
      /\ item \in vecRows' \cup ToSet(pendingEmbed')
      /\ ToSet(pendingEmbed) \subseteq ToSet(pendingEmbed')
      /\ ToSet(pendingEmbed') \subseteq ToSet(pendingEmbed) \cup {item}
      /\ vecRows' \subseteq vecRows \cup {item}
  <2>1. pendingEmbed \in Seq(Ids) /\ vecRows \subseteq Ids
    BY <1>2 DEF StoreTypes
  <2>2. Append(pendingEmbed, item) \in Seq(Ids) /\ ToSet(Append(pendingEmbed, item)) = ToSet(pendingEmbed) \cup {item}
    BY <1>4, <2>1, Elements
  <2> HIDE DEF item
  <2>3. QED
    BY <1>1, <1>4, <2>1, <2>2
<1> HIDE DEF item, to
<1>7. /\ storer' \in [Storers -> {IdleStorer, Done} \cup Storing] /\ storer'[t] = to
      /\ \A s \in Storers \ {t} : storer'[s] = storer[s]
  BY <1>1, <1>2, <1>5 DEF StoreTypes
<1>8. InHands(t) = {item} \cup ToSet(to.queue) \cup {to.id} /\ InHands(t)' = ToSet(to.queue) \cup {to.id}
  BY <1>1, <1>4, <1>5, <1>7 DEF InHands
<1>9. (\A i \in InFlight : i \in InFlight' \cup vecRows') /\ InFlight' \subseteq InFlight /\ item \in InFlight
  BY <1>6, <1>7, <1>8, OneStorer, InFlightIs
<1>10. StoreTypes'
  BY <1>1, <1>2, <1>6, <1>7 DEF StoreTypes
<1>11. \A s \in Storers : storer'[s].at = storer[s].at /\ (storer[s].at = "store" => storer'[s].id = storer[s].id)
  BY <1>1, <1>5, <1>7
<1>12. Tracked'
  BY <1>1, <1>7, <1>11, <1>5, StorerKinds DEF StoresInv, Tracked, Storers
<1>13. NoEmbeddingLost'
  BY <1>1, <1>6, <1>9, <1>11 DEF StoresInv, NoEmbeddingLost, Storers
<1>14. Gone'
  BY <1>1, <1>6, <1>9, <1>11 DEF StoresInv, Gone, Storers
<1>15. QED
  BY <1>10, <1>12, <1>13, <1>14 DEF StoresInv

\* store() is done with its own id: it is in the index, in the queue, or excused.
LEMMA StoreOwnKeeps == ASSUME StoresInv, NEW t \in Storers, StoreOwn(t) PROVE StoresInv'
<1> DEFINE id == storer[t].id
<1> DEFINE to == IF t = "ingestor" THEN IdleStorer ELSE Done
<1>1. /\ storer[t].at = "store" /\ storer[t].queue = <<>>
      /\ storer' = [storer EXCEPT ![t] = to]
      /\ IF t = "ingestor"
         THEN /\ ingest_batch' = Tail(ingest_batch)
              /\ warmLog' = [warmLog EXCEPT ![Head(ingest_batch)] =
                    IF warmLog[Head(ingest_batch)] = "new" THEN "vectorized" ELSE warmLog[Head(ingest_batch)]]
         ELSE UNCHANGED <<ingest_batch, warmLog>>
      /\ \/ pendingEmbed' = Append(pendingEmbed, id) /\ UNCHANGED <<vecRows, excused>>
         \/ vecRows' = vecRows \cup {id} /\ UNCHANGED <<pendingEmbed, excused>>
         \/ excused' = excused \cup {id} /\ UNCHANGED <<vecRows, pendingEmbed>>
      /\ UNCHANGED <<hot, sharedRows, forgotten>>
  BY DEF StoreOwn, Return, ReturnWith, Done
<1>2. StoreTypes /\ storer[t] \in Storing /\ id \in Ids
  BY <1>1, StorerKinds DEF StoresInv, StoreTypes
<1>3. /\ pendingEmbed' \in Seq(Ids) /\ vecRows' \subseteq Ids
      /\ vecRows \cup excused \subseteq vecRows' \cup excused'
      /\ id \in vecRows' \cup ToSet(pendingEmbed') \cup excused'
      /\ ToSet(pendingEmbed) \subseteq ToSet(pendingEmbed')
      /\ ToSet(pendingEmbed') \subseteq ToSet(pendingEmbed) \cup {id}
      /\ vecRows' \subseteq vecRows \cup {id}
  <2>1. pendingEmbed \in Seq(Ids) /\ vecRows \subseteq Ids
    BY <1>2 DEF StoreTypes
  <2>2. Append(pendingEmbed, id) \in Seq(Ids) /\ ToSet(Append(pendingEmbed, id)) = ToSet(pendingEmbed) \cup {id}
    BY <1>2, <2>1, Elements
  <2> HIDE DEF id
  <2>3. QED
    BY <1>1, <1>2, <2>1, <2>2
<1>4. InHands(t) = {id}
  BY <1>1, Elements DEF InHands
<1>5. to \in {IdleStorer, Done} /\ to.at # "store" /\ (t \in Memories => to = Done) /\ (t = "ingestor" => to = IdleStorer)
  BY MemAssumption, StorerKinds
<1> HIDE DEF id, to
<1>6. /\ storer' \in [Storers -> {IdleStorer, Done} \cup Storing] /\ storer'[t] = to
      /\ \A s \in Storers \ {t} : storer'[s] = storer[s]
  BY <1>1, <1>2, <1>5 DEF StoreTypes
<1>7. InHands(t)' = {}
  BY <1>5, <1>6 DEF InHands
<1>8. /\ \A i \in InFlight : i \in InFlight' \cup vecRows' \cup excused'
      /\ InFlight' \subseteq InFlight /\ id \in InFlight
  BY <1>3, <1>4, <1>6, <1>7, OneStorer, InFlightIs
<1>9. CASE t = "ingestor"
  <2>1. /\ ingest_batch # <<>> /\ id = Head(ingest_batch) /\ ingest_batch \in Seq(Logs)
        /\ warmLog \in [Logs -> {"none", "new", "vectorized", "pruned"}] /\ "ingestor" \notin Memories
    BY <1>1, <1>2, <1>9, MemAssumption DEF StoresInv, Tracked, StoreTypes, id
  <2>2. id \in Logs /\ Tail(ingest_batch) \in Seq(Logs)
    BY <2>1
  <2>3. /\ warmLog' \in [Logs -> {"none", "new", "vectorized", "pruned"}]
        /\ \A l \in Logs : warmLog'[l] = "vectorized" => warmLog[l] = "vectorized" \/ l = id
    <3>1. PICK mark \in {"none", "new", "vectorized", "pruned"} : warmLog' = [warmLog EXCEPT ![id] = mark]
      BY <1>1, <1>9, <2>1, <2>2
    <3>2. QED
      BY <2>1, <2>2, <3>1
  <2>4. StoreTypes'
    BY <1>1, <1>2, <1>3, <1>6, <1>9, <2>2, <2>3 DEF StoreTypes
  <2>5. Tracked'
    BY <1>1, <1>5, <1>6, <1>9, <2>1, StorerKinds DEF StoresInv, Tracked, Storers
  <2>6. NoEmbeddingLost'
    <3>1. \A m \in Memories : storer'[m] = storer[m]
      BY <1>6, <1>9, <2>1 DEF Storers
    <3>2. id \in vecRows' \cup InFlight' \cup excused'
      BY <1>8
    <3>3. QED
      BY <1>3, <1>8, <2>3, <3>1, <3>2 DEF StoresInv, NoEmbeddingLost
  <2>7. Gone'
    BY <1>1, <1>3, <1>6, <1>8, <1>9, <2>1 DEF StoresInv, Gone, Storers
  <2>8. QED
    BY <2>4, <2>5, <2>6, <2>7 DEF StoresInv
<1>10. CASE t \in Memories
  <2>1. t # "ingestor" /\ UNCHANGED <<ingest_batch, warmLog>> /\ id = t
    BY <1>1, <1>10, MemAssumption DEF StoresInv, Tracked, id
  <2>2. StoreTypes'
    BY <1>1, <1>2, <1>3, <1>6, <2>1 DEF StoreTypes
  <2>3. Tracked'
    BY <1>1, <1>5, <1>6, <1>10, <2>1, StorerKinds DEF StoresInv, Tracked, Storers
  <2>4. NoEmbeddingLost'
    <3>1. \A m \in Memories : storer'[m].at = "done" => storer[m].at = "done" \/ m = id
      BY <1>6, <2>1 DEF Storers
    <3>2. id \in vecRows' \cup InFlight' \cup excused'
      BY <1>8
    <3>3. QED
      BY <1>3, <1>8, <2>1, <3>1, <3>2 DEF StoresInv, NoEmbeddingLost
  <2>5. \A m \in Memories : storer[m].at # "idle" => storer'[m].at # "idle"
    BY <1>5, <1>6, <1>10, StorerKinds DEF Storers
  <2>6. Gone'
    BY <1>1, <1>3, <1>8, <2>5 DEF StoresInv, Gone
  <2>7. QED
    BY <2>2, <2>3, <2>4, <2>6 DEF StoresInv
<1>11. QED
  BY <1>9, <1>10 DEF Storers

\* The log is in the index though its mark failed.
LEMMA MarkFailsKeeps == ASSUME StoresInv, MarkFails PROVE StoresInv'
<1> DEFINE id == storer["ingestor"].id
<1>1. /\ storer["ingestor"].at = "store" /\ storer["ingestor"].queue = <<>>
      /\ storer' = [storer EXCEPT !["ingestor"] = IdleStorer]
      /\ ingest_batch' = Tail(ingest_batch) /\ vecRows' = vecRows \cup {id}
      /\ UNCHANGED <<hot, warmLog, sharedRows, pendingEmbed, excused, forgotten>>
  BY DEF MarkFails
<1>2. /\ "ingestor" \in Storers /\ "ingestor" \notin Memories /\ StoreTypes
      /\ ingest_batch \in Seq(Logs) /\ ingest_batch # <<>> /\ id = Head(ingest_batch)
  BY <1>1, MemAssumption DEF Storers, StoresInv, StoreTypes, Tracked
<1>3. id \in Logs /\ id \in Ids /\ id \notin Memories /\ Tail(ingest_batch) \in Seq(Logs)
  BY <1>2, MemAssumption DEF Ids
<1> HIDE DEF id
<1>4. /\ storer' \in [Storers -> {IdleStorer, Done} \cup Storing] /\ storer'["ingestor"] = IdleStorer
      /\ \A s \in Storers \ {"ingestor"} : storer'[s] = storer[s]
  BY <1>1, <1>2 DEF StoreTypes
<1>5. InHands("ingestor") = {id} /\ InHands("ingestor")' = {}
  BY <1>1, <1>4, Elements, StorerKinds DEF InHands, id
<1>6. (\A i \in InFlight : i \in InFlight' \/ i = id) /\ InFlight' \subseteq InFlight
  BY <1>1, <1>2, <1>4, <1>5, OneStorer, InFlightIs
<1>7. StoreTypes'
  BY <1>1, <1>2, <1>3, <1>4 DEF StoreTypes
<1>8. Tracked'
  BY <1>2, <1>4, StorerKinds DEF StoresInv, Tracked, Storers
<1>9. \A m \in Memories : storer'[m] = storer[m]
  BY <1>2, <1>4 DEF Storers
<1>10. NoEmbeddingLost'
  BY <1>1, <1>6, <1>9 DEF StoresInv, NoEmbeddingLost
<1>11. Gone'
  BY <1>1, <1>3, <1>6, <1>9 DEF StoresInv, Gone
<1>12. QED
  BY <1>7, <1>8, <1>10, <1>11 DEF StoresInv

\* forget(): the memory counts as forgotten when nobody has its embedding any more.
LEMMA ForgetKeeps ==
    ASSUME StoresInv, NEW agent, NEW m \in Memories, Forget(agent, m) PROVE StoresInv'
<1>1. /\ storer[m].at # "idle"
      /\ sharedRows' = IF OwnerOf[m] = agent THEN sharedRows \ {m} ELSE sharedRows
      /\ vecRows' = vecRows \ {m} /\ excused' = excused \cup {m}
      /\ forgotten' = IF OwnerOf[m] = agent /\ m \notin InFlight THEN forgotten \cup {m} ELSE forgotten
      /\ UNCHANGED <<hot, warmLog, pendingEmbed, storer, ingest_batch, memFaults>>
  BY DEF Forget, DeleteRows
<1>2. InFlight' = InFlight
  BY <1>1 DEF InFlight
<1>3. StoreTypes' /\ Tracked'
  BY <1>1 DEF StoresInv, StoreTypes, Tracked
<1>4. NoEmbeddingLost'
  BY <1>1, <1>2 DEF StoresInv, NoEmbeddingLost
<1>5. Gone'
  BY <1>1, <1>2 DEF StoresInv, Gone
<1>6. QED
  BY <1>3, <1>4, <1>5 DEF StoresInv

\* The process ends: what was in flight is excused.
LEMMA MemCrashKeeps == ASSUME StoresInv, MemCrash PROVE StoresInv'
<1>1. /\ excused' = excused \cup InFlight /\ pendingEmbed' = <<>> /\ ingest_batch' = <<>>
      /\ storer' = [t \in Storers |-> IF storer[t].at = "store" /\ t # "ingestor" THEN Done
                                      ELSE IF t = "ingestor" THEN IdleStorer ELSE storer[t]]
      /\ UNCHANGED <<hot, warmLog, sharedRows, vecRows, forgotten>>
  BY DEF MemCrash, Done
<1>2. /\ "ingestor" \in Storers /\ "ingestor" \notin Memories /\ StoreTypes
      /\ storer \in [Storers -> {IdleStorer, Done} \cup Storing]
  BY MemAssumption DEF Storers, StoresInv, StoreTypes
<1>3. \A t \in Storers : storer'[t].at # "store" /\ storer'[t] \in {IdleStorer, Done}
  BY <1>1, <1>2, StorerKinds
<1>4. storer' \in [Storers -> {IdleStorer, Done} \cup Storing]
  BY <1>1, <1>2
<1>5. InFlight' = {}
  BY <1>1, <1>3, Elements DEF InFlight
<1>6. \A m \in Memories : /\ storer'[m].at = "done" => storer[m].at = "done" \/ m \in InFlight
                          /\ storer[m].at # "idle" => storer'[m].at # "idle"
  <2> SUFFICES ASSUME NEW m \in Memories
               PROVE  /\ storer'[m].at = "done" => storer[m].at = "done" \/ m \in InFlight
                      /\ storer[m].at # "idle" => storer'[m].at # "idle"
    OBVIOUS
  <2>1. m \in Storers /\ m # "ingestor"
    BY <1>2 DEF Storers
  <2>2. CASE storer[m].at = "store"
    <3>1. m \in InHands(m)
      BY <2>2 DEF StoresInv, Tracked, InHands
    <3>2. QED
      BY <1>1, <2>1, <2>2, <3>1, InFlightIs, StorerKinds
  <2>3. CASE storer[m].at # "store"
    BY <1>1, <2>1, <2>3
  <2>4. QED
    BY <2>2, <2>3
<1>7. StoreTypes'
  BY <1>1, <1>2, <1>4 DEF StoreTypes
<1>8. Tracked'
  BY <1>1, <1>2, <1>3, StorerKinds DEF Tracked, Storers
<1>9. NoEmbeddingLost'
  BY <1>1, <1>6 DEF StoresInv, NoEmbeddingLost
<1>10. Gone'
  BY <1>1, <1>5, <1>6 DEF StoresInv, Gone
<1>11. QED
  BY <1>7, <1>8, <1>9, <1>10 DEF StoresInv

\* An entry is appended to hot memory where it fits; a note only if it is not there yet.
LEMMA Appending ==
    ASSUME HotInv, NEW e \in Logs \cup {"sync", "week"}, AppendHot(e),
           e \in Logs \/ e \notin ToSet(hot)
    PROVE  HotInv'
<1>1. /\ hot \in Seq(Logs \cup {"sync", "week"}) /\ Len(hot) <= HotMax /\ HotMax \in Nat
      /\ hot' = IF Len(hot) < HotMax THEN Append(hot, e) ELSE hot
  BY MemAssumption DEF HotInv, AppendHot
<1>2. CASE hot' = hot
  BY <1>2 DEF HotInv
<1>3. CASE Len(hot) < HotMax
  <2>1. /\ hot' \in Seq(Logs \cup {"sync", "week"}) /\ Len(hot') = Len(hot) + 1 /\ Len(hot) \in Nat
        /\ DOMAIN hot' = 1..(Len(hot) + 1) /\ hot'[Len(hot) + 1] = e /\ DOMAIN hot = 1..Len(hot)
        /\ \A i \in 1..Len(hot) : hot'[i] = hot[i]
    BY <1>1, <1>3
  <2>2. Len(hot') <= HotMax
    BY <1>1, <1>3, <2>1
  <2>3. ASSUME NEW i \in DOMAIN hot, hot[i] \in {"sync", "week"} PROVE hot[i] # e
    BY <2>3, MemAssumption DEF ToSet
  <2>4. \A i \in DOMAIN hot' : i \in DOMAIN hot \/ i = Len(hot) + 1
    BY <2>1
  <2>5. ASSUME NEW i \in DOMAIN hot', NEW j \in DOMAIN hot', hot'[i] \in {"sync", "week"}, hot'[i] = hot'[j]
        PROVE  i = j
    BY <2>1, <2>3, <2>4, <2>5 DEF HotInv
  <2>6. QED
    BY <2>1, <2>2, <2>5 DEF HotInv
<1>4. QED
  BY <1>1, <1>2, <1>3

\* Every step keeps hot memory in bounds.
LEMMA HotKeeps == HotInv /\ [MemNext]_memVars => HotInv'
<1> SUFFICES ASSUME HotInv, [MemNext]_memVars PROVE HotInv'
  OBVIOUS
<1>1. CASE UNCHANGED hot
  BY <1>1 DEF HotInv
<1>2. ASSUME NEW note \in {"sync", "week"}, AddNote(note) PROVE HotInv'
  <2>1. CASE note \in ToSet(hot)
    BY <1>1, <1>2, <2>1 DEF AddNote
  <2>2. CASE note \notin ToSet(hot)
    BY <1>2, <2>2, Appending DEF AddNote
  <2>3. QED
    BY <2>1, <2>2
<1>3. ASSUME NEW l \in Logs, AppendWarmLog(l) PROVE HotInv'
  BY <1>1, <1>3, Appending DEF AppendWarmLog
<1>4. CASE MicroSync \/ WeeklyCompound
  BY <1>2, <1>4 DEF MicroSync, WeeklyCompound
<1>5. CASE UNCHANGED memVars
  BY <1>1, <1>5 DEF memVars
<1>6. ASSUME NEW t, RetryItem(t) \/ StoreOwn(t) PROVE HotInv'
  BY <1>1, <1>6 DEF RetryItem, RetryHead, StoreOwn
<1>7. CASE IngestorStep
  BY <1>1, <1>6, <1>7 DEF IngestorStep, ReadBatch, IngestNext, MarkFails
<1>8. CASE \/ MemCrash \/ \E m \in Memories : Remember(m)
           \/ \E agent \in Agents, m \in Memories : Forget(agent, m)
  BY <1>1, <1>8 DEF MemCrash, Remember, Forget, DeleteRows
<1>9. QED
  BY <1>3, <1>4, <1>5, <1>6, <1>7, <1>8 DEF MemNext

\* Every step keeps track of every embedding.
LEMMA StoresKeep == StoresInv /\ [MemNext]_memVars => StoresInv'
<1> SUFFICES ASSUME StoresInv, [MemNext]_memVars PROVE StoresInv'
  OBVIOUS
<1>1. ASSUME UNCHANGED <<sharedRows, vecRows, pendingEmbed, storer, excused, forgotten>>,
             ingest_batch' \in Seq(Logs),
             ingest_batch' = ingest_batch \/ storer["ingestor"].at # "store",
             warmLog' \in [Logs -> {"none", "new", "vectorized", "pruned"}],
             \A l \in Logs : warmLog'[l] = "vectorized" => warmLog[l] = "vectorized"
      PROVE  StoresInv'
  <2>1. InFlight' = InFlight
    BY <1>1 DEF InFlight
  <2>2. StoreTypes' /\ Tracked'
    BY <1>1 DEF StoresInv, StoreTypes, Tracked
  <2>3. NoEmbeddingLost' /\ Gone'
    BY <1>1, <2>1 DEF StoresInv, NoEmbeddingLost, Gone
  <2>4. QED
    BY <2>2, <2>3 DEF StoresInv
<1>2. /\ ingest_batch \in Seq(Logs)
      /\ warmLog \in [Logs -> {"none", "new", "vectorized", "pruned"}]
  BY DEF StoresInv, StoreTypes
<1>3. ASSUME NEW l \in Logs, AppendWarmLog(l) PROVE StoresInv'
  <2>1. /\ UNCHANGED <<sharedRows, vecRows, pendingEmbed, storer, ingest_batch, excused, forgotten>>
        /\ warmLog' = [warmLog EXCEPT ![l] = "new"]
    BY <1>3 DEF AppendWarmLog
  <2>2. QED
    BY <1>1, <1>2, <2>1
<1>4. CASE MicroSync
  BY <1>1, <1>2, <1>4 DEF MicroSync
<1>5. CASE WeeklyCompound
  <2>1. UNCHANGED <<sharedRows, vecRows, pendingEmbed, storer, ingest_batch, excused, forgotten>>
    BY <1>5 DEF WeeklyCompound
  <2>2. PICK before : warmLog' = [l \in Logs |-> IF l \in before THEN "pruned" ELSE warmLog[l]]
    BY <1>5 DEF WeeklyCompound
  <2>3. QED
    BY <1>1, <1>2, <2>1, <2>2
<1>6. CASE ReadBatch
  <2>1. /\ UNCHANGED <<warmLog, sharedRows, vecRows, pendingEmbed, storer, excused, forgotten>>
        /\ storer["ingestor"] = IdleStorer
        /\ \E taken \in SUBSET Logs : ingest_batch' = SetToSeq(taken)
    BY <1>6 DEF ReadBatch
  <2>2. ingest_batch' \in Seq(Logs)
    BY <2>1, BatchOf
  <2>3. QED
    BY <1>1, <1>2, <2>1, <2>2, StorerKinds
<1>7. CASE UNCHANGED memVars
  BY <1>1, <1>2, <1>7 DEF memVars
<1>8. ASSUME NEW t \in Storers, RetryItem(t) \/ StoreOwn(t) PROVE StoresInv'
  BY <1>8, RetryItemKeeps, StoreOwnKeeps
<1>9. "ingestor" \in Storers /\ \A m \in Memories : m \in Storers
  BY DEF Storers
<1>10. QED
  BY <1>3, <1>4, <1>5, <1>6, <1>7, <1>8, <1>9, IngestNextKeeps, MarkFailsKeeps, RememberKeeps,
     MemCrashKeeps, ForgetKeeps DEF MemNext, IngestorStep

\* Any memories, logs, agents, batches, failing embeddings, SQLite errors and crashes, in any
\* interleaving of the coroutines of store(): hot memory stays in bounds with each note once,
\* what was handed to the vector store is in the index, in flight or lost for a known reason,
\* and recall() gives an agent nothing of another's private memories or of what its owner has
\* forgotten.
THEOREM MemoryStaysSound == MemSpec => []MemorySound
<1>1. MemInit => HotInv
  BY MemAssumption DEF MemInit, HotInv
<1>2. MemInit => StoresInv
  <2> SUFFICES ASSUME MemInit PROVE StoresInv
    OBVIOUS
  <2>1. /\ warmLog = [l \in Logs |-> "none"] /\ sharedRows = {} /\ vecRows = {}
        /\ pendingEmbed = <<>> /\ ingest_batch = <<>> /\ forgotten = {}
        /\ storer = [t \in Storers |-> IdleStorer]
    BY DEF MemInit
  <2>2. \A t \in Storers : storer[t] = IdleStorer
    BY <2>1
  <2>3. "ingestor" \in Storers /\ \A m \in Memories : m \in Storers
    BY DEF Storers
  <2>4. StoreTypes /\ Tracked
    BY <2>1, <2>2, <2>3, StorerKinds DEF StoreTypes, Tracked
  <2>5. NoEmbeddingLost /\ Gone
    BY <2>1, <2>2, <2>3, StorerKinds DEF NoEmbeddingLost, Gone
  <2>6. QED
    BY <2>4, <2>5 DEF StoresInv
<1>3. HotInv /\ StoresInv => MemTypeOK
  <2> SUFFICES ASSUME HotInv, StoresInv PROVE MemTypeOK
    OBVIOUS
  <2>1. ToSet(hot) \subseteq Logs \cup {"sync", "week"}
    BY Elements DEF HotInv
  <2>2. ToSet(pendingEmbed) \subseteq Ids /\ ToSet(ingest_batch) \subseteq Logs
    BY Elements DEF StoresInv, StoreTypes
  <2>3. QED
    BY <2>1, <2>2 DEF MemTypeOK, HotInv, StoresInv, StoreTypes, Ids
<1>4. StoresInv => RecallSound
  BY DEF StoresInv, Gone, RecallSound, Recall, VectorSearch, SharedSearch, Readable
<1>5. HotInv /\ StoresInv => MemorySound
  BY <1>3, <1>4 DEF MemorySound, StoresInv
<1>6. QED
  BY <1>1, <1>2, <1>5, HotKeeps, StoresKeep, PTL DEF MemSpec

-----------------------------------------------------------------------------
(* The IPC watcher. *)

JobStates == {"none", "created", "running", "abandoned", "done", "lost"}

IpcTypes ==
    /\ DOMAIN plan \subseteq Requests /\ \A r \in DOMAIN plan : plan[r] \in Request
    /\ registered \subseteq Folders /\ loaded \subseteq registered
    /\ watched \subseteq registered /\ events \subseteq registered
    /\ todo \in (SUBSET registered) \X (SUBSET registered)
    /\ watch_backend \in {None, "inotify", "polling", "closed"}
    /\ tasks \in [Requests -> {"none", "active", "paused", "cancelled"}]
    /\ jobs \in [Requests -> JobStates]
    /\ client \in [Requests -> {"idle", "waiting", "done", "answered", "timed_out"}]
    /\ old \subseteq results
    /\ crashes \in Nat

\* A request is written once; its file is in its directory, or set aside, or gone.  An alert
\* file stands for a rejected one.
FilesInv ==
    /\ written \in Seq(DOMAIN plan)
    /\ \A i, j \in DOMAIN written : written[i] = written[j] => i = j
    /\ files \subseteq ToSet(written) /\ rejected \subseteq ToSet(written)
    /\ files \cap rejected = {}
    /\ IsFiniteSet(files) /\ IsFiniteSet(rejected)
    /\ alerts \in Nat /\ alerts <= Cardinality(rejected)

\* What a batch of directory d of folder f holds: files of that directory, each once, then
\* alerts, no more than there are; and a file that is not ahead of one of them in the batch
\* was written after it.
Orderly(b, f, d) ==
    /\ b \in Seq(files \cup {Alert})
    /\ \A i \in DOMAIN b : /\ b[i] = Alert => Len(b) - i < alerts
                           /\ b[i] # Alert => InDir(b[i], f, d)
    /\ \A i, j \in DOMAIN b : i < j /\ b[i] # Alert => b[i] # b[j]
    /\ \A i \in DOMAIN b : \A q \in files :
          (/\ InDir(q, f, d) /\ ~LateName(q)
           /\ b[i] # Alert /\ ~LateName(b[i])
           /\ \A j \in 1 .. i : b[j] # q) => Earlier(b[i], q)

Handling(r) == pc = "unlink" /\ Head(batch) = r

BatchInv ==
    /\ pc \in {"start", "read", "scan", "files", "unlink"}
    /\ pc = "unlink" => batch # <<>>
    /\ at[1] \in Folders /\ at[2] \in 1 .. 2 /\ at = <<at[1], at[2]>>
    /\ Orderly(batch, at[1], Subdirs[at[2]])

\* The handler ran for a request as often as processes ended before the unlink, and once
\* more when the file is gone or about to be.
OnceInv ==
    /\ handled \in [Requests -> Nat]
    /\ \A r \in Requests :
          /\ handled[r] <= crashes + 1
          /\ r \in files /\ ~Handling(r) => handled[r] <= crashes
          /\ r \notin ToSet(written) => handled[r] = 0

AtSkill(r, state) == r \in DOMAIN plan /\ plan[r].kind \in SkillKinds /\ jobs[r] = state
AtDev(r) == r \in DOMAIN plan /\ plan[r].kind = "dev_task" /\ jobs[r] = "running"
GivenUp == {r \in DOMAIN plan : AtSkill(r, "abandoned")}

\* A job is created by the handler of its request, whose file goes next; the lock and the
\* set of active groups say which jobs run.
JobsInv ==
    /\ \A r \in Requests :
          /\ jobs[r] # "none" => r \in ToSet(written)
          /\ r \in files => jobs[r] \in {"none", "lost"} \/ (jobs[r] = "created" /\ Handling(r))
          /\ jobs[r] = "abandoned" => plan[r].kind \in SkillKinds
          /\ jobs[r] # "none" => plan[r].kind \in JobKinds
    /\ skills_lock = {r \in DOMAIN plan : AtSkill(r, "running")}
    /\ \A r, q \in skills_lock : r = q
    /\ \A r, q \in DOMAIN plan : AtDev(r) /\ AtDev(q) /\ plan[r].from = plan[q].from => r = q
    /\ \A f \in Folders : f \in dev_task_active <=> \E r \in DOMAIN plan : AtDev(r) /\ plan[r].from = f
    /\ IsFiniteSet(GivenUp) /\ timeouts \in Nat /\ Cardinality(GivenUp) <= timeouts

IpcInv == IpcTypes /\ FilesInv /\ BatchInv /\ OnceInv /\ JobsInv

\* The members of a sequence are its elements.
LEMMA Members == ASSUME NEW s PROVE ToSet(s) = {s[i] : i \in DOMAIN s}
  BY DEF ToSet

\* What has a file is one of the planned requests, and no alert.
LEMMA Planned ==
    ASSUME IpcTypes, FilesInv
    PROVE  /\ ToSet(written) \subseteq DOMAIN plan
           /\ files \subseteq DOMAIN plan /\ Alert \notin files
           /\ \A r \in files : plan[r] \in Request /\ r \in Requests
<1>1. \A i \in DOMAIN written : written[i] \in DOMAIN plan
  BY DEF FilesInv
<1>2. ToSet(written) \subseteq DOMAIN plan
  BY <1>1, Members
<1>3. QED
  BY <1>2, AlertAssumption DEF IpcTypes, FilesInv

\* A function on 1 .. n is a sequence of length n.
LEMMA Counted ==
    ASSUME NEW S, NEW n \in Nat, NEW t \in [1..n -> S]
    PROVE  t \in Seq(S) /\ Len(t) = n /\ DOMAIN t = 1..n
  OBVIOUS

\* process_ipc_dir: what it takes from the sorted listing of a directory is an orderly batch.
LEMMA Listed ==
    ASSUME IpcTypes, FilesInv, NEW f \in Folders, NEW d, NEW s \in SortedDir(f, d)
    PROVE  Orderly(FilesToProcess(s), f, d)
<1> DEFINE here == {r \in files : InDir(r, f, d)}
           n == Cardinality(here)
           late == IF f = MainFolder /\ d = "messages" THEN [i \in 1..alerts |-> Alert] ELSE <<>>
           b == FilesToProcess(s)
<1>1. IsFiniteSet(here) /\ n \in Nat
  BY FS_Subset, FS_CardinalityType DEF FilesInv
<1>2. PICK t \in Surjection(1..n, here) :
        s = t \o late /\ \A i, j \in DOMAIN t : i < j => NameBefore(t[i], t[j])
  BY DEF SortedDir
<1>3. t \in [1..n -> here] /\ \A q \in here : \E i \in 1..n : t[i] = q
  BY <1>2 DEF Surjection
<1>5. late \in Seq({Alert}) /\ Len(late) <= alerts /\ Len(late) \in Nat
  <2>1. alerts \in Nat
    BY DEF FilesInv
  <2>2. QED
    BY <2>1, Counted DEF late
<1>a. here \subseteq files
  OBVIOUS
<1> HIDE DEF b, late, n, here
<1>4. t \in Seq(here) /\ Len(t) = n /\ DOMAIN t = 1..n
  BY <1>1, <1>3, Counted
<1>6. s \in Seq(files \cup {Alert}) /\ Len(s) = n + Len(late)
  <2>1. t \in Seq(files \cup {Alert}) /\ late \in Seq(files \cup {Alert})
    BY <1>4, <1>5, <1>a
  <2>2. s = t \o late
    BY <1>2
  <2>3. t \o late \in Seq(files \cup {Alert}) /\ Len(t \o late) = Len(t) + Len(late)
    BY <2>1
  <2>4. QED
    BY <1>4, <2>2, <2>3
<1>7. \A i \in DOMAIN s : IF i <= n THEN s[i] = t[i] /\ s[i] \in here ELSE s[i] = Alert
  BY <1>1, <1>2, <1>3, <1>4, <1>5
<1>8. PICK k \in Nat : k <= Len(s) /\ b = SubSeq(s, 1, k)
  <2>1. CASE _IPC_MAX_FILES_PER_CYCLE > 0 /\ Len(s) > _IPC_MAX_FILES_PER_CYCLE
    BY <1>6, <2>1, CapAssumption DEF FilesToProcess, b
  <2>2. CASE ~(_IPC_MAX_FILES_PER_CYCLE > 0 /\ Len(s) > _IPC_MAX_FILES_PER_CYCLE)
    <3>1. b = s
      BY <2>2 DEF FilesToProcess, b
    <3>2. s = SubSeq(s, 1, Len(s)) /\ Len(s) \in Nat
      BY <1>6
    <3>3. QED
      BY <1>6, <3>1, <3>2
  <2>3. QED
    BY <2>1, <2>2
<1>9. b \in Seq(files \cup {Alert}) /\ Len(b) = k /\ \A i \in 1..k : b[i] = s[i]
  BY <1>6, <1>8
<1>10. Alert \notin files
  BY Planned
<1>11. \A i \in DOMAIN b : /\ i \in DOMAIN s /\ (b[i] # Alert <=> i <= n)
                           /\ b[i] # Alert => i \in 1..n /\ b[i] = t[i] /\ b[i] \in here
  <2> TAKE i \in DOMAIN b
  <2>1. i \in 1..k /\ i \in DOMAIN s /\ b[i] = s[i]
    BY <1>6, <1>8, <1>9
  <2>2. i \in Nat /\ i >= 1
    BY <1>8, <2>1
  <2>3. CASE i <= n
    BY <1>1, <1>7, <1>10, <1>a, <2>1, <2>2, <2>3
  <2>4. CASE ~(i <= n)
    BY <1>1, <1>7, <2>1, <2>2, <2>4
  <2>5. QED
    BY <2>3, <2>4
<1>12. ASSUME NEW i \in DOMAIN b
       PROVE  /\ b[i] = Alert => Len(b) - i < alerts
              /\ b[i] # Alert => InDir(b[i], f, d)
  BY <1>1, <1>5, <1>6, <1>8, <1>9, <1>11 DEF FilesInv, here
<1>13. \A r : ~NameBefore(r, r)
  BY DEF NameBefore, Earlier, FilesInv
<1>14. ASSUME NEW i \in DOMAIN b, NEW j \in DOMAIN b, i < j, b[i] # Alert PROVE b[i] # b[j]
  <2>1. CASE b[j] = Alert
    BY <2>1, <1>14
  <2>2. CASE b[j] # Alert
    <3>1. i \in DOMAIN t /\ j \in DOMAIN t /\ b[i] = t[i] /\ b[j] = t[j]
      BY <1>4, <1>11, <1>14, <2>2
    <3>2. NameBefore(b[i], b[j])
      BY <1>2, <1>14, <3>1
    <3>3. QED
      BY <1>13, <3>2
  <2>3. QED
    BY <2>1, <2>2
<1>15. ASSUME NEW i \in DOMAIN b, NEW q \in files,
              InDir(q, f, d), ~LateName(q), b[i] # Alert, ~LateName(b[i]),
              \A j \in 1 .. i : b[j] # q
       PROVE  Earlier(b[i], q)
  <2>1. PICK k1 \in 1..n : t[k1] = q
    BY <1>3, <1>15 DEF here
  <2>2. i \in 1..n /\ b[i] = t[i] /\ i \in 1..k
    BY <1>8, <1>9, <1>11, <1>15
  <2>3. ASSUME k1 <= i PROVE FALSE
    <3>1. k1 \in 1..i /\ k1 \in DOMAIN b
      BY <1>1, <1>9, <2>1, <2>2, <2>3
    <3>2. b[k1] = t[k1]
      BY <1>11, <1>9, <1>1, <3>1, <2>1
    <3>3. QED
      BY <1>15, <2>1, <3>1, <3>2
  <2>4. i < k1 /\ i \in DOMAIN t /\ k1 \in DOMAIN t
    BY <1>1, <1>4, <2>1, <2>2, <2>3
  <2>5. NameBefore(t[i], q)
    BY <1>2, <2>1, <2>4
  <2>6. QED
    BY <1>15, <2>2, <2>5 DEF NameBefore
<1>16. QED
  BY <1>9, <1>12, <1>14, <1>15 DEF Orderly, b

-----------------------------------------------------------------------------
(* Which part of the state a step of the IPC may touch. *)

\* The watcher's own bookkeeping, and the clean-up of old answers.
Bookkeeping ==
    /\ pc \notin {"files", "unlink"} /\ pc' \in {"start", "read", "scan"}
    /\ UNCHANGED <<fileVars, jobVars, groupVars, flagVars, crashes, batch, at, client>>

\* The tools and the flags of main.py, beside files, batches and jobs.
Besides ==
    UNCHANGED <<watcherVars, fileVars, jobVars, plan, registered, tasks, restart_flag, crashes>>

\* A new process after a crash or a requested restart.
Anew == crashes' = crashes + 1 /\ HostStarts

AJob == Yielded /\ \E r \in Requests : JobStep(r) \/ SkillTimeout(r)

\* The steps of the watcher by what they may change.
LEMMA StepKinds ==
    ASSUME IpcNext
    PROVE  \/ Bookkeeping \/ Besides \/ AJob \/ Anew
           \/ \E r \in Requests : WriteIpcFile(r)
           \/ \E f \in Folders : ProcessIpcDir(f)
           \/ NextDir \/ SkipFile \/ FailFile \/ HandleFile \/ HandleAlert \/ UnlinkFile
<1>1. ASSUME StartInotify \/ StartPolling \/ PollGroups \/ ReadEvents \/ RefreshWatches
             \/ ScanDone \/ WatchLimit \/ CleanupStaleResults
      PROVE  Bookkeeping
  BY <1>1 DEF StartInotify, StartPolling, PollGroups, ReadEvents, RefreshWatches, RefreshAndScan,
     ScanDone, WatchLimit, CleanupStaleResults, CleanupIn, Bookkeeping, watcherVars, fileVars, jobVars,
     groupVars, flagVars, answerVars
<1>2. ReadError => Bookkeeping
  BY DEF ReadError, Bookkeeping, ipcVars, watcherVars, answerVars
<1>3. ASSUME NEW r \in Requests, ReadResult(r) \/ GiveUp(r) \/ Age(r) PROVE Besides
  BY <1>3 DEF ReadResult, GiveUp, Age, Besides, groupVars, flagVars
<1>4. ReloadGroups \/ ReadResetFlag \/ ResetGroup => Besides
  BY DEF ReloadGroups, ReadResetFlag, ResetGroup, Besides, groupVars, flagVars
<1>5. Crash \/ RestartHost => Anew
  BY DEF Crash, RestartHost, Anew
<1>6. QED
  BY <1>1, <1>2, <1>3, <1>4, <1>5 DEF IpcNext, WatcherStep, AJob

\* A job touches neither files nor batches nor groups.
LEMMA JobsApart == ASSUME AJob PROVE UNCHANGED <<watcherVars, fileVars, groupVars, old, client, crashes>>
  BY DEF AJob, JobStep, RunSkill, StartSkill, SkillDone, AbandonedThreadEnds, RunDevTask, DevTaskDone,
     RunSubagent, SubagentDone, AnswerQuery, RunMemory, SendFile, WriteRestartFlag, SkillTimeout,
     FinishJob, answerVars

-----------------------------------------------------------------------------
(* The batches. *)

\* The tail of a non-empty sequence, element by element.
LEMMA Tails ==
    ASSUME NEW S, NEW s \in Seq(S), s # <<>>
    PROVE  /\ Tail(s) \in Seq(S) /\ Len(Tail(s)) = Len(s) - 1 /\ Len(s) \in Nat /\ Len(s) > 0
           /\ Head(s) = s[1] /\ 1 \in DOMAIN s /\ s[1] \in S
           /\ \A i \in DOMAIN Tail(s) : i \in DOMAIN s /\ i + 1 \in DOMAIN s /\ Tail(s)[i] = s[i + 1]
  OBVIOUS

\* A sequence is one over any set that holds its elements.
LEMMA Retyped ==
    ASSUME NEW S, NEW T, NEW s \in Seq(S), \A i \in DOMAIN s : s[i] \in T PROVE s \in Seq(T)
  OBVIOUS

\* What was in order stays so while the files only grow older.
LEMMA OrderlySame ==
    ASSUME BatchInv, alerts \in Nat, alerts' \in Nat, alerts <= alerts',
           UNCHANGED <<plan, written, files, batch, at>>
    PROVE  Orderly(batch, at[1], Subdirs[at[2]])'
<1>1. \A q : LateName(q)' <=> LateName(q)
  BY DEF LateName
<1>2. \A q : InDir(q, at[1], Subdirs[at[2]])' <=> InDir(q, at[1], Subdirs[at[2]])
  BY DEF InDir, SubdirOf
<1>3. \A r, q : Earlier(r, q)' <=> Earlier(r, q)
  BY DEF Earlier
<1>4. \A i \in DOMAIN batch : Len(batch) - i \in Int
  BY DEF BatchInv, Orderly
<1>5. QED
  BY <1>1, <1>2, <1>3, <1>4 DEF BatchInv, Orderly

\* A new file is younger than all.
LEMMA OrderlyWritten ==
    ASSUME IpcTypes, FilesInv, BatchInv, NEW r \in Requests, WriteIpcFile(r)
    PROVE  Orderly(batch, at[1], Subdirs[at[2]])'
<1>1. /\ written' = Append(written, r) /\ files' = files \cup {r} /\ r \notin ToSet(written)
      /\ UNCHANGED <<plan, batch, at, alerts>>
  BY DEF WriteIpcFile, groupVars
<1>2. \A q : LateName(q)' <=> LateName(q)
  BY <1>1 DEF LateName
<1>3. \A q : InDir(q, at[1], Subdirs[at[2]])' <=> InDir(q, at[1], Subdirs[at[2]])
  BY <1>1 DEF InDir, SubdirOf
<1>4. written \in Seq(DOMAIN plan) /\ Len(written) \in Nat
  BY DEF FilesInv
<1>5. /\ \A i \in DOMAIN written : i \in DOMAIN written' /\ i < Len(written) + 1 /\ written'[i] = written[i]
      /\ Len(written) + 1 \in DOMAIN written' /\ written'[Len(written) + 1] = r
  BY <1>1, <1>4
<1>6. \A p, q : Earlier(p, q) => Earlier(p, q)'
  BY <1>5 DEF Earlier
<1>7. ASSUME NEW p \in files PROVE Earlier(p, r)'
  <2>1. PICK i \in DOMAIN written : written[i] = p
    BY <1>7, Members DEF FilesInv
  <2>2. QED
    BY <1>5, <2>1 DEF Earlier
<1>8. ASSUME NEW i \in DOMAIN batch, NEW q \in files',
             InDir(q, at[1], Subdirs[at[2]]), ~LateName(q), batch[i] # Alert, ~LateName(batch[i]),
             \A j \in 1 .. i : batch[j] # q
      PROVE  Earlier(batch[i], q)'
  <2>1. batch[i] \in files
    BY <1>8 DEF BatchInv, Orderly
  <2>2. CASE q \in files
    <3>1. Earlier(batch[i], q)
      BY <1>8, <2>2 DEF BatchInv, Orderly
    <3>2. QED
      BY <1>1, <1>6, <3>1
  <2>3. CASE q = r
    BY <1>1, <1>7, <2>1, <2>3
  <2>4. QED
    BY <1>1, <2>2, <2>3
<1>9. batch \in Seq(files \cup {Alert}) /\ batch \in Seq(files' \cup {Alert})
  <2>1. batch \in Seq(files \cup {Alert})
    BY DEF BatchInv, Orderly
  <2>2. files \cup {Alert} \subseteq files' \cup {Alert}
    BY <1>1
  <2>3. QED
    BY <2>1, <2>2
<1>10. \A i \in DOMAIN batch : /\ batch[i] = Alert => Len(batch) - i < alerts
                               /\ batch[i] # Alert => InDir(batch[i], at[1], Subdirs[at[2]])
  BY DEF BatchInv, Orderly
<1>11. \A i, j \in DOMAIN batch : i < j /\ batch[i] # Alert => batch[i] # batch[j]
  BY DEF BatchInv, Orderly
<1>12. QED
  BY <1>1, <1>2, <1>3, <1>8, <1>9, <1>10, <1>11 DEF Orderly

\* The first of the batch leaves it, and its directory.
LEMMA OrderlyRest ==
    ASSUME IpcTypes, FilesInv, BatchInv, batch # <<>>, batch' = Tail(batch),
           UNCHANGED <<plan, written, at>>, alerts' \in Nat,
           \/ Head(batch) = Alert /\ files' = files /\ alerts' = alerts - 1
           \/ Head(batch) # Alert /\ files' = files \ {Head(batch)} /\ alerts <= alerts'
    PROVE  Orderly(batch, at[1], Subdirs[at[2]])'
<1> DEFINE d == Subdirs[at[2]]
<1>1. \A q : LateName(q)' <=> LateName(q)
  BY DEF LateName
<1>2. \A q : InDir(q, at[1], Subdirs[at[2]])' <=> InDir(q, at[1], Subdirs[at[2]])
  BY DEF InDir, SubdirOf
<1>3. \A r, q : Earlier(r, q)' <=> Earlier(r, q)
  BY DEF Earlier
<1>4. Orderly(batch, at[1], d)
  BY DEF BatchInv
<1>5. /\ Tail(batch) \in Seq(files \cup {Alert}) /\ Len(batch') = Len(batch) - 1
      /\ Len(batch) \in Nat /\ Len(batch) > 0
      /\ Head(batch) = batch[1] /\ 1 \in DOMAIN batch
      /\ \A i \in DOMAIN batch' : i \in DOMAIN batch /\ i + 1 \in DOMAIN batch /\ batch'[i] = batch[i + 1]
  BY <1>4, Tails DEF Orderly
<1>6. \A i \in DOMAIN batch' : i \in Nat /\ i >= 1
  BY <1>5
<1>7. ASSUME NEW i \in DOMAIN batch' PROVE batch'[i] \in files' \cup {Alert}
  <2>1. batch[i + 1] \in files \cup {Alert} /\ 1 < i + 1
    BY <1>4, <1>5, <1>6 DEF Orderly
  <2>2. batch[1] # Alert => batch[1] # batch[i + 1]
    BY <1>4, <1>5, <2>1 DEF Orderly
  <2>3. QED
    BY <1>5, <2>1, <2>2
<1>8. batch' \in Seq(files' \cup {Alert})
  <2>1. batch' \in Seq(files \cup {Alert})
    BY <1>5
  <2>2. QED
    BY <1>7, <2>1, Retyped
<1>9. ASSUME NEW i \in DOMAIN batch'
      PROVE  /\ batch'[i] = Alert => Len(batch') - i < alerts'
             /\ batch'[i] # Alert => InDir(batch'[i], at[1], d)
  <2>1. batch'[i] # Alert => InDir(batch'[i], at[1], d)
    BY <1>4, <1>5 DEF Orderly
  <2>2. ASSUME batch'[i] = Alert PROVE Len(batch) - (i + 1) < alerts
    BY <1>4, <1>5, <2>2 DEF Orderly
  <2>3. ASSUME batch[1] = Alert PROVE Len(batch) - 1 < alerts
    BY <1>4, <1>5, <2>3 DEF Orderly
  <2>4. alerts \in Nat
    BY DEF FilesInv
  <2>5. QED
    BY <1>5, <1>6, <2>1, <2>2, <2>3, <2>4
<1>10. ASSUME NEW i \in DOMAIN batch', NEW j \in DOMAIN batch', i < j, batch'[i] # Alert
       PROVE  batch'[i] # batch'[j]
  <2>1. i + 1 \in DOMAIN batch /\ j + 1 \in DOMAIN batch /\ i + 1 < j + 1
    BY <1>5, <1>6, <1>10
  <2>2. QED
    BY <1>4, <1>5, <1>10, <2>1 DEF Orderly
<1>11. ASSUME NEW i \in DOMAIN batch', NEW q \in files',
              InDir(q, at[1], d), ~LateName(q), batch'[i] # Alert, ~LateName(batch'[i]),
              \A j \in 1 .. i : batch'[j] # q
       PROVE  Earlier(batch'[i], q)
  <2>1. q \in files /\ q # Head(batch)
    BY <1>11, Planned
  <2>2. ASSUME NEW j \in 1 .. (i + 1) PROVE batch[j] # q
    <3>1. CASE j = 1
      BY <1>5, <2>1, <3>1
    <3>2. CASE j # 1
      <4>1. j - 1 \in 1 .. i /\ j - 1 \in DOMAIN batch' /\ (j - 1) + 1 = j
        BY <1>5, <1>6, <2>2, <3>2
      <4>2. QED
        BY <1>5, <1>11, <4>1
    <3>3. QED
      BY <3>1, <3>2
  <2>3. i + 1 \in DOMAIN batch /\ batch'[i] = batch[i + 1]
    BY <1>5
  <2>4. QED
    BY <1>4, <1>11, <2>1, <2>2, <2>3 DEF Orderly
<1> HIDE DEF d
<1>12. /\ at' = at /\ d = Subdirs[at[2]]
  BY DEF d
<1>13. QED
  BY <1>1, <1>2, <1>3, <1>8, <1>9, <1>10, <1>11, <1>12 DEF Orderly

-----------------------------------------------------------------------------
(* What each step keeps. *)

\* The first of a batch is an alert or a file of the directory.
LEMMA Heads ==
    ASSUME BatchInv, batch # <<>>
    PROVE  /\ Head(batch) # Alert => Head(batch) \in files /\ InDir(Head(batch), at[1], Subdirs[at[2]])
           /\ Head(batch) = Alert => alerts > Len(batch) - 1 /\ Len(batch) - 1 \in Nat
           /\ \A q \in files : (/\ InDir(q, at[1], Subdirs[at[2]]) /\ ~LateName(q) /\ q # Head(batch)
                                /\ Head(batch) # Alert /\ ~LateName(Head(batch)))
                               => Earlier(Head(batch), q)
<1>1. /\ Head(batch) = batch[1] /\ 1 \in DOMAIN batch /\ batch[1] \in files \cup {Alert}
      /\ Len(batch) - 1 \in Nat
  BY Tails DEF BatchInv, Orderly
<1>2. \A j \in 1 .. 1 : j = 1
  OBVIOUS
<1>3. QED
  BY <1>1, <1>2 DEF BatchInv, Orderly

\* Handling a file keeps the types.
LEMMA HandledTypes ==
    ASSUME IpcTypes, FilesInv, BatchInv, HandleFile PROVE IpcTypes'
<1> DEFINE r == Head(batch)
<1>1. r \in files /\ r \in DOMAIN plan /\ r \in Requests /\ plan[r] \in Request
  BY Heads, Planned DEF HandleFile
<1>2. /\ HandleIpc(r)
      /\ UNCHANGED <<plan, loaded, watched, events, todo, watch_backend, client, old, results, crashes>>
  BY DEF HandleFile, answerVars
<1> HIDE DEF r
<1>3. plan[r].to \in Folders
  BY <1>1 DEF Request
<1>4. registered' \in {registered, registered \cup {plan[r].to}}
  BY <1>2 DEF HandleIpc, HandleTask, HandleGroup
<1>5. registered \subseteq registered' /\ registered' \subseteq Folders
  BY <1>3, <1>4 DEF IpcTypes
<1>6. jobs' \in [Requests -> JobStates]
  <2>1. jobs' = jobs \/ jobs' = [jobs EXCEPT ![r] = "created"]
    BY <1>2 DEF HandleIpc, HandleTask
  <2>2. QED
    BY <1>1, <2>1 DEF IpcTypes, JobStates
<1>7. tasks' \in [Requests -> {"none", "active", "paused", "cancelled"}]
  <2>1. \/ tasks' = tasks \/ tasks' = [tasks EXCEPT ![r] = "active"]
        \/ \E s \in AuthorizedTasks(r) : tasks' = [tasks EXCEPT ![s] = TaskAfter(r, s)]
    BY <1>2 DEF HandleIpc, HandleTask
  <2>2. \A s \in Requests : TaskAfter(r, s) \in {"none", "active", "paused", "cancelled"}
    BY DEF TaskAfter, IpcTypes
  <2>3. AuthorizedTasks(r) \subseteq Requests
    BY DEF AuthorizedTasks
  <2>4. QED
    BY <1>1, <2>1, <2>2, <2>3 DEF IpcTypes
<1>8. todo \in (SUBSET registered') \X (SUBSET registered')
  BY <1>5 DEF IpcTypes
<1>9. QED
  BY <1>2, <1>5, <1>6, <1>7, <1>8 DEF IpcTypes

\* A step of a job keeps the types.
LEMMA JobTypes == ASSUME IpcTypes, AJob PROVE IpcTypes'
<1>1. UNCHANGED <<plan, registered, loaded, watched, events, todo, watch_backend, tasks, client, old, crashes>>
  BY JobsApart DEF watcherVars, groupVars
<1>2. PICK r \in Requests : JobStep(r) \/ SkillTimeout(r)
  BY DEF AJob
<1>3. \E v \in JobStates : jobs' = [jobs EXCEPT ![r] = v]
  BY <1>2 DEF JobStep, RunSkill, StartSkill, SkillDone, AbandonedThreadEnds, RunDevTask, DevTaskDone,
     RunSubagent, SubagentDone, AnswerQuery, RunMemory, SendFile, WriteRestartFlag, SkillTimeout,
     FinishJob, JobStates
<1>4. results \subseteq results'
  BY <1>2 DEF JobStep, RunSkill, StartSkill, SkillDone, AbandonedThreadEnds, RunDevTask, DevTaskDone,
     RunSubagent, SubagentDone, AnswerQuery, RunMemory, SendFile, WriteRestartFlag, SkillTimeout,
     FinishJob, answerVars
<1>5. QED
  BY <1>1, <1>3, <1>4 DEF IpcTypes

\* A crash and the next start keep the types.
LEMMA AnewTypes == ASSUME IpcTypes, Anew PROVE IpcTypes'
<1>1. jobs' \in [Requests -> JobStates]
  BY DEF Anew, HostStarts, IpcTypes, JobStates
<1>2. /\ UNCHANGED <<plan, registered, tasks, client, old, results>>
      /\ watched' = {} /\ events' = {} /\ todo' = <<{}, {}>> /\ watch_backend' = None
      /\ loaded' = registered /\ crashes' = crashes + 1
  BY DEF Anew, HostStarts, answerVars
<1>3. QED
  BY <1>1, <1>2 DEF IpcTypes

\* Watching, polling and cleaning up keep the types.
LEMMA BookTypes ==
    ASSUME IpcTypes, StartInotify \/ StartPolling \/ PollGroups \/ ReadEvents \/ RefreshWatches
                     \/ ScanDone \/ WatchLimit \/ CleanupStaleResults
    PROVE  IpcTypes'
<1>1. UNCHANGED <<plan, registered, loaded, tasks, jobs, client, crashes>>
  BY DEF StartInotify, StartPolling, PollGroups, ReadEvents, RefreshWatches, RefreshAndScan,
     ScanDone, WatchLimit, CleanupStaleResults, CleanupIn, watcherVars, jobVars, groupVars, answerVars
<1>2. /\ watched' \in {watched, loaded, watched \cup loaded}
      /\ events' \in {events, {}}
      /\ \/ todo' = todo \/ todo' = <<loaded, {}>> \/ todo' = <<events, {}>> \/ todo' = <<todo[2], {}>>
         \/ todo' = <<watched \cup loaded, events>>
      /\ watch_backend' \in {watch_backend, "inotify", "polling", "closed"}
      /\ old' \subseteq results'
  BY DEF StartInotify, StartPolling, PollGroups, ReadEvents, RefreshWatches, RefreshAndScan,
     ScanDone, WatchLimit, CleanupStaleResults, CleanupIn, watcherVars, jobVars, groupVars, answerVars,
     IpcTypes
<1>3. QED
  BY <1>1, <1>2 DEF IpcTypes

\* Every step keeps the types.
LEMMA TypesKeep == ASSUME IpcTypes, FilesInv, BatchInv, [IpcNext]_ipcVars PROVE IpcTypes'
<1>1. CASE UNCHANGED ipcVars
  BY <1>1 DEF ipcVars, watcherVars, jobVars, answerVars, groupVars, IpcTypes
<1>2. ASSUME NEW r \in Requests, WriteIpcFile(r) PROVE IpcTypes'
  <2>1. /\ UNCHANGED <<plan, registered, loaded, watched, todo, watch_backend, tasks, jobs, old, results, crashes>>
        /\ \E v \in {"waiting", "done"} : client' = [client EXCEPT ![r] = v]
        /\ events' \subseteq events \cup watched
    BY <1>2 DEF WriteIpcFile, jobVars, groupVars
  <2>2. QED
    BY <2>1 DEF IpcTypes
<1>3. ASSUME NEW r \in Requests, ReadResult(r) \/ GiveUp(r) \/ Age(r) PROVE IpcTypes'
  <2>1. /\ UNCHANGED <<plan, registered, loaded, watched, events, todo, watch_backend, tasks, jobs, crashes>>
        /\ client' = client \/ \E v \in {"answered", "timed_out"} : client' = [client EXCEPT ![r] = v]
        /\ old' \subseteq results'
    BY <1>3 DEF ReadResult, GiveUp, Age, watcherVars, jobVars, groupVars, IpcTypes
  <2>2. QED
    BY <2>1 DEF IpcTypes
<1>4. ASSUME ReloadGroups \/ ReadResetFlag \/ ResetGroup PROVE IpcTypes'
  BY <1>4 DEF ReloadGroups, ReadResetFlag, ResetGroup, watcherVars, jobVars, answerVars, groupVars, IpcTypes
<1>5. CASE Crash \/ RestartHost
  BY <1>5, AnewTypes DEF Crash, RestartHost, Anew
<1>6. ASSUME NEW f \in Folders, ProcessIpcDir(f) PROVE IpcTypes'
  <2>1. /\ UNCHANGED <<plan, registered, loaded, watched, events, watch_backend, tasks, jobs, client, old,
                       results, crashes>>
        /\ todo' = <<todo[1] \ {f}, todo[2]>>
    BY <1>6 DEF ProcessIpcDir, jobVars, groupVars, answerVars
  <2>2. QED
    BY <2>1 DEF IpcTypes
<1>7. ASSUME NextDir \/ SkipFile \/ HandleAlert \/ UnlinkFile PROVE IpcTypes'
  BY <1>7 DEF NextDir, SkipFile, HandleAlert, UnlinkFile, RemoveFile, jobVars, answerVars, groupVars, IpcTypes
<1>8. CASE FailFile
  <2>1. /\ UNCHANGED <<plan, registered, loaded, watched, todo, watch_backend, tasks, jobs, client, old,
                       results, crashes>>
        /\ events' \subseteq events \cup watched
    BY <1>8 DEF FailFile, jobVars, answerVars, groupVars
  <2>2. QED
    BY <2>1 DEF IpcTypes
<1>9. CASE ReadError
  BY <1>9, <1>1 DEF ReadError
<1>10. CASE IpcNext
  BY <1>2, <1>3, <1>4, <1>5, <1>6, <1>7, <1>8, <1>9, <1>10, HandledTypes, JobTypes, BookTypes
  DEF IpcNext, WatcherStep, AJob
<1>11. QED
  BY <1>1, <1>10

\* A file is taken away, and its request possibly set aside with an alert.
LEMMA FilesLeave ==
    ASSUME FilesInv, written' = written, UNCHANGED plan, NEW r \in files, files' = files \ {r},
           \/ rejected' = rejected /\ alerts' = alerts
           \/ rejected' = rejected \cup {r} /\ alerts' \in {alerts, alerts + 1}
    PROVE  FilesInv'
<1>1. IsFiniteSet(files')
  BY FS_Subset DEF FilesInv
<1>2. /\ IsFiniteSet(rejected \cup {r}) /\ Cardinality(rejected \cup {r}) = Cardinality(rejected) + 1
      /\ Cardinality(rejected) \in Nat
  BY FS_AddElement, FS_CardinalityType DEF FilesInv
<1>3. IsFiniteSet(rejected') /\ alerts' \in Nat /\ alerts' <= Cardinality(rejected')
  <2>1. alerts \in Nat /\ alerts <= Cardinality(rejected) /\ IsFiniteSet(rejected)
    BY DEF FilesInv
  <2>2. CASE rejected' = rejected /\ alerts' = alerts
    BY <2>1, <2>2
  <2>3. CASE rejected' = rejected \cup {r} /\ alerts' \in {alerts, alerts + 1}
    BY <1>2, <2>1, <2>3
  <2>4. QED
    BY <2>2, <2>3
<1>4. QED
  BY <1>1, <1>3 DEF FilesInv

\* Every step keeps what is said of the files: written once, by a planned request.
LEMMA FilesKeep == ASSUME IpcTypes, FilesInv, BatchInv, [IpcNext]_ipcVars PROVE FilesInv'
<1>1. ASSUME UNCHANGED <<plan, written, files, rejected, alerts>> PROVE FilesInv'
  BY <1>1 DEF FilesInv
<1>2. ASSUME NEW r \in Requests, WriteIpcFile(r) PROVE FilesInv'
  <2>1. /\ written' = Append(written, r) /\ files' = files \cup {r} /\ r \in DOMAIN plan
        /\ r \notin ToSet(written) /\ UNCHANGED <<plan, rejected, alerts>>
    BY <1>2 DEF WriteIpcFile, groupVars
  <2>2. written \in Seq(DOMAIN plan) /\ \A i \in DOMAIN written : written[i] # r
    BY <2>1, Members DEF FilesInv
  <2>3. /\ written' \in Seq(DOMAIN plan) /\ Len(written) \in Nat
        /\ DOMAIN written = 1 .. Len(written) /\ DOMAIN written' = 1 .. (Len(written) + 1)
        /\ \A i \in DOMAIN written : i \in DOMAIN written' /\ written'[i] = written[i]
        /\ written'[Len(written) + 1] = r
    BY <2>1, <2>2
  <2>4. \A i, j \in DOMAIN written' : written'[i] = written'[j] => i = j
    BY <2>2, <2>3 DEF FilesInv
  <2>5. ToSet(written) \cup {r} \subseteq ToSet(written')
    BY <2>3, Members
  <2>6. IsFiniteSet(files')
    BY <2>1, FS_AddElement DEF FilesInv
  <2>7. QED
    BY <2>1, <2>3, <2>4, <2>5, <2>6 DEF FilesInv
<1>3. CASE SkipFile
  <2>1. Head(batch) \in files
    BY <1>3, Heads DEF SkipFile
  <2>2. /\ UNCHANGED <<plan, written, alerts>> /\ files' = files \ {Head(batch)}
        /\ rejected' \in {rejected, rejected \cup {Head(batch)}}
    BY <1>3 DEF SkipFile, groupVars
  <2>3. QED
    BY <2>1, <2>2, FilesLeave
<1>4. CASE FailFile
  <2>1. Head(batch) \in files
    BY <1>4, Heads DEF FailFile
  <2>2. /\ UNCHANGED <<plan, written>> /\ files' = files \ {Head(batch)}
        /\ rejected' = rejected \cup {Head(batch)} /\ alerts' \in {alerts, alerts + 1}
    BY <1>4 DEF FailFile, groupVars
  <2>3. QED
    BY <2>1, <2>2, FilesLeave
<1>5. CASE UnlinkFile
  <2>1. UNCHANGED <<plan, written, rejected>> /\ batch # <<>>
    BY <1>5 DEF UnlinkFile, RemoveFile, groupVars, BatchInv
  <2>2. CASE Head(batch) = Alert
    <3>1. alerts' = alerts - 1 /\ files' = files
      BY <1>5, <2>2 DEF UnlinkFile, RemoveFile
    <3>2. alerts - 1 \in Nat
      BY <2>1, <2>2, Heads DEF FilesInv
    <3>3. alerts' \in Nat /\ alerts' <= Cardinality(rejected)
      BY <3>1, <3>2, FS_CardinalityType DEF FilesInv
    <3>4. QED
      BY <2>1, <3>1, <3>3 DEF FilesInv
  <2>3. CASE Head(batch) # Alert
    <3>1. files' = files \ {Head(batch)} /\ alerts' = alerts
      BY <1>5, <2>3 DEF UnlinkFile, RemoveFile
    <3>2. QED
      BY <2>1, <2>3, <3>1, Heads, FilesLeave
  <2>4. QED
    BY <2>2, <2>3
<1>6. ASSUME \/ UNCHANGED ipcVars \/ NextDir \/ HandleFile \/ HandleAlert
             \/ \E f \in Folders : ProcessIpcDir(f)
      PROVE  FilesInv'
  BY <1>1, <1>6 DEF ipcVars, NextDir, HandleFile, HandleAlert, ProcessIpcDir, fileVars, groupVars
<1>7. CASE Bookkeeping \/ Besides \/ Anew
  BY <1>1, <1>7 DEF Bookkeeping, Besides, Anew, HostStarts, fileVars, groupVars
<1>8. CASE AJob
  BY <1>1, <1>8, JobsApart DEF fileVars, groupVars
<1>9. QED
  BY <1>2, <1>3, <1>4, <1>5, <1>6, <1>7, <1>8, StepKinds

\* Every step keeps what is said of the pass over a directory.
LEMMA BatchKeeps == ASSUME IpcTypes, FilesInv, BatchInv, FilesInv', [IpcNext]_ipcVars PROVE BatchInv'
<1>a. alerts \in Nat /\ alerts' \in Nat
  BY DEF FilesInv
<1>1. ASSUME UNCHANGED <<plan, written, files, alerts, batch, at>>,
             pc' \in {"start", "read", "scan", "files", "unlink"}, pc' = "unlink" => batch # <<>>
      PROVE  BatchInv'
  <2>1. Orderly(batch, at[1], Subdirs[at[2]])'
    BY <1>1, <1>a, OrderlySame
  <2>2. QED
    BY <1>1, <2>1 DEF BatchInv
<1>2. ASSUME NEW r \in Requests, WriteIpcFile(r) PROVE BatchInv'
  BY <1>2, OrderlyWritten DEF WriteIpcFile, BatchInv
<1>3. ASSUME UNCHANGED <<plan, written, files, alerts>>, pc' = "files",
             NEW f \in Folders, NEW k \in 1 .. 2, at' = <<f, k>>,
             NEW s \in SortedDir(f, Subdirs[k]), batch' = FilesToProcess(s)
      PROVE  BatchInv'
  <2> DEFINE b == FilesToProcess(s)
             d == Subdirs[k]
  <2>1. Orderly(b, f, d)
    BY Listed
  <2> HIDE DEF b, d
  <2>2. \A q : LateName(q)' <=> LateName(q)
    BY <1>3 DEF LateName
  <2>3. \A q : InDir(q, f, d)' <=> InDir(q, f, d)
    BY <1>3 DEF InDir, SubdirOf
  <2>4. \A r, q : Earlier(r, q)' <=> Earlier(r, q)
    BY <1>3 DEF Earlier
  <2>5. batch' = b /\ Subdirs[at'[2]] = d /\ at'[1] = f
    BY <1>3 DEF b, d
  <2>6. Orderly(b, f, d)'
    BY <1>3, <2>1, <2>2, <2>3, <2>4 DEF Orderly
  <2>7. Orderly(batch, at[1], Subdirs[at[2]])'
    BY <2>2, <2>3, <2>4, <2>5, <2>6, <1>3 DEF Orderly
  <2>8. QED
    BY <1>3, <2>7 DEF BatchInv
<1>4. ASSUME NEW f \in Folders, ProcessIpcDir(f) PROVE BatchInv'
  <2>1. PICK s \in SortedDir(f, Subdirs[1]) : batch' = FilesToProcess(s)
    BY <1>4 DEF ProcessIpcDir
  <2>2. UNCHANGED <<plan, written, files, alerts>> /\ pc' = "files" /\ at' = <<f, 1>>
    BY <1>4 DEF ProcessIpcDir, fileVars, groupVars
  <2>3. QED
    BY <2>1, <2>2, <1>3
<1>5. CASE NextDir
  <2>1. UNCHANGED <<plan, written, files, alerts>> /\ pc = "files"
    BY <1>5 DEF NextDir, fileVars, groupVars
  <2>2. CASE at[2] = Len(Subdirs)
    BY <1>1, <1>5, <2>1, <2>2 DEF NextDir
  <2>3. CASE at[2] # Len(Subdirs)
    <3>1. at[2] = 1
      BY <2>3 DEF BatchInv, Subdirs
    <3>2. PICK s \in SortedDir(at[1], Subdirs[at[2] + 1]) : batch' = FilesToProcess(s)
      BY <1>5, <2>3 DEF NextDir
    <3>3. at' = <<at[1], 2>> /\ pc' = pc /\ at[1] \in Folders
      BY <1>5, <2>3, <3>1 DEF NextDir, BatchInv
    <3>4. s \in SortedDir(at[1], Subdirs[2])
      BY <3>1, <3>2
    <3>5. QED
      BY <1>3, <2>1, <3>2, <3>3, <3>4
  <2>4. QED
    BY <2>2, <2>3
<1>6. ASSUME batch # <<>>, batch' = Tail(batch), pc' = "files", UNCHANGED <<plan, written, at>>,
             \/ Head(batch) = Alert /\ files' = files /\ alerts' = alerts - 1
             \/ Head(batch) # Alert /\ files' = files \ {Head(batch)} /\ alerts <= alerts'
      PROVE  BatchInv'
  <2>1. Orderly(batch, at[1], Subdirs[at[2]])'
    BY <1>6, <1>a, OrderlyRest
  <2>2. QED
    BY <1>6, <2>1 DEF BatchInv
<1>7. CASE SkipFile
  <2>1. /\ batch # <<>> /\ batch' = Tail(batch) /\ pc' = "files" /\ UNCHANGED <<plan, written, at>>
        /\ Head(batch) # Alert /\ files' = files \ {Head(batch)} /\ alerts' = alerts
    BY <1>7 DEF SkipFile, groupVars
  <2>2. QED
    BY <1>6, <1>a, <2>1
<1>8. CASE FailFile
  <2>1. /\ batch # <<>> /\ batch' = Tail(batch) /\ pc' = "files" /\ UNCHANGED <<plan, written, at>>
        /\ Head(batch) # Alert /\ files' = files \ {Head(batch)} /\ alerts' \in {alerts, alerts + 1}
    BY <1>8 DEF FailFile, groupVars
  <2>2. QED
    BY <1>6, <1>a, <2>1
<1>9. CASE UnlinkFile
  <2>1. /\ batch # <<>> /\ batch' = Tail(batch) /\ pc' = "files" /\ UNCHANGED <<plan, written, at>>
        /\ IF Head(batch) = Alert
           THEN alerts' = alerts - 1 /\ files' = files
           ELSE files' = files \ {Head(batch)} /\ alerts' = alerts
    BY <1>9 DEF UnlinkFile, RemoveFile, groupVars, BatchInv
  <2>2. QED
    BY <1>6, <1>a, <2>1
<1>10. ASSUME HandleFile \/ HandleAlert PROVE BatchInv'
  <2>1. UNCHANGED <<plan, written, files, alerts, batch, at>> /\ pc' = "unlink" /\ batch # <<>>
    BY <1>10 DEF HandleFile, HandleAlert, fileVars, groupVars
  <2>2. QED
    BY <1>1, <2>1
<1>11. CASE Bookkeeping \/ Besides \/ UNCHANGED ipcVars
  <2>1. /\ UNCHANGED <<plan, written, files, alerts, batch, at>>
        /\ pc' \in {pc, "start", "read", "scan"}
    BY <1>11 DEF Bookkeeping, Besides, ipcVars, watcherVars, fileVars, groupVars
  <2>2. QED
    BY <1>1, <2>1 DEF BatchInv
<1>12. CASE AJob
  BY <1>1, <1>12, JobsApart DEF watcherVars, fileVars, groupVars, BatchInv
<1>13. CASE Anew
  <2>1. /\ pc' = "start" /\ batch' = <<>> /\ at' = <<MainFolder, 1>>
    BY <1>13 DEF Anew, HostStarts
  <2>2. Orderly(batch, at[1], Subdirs[at[2]])'
    BY <2>1 DEF Orderly
  <2>3. QED
    BY <2>1, <2>2, MainAssumption DEF BatchInv
<1>14. QED
  BY <1>2, <1>4, <1>5, <1>7, <1>8, <1>9, <1>10, <1>11, <1>12, <1>13, StepKinds

\* Every step keeps what is said of the files handled.
LEMMA OnceKeeps ==
    ASSUME IpcTypes, FilesInv, BatchInv, OnceInv, [IpcNext]_ipcVars PROVE OnceInv'
<1>1. ASSUME UNCHANGED <<written, files, handled, crashes>>, \A r \in files : Handling(r) => Handling(r)'
      PROVE  OnceInv'
  BY <1>1 DEF OnceInv
<1>2. ASSUME UNCHANGED <<handled, crashes>>, NEW r \in Requests, written' = Append(written, r),
             r \notin ToSet(written), files' = files \cup {r}, UNCHANGED <<pc, batch>>
      PROVE  OnceInv'
  <2>1. ToSet(written) \subseteq ToSet(written')
    <3>1. written \in Seq(DOMAIN plan)
      BY DEF FilesInv
    <3>2. \A i \in DOMAIN written : i \in DOMAIN written' /\ written'[i] = written[i]
      BY <1>2, <3>1
    <3>3. QED
      BY <3>2, Members
  <2>2. handled[r] = 0 /\ crashes \in Nat
    BY <1>2 DEF OnceInv, IpcTypes
  <2>3. QED
    BY <1>2, <2>1, <2>2 DEF OnceInv, Handling
<1>3. ASSUME UNCHANGED <<written, handled, crashes>>, NEW q \in files, files' = files \ {q},
             \A r \in files \ {q} : ~Handling(r)
      PROVE  OnceInv'
  BY <1>3 DEF OnceInv
<1>4. ASSUME NEW r \in Requests, WriteIpcFile(r) PROVE OnceInv'
  BY <1>2, <1>4 DEF WriteIpcFile
<1>5. CASE SkipFile \/ FailFile
  <2>1. /\ UNCHANGED <<written, handled, crashes>> /\ Head(batch) \in files
        /\ files' = files \ {Head(batch)} /\ pc = "files"
    BY <1>5, Heads DEF SkipFile, FailFile
  <2>2. QED
    BY <1>3, <2>1 DEF Handling
<1>6. CASE UnlinkFile
  <2>1. /\ UNCHANGED <<written, handled, crashes>> /\ pc = "unlink" /\ batch # <<>>
        /\ IF Head(batch) = Alert THEN files' = files ELSE files' = files \ {Head(batch)}
    BY <1>6 DEF UnlinkFile, RemoveFile, BatchInv
  <2>2. CASE Head(batch) = Alert
    BY <1>1, <2>1, <2>2, Planned DEF Handling
  <2>3. CASE Head(batch) # Alert
    BY <1>3, <2>1, <2>3, Heads DEF Handling
  <2>4. QED
    BY <2>2, <2>3
<1>7. CASE HandleFile
  <2>1. /\ handled' = [handled EXCEPT ![Head(batch)] = @ + 1] /\ pc = "files" /\ pc' = "unlink"
        /\ batch # <<>> /\ Head(batch) \in files
        /\ UNCHANGED <<written, files, batch, crashes>>
    BY <1>7, Heads DEF HandleFile
  <2>2. Head(batch) \in Requests /\ Head(batch) \in ToSet(written)
    BY <2>1, Planned DEF FilesInv
  <2>3. handled[Head(batch)] <= crashes /\ handled[Head(batch)] \in Nat /\ crashes \in Nat
    BY <2>1, <2>2 DEF OnceInv, Handling, IpcTypes
  <2>4. Handling(Head(batch))'
    BY <2>1 DEF Handling
  <2>5. ASSUME NEW r \in Requests, r # Head(batch) PROVE ~Handling(r) /\ handled'[r] = handled[r]
    BY <2>1, <2>5 DEF Handling, OnceInv
  <2>6. handled' \in [Requests -> Nat] /\ handled'[Head(batch)] = handled[Head(batch)] + 1
    BY <2>1, <2>2, <2>3 DEF OnceInv
  <2>7. QED
    BY <2>1, <2>2, <2>3, <2>4, <2>5, <2>6 DEF OnceInv
<1>8. ASSUME HandleAlert \/ NextDir \/ (\E f \in Folders : ProcessIpcDir(f)) \/ Bookkeeping
      PROVE  OnceInv'
  <2>1. UNCHANGED <<written, files, handled, crashes>> /\ pc # "unlink"
    BY <1>8 DEF HandleAlert, NextDir, ProcessIpcDir, Bookkeeping, fileVars
  <2>2. QED
    BY <1>1, <2>1 DEF Handling
<1>9. CASE UNCHANGED ipcVars \/ Besides
  BY <1>1, <1>9 DEF ipcVars, Besides, watcherVars, fileVars, Handling
<1>10. CASE AJob
  BY <1>1, <1>10, JobsApart DEF watcherVars, fileVars, Handling
<1>11. CASE Anew
  <2>1. UNCHANGED <<written, files, handled>> /\ crashes' = crashes + 1 /\ crashes \in Nat
    BY <1>11 DEF Anew, HostStarts, fileVars, IpcTypes
  <2>2. \A r \in Requests : handled[r] \in Nat /\ handled[r] <= crashes + 1
    BY DEF OnceInv
  <2>3. QED
    BY <2>1, <2>2 DEF OnceInv
<1>12. QED
  BY <1>4, <1>5, <1>6, <1>7, <1>8, <1>9, <1>10, <1>11, StepKinds

\* The handler of a request takes it further in at most one way each: the job is created, or not.
LEMMA JobCreated ==
    ASSUME HandleFile
    PROVE  \/ jobs' = jobs
           \/ jobs' = [jobs EXCEPT ![Head(batch)] = "created"] /\ plan[Head(batch)].kind \in JobKinds
  BY DEF HandleFile, HandleIpc, HandleTask

\* Which job a step of a background task moves, from where and to where.
LEMMA JobMoves ==
    ASSUME IpcTypes, FilesInv, JobsInv, AJob
    PROVE  \E r \in DOMAIN plan : r \notin files /\ jobs[r] # "none" /\
             \/ /\ AtSkill(r, "created") /\ skills_lock = {} /\ skills_lock' = {r}
                /\ jobs' = [jobs EXCEPT ![r] = "running"]
                /\ UNCHANGED <<dev_task_active, timeouts>>
             \/ /\ AtSkill(r, "running") /\ skills_lock' = skills_lock \ {r}
                /\ jobs' = [jobs EXCEPT ![r] = "done"]
                /\ UNCHANGED <<dev_task_active, timeouts>>
             \/ /\ AtSkill(r, "running") /\ skills_lock' = skills_lock \ {r} /\ timeouts' = timeouts + 1
                /\ jobs' = [jobs EXCEPT ![r] = "abandoned"]
                /\ UNCHANGED dev_task_active
             \/ /\ AtSkill(r, "abandoned") /\ jobs' = [jobs EXCEPT ![r] = "done"]
                /\ UNCHANGED <<dev_task_active, skills_lock, timeouts>>
             \/ /\ plan[r].kind = "dev_task" /\ jobs[r] = "created" /\ plan[r].from \notin dev_task_active
                /\ dev_task_active' = dev_task_active \cup {plan[r].from}
                /\ jobs' = [jobs EXCEPT ![r] = "running"]
                /\ UNCHANGED <<skills_lock, timeouts>>
             \/ /\ AtDev(r) /\ dev_task_active' = dev_task_active \ {plan[r].from}
                /\ jobs' = [jobs EXCEPT ![r] = "done"]
                /\ UNCHANGED <<skills_lock, timeouts>>
             \/ /\ plan[r].kind = "dev_task" => jobs[r] = "created"
                /\ plan[r].kind \notin SkillKinds
                /\ jobs' = [jobs EXCEPT ![r] = "done"] \/ jobs' = [jobs EXCEPT ![r] = "running"]
                /\ plan[r].kind = "dev_task" => jobs' = [jobs EXCEPT ![r] = "done"]
                /\ UNCHANGED <<dev_task_active, skills_lock, timeouts>>
<1>1. PICK r \in Requests : JobStep(r) \/ SkillTimeout(r)
  BY DEF AJob
<1>2. /\ jobs[r] \in {"created", "running", "abandoned"}
      /\ jobs[r] # "abandoned" => plan[r].kind \in JobKinds
      /\ jobs[r] = "created" => plan[r].kind \in JobKinds
  BY <1>1 DEF JobStep, RunSkill, StartSkill, SkillDone, AbandonedThreadEnds, RunDevTask, DevTaskDone,
     RunSubagent, SubagentDone, AnswerQuery, RunMemory, SendFile, WriteRestartFlag, SkillTimeout, JobKinds
<1>3. r \in DOMAIN plan
  BY <1>2, Planned DEF JobsInv
<1>4. r \notin files
  <2> SUFFICES ASSUME r \in files PROVE FALSE
    OBVIOUS
  <2>1. jobs[r] = "created" /\ Handling(r)
    BY <1>2 DEF JobsInv
  <2>2. plan[r].kind = "message"
    BY <2>1, Planned DEF AJob, Yielded, Handling
  <2>3. QED
    BY <1>2, <2>1, <2>2 DEF JobKinds, SkillKinds, MemoryKinds, AnsweredKinds
<1>5. jobs[r] # "none"
  BY <1>2
<1>6. CASE RunSkill(r)
  BY <1>3, <1>4, <1>5, <1>6 DEF RunSkill, StartSkill, AtSkill
<1>7. CASE SkillDone(r)
  BY <1>3, <1>4, <1>5, <1>7 DEF SkillDone, FinishJob, AtSkill
<1>8. CASE SkillTimeout(r)
  BY <1>3, <1>4, <1>5, <1>8 DEF SkillTimeout, AtSkill
<1>9. CASE AbandonedThreadEnds(r)
  BY <1>3, <1>4, <1>5, <1>9 DEF AbandonedThreadEnds, FinishJob, AtSkill, JobsInv
<1>10. CASE RunDevTask(r)
  BY <1>3, <1>4, <1>5, <1>10 DEF RunDevTask, SkillKinds
<1>11. CASE DevTaskDone(r)
  BY <1>3, <1>4, <1>5, <1>11 DEF DevTaskDone, FinishJob, AtDev
<1>12. ASSUME RunSubagent(r) \/ SubagentDone(r) \/ AnswerQuery(r) \/ RunMemory(r) \/ SendFile(r)
              \/ WriteRestartFlag(r)
       PROVE  /\ plan[r].kind # "dev_task" /\ plan[r].kind \notin SkillKinds
              /\ jobs' = [jobs EXCEPT ![r] = "done"] \/ jobs' = [jobs EXCEPT ![r] = "running"]
              /\ UNCHANGED <<dev_task_active, skills_lock, timeouts>>
  BY <1>12 DEF RunSubagent, SubagentDone, AnswerQuery, RunMemory, SendFile, WriteRestartFlag, FinishJob,
     SkillKinds, MemoryKinds, AnsweredKinds
<1>13. QED
  BY <1>1, <1>3, <1>4, <1>5, <1>6, <1>7, <1>8, <1>9, <1>10, <1>11, <1>12 DEF JobStep

\* The jobs are as they were, or one of them was created, which had not run in this process.
LEMMA JobsSame ==
    ASSUME IpcTypes, JobsInv, UNCHANGED <<plan, dev_task_active, skills_lock, timeouts>>,
           ToSet(written) \subseteq ToSet(written)',
           \A r \in files' : jobs'[r] \in {"none", "lost"} \/ (jobs'[r] = "created" /\ Handling(r)'),
           \/ jobs' = jobs
           \/ \E r \in Requests : /\ jobs' = [jobs EXCEPT ![r] = "created"] /\ r \in ToSet(written)
                                  /\ jobs[r] \in {"none", "lost"} /\ plan[r].kind \in JobKinds
    PROVE  JobsInv'
<1>1. jobs \in [Requests -> JobStates] /\ DOMAIN plan \subseteq Requests
  BY DEF IpcTypes
<1>2. \A r \in Requests : \/ jobs'[r] = jobs[r]
                          \/ /\ jobs'[r] = "created" /\ jobs[r] \in {"none", "lost"}
                             /\ r \in ToSet(written) /\ plan[r].kind \in JobKinds
  BY <1>1
<1>3. /\ \A r : AtSkill(r, "running")' <=> AtSkill(r, "running")
      /\ \A r : AtSkill(r, "abandoned")' <=> AtSkill(r, "abandoned")
      /\ \A r : AtDev(r)' <=> AtDev(r)
  BY <1>1, <1>2 DEF AtSkill, AtDev
<1>4. GivenUp' = GivenUp
  BY <1>3 DEF GivenUp
<1>5. skills_lock' = {r \in DOMAIN plan' : AtSkill(r, "running")'}
  BY <1>3 DEF JobsInv
<1>6. QED
  BY <1>1, <1>2, <1>3, <1>4, <1>5 DEF JobsInv

\* A step of a job keeps the locks and flags in accord with the jobs.
LEMMA JobsAfterJob == ASSUME IpcTypes, FilesInv, JobsInv, AJob PROVE JobsInv'
<1>1. PICK r \in DOMAIN plan : r \notin files /\ jobs[r] # "none" /\
             \/ /\ AtSkill(r, "created") /\ skills_lock = {} /\ skills_lock' = {r}
                /\ jobs' = [jobs EXCEPT ![r] = "running"]
                /\ UNCHANGED <<dev_task_active, timeouts>>
             \/ /\ AtSkill(r, "running") /\ skills_lock' = skills_lock \ {r}
                /\ jobs' = [jobs EXCEPT ![r] = "done"]
                /\ UNCHANGED <<dev_task_active, timeouts>>
             \/ /\ AtSkill(r, "running") /\ skills_lock' = skills_lock \ {r} /\ timeouts' = timeouts + 1
                /\ jobs' = [jobs EXCEPT ![r] = "abandoned"]
                /\ UNCHANGED dev_task_active
             \/ /\ AtSkill(r, "abandoned") /\ jobs' = [jobs EXCEPT ![r] = "done"]
                /\ UNCHANGED <<dev_task_active, skills_lock, timeouts>>
             \/ /\ plan[r].kind = "dev_task" /\ jobs[r] = "created" /\ plan[r].from \notin dev_task_active
                /\ dev_task_active' = dev_task_active \cup {plan[r].from}
                /\ jobs' = [jobs EXCEPT ![r] = "running"]
                /\ UNCHANGED <<skills_lock, timeouts>>
             \/ /\ AtDev(r) /\ dev_task_active' = dev_task_active \ {plan[r].from}
                /\ jobs' = [jobs EXCEPT ![r] = "done"]
                /\ UNCHANGED <<skills_lock, timeouts>>
             \/ /\ plan[r].kind = "dev_task" => jobs[r] = "created"
                /\ plan[r].kind \notin SkillKinds
                /\ jobs' = [jobs EXCEPT ![r] = "done"] \/ jobs' = [jobs EXCEPT ![r] = "running"]
                /\ plan[r].kind = "dev_task" => jobs' = [jobs EXCEPT ![r] = "done"]
                /\ UNCHANGED <<dev_task_active, skills_lock, timeouts>>
  BY JobMoves
<1>2. UNCHANGED <<plan, written, files, pc, batch>>
  BY JobsApart DEF watcherVars, fileVars, groupVars
<1>3. /\ jobs \in [Requests -> JobStates] /\ DOMAIN plan \subseteq Requests /\ r \in Requests
      /\ plan[r].from \in Folders
  BY DEF IpcTypes, Request
<1>4. \A q \in Requests \ {r} : jobs'[q] = jobs[q]
  BY <1>1, <1>3
<1>5. "dev_task" \notin SkillKinds
  BY DEF SkillKinds
<1>6. \A q \in Requests :
          /\ jobs'[q] # "none" => q \in ToSet(written')
          /\ q \in files' => jobs'[q] \in {"none", "lost"} \/ (jobs'[q] = "created" /\ Handling(q)')
          /\ jobs'[q] = "abandoned" => plan'[q].kind \in SkillKinds
          /\ jobs'[q] # "none" => plan'[q].kind \in JobKinds
  BY <1>1, <1>2, <1>3, <1>4 DEF JobsInv, AtSkill, Handling
<1>7. \A q : q # r => /\ AtSkill(q, "running")' <=> AtSkill(q, "running")
                      /\ AtSkill(q, "abandoned")' <=> AtSkill(q, "abandoned")
                      /\ AtDev(q)' <=> AtDev(q)
  BY <1>2, <1>3, <1>4 DEF AtSkill, AtDev
<1>8. skills_lock' = {q \in DOMAIN plan : AtSkill(q, "running")'}
  <2>1. \A q : q \in skills_lock <=> q \in DOMAIN plan /\ AtSkill(q, "running")
    BY DEF JobsInv
  <2>2. \A q : q \in skills_lock' <=> q \in DOMAIN plan /\ AtSkill(q, "running")'
    BY <1>1, <1>2, <1>3, <1>5, <1>7, <2>1 DEF AtSkill, AtDev
  <2>3. QED
    BY <2>2
<1>9. \A p, q \in skills_lock' : p = q
  BY <1>1 DEF JobsInv
<1>10. \A q : (AtDev(q)' <=> AtDev(q)) \/ q = r
  BY <1>7
<1>11. /\ \A p, q \in DOMAIN plan : AtDev(p) /\ AtDev(q) /\ plan[p].from = plan[q].from => p = q
       /\ \A f \in Folders : f \in dev_task_active <=> \E q \in DOMAIN plan : AtDev(q) /\ plan[q].from = f
  BY DEF JobsInv
<1>12. \A p, q \in DOMAIN plan : AtDev(p)' /\ AtDev(q)' /\ plan[p].from = plan[q].from => p = q
  BY <1>1, <1>2, <1>3, <1>5, <1>7, <1>11 DEF AtDev, AtSkill
<1>13. \A f \in Folders : f \in dev_task_active' <=> \E q \in DOMAIN plan : AtDev(q)' /\ plan[q].from = f
  <2>1. CASE UNCHANGED dev_task_active /\ (AtDev(r)' <=> AtDev(r))
    BY <1>7, <1>11, <2>1
  <2>2. CASE /\ AtDev(r)' /\ ~AtDev(r) /\ plan[r].from \notin dev_task_active
             /\ dev_task_active' = dev_task_active \cup {plan[r].from}
    BY <1>3, <1>7, <1>11, <2>2
  <2>3. CASE AtDev(r) /\ ~AtDev(r)' /\ dev_task_active' = dev_task_active \ {plan[r].from}
    <3> TAKE f \in Folders
    <3>1. CASE f = plan[r].from
      BY <1>7, <1>11, <2>3, <3>1
    <3>2. CASE f # plan[r].from
      BY <1>7, <1>11, <2>3, <3>2
    <3>3. QED
      BY <3>1, <3>2
  <2>4. QED
    BY <1>1, <1>2, <1>3, <1>5, <2>1, <2>2, <2>3 DEF AtDev, AtSkill
<1>14. IsFiniteSet(GivenUp') /\ timeouts' \in Nat /\ Cardinality(GivenUp') <= timeouts'
  <2>1. IsFiniteSet(GivenUp) /\ timeouts \in Nat /\ Cardinality(GivenUp) <= timeouts
    BY DEF JobsInv
  <2>2. \A q : q # r => (q \in GivenUp' <=> q \in GivenUp)
    BY <1>2, <1>7 DEF GivenUp
  <2>3. CASE timeouts' = timeouts + 1 /\ r \notin GivenUp /\ r \in GivenUp'
    <3>1. GivenUp' = GivenUp \cup {r}
      BY <2>2, <2>3
    <3>2. IsFiniteSet(GivenUp') /\ Cardinality(GivenUp') = Cardinality(GivenUp) + 1
      BY <2>1, <2>3, <3>1, FS_AddElement
    <3>3. QED
      BY <2>1, <2>3, <3>2, FS_CardinalityType
  <2>4. CASE timeouts' = timeouts /\ (r \in GivenUp' => r \in GivenUp)
    <3>1. GivenUp' \subseteq GivenUp
      BY <2>2, <2>4
    <3>2. IsFiniteSet(GivenUp') /\ Cardinality(GivenUp') <= Cardinality(GivenUp)
      BY <2>1, <3>1, FS_Subset
    <3>3. QED
      BY <2>1, <2>4, <3>2, FS_CardinalityType
  <2>5. QED
    BY <1>1, <1>2, <1>3, <1>5, <2>3, <2>4 DEF GivenUp, AtSkill, AtDev
<1>15. QED
  BY <1>2, <1>6, <1>8, <1>9, <1>12, <1>13, <1>14 DEF JobsInv

\* Every step keeps the locks and flags in accord with the jobs.
LEMMA JobsKeep ==
    ASSUME IpcTypes, FilesInv, BatchInv, JobsInv, FilesInv', [IpcNext]_ipcVars PROVE JobsInv'
<1>1. ASSUME UNCHANGED <<plan, written, files, jobVars>>, \A r \in files : Handling(r) => Handling(r)'
      PROVE  JobsInv'
  BY <1>1, JobsSame, Planned DEF JobsInv, jobVars
<1>2. ASSUME UNCHANGED <<plan, jobVars, written>>, files' \subseteq files, \A r \in files' : ~Handling(r)
      PROVE  JobsInv'
  BY <1>2, JobsSame, Planned DEF JobsInv, jobVars
<1>3. ASSUME NEW r \in Requests, WriteIpcFile(r) PROVE JobsInv'
  <2>1. /\ written' = Append(written, r) /\ files' = files \cup {r} /\ r \notin ToSet(written)
        /\ UNCHANGED <<plan, pc, batch, jobs, dev_task_active, skills_lock, timeouts>>
    BY <1>3 DEF WriteIpcFile, groupVars, jobVars
  <2>2. ToSet(written) \subseteq ToSet(written)'
    <3>1. written \in Seq(DOMAIN plan)
      BY DEF FilesInv
    <3>2. \A i \in DOMAIN written : i \in DOMAIN written' /\ written'[i] = written[i]
      BY <2>1, <3>1
    <3>3. QED
      BY <3>2, Members
  <2>3. jobs[r] = "none"
    BY <2>1 DEF JobsInv
  <2>4. \A q \in files' : jobs'[q] \in {"none", "lost"} \/ (jobs'[q] = "created" /\ Handling(q)')
    BY <2>1, <2>3, Planned DEF JobsInv, Handling
  <2>5. QED
    BY <2>1, <2>2, <2>4, JobsSame
<1>4. CASE SkipFile \/ FailFile
  <2>1. UNCHANGED <<plan, jobVars, written>> /\ files' \subseteq files /\ pc = "files"
    BY <1>4 DEF SkipFile, FailFile, groupVars
  <2>2. QED
    BY <1>2, <2>1 DEF Handling
<1>5. CASE UnlinkFile
  <2>1. /\ UNCHANGED <<plan, jobVars, written>> /\ pc = "unlink"
        /\ IF Head(batch) = Alert THEN files' = files ELSE files' = files \ {Head(batch)}
    BY <1>5 DEF UnlinkFile, RemoveFile, groupVars
  <2>2. QED
    BY <1>2, <2>1, Planned DEF Handling
<1>6. CASE HandleFile
  <2>1. /\ pc = "files" /\ pc' = "unlink" /\ batch # <<>> /\ Head(batch) \in files
        /\ UNCHANGED <<plan, written, files, batch, dev_task_active, skills_lock, timeouts>>
    BY <1>6, Heads DEF HandleFile
  <2>2. \A r \in files : r \in Requests /\ jobs[r] \in {"none", "lost"}
    BY <2>1, Planned DEF JobsInv, Handling
  <2>3. Handling(Head(batch))' /\ Head(batch) \in ToSet(written)
    BY <2>1 DEF Handling, FilesInv
  <2>4. CASE jobs' = jobs
    BY <2>1, <2>2, <2>4, JobsSame
  <2>5. CASE jobs' = [jobs EXCEPT ![Head(batch)] = "created"] /\ plan[Head(batch)].kind \in JobKinds
    <3>1. \A r \in files' : jobs'[r] \in {"none", "lost"} \/ (jobs'[r] = "created" /\ Handling(r)')
      BY <2>1, <2>2, <2>3, <2>5 DEF IpcTypes
    <3>2. QED
      BY <2>1, <2>2, <2>3, <2>5, <3>1, JobsSame
  <2>6. QED
    BY <1>6, <2>4, <2>5, JobCreated
<1>7. ASSUME HandleAlert \/ NextDir \/ (\E f \in Folders : ProcessIpcDir(f)) \/ Bookkeeping
      PROVE  JobsInv'
  <2>1. UNCHANGED <<plan, written, files, jobVars>> /\ pc # "unlink"
    BY <1>7 DEF HandleAlert, NextDir, ProcessIpcDir, Bookkeeping, fileVars, groupVars
  <2>2. QED
    BY <1>1, <2>1 DEF Handling
<1>8. CASE UNCHANGED ipcVars \/ Besides
  BY <1>1, <1>8 DEF ipcVars, Besides, watcherVars, fileVars, groupVars, Handling
<1>9. CASE Anew
  <2>1. /\ UNCHANGED <<plan, written, files>> /\ dev_task_active' = {} /\ skills_lock' = {} /\ timeouts' = 0
        /\ jobs' = [r \in Requests |-> IF jobs[r] \in {"created", "running", "abandoned"}
                                       THEN "lost" ELSE jobs[r]]
    BY <1>9 DEF Anew, HostStarts, fileVars
  <2>2. \A r \in Requests : /\ jobs'[r] \in {"none", "done", "lost"}
                            /\ jobs'[r] = "done" => jobs[r] = "done"
                            /\ jobs'[r] # "none" => jobs[r] # "none"
    BY <2>1 DEF IpcTypes, JobStates
  <2>3. \A r : ~AtSkill(r, "running")' /\ ~AtSkill(r, "abandoned")' /\ ~AtDev(r)'
    BY <2>1, <2>2 DEF AtSkill, AtDev, IpcTypes
  <2>4. GivenUp' = {}
    BY <2>3 DEF GivenUp
  <2>5. IsFiniteSet(GivenUp') /\ Cardinality(GivenUp') <= timeouts'
    BY <2>1, <2>4, FS_EmptySet
  <2>6. \A r \in Requests :
          /\ jobs'[r] # "none" => r \in ToSet(written')
          /\ r \in files' => jobs'[r] \in {"none", "lost"} \/ (jobs'[r] = "created" /\ Handling(r)')
          /\ jobs'[r] = "abandoned" => plan'[r].kind \in SkillKinds
          /\ jobs'[r] # "none" => plan'[r].kind \in JobKinds
    BY <2>1, <2>2 DEF JobsInv
  <2>7. QED
    BY <2>1, <2>3, <2>5, <2>6 DEF JobsInv
<1>10. QED
  BY <1>3, <1>4, <1>5, <1>6, <1>7, <1>8, <1>9, JobsAfterJob, StepKinds

\* The watcher starts with nothing handled and no job.
LEMMA IpcStarts == IpcInit => IpcInv
<1> SUFFICES ASSUME IpcInit PROVE IpcInv
  OBVIOUS
<1>1. IpcTypes
  <2>1. plan \in Plans /\ DOMAIN plan \subseteq Requests /\ \A r \in DOMAIN plan : plan[r] \in Request
    BY PlansAssumption DEF IpcInit
  <2>2. QED
    BY <2>1 DEF IpcInit, IpcTypes, JobStates
<1>2. FilesInv
  <2>1. written = <<>> /\ files = {} /\ rejected = {} /\ alerts = 0
    BY DEF IpcInit
  <2>2. QED
    BY <2>1, FS_EmptySet DEF FilesInv
<1>3. BatchInv
  <2>1. pc = "start" /\ batch = <<>> /\ at = <<MainFolder, 1>>
    BY DEF IpcInit
  <2>2. Orderly(batch, at[1], Subdirs[at[2]])
    BY <2>1 DEF Orderly
  <2>3. QED
    BY <2>1, <2>2, MainAssumption DEF BatchInv
<1>4. OnceInv
  BY DEF IpcInit, OnceInv
<1>5. JobsInv
  <2>1. /\ jobs = [r \in Requests |-> "none"] /\ dev_task_active = {} /\ skills_lock = {} /\ timeouts = 0
        /\ files = {}
    BY DEF IpcInit
  <2>2. \A r \in DOMAIN plan : jobs[r] = "none"
    BY <1>1, <2>1 DEF IpcTypes
  <2>3. /\ \A r : ~AtSkill(r, "running") /\ ~AtSkill(r, "abandoned") /\ ~AtDev(r)
        /\ GivenUp = {}
    BY <2>2 DEF AtSkill, AtDev, GivenUp
  <2>4. QED
    BY <2>1, <2>3, FS_EmptySet DEF JobsInv
<1>6. QED
  BY <1>1, <1>2, <1>3, <1>4, <1>5 DEF IpcInv

\* Every step keeps the invariant of the watcher.
LEMMA IpcKeeps == IpcInv /\ [IpcNext]_ipcVars => IpcInv'
  BY TypesKeep, FilesKeep, BatchKeeps, OnceKeeps, JobsKeep DEF IpcInv

\* What the invariant says of the states: the conjuncts of IpcSound about them.
LEMMA IpcStatesSound ==
    IpcInv => IpcTypeOK /\ HandledOncePerProcess /\ DevTaskExclusive /\ SkillOperationsSerialised
<1> SUFFICES ASSUME IpcInv
    PROVE  IpcTypeOK /\ HandledOncePerProcess /\ DevTaskExclusive /\ SkillOperationsSerialised
  OBVIOUS
<1>1. IpcTypes /\ FilesInv /\ BatchInv /\ OnceInv /\ JobsInv
  BY DEF IpcInv
<1>2. IsFiniteSet(skills_lock) /\ Cardinality(skills_lock) <= 1 /\ Cardinality(skills_lock) \in Nat
  <2>1. CASE skills_lock = {}
    BY <2>1, FS_EmptySet
  <2>2. CASE skills_lock # {}
    <3>1. PICK r \in skills_lock : skills_lock = {r}
      BY <1>1, <2>2 DEF JobsInv
    <3>2. IsFiniteSet({r}) /\ Cardinality({r}) = 1
      BY FS_Singleton
    <3>3. QED
      BY <3>1, <3>2
  <2>3. QED
    BY <2>1, <2>2
<1>3. IpcTypeOK
  <2>1. \A i \in DOMAIN batch : batch[i] \in files \cup {Alert}
    BY <1>1 DEF BatchInv, Orderly
  <2>2. alerts \in 0 .. Cardinality(rejected)
    BY <1>1, FS_CardinalityType DEF FilesInv
  <2>3. todo[1] \subseteq registered /\ todo[2] \subseteq registered
    BY <1>1 DEF IpcTypes
  <2>4. QED
    BY <1>1, <1>2, <2>1, <2>2, <2>3 DEF IpcTypeOK, IpcTypes, FilesInv, BatchInv, OnceInv, JobStates
<1>4. HandledOncePerProcess
  BY <1>1 DEF HandledOncePerProcess, OnceInv, IpcTypes
<1>5. DevTaskExclusive
  <2> SUFFICES ASSUME NEW f \in Folders
      PROVE  Cardinality({r \in DOMAIN plan : /\ plan[r].kind = "dev_task" /\ plan[r].from = f
                                             /\ jobs[r] = "running"})
             = IF f \in dev_task_active THEN 1 ELSE 0
    BY DEF DevTaskExclusive
  <2> DEFINE atWork == {r \in DOMAIN plan : /\ plan[r].kind = "dev_task" /\ plan[r].from = f
                                           /\ jobs[r] = "running"}
  <2>1. \A r : r \in atWork <=> r \in DOMAIN plan /\ AtDev(r) /\ plan[r].from = f
    BY DEF AtDev
  <2> HIDE DEF atWork
  <2>2. CASE f \in dev_task_active
    <3>1. PICK r \in DOMAIN plan : AtDev(r) /\ plan[r].from = f
      BY <1>1, <2>2 DEF JobsInv
    <3>2. atWork = {r}
      BY <1>1, <2>1, <3>1 DEF JobsInv
    <3>3. QED
      BY <2>2, <3>2, FS_Singleton DEF atWork
  <2>3. CASE f \notin dev_task_active
    <3>1. atWork = {}
      BY <1>1, <2>1, <2>3 DEF JobsInv
    <3>2. QED
      BY <2>3, <3>1, FS_EmptySet DEF atWork
  <2>4. QED
    BY <2>2, <2>3
<1>6. SkillOperationsSerialised
  <2> DEFINE under == {r \in DOMAIN plan : /\ plan[r].kind \in SkillKinds
                                          /\ jobs[r] \in {"running", "abandoned"}}
  <2>1. under = skills_lock \cup GivenUp
    BY <1>1 DEF JobsInv, GivenUp, AtSkill
  <2>2. IsFiniteSet(GivenUp) /\ Cardinality(GivenUp) \in Nat /\ Cardinality(GivenUp) <= timeouts
        /\ timeouts \in Nat
    BY <1>1, FS_CardinalityType DEF JobsInv
  <2>3. Cardinality(skills_lock \cup GivenUp)
          = Cardinality(skills_lock) + Cardinality(GivenUp) - Cardinality(skills_lock \cap GivenUp)
    BY <1>2, <2>2, FS_Union
  <2>4. Cardinality(skills_lock \cap GivenUp) \in Nat
    BY <1>2, FS_Intersection, FS_CardinalityType
  <2> HIDE DEF under
  <2>5. Cardinality(under) <= 1 + timeouts
    BY <1>2, <2>1, <2>2, <2>3, <2>4
  <2>6. QED
    BY <2>5 DEF SkillOperationsSerialised, under
<1>7. QED
  BY <1>3, <1>4, <1>5, <1>6

\* The step that handles a request leaves no older one in its directory.
LEMMA OldestFirst ==
    ASSUME IpcInv, IpcNext, NEW r \in DOMAIN plan, NEW q \in DOMAIN plan,
           handled'[r] > handled[r], q \in files, q # r,
           InDir(q, plan[r].from, SubdirOf(r)), ~LateName(q), ~LateName(r)
    PROVE  Earlier(r, q)
<1>1. /\ IpcTypes /\ FilesInv /\ BatchInv /\ OnceInv
      /\ r \in Requests /\ handled[r] \in Nat
  BY DEF IpcInv, IpcTypes, OnceInv
<1>2. handled' # handled
  BY <1>1
<1>3. HandleFile
  <2>1. UNCHANGED handled \/ HandleFile
    BY StepKinds, JobsApart DEF Bookkeeping, Besides, Anew, HostStarts, WriteIpcFile, ProcessIpcDir, NextDir,
       SkipFile, FailFile, HandleAlert, UnlinkFile, RemoveFile, fileVars
  <2>2. QED
    BY <1>2, <2>1
<1>4. batch # <<>> /\ Head(batch) # Alert /\ handled' = [handled EXCEPT ![Head(batch)] = @ + 1]
  BY <1>3 DEF HandleFile
<1>5. r = Head(batch)
  BY <1>1, <1>4 DEF OnceInv
<1>6. InDir(r, at[1], Subdirs[at[2]])
  BY <1>1, <1>4, <1>5, Heads
<1>7. InDir(q, at[1], Subdirs[at[2]])
  BY <1>6 DEF InDir
<1>8. QED
  BY <1>1, <1>4, <1>5, <1>7, Heads

\* process_ipc_dir and the background jobs it starts, for any requests of any groups, any cap
\* on a cycle and any number of crashes: a request takes effect at most once in the life of a
\* process, and never before an older one of its directory; a group has one development run at
\* a time, known to _dev_task_active; skill operations overlap only past a time-out.
THEOREM IpcStaysSound == IpcSpec => IpcSound
<1>1. IpcInit => IpcInv
  BY IpcStarts
<1>2. IpcInv /\ [IpcNext]_ipcVars => IpcInv'
  BY IpcKeeps
<1>3. IpcInv => IpcTypeOK /\ HandledOncePerProcess /\ DevTaskExclusive /\ SkillOperationsSerialised
  BY IpcStatesSound
<1> DEFINE InOrder == \A r, q \in DOMAIN plan :
                          (/\ handled'[r] > handled[r]
                           /\ q \in files /\ q # r
                           /\ InDir(q, plan[r].from, SubdirOf(r))
                           /\ ~LateName(q) /\ ~LateName(r))
                          => Earlier(r, q)
<1>4. IpcInv /\ [IpcNext]_ipcVars => [InOrder]_ipcVars
  BY OldestFirst
<1>5. FifoPerDirectory <=> [][InOrder]_ipcVars
  BY DEF FifoPerDirectory
<1> HIDE DEF InOrder
<1>6. QED
  BY <1>1, <1>2, <1>3, <1>4, <1>5, PTL DEF IpcSpec, IpcSound

=============================================================================
