------------------------------ MODULE SelfUpdate ------------------------------
(* How the host replaces its own code: the scheduled loop of auto_update.py,   *)
(* the self_update and restart_host requests of ipc_watcher.py, the AI repair  *)
(* of self_update_ai_fix.py, and the flags through which the main loop         *)
(* restarts the process.  Each subprocess of git, pytest, pip or gh is one     *)
(* step, because the coroutine awaits it.  Chat messages are left out.         *)
EXTENDS Naturals, FiniteSets

CONSTANTS
    Updaters,       \* calls of _run_self_update that may overlap: "auto", "ipc"
    LastCommit,     \* bound: commits pushed to origin are 1 .. LastCommit
    Broken,         \* the commits whose tests fail
    Modes,          \* subset of {"worktree", "inplace"} (AUTO_UPDATE_USE_WORKTREE)
    AiModes,        \* subset of {"off", "no_key", "human", "inline"}
    MAX_RETRIES,    \* AUTO_UPDATE_AI_FIX_MAX_RETRIES
    Overlap,        \* whether an update may be asked for while another one runs
    Faults,         \* the failures explored, see FaultKinds
    FaultBound      \* bound: failures, crashes and restart requests in a behaviour

FaultKinds == {"fetch", "remove", "add", "test", "commit", "merge", "pip", "reset",
               "crash", "restart_host"}

ASSUME UpdateAssumption ==
    /\ LastCommit \in Nat /\ MAX_RETRIES \in Nat \ {0} /\ FaultBound \in Nat
    /\ Broken \subseteq 1 .. LastCommit
    /\ Modes \subseteq {"worktree", "inplace"}
    /\ AiModes \subseteq {"off", "no_key", "human", "inline"}
    /\ Faults \subseteq FaultKinds
    /\ Overlap \in BOOLEAN

VARIABLES
    update_mode, ai_mode,  \* configuration, fixed at start
    origin,         \* newest commit of origin/<branch>
    fetch_head,     \* FETCH_HEAD of the repository
    main_head,      \* HEAD of the main checkout
    prev_head,      \* HEAD@{1}, the entry before it in the reflog
    running,        \* the commit the process was started from
    worktree,       \* the sandbox checkout: whether it exists, and its commit
    updater,        \* [Updaters -> [pc, attempts, target]]
    flags,          \* flag files in DATA_DIR
    stopping,       \* the main loop saw a flag and shuts down
    tested,         \* history: commits whose tests passed
    cut_short,      \* history: an update was cancelled, or its roll-back timed out
    faults          \* failures so far

updateVars == <<update_mode, ai_mode, origin, fetch_head, main_head, prev_head, running,
                worktree, updater, flags, stopping, tested, cut_short, faults>>

settings == <<update_mode, ai_mode>>
gitVars == <<origin, fetch_head, main_head, prev_head>>

-----------------------------------------------------------------------------
(* Commits.  The pushed ones form a line; an AI repair is a commit on top of   *)
(* one of them that origin does not have.                                      *)

Commit(n) == [base |-> n, ai |-> FALSE]

Repaired(c) == [base |-> c.base, ai |-> TRUE]

Commits == [base : 0 .. LastCommit, ai : BOOLEAN]

IsAncestor(a, b) == a = b \/ (~a.ai /\ a.base <= b.base)

TestsPass(c) == c.ai \/ c.base \notin Broken

NoWorktree == [exists |-> FALSE, commit |-> Commit(0)]

IdleUpdater == [pc |-> "idle", attempts |-> 0, target |-> Commit(0)]

At(u, label) == updater[u].pc = label

Goto(u, label) == updater' = [updater EXCEPT ![u].pc = label]

ReturnFrom(u) == updater' = [updater EXCEPT ![u] = IdleUpdater]

\* A failure happens: it is one of those explored, and within the bound.
Fault(kind) ==
    /\ kind \in Faults
    /\ faults < FaultBound
    /\ faults' = faults + 1

UpdateInit ==
    /\ update_mode \in Modes
    /\ ai_mode \in AiModes
    /\ origin = 0
    /\ fetch_head = Commit(0) /\ main_head = Commit(0) /\ prev_head = Commit(0)
    /\ running = Commit(0)
    /\ worktree = NoWorktree
    /\ updater = [u \in Updaters |-> IdleUpdater]
    /\ flags = {}
    /\ stopping = FALSE
    /\ tested = {Commit(0)}
    /\ cut_short = FALSE
    /\ faults = 0

-----------------------------------------------------------------------------
(* Mutants: plausible bugs, each in place of the definition it is named after.  *)

\* The worktree is merged whatever pytest said.
TestWorktreeIgnored(u) ==
    /\ At(u, "test") /\ worktree.exists
    /\ Goto(u, "merge")
    /\ UNCHANGED <<cut_short, settings, gitVars, running, worktree, flags, stopping, tested, faults>>

\* The leftover of an earlier run is not removed.
RemoveLeftoverSkipped(u) ==
    /\ update_mode = "worktree" /\ At(u, "start")
    /\ Goto(u, "fetch")
    /\ UNCHANGED <<cut_short, settings, gitVars, running, worktree, flags, stopping, tested, faults>>

\* The roll-back goes to where HEAD is instead of where it was.
RollBackToHead(u) ==
    /\ At(u, "rollback")
    /\ ReturnFrom(u)
    /\ UNCHANGED <<cut_short, settings, gitVars, running, worktree, flags, stopping, tested, faults>>

-----------------------------------------------------------------------------
(* Who starts an update.                                                       *)

\* Nothing in the code keeps two updates apart; Overlap = FALSE is a restriction.
MayBegin(u) == At(u, "idle") /\ (Overlap \/ \A v \in Updaters : At(v, "idle"))

\* git fetch; rev-list --count HEAD..origin/<branch>
GitIsBehind == ~IsAncestor(Commit(origin), main_head)

\* auto_update_loop: one check after an interval.
AutoUpdateCheck(u) ==
    /\ u = "auto" /\ MayBegin(u) /\ ~stopping
    /\ \/ /\ fetch_head' = Commit(origin)
          /\ GitIsBehind
          /\ Goto(u, "start")
          /\ UNCHANGED faults
       \/ /\ fetch_head' = Commit(origin)
          /\ ~GitIsBehind
          /\ UNCHANGED <<updater, faults>>
       \/ Fault("fetch") /\ UNCHANGED <<fetch_head, updater>>
    /\ UNCHANGED <<cut_short, settings, origin, main_head, prev_head, running, worktree,
                   flags, stopping, tested>>

\* A self_update request whose confirm_token is SELF_UPDATE_TOKEN; any other one
\* changes nothing.
SelfUpdateRequested(u) ==
    /\ u # "auto" /\ MayBegin(u)
    /\ Goto(u, "start")
    /\ UNCHANGED <<cut_short, settings, gitVars, running, worktree, flags, stopping,
                   tested, faults>>

-----------------------------------------------------------------------------
(* _run_self_update_worktree                                                   *)

\* git worktree prune, then remove --force of what an earlier run left.  A remove
\* that times out is killed and the worktree stays.
RemoveLeftover(u) ==
    /\ update_mode = "worktree" /\ At(u, "start")
    /\ \/ worktree' = NoWorktree /\ UNCHANGED faults
       \/ worktree.exists /\ Fault("remove") /\ UNCHANGED worktree
    /\ Goto(u, "fetch")
    /\ UNCHANGED <<cut_short, settings, gitVars, running, flags, stopping, tested>>

FetchOrigin(u) ==
    /\ At(u, "fetch")
    /\ \/ fetch_head' = Commit(origin) /\ Goto(u, "compare") /\ UNCHANGED faults
       \/ Fault("fetch") /\ ReturnFrom(u) /\ UNCHANGED fetch_head
    /\ UNCHANGED <<cut_short, settings, origin, main_head, prev_head, running, worktree,
                   flags, stopping, tested>>

\* rev-list --count HEAD..FETCH_HEAD = 0: nothing to do.
CompareHeads(u) ==
    /\ At(u, "compare")
    /\ IF IsAncestor(fetch_head, main_head) THEN ReturnFrom(u) ELSE Goto(u, "add")
    /\ UNCHANGED <<cut_short, settings, gitVars, running, worktree, flags, stopping,
                   tested, faults>>

\* git worktree add --detach FETCH_HEAD refuses a directory that exists; one that is
\* killed may have created it.
AddWorktree(u) ==
    /\ At(u, "add")
    /\ \/ /\ ~worktree.exists
          /\ worktree' = [exists |-> TRUE, commit |-> fetch_head]
          /\ Goto(u, "test")
          /\ UNCHANGED faults
       \/ worktree.exists /\ ReturnFrom(u) /\ UNCHANGED <<worktree, faults>>
       \/ /\ ~worktree.exists /\ Fault("add") /\ ReturnFrom(u)
          /\ worktree' \in {NoWorktree, [exists |-> TRUE, commit |-> fetch_head]}
    /\ UNCHANGED <<cut_short, settings, gitVars, running, flags, stopping, tested>>

\* pytest in the worktree.  In a directory that is gone it cannot be started, and
\* the exception ends the run.
TestWorktree(u) ==
    /\ At(u, "test")
    /\ \/ /\ worktree.exists /\ TestsPass(worktree.commit)
          /\ tested' = tested \cup {worktree.commit}
          /\ Goto(u, "merge")
          /\ UNCHANGED faults
       \/ /\ worktree.exists
          /\ \/ ~TestsPass(worktree.commit) /\ UNCHANGED faults
             \/ Fault("test")
          /\ Goto(u, "failed")
          /\ UNCHANGED tested
       \/ ~worktree.exists /\ ReturnFrom(u) /\ UNCHANGED <<tested, faults>>
    /\ UNCHANGED <<cut_short, settings, gitVars, running, worktree, flags, stopping>>

\* AUTO_UPDATE_AI_FIX_ENABLED, and a key for the provider.
AiEnabled == ai_mode \notin {"off", "no_key"}

\* The repair is disabled, has no key, or is used up: remove the worktree, give up.
AbandonUpdate(u) ==
    /\ worktree' = NoWorktree
    /\ ReturnFrom(u)
    /\ UNCHANGED tested

TestsFailed(u) ==
    /\ At(u, "failed")
    /\ \/ ~AiEnabled /\ AbandonUpdate(u)
       \/ AiEnabled /\ Goto(u, "ai") /\ UNCHANGED <<worktree, tested>>
    /\ UNCHANGED <<cut_short, settings, gitVars, running, flags, stopping, faults>>

\* git merge --ff-only FETCH_HEAD, then the worktree is removed.  A merge that takes
\* longer than its 30 s raises, done or not.
FastForward(u) ==
    /\ At(u, "merge")
    /\ \/ /\ IsAncestor(main_head, fetch_head)
          /\ main_head' = fetch_head
          /\ prev_head' = IF main_head = fetch_head THEN prev_head ELSE main_head
          /\ worktree' = NoWorktree
          /\ Goto(u, "flag")
          /\ UNCHANGED <<faults, tested>>
       \/ /\ ~IsAncestor(main_head, fetch_head)
          /\ AbandonUpdate(u)
          /\ UNCHANGED <<main_head, prev_head, faults>>
       \/ /\ IsAncestor(main_head, fetch_head) /\ Fault("merge") /\ ReturnFrom(u)
          /\ \/ main_head' = fetch_head /\ prev_head' = main_head
             \/ UNCHANGED <<main_head, prev_head>>
          /\ UNCHANGED <<worktree, tested>>
    /\ UNCHANGED <<cut_short, settings, origin, fetch_head, running, flags, stopping>>

\* pip install, then self_update.flag.  pip that cannot be started raises before
\* the flag is written; one that fails or times out does not.
InstallAndFlag(u) ==
    /\ \/ flags' = flags \cup {"self_update"} /\ UNCHANGED faults
       \/ Fault("pip") /\ UNCHANGED flags
    /\ ReturnFrom(u)
    /\ UNCHANGED <<cut_short, settings, gitVars, running, worktree, stopping, tested>>

WriteFlag(u) == update_mode = "worktree" /\ At(u, "flag") /\ InstallAndFlag(u)

-----------------------------------------------------------------------------
(* self_update_ai_fix.attempt_fixes, in the worktree                           *)

\* What an answer of the model comes to.
LlmAnswers == {"failed", "no_fix", "no_diff", "disallowed", "unapplicable",
               "changes_tests", "wrong", "right"}

ExtractDiff(a) == a \notin {"failed", "no_fix", "no_diff"}

DiffTouchesOnlyAllowlist(a) == a # "disallowed"

GitApply(a) == a # "unapplicable"

TestsUnchanged(a) == a # "changes_tests"

\* The patch is applied, leaves tests/ alone and pytest passes with it.
Accepted(a) ==
    /\ ExtractDiff(a) /\ DiffTouchesOnlyAllowlist(a)
    /\ GitApply(a) /\ TestsUnchanged(a)
    /\ a = "right"

\* One attempt.  A patch that is not accepted is reverted.
AttemptFix(u) ==
    /\ At(u, "ai") /\ updater[u].attempts < MAX_RETRIES
    /\ \E a \in LlmAnswers :
         \/ Accepted(a) /\ worktree.exists /\ Goto(u, "accepted")
         \/ a = "no_fix" /\ updater' = [updater EXCEPT ![u].attempts = MAX_RETRIES]
         \/ /\ ~Accepted(a) /\ a # "no_fix"
            /\ updater' = [updater EXCEPT ![u].attempts = @ + 1]
    /\ UNCHANGED <<cut_short, settings, gitVars, running, worktree, flags, stopping, tested,
                   faults>>

\* No attempt passed: open an issue, give up.
OpenFailureIssue(u) ==
    /\ At(u, "ai") /\ updater[u].attempts = MAX_RETRIES
    /\ AbandonUpdate(u)
    /\ UNCHANGED <<cut_short, settings, gitVars, running, flags, stopping, faults>>

\* REQUIRE_HUMAN_APPROVE: push a branch, open a pull request, main is not touched.
PushBranchAndOpenPr(u) ==
    /\ At(u, "accepted") /\ ai_mode = "human"
    /\ AbandonUpdate(u)
    /\ UNCHANGED <<cut_short, settings, gitVars, running, flags, stopping, faults>>

\* Commit in the worktree and let FETCH_HEAD name that commit.  The exit code of
\* git commit is not looked at: when it fails HEAD is still the pulled commit.
CommitInline(u) ==
    /\ At(u, "accepted") /\ ai_mode = "inline"
    /\ \/ /\ fetch_head' = Repaired(worktree.commit)
          /\ tested' = tested \cup {Repaired(worktree.commit)}
          /\ worktree' = [worktree EXCEPT !.commit = Repaired(worktree.commit)]
          /\ UNCHANGED faults
       \/ /\ Fault("commit")
          /\ fetch_head' = worktree.commit
          /\ UNCHANGED <<tested, worktree>>
    /\ Goto(u, "merge")
    /\ UNCHANGED <<cut_short, settings, origin, main_head, prev_head, running, flags, stopping>>

-----------------------------------------------------------------------------
(* _run_self_update_inplace                                                    *)

\* git pull; the target of a roll-back is HEAD@{1}.  When nothing was pulled there
\* is no test, and the process restarts all the same.
GitPull(u) ==
    /\ update_mode = "inplace" /\ At(u, "start")
    /\ \/ /\ fetch_head' = Commit(origin)
          /\ main_head' = Commit(origin)
          /\ prev_head' = IF main_head = Commit(origin) THEN prev_head ELSE main_head
          /\ updater' = [updater EXCEPT
                ![u].pc = IF main_head = Commit(origin) THEN "flag" ELSE "gate",
                ![u].target = prev_head']
          /\ UNCHANGED faults
       \/ Fault("fetch") /\ ReturnFrom(u) /\ UNCHANGED <<fetch_head, main_head, prev_head>>
    /\ UNCHANGED <<cut_short, settings, origin, running, worktree, flags, stopping, tested>>

TestGate(u) ==
    /\ At(u, "gate")
    /\ \/ /\ TestsPass(main_head)
          /\ tested' = tested \cup {main_head}
          /\ Goto(u, "flag")
          /\ UNCHANGED faults
       \/ /\ \/ ~TestsPass(main_head) /\ UNCHANGED faults
             \/ Fault("test")
          /\ Goto(u, "rollback")
          /\ UNCHANGED tested
    /\ UNCHANGED <<cut_short, settings, gitVars, running, worktree, flags, stopping>>

\* git reset --hard, abandoned after 30 s.
RollBack(u) ==
    /\ At(u, "rollback")
    /\ \/ /\ main_head' = updater[u].target
          /\ prev_head' = main_head
          /\ UNCHANGED <<cut_short, faults>>
       \/ Fault("reset") /\ cut_short' = TRUE /\ UNCHANGED <<main_head, prev_head>>
    /\ ReturnFrom(u)
    /\ UNCHANGED <<settings, origin, fetch_head, running, worktree, flags, stopping,
                   tested>>

FinishInplace(u) == update_mode = "inplace" /\ At(u, "flag") /\ InstallAndFlag(u)

-----------------------------------------------------------------------------
(* The process and its environment.                                            *)

\* _message_loop: one flag file is removed and the shutdown begins.
DetectFlag ==
    /\ ~stopping /\ flags # {}
    /\ flags' = IF "self_update" \in flags THEN flags \ {"self_update"} ELSE {}
    /\ stopping' = TRUE
    /\ UNCHANGED <<cut_short, settings, gitVars, running, worktree, updater, tested, faults>>

\* The process ends with its coroutines and starts from the main checkout.
StartProcess ==
    /\ running' = main_head
    /\ updater' = [u \in Updaters |-> IdleUpdater]
    /\ stopping' = FALSE
    /\ cut_short' = (cut_short \/ \E u \in Updaters : ~At(u, "idle"))
    /\ UNCHANGED <<settings, gitVars, worktree, flags, tested>>

\* End of main(): os.execv, or a clean exit that pm2 answers with a new process.
Reexec == stopping /\ StartProcess /\ UNCHANGED faults

UpdaterCrash == Fault("crash") /\ StartProcess

\* restart_host: no token, no pull; only the flag.
RestartRequested ==
    /\ Fault("restart_host")
    /\ flags' = flags \cup {"restart"}
    /\ UNCHANGED <<cut_short, settings, gitVars, running, worktree, updater, stopping, tested>>

Push ==
    /\ origin < LastCommit
    /\ origin' = origin + 1
    /\ UNCHANGED <<cut_short, settings, fetch_head, main_head, prev_head, running, worktree,
                   updater, flags, stopping, tested, faults>>

UpdateStep(u) ==
    \/ RemoveLeftover(u) \/ FetchOrigin(u) \/ CompareHeads(u) \/ AddWorktree(u)
    \/ TestWorktree(u) \/ TestsFailed(u) \/ FastForward(u) \/ WriteFlag(u)
    \/ AttemptFix(u) \/ OpenFailureIssue(u) \/ PushBranchAndOpenPr(u) \/ CommitInline(u)
    \/ GitPull(u) \/ TestGate(u) \/ RollBack(u) \/ FinishInplace(u)

UpdateNext ==
    \/ \E u \in Updaters : AutoUpdateCheck(u) \/ SelfUpdateRequested(u) \/ UpdateStep(u)
    \/ DetectFlag \/ Reexec \/ UpdaterCrash \/ RestartRequested \/ Push

UpdateSpec == UpdateInit /\ [][UpdateNext]_updateVars

\* Subprocesses end or time out, the loops come round; nobody has to push, ask for
\* an update or restart the host.
FairUpdateSpec ==
    /\ UpdateSpec
    /\ \A u \in Updaters : WF_updateVars(AutoUpdateCheck(u)) /\ WF_updateVars(UpdateStep(u))
    /\ WF_updateVars(DetectFlag) /\ WF_updateVars(Reexec)

-----------------------------------------------------------------------------

UpdateTypeOK ==
    /\ update_mode \in Modes /\ ai_mode \in AiModes
    /\ origin \in 0 .. LastCommit
    /\ {fetch_head, main_head, prev_head, running} \subseteq Commits
    /\ worktree \in [exists : BOOLEAN, commit : Commits]
    /\ updater \in [Updaters -> [pc : {"idle", "start", "fetch", "compare", "add", "test",
                                       "failed", "ai", "accepted", "merge", "flag", "gate",
                                       "rollback"},
                                 attempts : 0 .. MAX_RETRIES, target : Commits]]
    /\ flags \subseteq {"self_update", "restart"}
    /\ stopping \in BOOLEAN
    /\ tested \subseteq Commits
    /\ cut_short \in BOOLEAN
    /\ faults \in 0 .. FaultBound

\* "Test failures cannot leave main in a broken state": with the sandbox, neither the
\* main checkout nor the process is ever at a commit whose tests did not pass,
\* whenever the process crashes or restarts.
OnlyTestedCode ==
    update_mode = "worktree" => {main_head, running} \subseteq tested

\* In place, between updates the checkout is one whose tests passed, as long as
\* every update so far ran to its end.
RolledBack ==
    update_mode = "inplace" /\ ~cut_short /\ (\A u \in Updaters : At(u, "idle"))
        => main_head \in tested

\* What was pushed last is loaded in the end, if its tests pass, whatever a crash, a
\* restart or a failed step left behind, unless main was given a repair that origin
\* does not have (auto_update_loop, _run_self_update).
UpdateLoaded ==
    []<>(running = Commit(origin) \/ origin \in Broken \/ main_head.ai)

\* _run_self_update in both modes, through crashes and restarts: only tested code is in the
\* checkout between updates, and with the sandbox at any time.
UpdateSound == UpdateTypeOK /\ OnlyTestedCode /\ RolledBack

=============================================================================
