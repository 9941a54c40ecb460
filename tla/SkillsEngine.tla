----------------------------- MODULE SkillsEngine -----------------------------
(* skills_engine: applying, uninstalling and rebasing skills, with the lock,   *)
(* the backup, the clean copy (base) and state.yaml on disk, run by the host's  *)
(* worker threads and by the command line.                                     *)
(*                                                                             *)
(* A file's content is a set of atoms: "core" for the shipped text, a skill    *)
(* for that skill's change, "edit" for the user's; {} is a file that does not   *)
(* exist.  A three-way merge works on the atoms.  Taking the lock is one step   *)
(* here; SkillsLock takes it apart.                                            *)
EXTENDS Naturals, Sequences, SequencesExt, FiniteSets

CONSTANTS
    Procs,          \* processes and threads that may run an operation
    Skills, Files,
    BaseFiles,      \* BASE_INCLUDES: the files that init_evoclaw_dir copies
    Adds, Modifies, Deletes, Structured,    \* manifests: [Skills -> SUBSET Files]
    Depends, Conflicts,                     \* manifests: [Skills -> SUBSET Skills]
    Env,            \* .env.example, part of every backup
    HasTools, HasPost, HasTest,             \* the skills with container tools, ...
    Faults, FaultBound  \* which failures happen, and how often at most

FaultKinds == {"file_ops", "no_file", "conflict", "post", "test", "late_exception",
               "no_dir", "replay", "patch", "crash"}

\* Files that are in the project before any skill is.
Shipped == Files \ UNION {Adds[s] : s \in Skills}

ASSUME SkillsAssumption ==
    /\ BaseFiles \subseteq Shipped /\ Env \in Files
    /\ {Adds, Modifies, Deletes, Structured} \subseteq [Skills -> SUBSET Files]
    /\ {Depends, Conflicts} \subseteq [Skills -> SUBSET Skills]
    /\ (HasTools \cup HasPost \cup HasTest) \subseteq Skills
    /\ Faults \subseteq FaultKinds /\ FaultBound \in Nat

VARIABLES
    ready,          \* state.yaml exists
    applied,        \* its applied_skills, in order
    tree,           \* the project's files
    base,           \* .evoclaw/base
    backup,         \* .evoclaw/backup: a copy and a tombstone per file
    tools,          \* skills whose tools are in data/dynamic_tools
    session,        \* file of the customize session, as a set of at most one
    lock,           \* owner of .evoclaw/lock, NoOwner when there is no file
    proc,           \* the operation each process is in
    before,         \* history: list and files when the lock was taken or released
    holes,          \* history: what happened that the engine does not cover
    faults

skillsVars == <<ready, applied, tree, base, backup, tools, session, lock, proc,
                before, holes, faults>>

Atoms == Skills \cup {"core", "edit"}
NoOwner == "no_owner"
NoBackup == [f \in Files |-> [copy |-> {}, tomb |-> FALSE]]
Idle == [op |-> "none", pc |-> "idle", skill |-> "none", list |-> <<>>, todo |-> {}]

At(p, label) == proc[p].pc = label

Goto(p, label) == proc' = [proc EXCEPT ![p].pc = label]

\* What marks a file's text apart from the changes of skills, and a lock without an owner.
ASSUME AtomAssumption == {"core", "edit"} \cap Skills = {} /\ NoOwner \notin Procs

\* Between taking the lock and releasing it.
Locked(p) == proc[p].pc \notin {"idle", "lock"}

Noted(a, b, t) == before' = [applied |-> a, base |-> b, tree |-> t]

\* A skill is on the list at most once.
Without(list, s) ==
    IF s \in ToSet(list) THEN RemoveAt(list, CHOOSE i \in DOMAIN list : list[i] = s) ELSE list

Fault(kind) ==
    /\ kind \in Faults
    /\ faults < FaultBound
    /\ faults' = faults + 1

-----------------------------------------------------------------------------
(* Files.                                                                      *)

\* The text a skill has for a file it modifies: what the file is without the skill,
\* and its own change.
Theirs(s, f) ==
    {s} \cup (IF f \in Shipped THEN {"core"} ELSE {d \in Depends[s] : f \in Adds[d]})

\* git merge-file: a change made on either side is in the result.
MergeFile(ours, old, theirs) ==
    (ours \ old) \cup (theirs \ old) \cup (ours \cap theirs)

\* The clean copy a file is merged over: taken from the project when there is none.
CleanCopy(b, t, f) == IF t[f] # {} /\ b[f] = {} THEN t[f] ELSE b[f]

\* One file of "modify/": copied when the project does not have it, else merged.
MergedFile(b, t, s, f) ==
    IF t[f] = {} THEN Theirs(s, f) ELSE MergeFile(t[f], CleanCopy(b, t, f), Theirs(s, f))

\* The merges of some files, each on its own.
MergeModified(b, t, s, fs) ==
    [base |-> [f \in Files |-> IF f \in fs THEN CleanCopy(b, t, f) ELSE b[f]],
     tree |-> [f \in Files |-> IF f \in fs THEN MergedFile(b, t, s, f) ELSE t[f]]]

\* File operations, then the files of "add/".
FileOpsAndAdds(t, s) ==
    [f \in Files |-> IF f \in Adds[s] THEN {s} ELSE IF f \in Deletes[s] THEN {} ELSE t[f]]

\* Dependencies and environment variables of some skills are added once.
MergeStructured(t, skills) == [f \in Files |-> t[f] \cup {s \in skills : f \in Structured[s]}]

MergeAll(b, t, s) == MergeModified(b, t, s, Modifies[s])

\* All of apply_skill's changes to files.
InstallOf(b, t, s) ==
    LET merged == MergeAll(b, FileOpsAndAdds(t, s), s)
    IN  [base |-> merged.base, tree |-> MergeStructured(merged.tree, {s})]

\* Replay resets the files of the skills that are replayed, and only those.
Touched(list) == UNION {Adds[s] \cup Modifies[s] : s \in ToSet(list)}

ResetTouched(b, t, list) == [f \in Files |-> IF f \in Touched(list) THEN b[f] ELSE t[f]]

\* Mutant: replay copies added files and forgets the merges.
ReplayOneAddsOnly(b, t, s) == [base |-> b, tree |-> FileOpsAndAdds(t, s)]

ReplayOne(b, t, s) == MergeAll(b, FileOpsAndAdds(t, s), s)

\* replay_skills: clean copies and files after each skill of the list.
Replayed(b, t, list) ==
    LET after[n \in 0 .. Len(list)] ==
            IF n = 0 THEN [base |-> b, tree |-> ResetTouched(b, t, list)]
            ELSE ReplayOne(after[n - 1].base, after[n - 1].tree, list[n])
    IN  after

\* Structured operations are done once, at the end.
RebuildOf(b, t, list) ==
    LET last == Replayed(b, t, list)[Len(list)]
    IN  [base |-> last.base, tree |-> MergeStructured(last.tree, ToSet(list))]

\* create_backup: what apply_skill saves, over what an earlier run left there.
BackedUp(s) == Modifies[s] \cup Adds[s] \cup {Env}

\* Mutant: .env.example is not among the saved files.
CreateBackupWithoutEnv(s) ==
    [f \in Files |->
        IF f \notin Adds[s] \cup Modifies[s] THEN backup[f]
        ELSE IF tree[f] # {} THEN [backup[f] EXCEPT !.copy = tree[f]]
        ELSE [backup[f] EXCEPT !.tomb = TRUE]]

CreateBackup(s) ==
    [f \in Files |->
        IF f \notin BackedUp(s) THEN backup[f]
        ELSE IF tree[f] # {} THEN [backup[f] EXCEPT !.copy = tree[f]]
        ELSE [backup[f] EXCEPT !.tomb = TRUE]]

\* restore_backup, after the files the run created were removed.  A file with a copy
\* and a tombstone is left as whichever is visited last.
RestoredFrom(b, t) ==
    {[f \in Files |-> IF f \in deleted THEN {}
                      ELSE IF b[f].copy # {} THEN b[f].copy ELSE t[f]] :
        deleted \in {d \in SUBSET {f \in Files : b[f].tomb} :
                        \A f \in Files : b[f].tomb /\ b[f].copy = {} => f \in d}}

-----------------------------------------------------------------------------

SkillsInit ==
    /\ ready = FALSE
    /\ applied = <<>>
    /\ tree = [f \in Files |-> IF f \in Shipped THEN {"core"} ELSE {}]
    /\ base = [f \in Files |-> {}]
    /\ backup = NoBackup
    /\ tools = {}
    /\ session = {}
    /\ lock = NoOwner
    /\ proc = [p \in Procs |-> Idle]
    /\ before = [applied |-> applied, base |-> base, tree |-> tree]
    /\ holes = {}
    /\ faults = 0

\* init_evoclaw_dir: a new clean copy and an empty list, without the lock.
Snapshot == [f \in Files |-> IF f \in BaseFiles THEN tree[f] ELSE {}]

InitSkillsSystem(p) ==
    /\ At(p, "idle")
    /\ ready' = TRUE
    /\ applied' = <<>>
    /\ base' = Snapshot
    /\ holes' = holes \cup {"init" : q \in {q \in Procs : ~At(q, "idle")}}
                      \cup {"dirty_base" : f \in {f \in Files : ~(Snapshot[f] \subseteq {"core"})}}
    /\ UNCHANGED <<tree, backup, tools, session, lock, proc, before, faults>>

-----------------------------------------------------------------------------
(* The parts before the lock.                                                  *)

\* check_dependencies, check_conflicts and is_customize_active.
PreFlightOK(s) ==
    /\ session = {}
    /\ Depends[s] \subseteq ToSet(applied)
    /\ Conflicts[s] \cap ToSet(applied) = {}

\* The first application initialises the engine.
ApplySkill(p, s) ==
    /\ At(p, "idle")
    /\ ready' = TRUE
    /\ base' = IF ready THEN base ELSE Snapshot
    /\ PreFlightOK(s)
    /\ proc' = [proc EXCEPT ![p] =
            [op |-> "apply", pc |-> "lock", skill |-> s, list |-> <<>>, todo |-> {}]]
    /\ UNCHANGED <<applied, tree, backup, tools, session, lock, before,
                   holes, faults>>

\* The list to replay is read, and the tools are removed, before the lock is taken.
UninstallSkill(p, s) ==
    /\ At(p, "idle") /\ ready /\ s \in ToSet(applied)
    /\ \/ /\ proc' = [proc EXCEPT ![p] = [op |-> "uninstall", pc |-> "lock", skill |-> s,
                                          list |-> Without(applied, s), todo |-> {}]]
          /\ tools' = tools \ {s}
          /\ UNCHANGED faults
       \/ Fault("no_dir") /\ UNCHANGED <<proc, tools>>
    /\ UNCHANGED <<ready, applied, tree, base, backup, session, lock, before, holes>>

RebaseSkills(p) ==
    /\ At(p, "idle") /\ ready /\ applied # <<>>
    /\ proc' = [proc EXCEPT ![p] = [op |-> "rebase", pc |-> "lock", skill |-> "none",
                                    list |-> applied, todo |-> {}]]
    /\ UNCHANGED <<ready, applied, tree, base, backup, tools, session, lock, before,
                   holes, faults>>

\* There is no lock file, or one that a dead process left.
LockFree == IF lock = NoOwner THEN TRUE ELSE ~Locked(lock)

\* acquire_lock: refused while the owner is alive; the file of a dead one is removed.
AcquireLock(p) ==
    /\ At(p, "lock")
    /\ \/ /\ LockFree
          /\ lock' = p
          /\ Goto(p, IF proc[p].op = "apply" THEN "backup" ELSE "reset")
          /\ Noted(applied, base, tree)
          /\ holes' = holes \cup
                (IF \/ proc[p].op = "uninstall" /\ proc[p].list # Without(applied, proc[p].skill)
                    \/ proc[p].op = "rebase" /\ proc[p].list # applied
                 THEN {"stale_list"} ELSE {})
       \/ /\ ~LockFree
          /\ proc' = [proc EXCEPT ![p] = Idle]
          /\ UNCHANGED <<lock, before, holes>>
    /\ UNCHANGED <<ready, applied, tree, base, backup, tools, session, faults>>

-----------------------------------------------------------------------------
(* apply_skill                                                                 *)

SaveFiles(p) ==
    /\ At(p, "backup")
    /\ backup' = CreateBackup(proc[p].skill)
    /\ Goto(p, "adds")
    /\ UNCHANGED <<ready, applied, tree, base, tools, session, lock, before, holes, faults>>

\* The changes a roll-back does not undo: deleted files and package.json.
NotSaved(s) == (Deletes[s] \cup Structured[s]) \ BackedUp(s)

\* execute_file_ops, then the copies of add/ and of the container tools.
CopyAdds(p) ==
    /\ At(p, "adds")
    /\ LET s == proc[p].skill
       IN  \/ /\ tree' = FileOpsAndAdds(tree, s)
              /\ tools' = IF s \in HasTools THEN tools \cup {s} ELSE tools
              /\ proc' = [proc EXCEPT ![p].pc = "merge", ![p].todo = Modifies[s]]
              /\ UNCHANGED faults
           \/ /\ Fault("file_ops") /\ Goto(p, "rollback")
              /\ UNCHANGED <<tree, tools>>
    /\ UNCHANGED <<ready, applied, base, backup, session, lock, before, holes>>

\* One file.  A missing file of the skill, or git failing, raises; a conflict is
\* noticed after the other files were merged, and undone with them.
MergeNext(p) ==
    /\ At(p, "merge")
    /\ \E f \in proc[p].todo :
         LET merged == MergeModified(base, tree, proc[p].skill, {f})
         IN  \/ /\ base' = merged.base /\ tree' = merged.tree
                /\ proc' = [proc EXCEPT ![p].todo = @ \ {f}]
                /\ UNCHANGED faults
             \/ /\ base' = merged.base /\ tree' = merged.tree
                /\ tree[f] \ base'[f] # {} /\ Fault("conflict") /\ Goto(p, "rollback")
             \/ Fault("no_file") /\ Goto(p, "rollback") /\ UNCHANGED <<base, tree>>
    /\ UNCHANGED <<ready, applied, backup, tools, session, lock, before, holes>>

MergesDone(p) ==
    /\ At(p, "merge") /\ proc[p].todo = {}
    /\ tree' = MergeStructured(tree, {proc[p].skill})
    /\ Goto(p, IF proc[p].skill \in HasPost THEN "post" ELSE "record")
    /\ UNCHANGED <<ready, applied, base, backup, tools, session, lock, before, holes, faults>>

\* The allowed post_apply commands; their failure undoes the run.
PostApply(p) ==
    /\ At(p, "post")
    /\ \/ Goto(p, "record") /\ UNCHANGED faults
       \/ Fault("post") /\ Goto(p, "rollback")
    /\ UNCHANGED <<ready, applied, tree, base, backup, tools, session, lock, before, holes>>

\* state.yaml is written before the skill's test runs.
RecordSkillApplication(p) ==
    /\ At(p, "record")
    /\ applied' = Append(Without(applied, proc[p].skill), proc[p].skill)
    /\ Goto(p, IF proc[p].skill \in HasTest THEN "test" ELSE "clear")
    /\ UNCHANGED <<ready, tree, base, backup, tools, session, lock, before, holes, faults>>

\* A test that fails undoes everything; one that cannot be started or times out is
\* an exception, which does not take the skill off the list.
RunTest(p) ==
    /\ At(p, "test")
    /\ \/ Goto(p, "clear") /\ UNCHANGED <<holes, faults>>
       \/ Fault("test") /\ Goto(p, "unrecord") /\ UNCHANGED holes
       \/ /\ Fault("late_exception") /\ Goto(p, "rollback")
          /\ holes' = holes \cup {"late_exception"}
    /\ UNCHANGED <<ready, applied, tree, base, backup, tools, session, lock, before>>

\* Files the run added are removed, then everything saved is put back.
RemoveAdded(p) ==
    LET s == proc[p].skill
    IN  [f \in Files |-> IF f \in Adds[s] /\ before.tree[f] = {} THEN {} ELSE tree[f]]

RollBack(p) ==
    /\ At(p, "rollback") \/ At(p, "unrecord")
    /\ tree' \in RestoredFrom(backup, RemoveAdded(p))
    /\ applied' = IF At(p, "unrecord") THEN Without(applied, proc[p].skill) ELSE applied
    /\ holes' = holes \cup {"not_saved" : f \in NotSaved(proc[p].skill)}
                      \cup (IF At(p, "unrecord") /\ proc[p].skill \in ToSet(before.applied)
                            THEN {"was_applied"} ELSE {})
    /\ Goto(p, "clear")
    /\ UNCHANGED <<ready, base, backup, tools, session, lock, before, faults>>

ReleaseLock(p) ==
    /\ lock' = IF lock = p THEN NoOwner ELSE lock
    /\ proc' = [proc EXCEPT ![p] = Idle]

\* clear_backup, and the lock is released.
ClearBackup(p) ==
    /\ At(p, "clear")
    /\ backup' = NoBackup
    /\ ReleaseLock(p) /\ Noted(applied, base, tree)
    /\ UNCHANGED <<ready, applied, tree, base, tools, session, holes, faults>>

-----------------------------------------------------------------------------
(* replay_skills, for uninstall_skill and rebase                               *)

ReplayReset(p) ==
    /\ At(p, "reset")
    /\ tree' = ResetTouched(base, tree, proc[p].list)
    /\ Goto(p, "replay")
    /\ UNCHANGED <<ready, applied, base, backup, tools, session, lock, before, holes, faults>>

\* The next skill of the list.  A conflict ends the replay where it is: there is no
\* backup to go back to.
ReplayNext(p) ==
    /\ At(p, "replay") /\ proc[p].list # <<>>
    /\ LET one == ReplayOne(base, tree, Head(proc[p].list))
       IN  \/ /\ base' = one.base /\ tree' = one.tree
              /\ proc' = [proc EXCEPT ![p].list = Tail(@)]
              /\ UNCHANGED <<lock, before, holes, faults>>
           \/ /\ Fault("replay")
              /\ base' = one.base /\ tree' = one.tree
              /\ ReleaseLock(p) /\ Noted(applied, one.base, one.tree)
              /\ holes' = holes \cup {"replay"}
    /\ UNCHANGED <<ready, applied, backup, tools, session>>

\* Structured operations; then uninstall takes the skill off the list as it is now,
\* and rebase applies the patch of local edits as far as it applies.
ReplayDone(p) ==
    /\ At(p, "replay") /\ proc[p].list = <<>>
    /\ LET done == IF proc[p].op = "rebase" THEN before.applied
                   ELSE Without(before.applied, proc[p].skill)
           built == MergeStructured(tree, ToSet(done))
       IN  \/ proc[p].op = "uninstall" /\ tree' = built /\ UNCHANGED faults
           \/ proc[p].op = "rebase" /\ Fault("patch") /\ tree' = built
           \/ /\ proc[p].op = "rebase" /\ UNCHANGED faults
              /\ tree' = [f \in Files |->
                    built[f] \cup (before.tree[f] \cap {"edit"})]
    /\ applied' = IF proc[p].op = "uninstall" THEN Without(applied, proc[p].skill) ELSE applied
    /\ ReleaseLock(p) /\ Noted(applied', base, tree')
    /\ UNCHANGED <<ready, base, backup, tools, session, holes>>

-----------------------------------------------------------------------------
(* Customize sessions: they keep new applications out, and nothing else.       *)

StartCustomize(f) ==
    /\ ready /\ session = {}
    /\ session' = {f}
    /\ UNCHANGED <<ready, applied, tree, base, backup, tools, lock, proc, before, holes, faults>>

UserEdits(f) ==
    /\ session = {f} /\ "edit" \notin tree[f] /\ tree[f] # {}
    /\ tree' = [tree EXCEPT ![f] = @ \cup {"edit"}]
    /\ holes' = holes \cup {"session" : p \in {p \in Procs : Locked(p)}}
    /\ UNCHANGED <<ready, applied, base, backup, tools, session, lock, proc, before, faults>>

CommitCustomize ==
    /\ session # {}
    /\ session' = {}
    /\ UNCHANGED <<ready, applied, tree, base, backup, tools, lock, proc, before, holes, faults>>

\* git checkout HEAD: the changes of skills to the file go as well.
AbortCustomize(f) ==
    /\ session = {f}
    /\ session' = {}
    /\ tree' = IF f \in BaseFiles THEN [tree EXCEPT ![f] = {"core"}] ELSE tree
    /\ holes' = holes \cup {"session" : p \in {p \in Procs : Locked(p)}}
                      \cup {"abort" : s \in tree[f] \cap ToSet(applied)}
    /\ UNCHANGED <<ready, applied, base, backup, tools, lock, proc, before, faults>>

-----------------------------------------------------------------------------

\* The process dies; the lock file and the backup stay, and the next backup is made
\* over it.  A replay has no backup at all.
Crash(p) ==
    /\ Fault("crash") /\ ~At(p, "idle")
    /\ proc' = [proc EXCEPT ![p] = Idle]
    /\ holes' = holes \cup
            {CASE At(p, "replay") -> "replay"
               [] proc[p].pc \in {"test", "unrecord", "clear"} -> "late_crash"
               [] OTHER -> "crash" : q \in {q \in {p} : Locked(q)}}
    /\ IF Locked(p) THEN Noted(applied, base, tree) ELSE UNCHANGED before
    /\ UNCHANGED <<ready, applied, tree, base, backup, tools, session, lock>>

SkillsStep(p) ==
    \/ AcquireLock(p) \/ SaveFiles(p) \/ CopyAdds(p) \/ MergeNext(p) \/ MergesDone(p)
    \/ PostApply(p) \/ RecordSkillApplication(p) \/ RunTest(p) \/ RollBack(p)
    \/ ClearBackup(p) \/ ReplayReset(p) \/ ReplayNext(p) \/ ReplayDone(p)

SkillsNext ==
    \/ \E p \in Procs :
        \/ InitSkillsSystem(p) \/ RebaseSkills(p) \/ SkillsStep(p) \/ Crash(p)
        \/ \E s \in Skills : ApplySkill(p, s) \/ UninstallSkill(p, s)
    \/ CommitCustomize
    \/ \E f \in BaseFiles : StartCustomize(f) \/ UserEdits(f) \/ AbortCustomize(f)

SkillsSpec == SkillsInit /\ [][SkillsNext]_skillsVars

-----------------------------------------------------------------------------

SkillsTypeOK ==
    /\ ready \in BOOLEAN
    /\ applied \in Seq(Skills) /\ IsInjective(applied)
    /\ {tree, base, before.base, before.tree} \subseteq [Files -> SUBSET Atoms]
    /\ backup \in [Files -> [copy : SUBSET Atoms, tomb : BOOLEAN]]
    /\ tools \subseteq Skills
    /\ session \subseteq Files
    /\ lock \in Procs \cup {NoOwner}
    /\ \A p \in Procs : proc[p].op \in {"none", "apply", "uninstall", "rebase"}
    /\ faults \in 0 .. FaultBound

\* One operation changes files at a time, and nothing else holds the lock.
InProgress == {p \in Procs : Locked(p)}

\* Files and list as they were before an operation that is still running.
Visible(now, earlier) == IF InProgress = {} THEN now ELSE earlier

Atomic == INSTANCE AtomicSkills WITH
    applied <- Visible(applied, before.applied),
    base <- Visible(base, before.base),
    tree <- Visible(tree, before.tree),
    damaged <- holes # {}

\* Apply, uninstall and rebase are atomic to whoever looks between operations: a run
\* that fails at any point puts back the files and the list, and one that succeeds
\* changes both.
OperationsAtomic == Atomic!AtomicSpec

\* A skill in state.yaml has all its changes in the project's files, even after an
\* apply that crashed at any point and whatever was applied since.
AppliedComplete ==
    (InProgress = {} /\ holes \subseteq {"crash"}) =>
        \A s \in ToSet(applied) : \A f \in Adds[s] \cup Modifies[s] : s \in tree[f]

=============================================================================
