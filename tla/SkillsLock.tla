------------------------------ MODULE SkillsLock ------------------------------
(* skills_engine/lock.py, one file-system call per step.  The lock is a file    *)
(* that is created empty and written afterwards; a file that is stale, unread-  *)
(* able or names a dead process is removed and created again.                   *)
EXTENDS Naturals, FiniteSets

CONSTANTS LockProcs     \* processes that call acquire_lock

\* Neither name stands for a living process.
ASSUME LockAssumption == {"none", "dead"} \cap LockProcs = {}

VARIABLES
    file,       \* the lock file: who created it, and whether it is written
    caller,     \* [LockProcs -> where each call is]
    stolen      \* history: a process has removed the file of another living one

lockVars == <<file, caller, stolen>>

NoFile == [creator |-> "none", written |-> FALSE]

Now(p, label) == caller' = [caller EXCEPT ![p] = label]

LockInit ==
    /\ file \in {NoFile, [creator |-> "dead", written |-> TRUE]}
    /\ caller = [p \in LockProcs |-> "idle"]
    /\ stolen = FALSE

\* O_CREAT | O_EXCL; the second attempt, after the removal, gives up.
Create(p, label, otherwise) ==
    /\ caller[p] = label
    /\ \/ /\ file = NoFile
          /\ file' = [creator |-> p, written |-> FALSE]
          /\ Now(p, "write")
       \/ file # NoFile /\ Now(p, otherwise) /\ UNCHANGED file
    /\ UNCHANGED stolen

CreateFirst(p) == Create(p, "idle", "read")

CreateAgain(p) == Create(p, "create_again", "idle")

\* The write goes to the file that was created, which may have been removed.
WriteLockInfo(p) ==
    /\ caller[p] = "write"
    /\ file' = IF file.creator = p THEN [file EXCEPT !.written = TRUE] ELSE file
    /\ Now(p, "held")
    /\ UNCHANGED stolen

\* Respected: it can be parsed, its process lives and it is not older than
\* STALE_TIMEOUT_SECS.
Respected(stale) == file.written /\ file.creator \in LockProcs /\ ~stale

\* A file that is gone or not written yet cannot be parsed.
ReadExisting(p) ==
    /\ caller[p] = "read"
    /\ \E stale \in BOOLEAN : Now(p, IF Respected(stale) THEN "idle" ELSE "unlink")
    /\ UNCHANGED <<file, stolen>>

DropFile(p) ==
    /\ file' = NoFile
    /\ stolen' = (stolen \/ file.creator \in LockProcs \ {p})

Unlink(p) == caller[p] = "unlink" /\ DropFile(p) /\ Now(p, "create_again")

\* LockHandle.release: only the own file, or one that cannot be parsed, is removed.
Release(p) ==
    /\ caller[p] = "held"
    /\ IF file.creator = p \/ ~file.written THEN DropFile(p) ELSE UNCHANGED <<file, stolen>>
    /\ Now(p, "idle")

\* The process ends; its file stays, and the next one in its place is another process.
Dies(p) ==
    /\ caller[p] # "idle"
    /\ file' = IF file.creator = p THEN [file EXCEPT !.creator = "dead"] ELSE file
    /\ Now(p, "idle")
    /\ UNCHANGED stolen

LockNext ==
    \E p \in LockProcs :
        \/ CreateFirst(p) \/ CreateAgain(p) \/ WriteLockInfo(p)
        \/ ReadExisting(p) \/ Unlink(p) \/ Release(p) \/ Dies(p)

LockSpec == LockInit /\ [][LockNext]_lockVars

-----------------------------------------------------------------------------
(* Properties.                                                                *)

Inside == {p \in LockProcs : caller[p] \in {"write", "held"}}

\* Two processes are past acquire_lock together only after one has removed the file of
\* the other, which it had read while it was still empty, before the other took over
\* from a dead process, or when it had become stale; otherwise the lock excludes,
\* whichever process dies where.
LockExclusive == stolen \/ Cardinality(Inside) <= 1

\* "the lock is held for all write operations" (skills_engine/apply.py:63): two
\* processes are never past acquire_lock together (violated: the file is created
\* empty, and one that cannot be parsed or is five minutes old is removed).
MutualExclusion == Cardinality({p \in LockProcs : caller[p] = "held"}) <= 1

=============================================================================
