---------------------------- MODULE AtomicSkills ----------------------------
(* What the skills engine promises its callers: each operation is one step.    *)
(* It either takes place as a whole or leaves no trace, and the list of        *)
(* applied skills changes together with the project's files.  `damaged` marks  *)
(* the cases in which the engine gives no such promise.                        *)
EXTENDS Naturals, Sequences, SequencesExt

CONSTANTS
    Skills, Files,
    InstallOf(_, _, _),     \* InstallOf(base, tree, s): the result of applying s
    RebuildOf(_, _, _)      \* RebuildOf(base, tree, list): list replayed from base

VARIABLES
    applied,        \* the applied skills, in order
    base,           \* the clean copy that replays start from
    tree,           \* the project's files: what each one contains
    damaged

atomicVars == <<applied, base, tree, damaged>>

\* A skill is on the list at most once.
Without(list, s) ==
    IF s \in ToSet(list) THEN RemoveAt(list, CHOOSE i \in DOMAIN list : list[i] = s) ELSE list

Install(s) ==
    /\ applied' = Append(Without(applied, s), s)
    /\ [base |-> base', tree |-> tree'] = InstallOf(base, tree, s)
    /\ UNCHANGED damaged

\* A failed installation may have taken clean copies of files it was to merge.
Attempt(s) ==
    /\ UNCHANGED <<applied, tree, damaged>>
    /\ \A f \in Files : base'[f] = base[f] \/ base'[f] = InstallOf(base, tree, s).base[f]

Uninstall(s) ==
    /\ applied' = Without(applied, s)
    /\ [base |-> base', tree |-> tree'] = RebuildOf(base, tree, applied')
    /\ UNCHANGED damaged

\* Local edits are carried over as a patch that may not apply.
Rebase ==
    /\ LET rebuilt == RebuildOf(base, tree, applied)
       IN  /\ base' = rebuilt.base
           /\ \/ tree' = rebuilt.tree
              \/ tree' = [f \in Files |-> rebuilt.tree[f] \cup (tree[f] \cap {"edit"})]
    /\ UNCHANGED <<applied, damaged>>

\* A new clean copy of the tree as it is; nothing counts as applied any more.
Reset ==
    /\ applied' = <<>>
    /\ \A f \in Files : base'[f] \in {{}, tree[f]}
    /\ UNCHANGED <<tree, damaged>>

\* The user edits one file, or takes it back to the committed version.
Edit(f) ==
    /\ tree' \in {[tree EXCEPT ![f] = @ \cup {"edit"}], [tree EXCEPT ![f] = {"core"}]}
    /\ UNCHANGED <<applied, base, damaged>>

Damage == damaged' = TRUE

AtomicNext ==
    \/ \E s \in Skills : Attempt(s) \/ Install(s) \/ Uninstall(s)
    \/ Rebase \/ Reset \/ Damage
    \/ \E f \in Files : Edit(f)

AtomicSpec ==
    /\ applied = <<>> /\ ~damaged
    /\ [][~damaged => AtomicNext]_atomicVars

=============================================================================
