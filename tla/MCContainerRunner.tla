-------------------------- MODULE MCContainerRunner --------------------------
(* Two calls over one permit: independent ones with the faults that the code *)
(* cleans up after at once, or a parent and its subagent with every fault     *)
(* inside the try, on both platforms.                                        *)
EXTENDS ContainerRunner

CONSTANTS r1, r2, f1

OneFolder == [r \in Runs |-> f1]

Setting(posix, faults, parent) == [posix |-> posix, faults |-> faults, parent |-> parent]

Mild == {"spawn", "docker", "callback", "crash"}
Hard == Mild \cup {"slow_docker", "stream", "stop", "cleanup"}

NoParents == [r \in Runs |-> NoParent]

\* r2 is a subagent that the agent of r1 spawned.
Subagent == [NoParents EXCEPT ![r2] = r1]

SmallSettings == {Setting(TRUE, Mild, NoParents)}
                  \cup {Setting(posix, Hard, Subagent) : posix \in BOOLEAN}

=============================================================================
