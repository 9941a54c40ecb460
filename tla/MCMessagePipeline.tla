-------------------------- MODULE MCMessagePipeline --------------------------
(* Small instances of MessagePipeline for TLC.  The scheduler's tasks are left *)
(* out: TaskIds is empty.                                                      *)
EXTENDS MessagePipeline, TLC

CONSTANTS g1, g2, m1, m2, m3

NoTaskJid == [t \in TaskIds |-> g1]

AllInG1 == [m \in Messages |-> g1]

LastInG2 == [m \in Messages |-> IF m = m3 THEN g2 ELSE g1]

=============================================================================
