----------------------------- MODULE MCGroupQueue -----------------------------
(* Small instances of GroupQueue for TLC.                                    *)
EXTENDS GroupQueue, TLC

CONSTANTS
    g1, g2, g3,        \* groups
    t1, t2,            \* tasks
    RetryTimerBound    \* most sleeping retries of one group that are explored

AllToG1 == [t \in TaskIds |-> g1]

\* Two coroutines of one group can leave a timer each behind, without end.
FewTimers == \A g \in Jids : retry_timers[g] <= RetryTimerBound

\* The groups without a task are interchangeable.
Bystanders == Permutations(Jids \ {g1})

=============================================================================
