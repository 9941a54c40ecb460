--------------------------- MODULE MCLeaderElection ---------------------------
(* Small instances of LeaderElection for TLC.  The default settings, in units *)
(* of five seconds, are HEARTBEAT_INTERVAL = 2, LEASE_TIMEOUT = 6,            *)
(* DB_OP_TIMEOUT = 1 and MAX_HB_FAILURES = 3.                                 *)
EXTENDS LeaderElection, TLC

CONSTANTS i1, i2, i3

Interchangeable == Permutations(Instances)

=============================================================================
