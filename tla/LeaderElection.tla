---------------------------- MODULE LeaderElection ----------------------------
(***************************************************************************)
(* host/leader_election.py: instances of the host compete for a lease, one *)
(* row of the leader_election table, which its holder renews.              *)
(*                                                                         *)
(* Time is counted in ticks.  A time stamp is kept as its age: the row's   *)
(* age is now - heartbeat_at, and an instance's clock is the time since    *)
(* its current sleep or its current statement began.  The statement's own  *)
(* "now" is read before it is handed to the executor, so a statement that  *)
(* takes effect late writes an old time stamp.  A coroutine resumes at     *)
(* most LATENESS ticks after its sleep or its statement ends.  A statement *)
(* that times out has taken effect or never will: the connection's busy    *)
(* timeout (5 s, host/db.py) is no longer than _DB_OP_TIMEOUT.             *)
(*                                                                         *)
(* A definition X preceded by one named X<Variant> has a plausible slip    *)
(* beside it, never part of the specification.                             *)
(***************************************************************************)
EXTENDS Integers, FiniteSets

CONSTANTS
    Instances,            \* INSTANCE_IDs
    Nobody,               \* no row in the table
    HEARTBEAT_INTERVAL,   \* seconds between heartbeats
    LEASE_TIMEOUT,        \* age at which a lease has expired
    DB_OP_TIMEOUT,        \* longest a statement may take
    MAX_HB_FAILURES,      \* _MAX_CONSECUTIVE_HEARTBEAT_FAILURES
    JITTER,               \* extra sleep of a standby
    LATENESS,             \* how late the event loop may resume a coroutine
    DbMayFail             \* whether statements may fail or time out

ASSUME ElectionAssumption ==
    /\ Nobody \notin Instances
    /\ HEARTBEAT_INTERVAL \in Nat \ {0}
    /\ LEASE_TIMEOUT \in Nat \ {0}
    /\ LEASE_TIMEOUT > HEARTBEAT_INTERVAL
    /\ DB_OP_TIMEOUT \in Nat
    /\ MAX_HB_FAILURES \in Nat \ {0}
    /\ JITTER \in Nat
    /\ LATENESS \in Nat
    /\ DbMayFail \in BOOLEAN

VARIABLES
    holder,      \* instance_id of the row, or Nobody
    age,         \* age of the row's heartbeat_at, up to AGE_CAP
    pc,          \* where each instance's coroutine stands
    clock,       \* ticks since its sleep or its statement began
    rowcount,    \* whether its last statement changed a row
    is_leader,   \* _is_leader
    hb_failures  \* _consecutive_hb_failures

row == <<holder, age>>
vars == <<holder, age, pc, clock, rowcount, is_leader, hb_failures>>

\* An older row is told from none of this age by any statement.
AGE_CAP == LEASE_TIMEOUT + DB_OP_TIMEOUT + 1

Init ==
    /\ holder = Nobody
    /\ age = AGE_CAP
    /\ pc = [i \in Instances |-> "down"]
    /\ clock = [i \in Instances |-> 0]
    /\ rowcount = [i \in Instances |-> FALSE]
    /\ is_leader = [i \in Instances |-> FALSE]
    /\ hb_failures = [i \in Instances |-> 0]

Goto(i, p) ==
    /\ pc' = [pc EXCEPT ![i] = p]
    /\ clock' = [clock EXCEPT ![i] = 0]

-----------------------------------------------------------------------------
(* Time passes until some coroutine has to run. *)

Deadline(p) ==
    CASE p = "standby" -> HEARTBEAT_INTERVAL + JITTER + LATENESS
      [] p = "leading" -> HEARTBEAT_INTERVAL + LATENESS
      [] p \in {"acquiring", "beating"} -> DB_OP_TIMEOUT
      [] p \in {"acquired", "beaten"} -> DB_OP_TIMEOUT + LATENESS

Tick ==
    /\ \A i \in Instances : pc[i] # "down" => clock[i] < Deadline(pc[i])
    /\ age' = IF age < AGE_CAP THEN age + 1 ELSE age
    /\ clock' = [i \in Instances |-> IF pc[i] = "down" THEN 0 ELSE clock[i] + 1]
    /\ UNCHANGED <<holder, pc, rowcount, is_leader, hb_failures>>

-----------------------------------------------------------------------------
(* acquire() *)

\* main() creates the object and calls acquire(), whose first statement goes
\* out at once.
StartUp(i) ==
    /\ pc[i] = "down"
    /\ Goto(i, "acquiring")
    /\ hb_failures' = [hb_failures EXCEPT ![i] = 0]
    /\ UNCHANGED <<row, rowcount, is_leader>>

AcquireAgain(i) ==
    /\ pc[i] = "standby"
    /\ clock[i] >= HEARTBEAT_INTERVAL
    /\ Goto(i, "acquiring")
    /\ UNCHANGED <<row, rowcount, is_leader, hb_failures>>

LeaseFreeNow(i) == holder = Nobody \/ age >= LEASE_TIMEOUT

LeaseFreeOnlyIfReleased(i) == holder = Nobody

\* The upsert's condition: heartbeat_at < now - _LEASE_TIMEOUT, now being the
\* time the statement was built with.
LeaseFree(i) == holder = Nobody \/ age - clock[i] > LEASE_TIMEOUT

TakeLease(i) == holder' = i /\ age' = clock[i]

AcquireCommits(i) ==
    /\ pc[i] = "acquiring"
    /\ \/ /\ LeaseFree(i)
          /\ TakeLease(i)
          /\ rowcount' = [rowcount EXCEPT ![i] = TRUE]
       \/ /\ ~LeaseFree(i)
          /\ rowcount' = [rowcount EXCEPT ![i] = FALSE]
          /\ UNCHANGED row
    /\ pc' = [pc EXCEPT ![i] = "acquired"]
    /\ UNCHANGED <<clock, is_leader, hb_failures>>

AcquireReturnsUnchecked(i) ==
    /\ pc[i] = "acquired"
    /\ Goto(i, "leading")
    /\ is_leader' = [is_leader EXCEPT ![i] = TRUE]
    /\ UNCHANGED <<row, rowcount, hb_failures>>

AcquireReturns(i) ==
    /\ pc[i] = "acquired"
    /\ Goto(i, IF rowcount[i] THEN "leading" ELSE "standby")
    /\ is_leader' = [is_leader EXCEPT ![i] = rowcount[i]]
    /\ UNCHANGED <<row, rowcount, hb_failures>>

\* An error, or a time-out whose thread may still carry the statement out.
AcquireFails(i) ==
    /\ DbMayFail
    /\ pc[i] = "acquiring"
    /\ \/ UNCHANGED row
       \/ clock[i] = DB_OP_TIMEOUT /\ LeaseFree(i) /\ TakeLease(i)
    /\ Goto(i, "standby")
    /\ UNCHANGED <<rowcount, is_leader, hb_failures>>

-----------------------------------------------------------------------------
(* _heartbeat_loop() *)

HeartbeatStarts(i) ==
    /\ pc[i] = "leading"
    /\ clock[i] >= HEARTBEAT_INTERVAL
    /\ Goto(i, "beating")
    /\ UNCHANGED <<row, rowcount, is_leader, hb_failures>>

HeartbeatCommits(i) ==
    /\ pc[i] = "beating"
    /\ age' = IF holder = i THEN clock[i] ELSE age
    /\ rowcount' = [rowcount EXCEPT ![i] = (holder = i)]
    /\ pc' = [pc EXCEPT ![i] = "beaten"]
    /\ UNCHANGED <<holder, clock, is_leader, hb_failures>>

\* No row changed: the lease is lost, the instance demotes itself and sends
\* itself SIGTERM, which ends it.
HeartbeatReturns(i) ==
    /\ pc[i] = "beaten"
    /\ Goto(i, IF rowcount[i] THEN "leading" ELSE "down")
    /\ is_leader' = [is_leader EXCEPT ![i] = rowcount[i]]
    /\ hb_failures' = [hb_failures EXCEPT ![i] = 0]
    /\ UNCHANGED <<row, rowcount>>

HeartbeatFailsForever(i) ==
    /\ DbMayFail
    /\ pc[i] = "beating"
    /\ Goto(i, "leading")
    /\ UNCHANGED <<row, rowcount, is_leader, hb_failures>>

\* The heartbeat raises or times out (its thread may still carry it out);
\* after MAX_HB_FAILURES in a row the instance demotes itself.
HeartbeatFails(i) ==
    LET last == hb_failures[i] + 1 >= MAX_HB_FAILURES
    IN  /\ DbMayFail
        /\ pc[i] = "beating"
        /\ hb_failures' = [hb_failures EXCEPT ![i] = IF last THEN 0 ELSE @ + 1]
        /\ is_leader' = [is_leader EXCEPT ![i] = ~last]
        /\ Goto(i, IF last THEN "down" ELSE "leading")
        /\ age' = IF clock[i] = DB_OP_TIMEOUT /\ holder = i THEN clock[i] ELSE age
        /\ UNCHANGED <<holder, rowcount>>

-----------------------------------------------------------------------------
(* The end of an instance. *)

\* release(): demoted first, then the row is deleted if it is this
\* instance's; the delete may fail.
Release(i) ==
    /\ is_leader[i]
    /\ Goto(i, "down")
    /\ is_leader' = [is_leader EXCEPT ![i] = FALSE]
    /\ \/ holder' = IF holder = i THEN Nobody ELSE holder
       \/ DbMayFail /\ holder' = holder
    /\ UNCHANGED <<age, rowcount, hb_failures>>

Crash(i) ==
    /\ pc[i] # "down"
    /\ Goto(i, "down")
    /\ is_leader' = [is_leader EXCEPT ![i] = FALSE]
    /\ UNCHANGED <<row, rowcount, hb_failures>>

Step(i) ==
    \/ StartUp(i)
    \/ AcquireAgain(i)
    \/ AcquireCommits(i)
    \/ AcquireReturns(i)
    \/ AcquireFails(i)
    \/ HeartbeatStarts(i)
    \/ HeartbeatCommits(i)
    \/ HeartbeatReturns(i)
    \/ HeartbeatFails(i)

End(i) == Release(i) \/ Crash(i)

Next ==
    \/ Tick
    \/ \E i \in Instances : Step(i)
    \/ \E i \in Instances : End(i)

Spec == Init /\ [][Next]_vars

-----------------------------------------------------------------------------
(* Properties. *)

PCs == {"down", "standby", "acquiring", "acquired", "leading", "beating", "beaten"}

\* The type invariant of the lease row and of the instances.
TypeOK ==
    /\ holder \in Instances \cup {Nobody}
    /\ age \in 0..AGE_CAP
    /\ pc \in [Instances -> PCs]
    /\ clock \in [Instances -> Nat]
    /\ rowcount \in [Instances -> BOOLEAN]
    /\ is_leader \in [Instances -> BOOLEAN]
    /\ hb_failures \in [Instances -> 0..(MAX_HB_FAILURES - 1)]

\* "One instance acts as leader": no two instances believe they lead, at any
\* moment, however acquisitions, late statements, failed heartbeats, crashes
\* and releases interleave.
AtMostOneLeader ==
    \A i, j \in Instances : is_leader[i] /\ is_leader[j] => i = j

\* A leader's belief is backed by the table: nobody has taken the row over.
LeaderHoldsLease ==
    \A i \in Instances : is_leader[i] => holder = i

\* The lease leaves an instance only when it has expired or by the instance's
\* own release: nobody takes a lease that is being renewed.
LeaseTakenOnlyWhenExpired ==
    [][\A i \in Instances : holder = i /\ holder' # i
        => age > LEASE_TIMEOUT \/ (holder' = Nobody /\ is_leader[i])]_vars

\* The event loop and the executor make progress and time passes.
Fairness ==
    /\ WF_vars(Tick)
    /\ \A i \in Instances : WF_vars(Step(i))

FairSpec == Spec /\ Fairness

\* A step that needs the database and does not get its answer.
DatabaseFails(i) == AcquireFails(i) \/ HeartbeatFails(i)

\* Once instances stop crashing and being stopped and the database answers,
\* one becomes leader and leadership stays with one, whatever rows, half-done
\* statements and failure counts the bad times left behind.
LeadershipSettles ==
    <>[][\A i \in Instances : ~End(i) /\ ~DatabaseFails(i)]_vars
        => \E i \in Instances : <>[](is_leader[i])

=============================================================================
