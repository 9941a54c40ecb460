------------------------------ MODULE HostProofs ------------------------------
(***************************************************************************)
(* Proofs about the two gates a message meets before it is worked on: the  *)
(* election, by which one instance of the host serves the channels, and    *)
(* the admission of a message by that instance.                            *)
(*                                                                         *)
(* The election is proved for any number of instances and any timing.      *)
(* That nobody takes a lease that is being renewed holds always.  That no  *)
(* two instances lead at once holds when the lease outlives a leader that  *)
(* can no longer renew it: SafeTiming.                                     *)
(***************************************************************************)
EXTENDS LeaderElection, Inbound, FiniteSetTheorems, SequenceTheorems, WellFoundedInduction, TLAPS

-----------------------------------------------------------------------------
(* The election of a leader. *)

\* From the moment a failing heartbeat was due to the moment it has failed.
FailedBeat == HEARTBEAT_INTERVAL + LATENESS + DB_OP_TIMEOUT

\* How old the leader's row may be when it goes to sleep after f failures.
Budget(f) == (DB_OP_TIMEOUT + LATENESS) + f * FailedBeat

\* Heartbeats that can be missed one after the other.
FailureLimit == IF DbMayFail THEN MAX_HB_FAILURES ELSE 1

\* The leader renews its lease, or demotes itself, before the lease can have
\* expired.
SafeTiming == Budget(FailureLimit) <= LEASE_TIMEOUT

\* No coroutine sleeps, and no statement runs, past its deadline.
Timely ==
    \A i \in Instances : pc[i] # "down" => clock[i] <= Deadline(pc[i])

\* The time a failed heartbeat takes is a number.
LEMMA FailedBeatNat == FailedBeat \in Nat
BY ElectionAssumption DEF FailedBeat

\* The failures after which a leader steps down are at least one.
LEMMA FailureLimitNat == FailureLimit \in Nat \ {0}
BY ElectionAssumption DEF FailureLimit

\* A product grows with its first factor.
LEMMA ProductMonotone ==
    ASSUME NEW a \in Nat, NEW b \in Nat, NEW c \in Nat, a <= b
    PROVE  a * c <= b * c
OBVIOUS

\* A product by one more.
LEMMA ProductStep ==
    ASSUME NEW a \in Nat, NEW c \in Nat
    PROVE  a * c \in Nat /\ (a + 1) * c = a * c + c /\ 0 * c = 0
OBVIOUS

\* The time a leader has after some failures, and what one more adds to it.
LEMMA BudgetFacts ==
    /\ Budget(0) = DB_OP_TIMEOUT + LATENESS
    /\ \A f \in Nat :
          /\ Budget(f) \in Nat
          /\ Budget(f) >= DB_OP_TIMEOUT + LATENESS
          /\ Budget(f + 1) = Budget(f) + FailedBeat
          /\ f < FailureLimit => Budget(f) + FailedBeat <= Budget(FailureLimit)
<1>1. Budget(0) = DB_OP_TIMEOUT + LATENESS
  BY FailedBeatNat, ProductStep, ElectionAssumption DEF Budget
<1>2. ASSUME NEW f \in Nat
      PROVE  /\ Budget(f) \in Nat
             /\ Budget(f) >= DB_OP_TIMEOUT + LATENESS
             /\ Budget(f + 1) = Budget(f) + FailedBeat
             /\ f < FailureLimit => Budget(f) + FailedBeat <= Budget(FailureLimit)
  <2> DEFINE p == f * FailedBeat
             q == (f + 1) * FailedBeat
             m == FailureLimit * FailedBeat
  <2>1. p \in Nat /\ q = p + FailedBeat
    BY FailedBeatNat, ProductStep
  <2>2. m \in Nat /\ (f < FailureLimit => q <= m)
    <3>1. m \in Nat
      BY FailedBeatNat, ProductStep, FailureLimitNat
    <3>2. ASSUME f < FailureLimit PROVE q <= m
      <4>1. f + 1 \in Nat /\ FailureLimit \in Nat /\ f + 1 <= FailureLimit
        BY <3>2, FailureLimitNat
      <4> QED
        BY <4>1, FailedBeatNat, ProductMonotone
    <3> QED
      BY <3>1, <3>2
  <2>3. /\ Budget(f) = (DB_OP_TIMEOUT + LATENESS) + p
        /\ Budget(f + 1) = (DB_OP_TIMEOUT + LATENESS) + q
        /\ Budget(FailureLimit) = (DB_OP_TIMEOUT + LATENESS) + m
    BY DEF Budget
  <2> HIDE DEF p, q, m
  <2> QED
    BY <2>1, <2>2, <2>3, FailedBeatNat, ElectionAssumption
<1> QED
  BY <1>1, <1>2

-----------------------------------------------------------------------------
(* The type invariant. *)

\* The initial state has the types.
LEMMA TypeInit == Init => TypeOK
BY ElectionAssumption DEF Init, TypeOK, PCs, AGE_CAP

\* Every place of a running instance has a deadline.
LEMMA DeadlineNat ==
    ASSUME NEW p \in PCs, p # "down"
    PROVE  Deadline(p) \in Nat
BY ElectionAssumption DEF PCs, Deadline

\* Every step keeps the types.
LEMMA TypeNext == TypeOK /\ Timely /\ [Next]_vars => TypeOK'
<1> SUFFICES ASSUME TypeOK, Timely, [Next]_vars PROVE TypeOK'
  OBVIOUS
<1> USE ElectionAssumption DEF row, Goto
<1>0. AGE_CAP \in Nat /\ DB_OP_TIMEOUT < AGE_CAP
  BY DEF AGE_CAP
<1>1. CASE Tick
  <2>1. age' \in 0..AGE_CAP
    BY <1>1, <1>0 DEF Tick, TypeOK
  <2>2. clock' \in [Instances -> Nat]
    BY <1>1 DEF Tick, TypeOK
  <2> QED
    BY <1>1, <2>1, <2>2 DEF Tick, TypeOK
<1>2. ASSUME NEW i \in Instances, StartUp(i) PROVE TypeOK'
  BY <1>2 DEF StartUp, TypeOK, PCs
<1>3. ASSUME NEW i \in Instances, AcquireAgain(i) PROVE TypeOK'
  BY <1>3 DEF AcquireAgain, TypeOK, PCs
<1>4. ASSUME NEW i \in Instances, AcquireCommits(i) PROVE TypeOK'
  <2>1. clock[i] \in 0..AGE_CAP
    BY <1>4, <1>0 DEF AcquireCommits, Timely, Deadline, TypeOK
  <2> QED
    BY <1>4, <2>1 DEF AcquireCommits, TakeLease, TypeOK, PCs
<1>5. ASSUME NEW i \in Instances, AcquireReturns(i) PROVE TypeOK'
  BY <1>5 DEF AcquireReturns, TypeOK, PCs
<1>6. ASSUME NEW i \in Instances, AcquireFails(i) PROVE TypeOK'
  <2>1. clock[i] \in 0..AGE_CAP
    BY <1>6, <1>0 DEF AcquireFails, Timely, Deadline, TypeOK
  <2> QED
    BY <1>6, <2>1 DEF AcquireFails, TakeLease, TypeOK, PCs
<1>7. ASSUME NEW i \in Instances, HeartbeatStarts(i) PROVE TypeOK'
  BY <1>7 DEF HeartbeatStarts, TypeOK, PCs
<1>8. ASSUME NEW i \in Instances, HeartbeatCommits(i) PROVE TypeOK'
  <2>1. clock[i] \in 0..AGE_CAP
    BY <1>8, <1>0 DEF HeartbeatCommits, Timely, Deadline, TypeOK
  <2>2. rowcount' \in [Instances -> BOOLEAN]
    BY <1>8 DEF HeartbeatCommits, TypeOK
  <2>3. age' \in 0..AGE_CAP
    BY <1>8, <2>1 DEF HeartbeatCommits, TypeOK
  <2> QED
    BY <1>8, <2>2, <2>3 DEF HeartbeatCommits, TypeOK, PCs
<1>9. ASSUME NEW i \in Instances, HeartbeatReturns(i) PROVE TypeOK'
  BY <1>9 DEF HeartbeatReturns, TypeOK, PCs
<1>10. ASSUME NEW i \in Instances, HeartbeatFails(i) PROVE TypeOK'
  <2>1. clock[i] \in 0..AGE_CAP
    BY <1>10, <1>0 DEF HeartbeatFails, Timely, Deadline, TypeOK
  <2>2. age' \in 0..AGE_CAP
    BY <1>10, <2>1 DEF HeartbeatFails, TypeOK
  <2>3. hb_failures' \in [Instances -> 0..(MAX_HB_FAILURES - 1)]
    BY <1>10 DEF HeartbeatFails, TypeOK
  <2>4. is_leader' \in [Instances -> BOOLEAN]
    BY <1>10 DEF HeartbeatFails, TypeOK
  <2> QED
    BY <1>10, <2>2, <2>3, <2>4 DEF HeartbeatFails, TypeOK, PCs
<1>11. ASSUME NEW i \in Instances, Release(i) PROVE TypeOK'
  BY <1>11 DEF Release, TypeOK, PCs
<1>12. ASSUME NEW i \in Instances, Crash(i) PROVE TypeOK'
  BY <1>12 DEF Crash, TypeOK, PCs
<1>13. CASE UNCHANGED vars
  BY <1>13 DEF vars, TypeOK
<1> QED
  BY <1>1, <1>2, <1>3, <1>4, <1>5, <1>6, <1>7, <1>8, <1>9, <1>10, <1>11, <1>12, <1>13
     DEF Next, Step, End

\* Every step but Tick and AcquireCommits/HeartbeatCommits restarts a clock.
LEMMA TimelyNext == TypeOK /\ Timely /\ [Next]_vars => Timely'
<1> SUFFICES ASSUME TypeOK, Timely, [Next]_vars,
                    NEW k \in Instances, pc'[k] # "down"
             PROVE  clock'[k] <= Deadline(pc'[k])
  BY DEF Timely
<1>0. pc[k] \in PCs /\ clock[k] \in Nat
  BY DEF TypeOK
<1>1. CASE Tick
  <2>1. pc'[k] = pc[k] /\ clock'[k] = clock[k] + 1 /\ clock[k] < Deadline(pc[k])
    BY <1>1 DEF Tick, TypeOK
  <2> QED
    BY <2>1, <1>0, DeadlineNat
<1>2. CASE pc'[k] = pc[k] /\ clock'[k] = clock[k]
  BY <1>2 DEF Timely
<1>3. CASE clock'[k] = 0 /\ pc'[k] \in PCs
  <2>1. Deadline(pc'[k]) \in Nat
    BY <1>3, DeadlineNat
  <2> QED
    BY <1>3, <2>1
<1>4. CASE /\ clock'[k] = clock[k]
           /\ \/ pc[k] = "acquiring" /\ pc'[k] = "acquired"
              \/ pc[k] = "beating" /\ pc'[k] = "beaten"
  BY <1>4, <1>0, ElectionAssumption DEF Timely, Deadline
<1>5. ASSUME NEW i \in Instances, Step(i) \/ End(i)
      PROVE  \/ pc'[k] = pc[k] /\ clock'[k] = clock[k]
             \/ clock'[k] = 0 /\ pc'[k] \in PCs
             \/ /\ clock'[k] = clock[k]
                /\ \/ pc[k] = "acquiring" /\ pc'[k] = "acquired"
                   \/ pc[k] = "beating" /\ pc'[k] = "beaten"
  <2>1. CASE k # i
    BY <1>5, <2>1 DEF Step, End, StartUp, AcquireAgain, AcquireCommits, AcquireReturns,
       AcquireFails, HeartbeatStarts, HeartbeatCommits, HeartbeatReturns, HeartbeatFails,
       Release, Crash, Goto, TypeOK
  <2>2. CASE k = i
    BY <1>5, <2>2 DEF Step, End, StartUp, AcquireAgain, AcquireCommits, AcquireReturns,
       AcquireFails, HeartbeatStarts, HeartbeatCommits, HeartbeatReturns, HeartbeatFails,
       Release, Crash, Goto, TypeOK, PCs
  <2> QED
    BY <2>1, <2>2
<1>6. CASE UNCHANGED vars
  BY <1>6, <1>2 DEF vars
<1> QED
  BY <1>1, <1>2, <1>3, <1>4, <1>5, <1>6 DEF Next

\* Type correctness, and that nothing runs past its deadline.
THEOREM TypeCorrect == Spec => [](TypeOK /\ Timely)
<1>1. Init => TypeOK /\ Timely
  BY TypeInit DEF Init, Timely
<1>2. TypeOK /\ Timely /\ [Next]_vars => (TypeOK /\ Timely)'
  BY TypeNext, TimelyNext
<1> QED
  BY <1>1, <1>2, PTL DEF Spec

-----------------------------------------------------------------------------
(* Nobody takes a lease that is being renewed. *)

\* A lease leaves its holder when it has expired, or when a leader releases it.
LEMMA TakenExpired ==
    ASSUME TypeOK, [Next]_vars, NEW i \in Instances, holder = i, holder' # i
    PROVE  age > LEASE_TIMEOUT \/ (holder' = Nobody /\ is_leader[i])
<1>1. ASSUME NEW j \in Instances, LeaseFree(j) PROVE age > LEASE_TIMEOUT
  BY <1>1, ElectionAssumption DEF LeaseFree, TypeOK, AGE_CAP
<1>2. ASSUME NEW j \in Instances, Step(j)
      PROVE  age > LEASE_TIMEOUT
  BY <1>1, <1>2 DEF Step, StartUp, AcquireAgain, AcquireCommits, AcquireReturns, AcquireFails,
     HeartbeatStarts, HeartbeatCommits, HeartbeatReturns, HeartbeatFails, row
<1>3. ASSUME NEW j \in Instances, End(j)
      PROVE  holder' = Nobody /\ is_leader[i]
  BY <1>3 DEF End, Release, Crash, row
<1>4. CASE Tick \/ UNCHANGED vars
  BY <1>4 DEF Tick, vars
<1> QED
  BY <1>2, <1>3, <1>4 DEF Next

\* The upsert never takes a live lease, whatever the timing: a lease changes
\* hands only when it has expired or its holder releases it.
THEOREM TakenOnlyWhenExpired == Spec => LeaseTakenOnlyWhenExpired
<1>1. TypeOK /\ [Next]_vars =>
        [\A i \in Instances : holder = i /\ holder' # i
            => age > LEASE_TIMEOUT \/ (holder' = Nobody /\ is_leader[i])]_vars
  BY TakenExpired
<1> QED
  BY <1>1, TypeCorrect, PTL DEF Spec, LeaseTakenOnlyWhenExpired

-----------------------------------------------------------------------------
(* At most one leader.  The inductive invariant bounds the age of the row of *)
(* an instance that leads, or is about to learn that it leads, by the time   *)
(* it has spent since its last successful statement.                         *)

Leads(i) == pc[i] \in {"leading", "beating", "beaten"}

LeaseInvOf(i) ==
    /\ is_leader[i] <=> Leads(i)
    /\ hb_failures[i] < FailureLimit
    /\ pc[i] \in {"standby", "acquiring", "acquired"} => hb_failures[i] = 0
    /\ pc[i] = "acquired" /\ rowcount[i] => holder = i /\ age <= clock[i]
    /\ pc[i] = "leading" => holder = i /\ age <= Budget(hb_failures[i]) + clock[i]
    /\ pc[i] = "beating" =>
          /\ holder = i
          /\ age <= Budget(hb_failures[i]) + HEARTBEAT_INTERVAL + LATENESS + clock[i]
    /\ pc[i] = "beaten" => holder = i /\ rowcount[i] /\ age <= clock[i]

LeaseInv == \A i \in Instances : LeaseInvOf(i)

Claims(i) == Leads(i) \/ (pc[i] = "acquired" /\ rowcount[i])

\* Who claims to lead holds a lease that has not expired.
LEMMA ClaimIsLive ==
    ASSUME SafeTiming, TypeOK, Timely, LeaseInv, NEW i \in Instances, Claims(i)
    PROVE  holder = i /\ age <= LEASE_TIMEOUT
<1> DEFINE f == hb_failures[i]
<1>0. f \in Nat /\ f < FailureLimit /\ age \in Nat /\ clock[i] \in Nat
  BY ElectionAssumption DEF TypeOK, LeaseInv, LeaseInvOf
<1>1. /\ Budget(f) \in Nat
      /\ Budget(f) >= DB_OP_TIMEOUT + LATENESS
      /\ Budget(f) + (HEARTBEAT_INTERVAL + LATENESS + DB_OP_TIMEOUT) <= LEASE_TIMEOUT
  <2>1. Budget(f) \in Nat /\ Budget(f) >= DB_OP_TIMEOUT + LATENESS
        /\ Budget(f) + FailedBeat <= Budget(FailureLimit)
    BY <1>0, BudgetFacts
  <2>2. Budget(FailureLimit) \in Nat
    BY BudgetFacts, FailureLimitNat
  <2> QED
    BY <2>1, <2>2, FailedBeatNat, ElectionAssumption DEF SafeTiming, FailedBeat
<1>2. LeaseInvOf(i) /\ clock[i] <= Deadline(pc[i])
  BY DEF LeaseInv, Timely, Claims, Leads
<1> HIDE DEF f
<1>3. CASE pc[i] = "leading"
  BY <1>0, <1>1, <1>2, <1>3, ElectionAssumption DEF LeaseInvOf, Deadline, f
<1>4. CASE pc[i] = "beating"
  BY <1>0, <1>1, <1>2, <1>4, ElectionAssumption DEF LeaseInvOf, Deadline, f
<1>5. CASE pc[i] = "beaten" \/ (pc[i] = "acquired" /\ rowcount[i])
  BY <1>0, <1>1, <1>2, <1>5, ElectionAssumption DEF LeaseInvOf, Deadline
<1> QED
  BY <1>3, <1>4, <1>5 DEF Claims, Leads

\* So whoever finds the lease free finds nobody claiming it.
LEMMA FreeMeansUnclaimed ==
    ASSUME SafeTiming, TypeOK, Timely, LeaseInv,
           NEW i \in Instances, NEW k \in Instances, LeaseFree(i)
    PROVE  ~Claims(k)
<1> SUFFICES ASSUME Claims(k) PROVE FALSE
  OBVIOUS
<1>1. holder = k /\ age <= LEASE_TIMEOUT
  BY ClaimIsLive
<1>2. clock[i] \in Nat /\ age \in Nat /\ holder # Nobody
  BY <1>1, ElectionAssumption DEF TypeOK, AGE_CAP
<1> QED
  BY <1>1, <1>2, ElectionAssumption DEF LeaseFree

\* An instance keeps its part of the invariant when it does not move and the
\* row changes only under one that makes no claim.
LEMMA Bystander ==
    ASSUME LeaseInv, TypeOK, NEW k \in Instances,
           pc'[k] = pc[k], clock'[k] = clock[k], rowcount'[k] = rowcount[k],
           is_leader'[k] = is_leader[k], hb_failures'[k] = hb_failures[k],
           Claims(k) => holder' = holder /\ age' = age
    PROVE  LeaseInvOf(k)'
<1>1. LeaseInvOf(k)
  BY DEF LeaseInv
<1> QED
  BY <1>1 DEF LeaseInvOf, Claims, Leads

\* Nobody leads at first.
LEMMA LeaseInvInit == Init => LeaseInv
BY FailureLimitNat DEF Init, LeaseInv, LeaseInvOf, Leads

\* Every step keeps what links an instance's belief, its clock and the lease.
LEMMA LeaseInvNext ==
    SafeTiming /\ TypeOK /\ Timely /\ LeaseInv /\ [Next]_vars => LeaseInv'
<1> SUFFICES ASSUME SafeTiming, TypeOK, Timely, LeaseInv, [Next]_vars,
                    NEW k \in Instances
             PROVE  LeaseInvOf(k)'
  BY DEF LeaseInv
<1> USE DEF row, Goto
<1>0. /\ LeaseInvOf(k)
      /\ pc[k] # "down" => clock[k] <= Deadline(pc[k])
      /\ clock[k] \in Nat /\ age \in Nat
      /\ hb_failures[k] \in Nat /\ hb_failures[k] < FailureLimit /\ 0 < FailureLimit
      /\ Budget(hb_failures[k]) \in Nat
  BY BudgetFacts, FailureLimitNat, ElectionAssumption
     DEF LeaseInv, LeaseInvOf, Timely, TypeOK, AGE_CAP
<1>1. CASE Tick
  <2>1. /\ pc'[k] = pc[k] /\ rowcount' = rowcount /\ is_leader' = is_leader
        /\ hb_failures' = hb_failures /\ holder' = holder
        /\ age' <= age + 1
        /\ pc[k] # "down" => clock'[k] = clock[k] + 1
    BY <1>1, <1>0 DEF Tick, TypeOK
  <2>2. age' \in Nat
    BY <1>1, <1>0 DEF Tick, TypeOK
  <2> QED
    BY <2>1, <2>2, <1>0, ElectionAssumption DEF LeaseInvOf, Leads
<1>2. ASSUME NEW i \in Instances, StartUp(i) PROVE LeaseInvOf(k)'
  <2>1. CASE k = i
    BY <1>2, <2>1, <1>0 DEF StartUp, TypeOK, LeaseInvOf, Leads
  <2>2. CASE k # i
    BY <1>2, <2>2, Bystander DEF StartUp, TypeOK
  <2> QED
    BY <2>1, <2>2
<1>3. ASSUME NEW i \in Instances, AcquireAgain(i) PROVE LeaseInvOf(k)'
  <2>1. CASE k = i
    BY <1>3, <2>1, <1>0 DEF AcquireAgain, TypeOK, LeaseInvOf, Leads
  <2>2. CASE k # i
    BY <1>3, <2>2, Bystander DEF AcquireAgain, TypeOK
  <2> QED
    BY <2>1, <2>2
<1>4. ASSUME NEW i \in Instances, AcquireCommits(i) PROVE LeaseInvOf(k)'
  <2>1. CASE k = i
    BY <1>4, <2>1, <1>0 DEF AcquireCommits, TakeLease, TypeOK, LeaseInvOf, Leads
  <2>2. CASE k # i
    <3>1. Claims(k) => ~LeaseFree(i)
      BY FreeMeansUnclaimed
    <3> QED
      BY <1>4, <2>2, <3>1, Bystander DEF AcquireCommits, TypeOK
  <2> QED
    BY <2>1, <2>2
<1>5. ASSUME NEW i \in Instances, AcquireReturns(i) PROVE LeaseInvOf(k)'
  <2>1. CASE k = i
    <3>1. hb_failures[k] = 0 /\ clock[k] <= DB_OP_TIMEOUT + LATENESS
      BY <1>5, <2>1, <1>0 DEF AcquireReturns, LeaseInvOf, Deadline
    <3>2. Budget(0) = DB_OP_TIMEOUT + LATENESS
      BY BudgetFacts
    <3>3. CASE rowcount[k]
      <4>1. holder = k /\ age <= Budget(0)
        BY <1>5, <2>1, <1>0, <3>1, <3>2, <3>3, ElectionAssumption DEF AcquireReturns, LeaseInvOf
      <4>2. /\ pc'[k] = "leading" /\ clock'[k] = 0 /\ is_leader'[k] = TRUE
            /\ holder' = holder /\ age' = age /\ hb_failures'[k] = 0
        BY <1>5, <2>1, <3>1, <3>3 DEF AcquireReturns, TypeOK
      <4> QED
        BY <1>0, <3>1, <4>1, <4>2 DEF LeaseInvOf, Leads
    <3>4. CASE ~rowcount[k]
      BY <1>0, <1>5, <2>1, <3>1, <3>4 DEF AcquireReturns, TypeOK, LeaseInvOf, Leads
    <3> QED
      BY <3>3, <3>4
  <2>2. CASE k # i
    BY <1>5, <2>2, Bystander DEF AcquireReturns, TypeOK
  <2> QED
    BY <2>1, <2>2
<1>6. ASSUME NEW i \in Instances, AcquireFails(i) PROVE LeaseInvOf(k)'
  <2>1. CASE k = i
    BY <1>6, <2>1, <1>0 DEF AcquireFails, TypeOK, LeaseInvOf, Leads
  <2>2. CASE k # i
    <3>1. Claims(k) => ~LeaseFree(i)
      BY FreeMeansUnclaimed
    <3> QED
      BY <1>6, <2>2, <3>1, Bystander DEF AcquireFails, TypeOK
  <2> QED
    BY <2>1, <2>2
<1>7. ASSUME NEW i \in Instances, HeartbeatStarts(i) PROVE LeaseInvOf(k)'
  <2>1. CASE k = i
    <3>1. clock[k] <= HEARTBEAT_INTERVAL + LATENESS
      BY <1>7, <2>1, <1>0 DEF HeartbeatStarts, Deadline
    <3>2. /\ holder = k /\ is_leader[k]
          /\ age <= Budget(hb_failures[k]) + HEARTBEAT_INTERVAL + LATENESS + 0
      BY <1>7, <2>1, <1>0, <3>1, ElectionAssumption DEF HeartbeatStarts, LeaseInvOf, Leads
    <3>3. /\ pc'[k] = "beating" /\ clock'[k] = 0 /\ is_leader'[k] = is_leader[k]
          /\ holder' = holder /\ age' = age /\ hb_failures'[k] = hb_failures[k]
      BY <1>7, <2>1 DEF HeartbeatStarts, TypeOK
    <3> QED
      BY <1>0, <3>2, <3>3 DEF LeaseInvOf, Leads
  <2>2. CASE k # i
    BY <1>7, <2>2, Bystander DEF HeartbeatStarts, TypeOK
  <2> QED
    BY <2>1, <2>2
<1>8. ASSUME NEW i \in Instances, HeartbeatCommits(i) PROVE LeaseInvOf(k)'
  <2>0. holder = i /\ is_leader[i]
    BY <1>8 DEF HeartbeatCommits, LeaseInv, LeaseInvOf, Leads
  <2>1. CASE k = i
    <3>1. /\ pc'[k] = "beaten" /\ clock'[k] = clock[k] /\ rowcount'[k] = TRUE
          /\ is_leader'[k] = is_leader[k] /\ holder' = k /\ age' = clock[k]
          /\ hb_failures'[k] = hb_failures[k]
      BY <1>8, <2>0, <2>1 DEF HeartbeatCommits, TypeOK
    <3> QED
      BY <1>0, <2>0, <2>1, <3>1 DEF LeaseInvOf, Leads
  <2>2. CASE k # i
    <3>1. ~Claims(k)
      BY <2>0, <2>2, ClaimIsLive
    <3> QED
      BY <1>8, <2>2, <3>1, Bystander DEF HeartbeatCommits, TypeOK
  <2> QED
    BY <2>1, <2>2
<1>9. ASSUME NEW i \in Instances, HeartbeatReturns(i) PROVE LeaseInvOf(k)'
  <2>1. CASE k = i
    <3>1. clock[k] <= DB_OP_TIMEOUT + LATENESS /\ Budget(0) = DB_OP_TIMEOUT + LATENESS
      BY <1>9, <2>1, <1>0, BudgetFacts DEF HeartbeatReturns, Deadline
    <3>2. rowcount[k] /\ holder = k /\ age <= Budget(0)
      BY <1>9, <2>1, <1>0, <3>1, ElectionAssumption DEF HeartbeatReturns, LeaseInvOf
    <3>3. /\ pc'[k] = "leading" /\ clock'[k] = 0 /\ is_leader'[k] = TRUE
          /\ holder' = holder /\ age' = age /\ hb_failures'[k] = 0
      BY <1>9, <2>1, <3>2 DEF HeartbeatReturns, TypeOK
    <3> QED
      BY <1>0, <3>1, <3>2, <3>3, ElectionAssumption DEF LeaseInvOf, Leads
  <2>2. CASE k # i
    BY <1>9, <2>2, Bystander DEF HeartbeatReturns, TypeOK
  <2> QED
    BY <2>1, <2>2
<1>10. ASSUME NEW i \in Instances, HeartbeatFails(i) PROVE LeaseInvOf(k)'
  <2>0. holder = i /\ holder' = holder
    BY <1>10 DEF HeartbeatFails, LeaseInv, LeaseInvOf
  <2>1. CASE k = i
    <3> DEFINE f == hb_failures[k]
    <3>1. CASE f + 1 >= MAX_HB_FAILURES
      <4>1. pc'[k] = "down" /\ ~is_leader'[k] /\ hb_failures'[k] = 0
        BY <1>10, <2>1, <3>1 DEF HeartbeatFails, TypeOK
      <4> QED
        BY <1>0, <4>1 DEF LeaseInvOf, Leads
    <3>2. CASE ~(f + 1 >= MAX_HB_FAILURES)
      <4>1. /\ pc'[k] = "leading" /\ is_leader'[k] /\ clock'[k] = 0
            /\ hb_failures'[k] = f + 1
            /\ age' = IF clock[k] = DB_OP_TIMEOUT THEN clock[k] ELSE age
        BY <1>10, <2>0, <2>1, <3>2 DEF HeartbeatFails, TypeOK
      <4>6. f + 1 < FailureLimit
        BY <1>10, <3>2, <1>0, ElectionAssumption DEF HeartbeatFails, FailureLimit
      <4>2. Budget(f + 1) = Budget(f) + FailedBeat /\ Budget(f + 1) \in Nat
            /\ Budget(f) >= DB_OP_TIMEOUT + LATENESS /\ Budget(f) \in Nat
        BY <1>0, BudgetFacts
      <4>3. clock[k] <= DB_OP_TIMEOUT
        BY <1>10, <2>1, <1>0 DEF HeartbeatFails, Deadline
      <4>4. age <= Budget(f) + HEARTBEAT_INTERVAL + LATENESS + clock[k]
        BY <1>10, <2>1, <1>0 DEF HeartbeatFails, LeaseInvOf
      <4>5. age' <= Budget(f + 1) + 0
        BY <4>1, <4>2, <4>3, <4>4, <1>0, ElectionAssumption DEF FailedBeat
      <4> QED
        BY <2>0, <2>1, <4>1, <4>5, <4>6 DEF LeaseInvOf, Leads
    <3> QED
      BY <3>1, <3>2
  <2>2. CASE k # i
    <3>1. ~Claims(k)
      BY <2>0, <2>2, ClaimIsLive
    <3> QED
      BY <1>10, <2>2, <3>1, Bystander DEF HeartbeatFails, TypeOK
  <2> QED
    BY <2>1, <2>2
<1>11. ASSUME NEW i \in Instances, Release(i) PROVE LeaseInvOf(k)'
  <2>0. holder = i
    BY <1>11, ClaimIsLive DEF Release, LeaseInv, LeaseInvOf, Claims
  <2>1. CASE k = i
    BY <1>0, <1>11, <2>1 DEF Release, TypeOK, LeaseInvOf, Leads
  <2>2. CASE k # i
    <3>1. ~Claims(k)
      BY <2>0, <2>2, ClaimIsLive
    <3> QED
      BY <1>11, <2>2, <3>1, Bystander DEF Release, TypeOK
  <2> QED
    BY <2>1, <2>2
<1>12. ASSUME NEW i \in Instances, Crash(i) PROVE LeaseInvOf(k)'
  <2>1. CASE k = i
    BY <1>0, <1>12, <2>1 DEF Crash, TypeOK, LeaseInvOf, Leads
  <2>2. CASE k # i
    BY <1>12, <2>2, Bystander DEF Crash, TypeOK
  <2> QED
    BY <2>1, <2>2
<1>13. CASE UNCHANGED vars
  BY <1>13, Bystander DEF vars
<1> QED
  BY <1>1, <1>2, <1>3, <1>4, <1>5, <1>6, <1>7, <1>8, <1>9, <1>10, <1>11, <1>12, <1>13
     DEF Next, Step, End

\* The link between belief, clock and lease holds in every reachable state.
LEMMA LeaseInvariant == ASSUME SafeTiming PROVE Spec => []LeaseInv
<1>1. Init => LeaseInv
  BY LeaseInvInit
<1>2. TypeOK /\ Timely /\ LeaseInv /\ [Next]_vars => LeaseInv'
  BY LeaseInvNext
<1> QED
  BY <1>1, <1>2, TypeCorrect, PTL DEF Spec

\* When the lease outlives a leader that cannot renew it, a leader's belief is
\* backed by the table: is_leader implies that the row is its own.
THEOREM LeaderHolds == ASSUME SafeTiming PROVE Spec => []LeaderHoldsLease
<1>1. LeaseInv => LeaderHoldsLease
  BY DEF LeaseInv, LeaseInvOf, Leads, LeaderHoldsLease
<1> QED
  BY <1>1, LeaseInvariant, PTL

\* And no two instances lead at once, however acquisitions, late statements,
\* failed heartbeats, crashes and releases interleave.
THEOREM OneLeader == ASSUME SafeTiming PROVE Spec => []AtMostOneLeader
<1>1. LeaderHoldsLease => AtMostOneLeader
  BY DEF LeaderHoldsLease, AtMostOneLeader
<1> QED
  BY <1>1, LeaderHolds, PTL

-----------------------------------------------------------------------------
(* The admission of messages. *)

\* A sequence without the element at one position.
LEMMA Cut ==
    ASSUME NEW S, NEW list \in Seq(S), NEW i \in 1 .. Len(list)
    PROVE  /\ RemoveAt(list, i) \in Seq(S) /\ Len(RemoveAt(list, i)) = Len(list) - 1
           /\ \A j \in 1 .. (Len(list) - 1) :
                 RemoveAt(list, i)[j] = IF j < i THEN list[j] ELSE list[j + 1]
<1>1. Len(list) \in Nat /\ i \in Nat /\ i >= 1 /\ i <= Len(list) /\ \A j \in 1 .. Len(list) : list[j] \in S
  OBVIOUS
<1>2. PICK a : a = SubSeq(list, 1, i - 1)
  OBVIOUS
<1>3. PICK c : c = SubSeq(list, i + 1, Len(list))
  OBVIOUS
<1>4. /\ a \in Seq(S) /\ Len(a) = i - 1
      /\ \A j \in 1 .. (i - 1) : a[j] = list[j]
  <2>1. 1 \in Int /\ i - 1 \in Int /\ \A j \in 1 .. (i - 1) : list[j] \in S
    BY <1>1
  <2>2. /\ a \in Seq(S) /\ Len(a) = (IF 1 <= i - 1 THEN (i - 1) - 1 + 1 ELSE 0)
        /\ \A j \in 1 .. (i - 1) - 1 + 1 : a[j] = list[1 + j - 1]
    BY <1>2, <2>1, SubSeqProperties
  <2>3. \A j \in 1 .. (i - 1) : j \in 1 .. (i - 1) - 1 + 1 /\ 1 + j - 1 = j
    BY <1>1
  <2>4. QED
    BY <1>1, <2>2, <2>3
<1>5. /\ c \in Seq(S) /\ Len(c) = Len(list) - i
      /\ \A j \in 1 .. (Len(list) - i) : c[j] = list[i + j]
  <2>1. i + 1 \in Int /\ Len(list) \in Int /\ \A j \in (i + 1) .. Len(list) : list[j] \in S
    BY <1>1
  <2>2. /\ c \in Seq(S) /\ Len(c) = (IF i + 1 <= Len(list) THEN Len(list) - (i + 1) + 1 ELSE 0)
        /\ \A j \in 1 .. Len(list) - (i + 1) + 1 : c[j] = list[(i + 1) + j - 1]
    BY <1>3, <2>1, SubSeqProperties
  <2>3. \A j \in 1 .. (Len(list) - i) : j \in 1 .. Len(list) - (i + 1) + 1 /\ (i + 1) + j - 1 = i + j
    BY <1>1
  <2>4. QED
    BY <1>1, <2>2, <2>3
<1>6. RemoveAt(list, i) = a \o c
  BY <1>2, <1>3 DEF RemoveAt
<1>7. /\ a \o c \in Seq(S) /\ Len(a \o c) = Len(a) + Len(c)
      /\ \A j \in 1 .. Len(a) + Len(c) : (a \o c)[j] = IF j <= Len(a) THEN a[j] ELSE c[j - Len(a)]
  BY <1>4, <1>5, ConcatProperties
<1>8. ASSUME NEW j \in 1 .. (Len(list) - 1)
      PROVE  (a \o c)[j] = IF j < i THEN list[j] ELSE list[j + 1]
  <2>1. j \in 1 .. Len(a) + Len(c) /\ (j <= Len(a) <=> j < i)
    BY <1>1, <1>4, <1>5
  <2>2. CASE j < i
    <3>1. (a \o c)[j] = a[j] /\ j \in 1 .. (i - 1)
      BY <1>1, <1>7, <2>1, <2>2
    <3>2. QED
      BY <1>4, <2>2, <3>1
  <2>3. CASE ~(j < i)
    <3>1. (a \o c)[j] = c[j - Len(a)] /\ j - Len(a) \in 1 .. (Len(list) - i) /\ i + (j - Len(a)) = j + 1
      BY <1>1, <1>4, <1>7, <2>1, <2>3
    <3>2. QED
      BY <1>5, <2>3, <3>1
  <2>4. QED
    BY <2>2, <2>3
<1>9. QED
  BY <1>1, <1>4, <1>5, <1>6, <1>7, <1>8

\* What can be shown for a number by the least number for which it fails.
LEMMA LeastFailing ==
    ASSUME NEW T \in SUBSET Nat, T # {}
    PROVE  \E n \in T : \A m \in T : n <= m
<1>1. PICK n \in T : \A m \in T : <<m, n>> \notin OpToRel(<, Nat)
  BY NatLessThanWellFounded, WFMin
<1>2. ASSUME NEW m \in T PROVE n <= m
  <2>1. ~(m < n)
    BY <1>1 DEF OpToRel
  <2>2. QED
    BY <2>1
<1>3. QED
  BY <1>2

\* r is what is left of the queue q from its position k on.
IsRest(r, q, k) == r = SubSeq(q, k, Len(q))

\* The rest of a queue from one of its positions on.
LEMMA RestFrom ==
    ASSUME NEW q \in Seq(Nat), NEW k \in 1 .. Len(q) + 1, NEW r, IsRest(r, q, k)
    PROVE  /\ r \in Seq(Nat) /\ Len(r) = Len(q) - (k - 1)
           /\ \A j \in 1 .. Len(r) : r[j] = q[j + (k - 1)] /\ j + (k - 1) \in 1 .. Len(q)
<1>1. Len(q) \in Nat /\ k \in Nat /\ k >= 1 /\ k <= Len(q) + 1
  OBVIOUS
<1>2. PICK L \in Nat : L = Len(q)
  BY <1>1
<1>3. k \in Int /\ L \in Int /\ \A j \in k .. L : q[j] \in Nat
  BY <1>1, <1>2
<1>4. SubSeq(q, k, L) = r
  BY <1>2 DEF IsRest
<1>5. /\ r \in Seq(Nat) /\ Len(r) = (IF k <= L THEN L - k + 1 ELSE 0)
      /\ \A j \in 1 .. L - k + 1 : r[j] = q[k + j - 1]
  <2>1. /\ SubSeq(q, k, L) \in Seq(Nat)
        /\ Len(SubSeq(q, k, L)) = (IF k <= L THEN L - k + 1 ELSE 0)
        /\ \A j \in 1 .. L - k + 1 : SubSeq(q, k, L)[j] = q[k + j - 1]
    BY <1>3, SubSeqProperties
  <2>2. QED
    BY <1>4, <2>1
<1>6. Len(r) = L - (k - 1)
  BY <1>1, <1>2, <1>5
<1>7. \A j \in 1 .. Len(r) : j \in 1 .. L - k + 1 /\ k + j - 1 = j + (k - 1) /\ j + (k - 1) \in 1 .. L
  BY <1>1, <1>2, <1>6
<1>8. QED
  BY <1>2, <1>5, <1>6, <1>7

\* What is young enough begins at some position of a queue: all before it is too old.
LEMMA RecentPart ==
    ASSUME NEW q \in Seq(Nat), NEW limit \in Nat
    PROVE  /\ Recent(q, limit) \in Seq(Nat)
           /\ \E k \in 1 .. Len(q) + 1 :
                 /\ \A j \in 1 .. (k - 1) : q[j] > limit
                 /\ k <= Len(q) => q[k] <= limit
                 /\ Recent(q, limit) = SubSeq(q, k, Len(q))
<1>1. PICK young : young = {i \in 1 .. Len(q) : q[i] <= limit}
  OBVIOUS
<1>2. PICK first : first = IF young # {} THEN Min(young) ELSE 0
  OBVIOUS
<1>3. Recent(q, limit) = IF first = 0 THEN <<>> ELSE SubSeq(q, first, Len(q))
  BY <1>1, <1>2 DEF Recent, SelectInSeq
<1>4. Len(q) \in Nat /\ \A i \in 1 .. Len(q) : q[i] \in Nat
  OBVIOUS
<1>5. CASE young = {}
  <2>1. Recent(q, limit) = <<>>
    BY <1>2, <1>3, <1>5
  <2>2. SubSeq(q, Len(q) + 1, Len(q)) = <<>>
    BY <1>4
  <2>3. \A j \in 1 .. Len(q) : q[j] > limit
    BY <1>1, <1>4, <1>5
  <2>4. QED
    BY <1>4, <2>1, <2>2, <2>3
<1>6. CASE young # {}
  <2>1. young \in SUBSET Nat
    BY <1>1
  <2>2. \E n \in young : \A m \in young : n <= m
    BY <1>6, <2>1, LeastFailing
  <2>3. first \in young /\ \A m \in young : first <= m
    BY <1>2, <1>6, <2>2 DEF Min
  <2>4. first \in 1 .. Len(q) /\ q[first] <= limit /\ first \in Nat
    BY <1>1, <2>3
  <2>5. ASSUME NEW j \in 1 .. (first - 1) PROVE q[j] > limit
    <3>1. j \in 1 .. Len(q) /\ ~(first <= j)
      BY <1>4, <2>4
    <3>2. j \notin young
      BY <2>3, <3>1
    <3>3. QED
      BY <1>1, <1>4, <3>1, <3>2
  <2>6. Recent(q, limit) = SubSeq(q, first, Len(q))
    BY <1>3, <2>4
  <2>7. SubSeq(q, first, Len(q)) \in Seq(Nat)
    BY <1>4, <2>4
  <2>8. first \in 1 .. Len(q) + 1
    BY <1>4, <2>4
  <2>9. QED
    BY <2>4, <2>5, <2>6, <2>7, <2>8
<1>7. QED
  BY <1>5, <1>6

\* Entries that are too old, dropped beforehand, make no difference.
LEMMA DropsOld ==
    ASSUME NEW q \in Seq(Nat), NEW limit \in Nat, NEW k \in 1 .. Len(q) + 1,
           \A j \in 1 .. (k - 1) : q[j] > limit,
           NEW r, IsRest(r, q, k)
    PROVE  r \in Seq(Nat) /\ Recent(r, limit) = Recent(q, limit)
<1>1. Len(q) \in Nat /\ k \in Nat /\ k >= 1 /\ k <= Len(q) + 1 /\ \A i \in 1 .. Len(q) : q[i] \in Nat
  OBVIOUS
<1>2. PICK L \in Nat : L = Len(q)
  BY <1>1
<1>3. /\ r \in Seq(Nat) /\ Len(r) = L - (k - 1)
      /\ \A j \in 1 .. (L - (k - 1)) : r[j] = q[j + (k - 1)]
  <2>1. /\ r \in Seq(Nat) /\ Len(r) = Len(q) - (k - 1)
        /\ \A j \in 1 .. Len(r) : r[j] = q[j + (k - 1)]
    BY RestFrom
  <2>2. QED
    BY <1>2, <2>1
<1>4. PICK a \in 1 .. Len(q) + 1 : /\ \A j \in 1 .. (a - 1) : q[j] > limit
                                   /\ a <= Len(q) => q[a] <= limit
                                   /\ Recent(q, limit) = SubSeq(q, a, Len(q))
  BY RecentPart
<1>5. PICK c \in 1 .. Len(r) + 1 : /\ \A j \in 1 .. (c - 1) : r[j] > limit
                                   /\ c <= Len(r) => r[c] <= limit
                                   /\ Recent(r, limit) = SubSeq(r, c, Len(r))
  BY <1>3, RecentPart
<1>6. a \in Nat /\ c \in Nat /\ a >= 1 /\ c >= 1 /\ a <= L + 1 /\ c <= L - (k - 1) + 1
  BY <1>2, <1>3, <1>4, <1>5
<1>7. k <= a
  <2>1. SUFFICES ASSUME a < k PROVE FALSE
    BY <1>1, <1>6
  <2>2. a \in 1 .. (k - 1) /\ a <= Len(q) /\ a \in 1 .. Len(q)
    BY <1>1, <1>6, <2>1
  <2>3. q[a] > limit /\ q[a] <= limit /\ q[a] \in Nat
    BY <1>1, <1>4, <2>2
  <2>4. QED
    BY <2>3
<1>8. a = c + (k - 1)
  <2>1. CASE c + (k - 1) < a
    <3>1. c \in 1 .. (L - (k - 1)) /\ c <= Len(r) /\ c + (k - 1) \in 1 .. (a - 1) /\ c + (k - 1) \in 1 .. Len(q)
      BY <1>1, <1>2, <1>3, <1>6, <2>1
    <3>2. r[c] = q[c + (k - 1)] /\ r[c] <= limit /\ q[c + (k - 1)] > limit /\ q[c + (k - 1)] \in Nat
      BY <1>1, <1>3, <1>4, <1>5, <3>1
    <3>3. QED
      BY <3>2
  <2>2. CASE a < c + (k - 1)
    <3>1. PICK j \in Nat : j = a - (k - 1)
      BY <1>1, <1>6, <1>7
    <3>2. j \in 1 .. (c - 1) /\ j \in 1 .. (L - (k - 1)) /\ j + (k - 1) = a /\ a <= Len(q) /\ a \in 1 .. Len(q)
      BY <1>1, <1>2, <1>6, <1>7, <2>2, <3>1
    <3>3. r[j] > limit /\ r[j] = q[a] /\ q[a] <= limit /\ q[a] \in Nat
      BY <1>1, <1>3, <1>4, <1>5, <3>2
    <3>4. QED
      BY <3>3
  <2>3. QED
    BY <1>1, <1>6, <2>1, <2>2
<1>9. PICK u : u = SubSeq(q, a, Len(q)) /\ IsRest(u, q, a)
  BY DEF IsRest
<1>10. PICK v : v = SubSeq(r, c, Len(r)) /\ IsRest(v, r, c)
  BY DEF IsRest
<1>11. /\ u \in Seq(Nat) /\ Len(u) = L - (a - 1)
       /\ \A j \in 1 .. (L - (a - 1)) : u[j] = q[j + (a - 1)]
  <2>1. a \in 1 .. Len(q) + 1
    BY <1>4
  <2>2. /\ u \in Seq(Nat) /\ Len(u) = Len(q) - (a - 1)
        /\ \A j \in 1 .. Len(u) : u[j] = q[j + (a - 1)]
    BY <1>9, <2>1, RestFrom
  <2>3. QED
    BY <1>2, <2>2
<1>12. /\ v \in Seq(Nat) /\ Len(v) = Len(r) - (c - 1)
       /\ \A j \in 1 .. (Len(r) - (c - 1)) : v[j] = r[j + (c - 1)]
  <2>1. r \in Seq(Nat) /\ c \in 1 .. Len(r) + 1
    BY <1>3, <1>5
  <2>2. /\ v \in Seq(Nat) /\ Len(v) = Len(r) - (c - 1)
        /\ \A j \in 1 .. Len(v) : v[j] = r[j + (c - 1)]
    BY <1>10, <2>1, RestFrom
  <2>3. QED
    BY <2>2
<1>13. Len(u) = Len(v)
  BY <1>1, <1>2, <1>3, <1>6, <1>8, <1>11, <1>12
<1>14. ASSUME NEW j \in 1 .. Len(u) PROVE u[j] = v[j]
  <2>1. j \in Nat /\ j \in 1 .. (L - (a - 1)) /\ j \in 1 .. (Len(r) - (c - 1))
        /\ j + (c - 1) \in 1 .. (L - (k - 1)) /\ (j + (c - 1)) + (k - 1) = j + (a - 1)
    <3>1. j \in Nat /\ 1 <= j /\ j <= L - (a - 1) /\ Len(r) = L - (k - 1)
      BY <1>3, <1>11
    <3>2. QED
      BY <1>1, <1>6, <1>8, <3>1
  <2>2. u[j] = q[j + (a - 1)] /\ v[j] = r[j + (c - 1)] /\ r[j + (c - 1)] = q[(j + (c - 1)) + (k - 1)]
    BY <1>3, <1>11, <1>12, <2>1
  <2>3. QED
    BY <2>1, <2>2
<1>15. u = v
  BY <1>11, <1>12, <1>13, <1>14, SeqEqual
<1>16. QED
  BY <1>3, <1>4, <1>5, <1>9, <1>10, <1>15

\* There is nothing to drop from a queue whose first entry is in the window.
LEMMA NothingOld ==
    ASSUME NEW q \in Seq(Nat), NEW limit \in Nat, q = <<>> \/ q[1] <= limit
    PROVE  Recent(q, limit) = q
<1>1. PICK k \in 1 .. Len(q) + 1 : /\ \A j \in 1 .. (k - 1) : q[j] > limit
                                   /\ Recent(q, limit) = SubSeq(q, k, Len(q))
  BY RecentPart
<1>2. Len(q) \in Nat /\ \A i \in 1 .. Len(q) : q[i] \in Nat
  OBVIOUS
<1>3. CASE q = <<>>
  <2>1. Len(q) = 0
    BY <1>3
  <2>2. SubSeq(q, k, Len(q)) = <<>>
    BY <1>1, <1>3, <2>1
  <2>3. QED
    BY <1>1, <1>3, <2>2
<1>4. CASE q # <<>>
  <2>1. 1 \in 1 .. Len(q) /\ q[1] <= limit /\ q[1] \in Nat
    BY <1>2, <1>4, EmptySeq
  <2>2. ~(q[1] > limit)
    BY <2>1
  <2>3. k = 1
    BY <1>1, <1>2, <2>2
  <2>4. SubSeq(q, 1, Len(q)) = q
    BY <1>2
  <2>5. QED
    BY <1>1, <2>3, <2>4
<1>5. QED
  BY <1>3, <1>4

\* What is left in a window, with what comes next, and a tick later.
LEMMA Windows ==
    ASSUME NEW q \in Seq(Nat)
    PROVE  /\ InWindow(q) \in Seq(Nat) /\ InWindow(InWindow(q)) = InWindow(q)
           /\ InWindow(<<>>) = <<>>
           /\ InWindow(Append(InWindow(q), 0)) = Append(InWindow(q), 0)
           /\ OlderAll(q) \in Seq(Nat)
           /\ InWindow(OlderAll(InWindow(q))) = InWindow(OlderAll(q))
<1>1. WINDOW \in Nat
  BY InAssumption
<1>2. PICK w : w = Recent(q, WINDOW)
  OBVIOUS
<1>3. PICK k \in 1 .. Len(q) + 1 : /\ \A j \in 1 .. (k - 1) : q[j] > WINDOW
                                   /\ k <= Len(q) => q[k] <= WINDOW
                                   /\ IsRest(w, q, k)
  BY <1>1, <1>2, RecentPart DEF IsRest
<1>4. Len(q) \in Nat /\ \A i \in 1 .. Len(q) : q[i] \in Nat
  OBVIOUS
<1>5. w \in Seq(Nat) /\ Recent(w, WINDOW) = w
  <2>1. w \in Seq(Nat) /\ Recent(w, WINDOW) = Recent(q, WINDOW)
    BY <1>1, <1>3, DropsOld
  <2>2. QED
    BY <1>2, <2>1
<1>6. Recent(<<>>, WINDOW) = <<>>
  <2>1. PICK none : none = <<>>
    OBVIOUS
  <2>2. none \in Seq(Nat)
    BY <2>1
  <2>3. Recent(none, WINDOW) = none
    BY <1>1, <2>1, <2>2, NothingOld
  <2>4. QED
    BY <2>1, <2>3
<1>7. w # <<>> => w[1] <= WINDOW
  <2>1. PICK c \in 1 .. Len(w) + 1 : /\ \A j \in 1 .. (c - 1) : w[j] > WINDOW
                                     /\ c <= Len(w) => w[c] <= WINDOW
                                     /\ IsRest(w, w, c)
    BY <1>1, <1>5, RecentPart DEF IsRest
  <2>2. SUFFICES ASSUME w # <<>> PROVE w[1] <= WINDOW
    OBVIOUS
  <2>3. Len(w) \in Nat /\ Len(w) >= 1
    BY <1>5, <2>2, EmptySeq
  <2>4. Len(w) = Len(w) - (c - 1)
    BY <1>5, <2>1, RestFrom
  <2>5. c = 1
    BY <2>1, <2>3, <2>4
  <2>6. QED
    BY <2>1, <2>3, <2>5
<1>8. Recent(Append(w, 0), WINDOW) = Append(w, 0)
  <2>1. PICK a : a = Append(w, 0)
    OBVIOUS
  <2>2. a \in Seq(Nat) /\ Len(w) \in Nat /\ (\A j \in 1 .. Len(w) : a[j] = w[j]) /\ a[Len(w) + 1] = 0
    BY <1>5, <2>1
  <2>3. a[1] <= WINDOW
    <3>1. CASE w = <<>>
      BY <1>1, <2>2, <3>1
    <3>2. CASE w # <<>>
      <4>1. 1 \in 1 .. Len(w)
        BY <1>5, <3>2, EmptySeq
      <4>2. QED
        BY <1>7, <2>2, <3>2, <4>1
    <3>3. QED
      BY <3>1, <3>2
  <2>4. QED
    BY <1>1, <2>1, <2>2, <2>3, NothingOld
<1>9. PICK o : o = OlderAll(q)
  OBVIOUS
<1>10. ASSUME NEW n \in Nat PROVE Older(n, WINDOW + 1) \in Nat /\ (n > WINDOW => Older(n, WINDOW + 1) > WINDOW)
  <2>1. Min({n + 1, WINDOW + 1}) \in {n + 1, WINDOW + 1}
    <3>1. \E x \in {n + 1, WINDOW + 1} : \A y \in {n + 1, WINDOW + 1} : x <= y
      BY <1>1
    <3>2. QED
      BY <3>1 DEF Min
  <2>2. QED
    BY <1>1, <2>1 DEF Older
<1>11. o \in Seq(Nat) /\ Len(o) = Len(q) /\ \A i \in 1 .. Len(q) : o[i] = Older(q[i], WINDOW + 1)
  <2>1. o = [i \in 1 .. Len(q) |-> Older(q[i], WINDOW + 1)]
    BY <1>9 DEF OlderAll
  <2>2. \A i \in 1 .. Len(q) : Older(q[i], WINDOW + 1) \in Nat
    BY <1>4, <1>10
  <2>3. o \in Seq(Nat) /\ Len(o) = Len(q)
    BY <1>4, <2>1, <2>2
  <2>4. QED
    BY <2>1, <2>3
<1>12. IsRest(OlderAll(w), o, k)
  <2>1. Len(w) = Len(q) - (k - 1) /\ \A j \in 1 .. Len(w) : w[j] = q[j + (k - 1)] /\ j + (k - 1) \in 1 .. Len(q)
    BY <1>3, RestFrom
  <2>2. PICK u : u = SubSeq(o, k, Len(o)) /\ IsRest(u, o, k)
    BY DEF IsRest
  <2>3. o \in Seq(Nat) /\ k \in 1 .. Len(o) + 1
    BY <1>11
  <2>4. u \in Seq(Nat) /\ Len(u) = Len(o) - (k - 1) /\ \A j \in 1 .. Len(u) : u[j] = o[j + (k - 1)]
    BY <2>2, <2>3, RestFrom
  <2>5. PICK x : x = OlderAll(w)
    OBVIOUS
  <2>6. x = [i \in 1 .. Len(w) |-> Older(w[i], WINDOW + 1)]
    BY <1>5, <2>5 DEF OlderAll
  <2>7. \A i \in 1 .. Len(w) : Older(w[i], WINDOW + 1) \in Nat
    <3>1. \A i \in 1 .. Len(w) : w[i] \in Nat
      BY <1>5
    <3>2. QED
      BY <1>10, <3>1
  <2>8. x \in Seq(Nat) /\ Len(x) = Len(w)
    BY <1>5, <2>6, <2>7
  <2>9. ASSUME NEW j \in 1 .. Len(x) PROVE x[j] = u[j]
    <3>1. j \in 1 .. Len(w) /\ j \in 1 .. Len(u)
      BY <1>11, <2>1, <2>8, <2>4
    <3>2. x[j] = Older(w[j], WINDOW + 1) /\ w[j] = q[j + (k - 1)] /\ j + (k - 1) \in 1 .. Len(q)
      BY <2>1, <2>6, <3>1
    <3>3. u[j] = o[j + (k - 1)] /\ o[j + (k - 1)] = Older(q[j + (k - 1)], WINDOW + 1)
      BY <1>11, <2>4, <3>1, <3>2
    <3>4. QED
      BY <3>2, <3>3
  <2>10. Len(x) = Len(u)
    BY <1>11, <2>1, <2>4, <2>8
  <2>11. QED
    BY <2>2, <2>4, <2>5, <2>8, <2>9, <2>10, SeqEqual DEF IsRest
<1>13. Recent(OlderAll(w), WINDOW) = Recent(o, WINDOW)
  <2>1. k \in 1 .. Len(o) + 1
    BY <1>11
  <2>2. \A j \in 1 .. (k - 1) : o[j] > WINDOW
    <3>1. \A j \in 1 .. (k - 1) : j \in 1 .. Len(q)
      BY <1>3, <1>4
    <3>2. QED
      BY <1>3, <1>4, <1>10, <1>11, <3>1
  <2>3. QED
    BY <1>1, <1>11, <1>12, <2>1, <2>2, DropsOld
<1>14. QED
  BY <1>2, <1>5, <1>6, <1>8, <1>9, <1>11, <1>13 DEF InWindow


\* What is in a list and not at its head is in its tail; the tail has nothing new.
LEMMA TailHas ==
    ASSUME NEW S, NEW list \in Seq(S), list # <<>>
    PROVE  /\ Tail(list) \in Seq(S) /\ Head(list) \in ToSet(list)
           /\ ToSet(Tail(list)) \subseteq ToSet(list)
           /\ \A x \in ToSet(list) : x # Head(list) => x \in ToSet(Tail(list))
<1>1. PICK tail : tail = Tail(list)
  OBVIOUS
<1>2. Len(list) \in Nat /\ Len(list) >= 1
  BY EmptySeq
<1>3. /\ tail \in Seq(S) /\ Len(tail) = Len(list) - 1
      /\ \A i \in 1 .. Len(tail) : tail[i] = list[i + 1]
  BY <1>1, HeadTailProperties
<1>4. Head(list) = list[1] /\ 1 \in 1 .. Len(list)
  BY <1>2
<1>5. ASSUME NEW x \in ToSet(tail) PROVE x \in ToSet(list)
  <2>1. PICK i \in 1 .. Len(tail) : x = tail[i]
    BY <1>5 DEF ToSet
  <2>2. i + 1 \in 1 .. Len(list) /\ x = list[i + 1]
    BY <1>2, <1>3, <2>1
  <2>3. QED
    BY <2>2 DEF ToSet
<1>6. ASSUME NEW x \in ToSet(list), x # Head(list) PROVE x \in ToSet(tail)
  <2>1. PICK i \in 1 .. Len(list) : x = list[i]
    BY <1>6 DEF ToSet
  <2>2. i # 1
    BY <1>4, <1>6, <2>1
  <2>3. i - 1 \in 1 .. Len(tail) /\ (i - 1) + 1 = i
    BY <1>2, <1>3, <2>2
  <2>4. tail[i - 1] = x
    BY <1>3, <2>1, <2>3
  <2>5. QED
    BY <2>3, <2>4 DEF ToSet
<1>7. Head(list) \in ToSet(list)
  BY <1>4 DEF ToSet
<1>8. QED
  BY <1>1, <1>3, <1>5, <1>6, <1>7

\* A list with one more element.
LEMMA AppendHas ==
    ASSUME NEW S, NEW list \in Seq(S), NEW e \in S
    PROVE  /\ Append(list, e) \in Seq(S) /\ Append(list, e) # <<>>
           /\ Len(Append(list, e)) = Len(list) + 1
           /\ ToSet(Append(list, e)) = ToSet(list) \cup {e}
<1>1. PICK longer : longer = Append(list, e)
  OBVIOUS
<1>2. /\ longer \in Seq(S) /\ Len(list) \in Nat /\ Len(longer) = Len(list) + 1
      /\ (\A i \in 1 .. Len(list) : longer[i] = list[i]) /\ longer[Len(list) + 1] = e
  BY <1>1
<1>3. ASSUME NEW x PROVE x \in ToSet(longer) <=> x \in ToSet(list) \cup {e}
  <2>1. x \in ToSet(longer) <=> \E i \in 1 .. Len(longer) : x = longer[i]
    BY DEF ToSet
  <2>2. x \in ToSet(list) <=> \E i \in 1 .. Len(list) : x = list[i]
    BY DEF ToSet
  <2>3. \A i \in 1 .. Len(longer) : i \in 1 .. Len(list) \/ i = Len(list) + 1
    BY <1>2
  <2>4. Len(list) + 1 \in 1 .. Len(longer) /\ \A i \in 1 .. Len(list) : i \in 1 .. Len(longer)
    BY <1>2
  <2>5. QED
    BY <1>2, <2>1, <2>2, <2>3, <2>4
<1>4. longer # <<>>
  BY <1>2, EmptySeq
<1>5. QED
  BY <1>1, <1>2, <1>3, <1>4

-----------------------------------------------------------------------------
(* The two sliding windows. *)

\* The history of a window is what the limiter still has of it, and a sender who is not in
\* the table has nothing.
SenderInv ==
    /\ senderQ \in [order : Seq(Senders), ages : [Senders -> Seq(Nat)]]
    /\ passed.senders \in [Senders -> Seq(Nat)]
    /\ \A s \in Senders :
          /\ s \notin ToSet(senderQ.order) => senderQ.ages[s] = <<>>
          /\ passed.senders[s] = InWindow(senderQ.ages[s])
          /\ Len(passed.senders[s]) <= SENDER_MAX

ChatInv ==
    /\ groupQ \in [Chats -> Seq(Nat)]
    /\ passed.chats \in [Chats -> Seq(Nat)]
    /\ \A g \in Chats : /\ passed.chats[g] = InWindow(groupQ[g])
                        /\ Len(passed.chats[g]) <= GROUP_MAX

\* The table of the senders after a look-up, whoever it made room for.
LEMMA LookedUp ==
    ASSUME SenderInv, InAssumption, NEW s \in Senders, NEW ages \in Seq(Nat),
           senderQ' = SendersWith(s, ages)
    PROVE  /\ senderQ' \in [order : Seq(Senders), ages : [Senders -> Seq(Nat)]]
           /\ senderQ'.ages[s] = ages /\ s \in ToSet(senderQ'.order)
           /\ s \notin Evicted(s)
           /\ \A x \in Senders : x # s =>
                 /\ x \in Evicted(s) => senderQ'.ages[x] = <<>>
                 /\ x \notin Evicted(s) => senderQ'.ages[x] = senderQ.ages[x]
                 /\ x \notin ToSet(senderQ'.order) => senderQ'.ages[x] = <<>>
<1>1. PICK order : order = senderQ.order
  OBVIOUS
<1>2. PICK old : old = senderQ.ages
  OBVIOUS
<1>3. /\ order \in Seq(Senders) /\ old \in [Senders -> Seq(Nat)]
      /\ \A x \in Senders : x \notin ToSet(order) => old[x] = <<>>
  BY <1>1, <1>2 DEF SenderInv
<1>4. SENDERS_MAX \in Nat /\ SENDERS_MAX >= 1 /\ Len(order) \in Nat
  BY <1>3 DEF InAssumption
<1>5. PICK kept : kept = IF Evicting(s) THEN Tail(order) ELSE order
  OBVIOUS
<1>6. PICK next : next = IF s \in ToSet(order) THEN order ELSE Append(kept, s)
  OBVIOUS
<1>7. PICK gone : gone = Evicted(s)
  OBVIOUS
<1>8. PICK new : new = [x \in Senders |-> IF x = s THEN ages ELSE IF x \in gone THEN <<>> ELSE old[x]]
  OBVIOUS
<1>9. senderQ' = [order |-> next, ages |-> new]
  BY <1>1, <1>2, <1>5, <1>6, <1>7, <1>8 DEF SendersWith, SenderAges
<1>10. senderQ'.order = next /\ senderQ'.ages = new
  BY <1>9
<1>11. /\ kept \in Seq(Senders) /\ s \notin gone
       /\ \A x \in ToSet(order) : x \notin gone => x \in ToSet(kept)
  <2>1. CASE Evicting(s)
    <3>1. s \notin ToSet(order) /\ Len(order) >= SENDERS_MAX
      BY <1>1, <2>1 DEF Evicting
    <3>2. order # <<>>
      BY <1>3, <1>4, <3>1, EmptySeq
    <3>3. /\ Tail(order) \in Seq(Senders) /\ Head(order) \in ToSet(order)
          /\ \A x \in ToSet(order) : x # Head(order) => x \in ToSet(Tail(order))
      BY <1>3, <3>2, TailHas
    <3>4. gone = {Head(order)} /\ kept = Tail(order)
      BY <1>1, <1>5, <1>7, <2>1 DEF Evicted
    <3>5. QED
      BY <3>1, <3>3, <3>4
  <2>2. CASE ~Evicting(s)
    BY <1>3, <1>5, <1>7, <2>2 DEF Evicted
  <2>3. QED
    BY <2>1, <2>2
<1>12. /\ next \in Seq(Senders) /\ s \in ToSet(next)
       /\ \A x \in ToSet(order) : x \notin gone => x \in ToSet(next)
  <2>1. Append(kept, s) \in Seq(Senders) /\ ToSet(Append(kept, s)) = ToSet(kept) \cup {s}
    BY <1>11, AppendHas
  <2>2. QED
    BY <1>3, <1>6, <1>11, <2>1
<1>13. <<>> \in Seq(Nat)
  OBVIOUS
<1>14. new \in [Senders -> Seq(Nat)] /\ new[s] = ages
  BY <1>3, <1>8, <1>13
<1>15. \A x \in Senders : x # s => /\ x \in gone => new[x] = <<>>
                                   /\ x \notin gone => new[x] = old[x]
  BY <1>8
<1>16. ASSUME NEW x \in Senders, x # s, x \notin ToSet(next) PROVE new[x] = <<>>
  BY <1>3, <1>12, <1>15, <1>16
<1>17. QED
  BY <1>2, <1>7, <1>9, <1>10, <1>11, <1>12, <1>14, <1>15, <1>16

\* A refused message leaves the windows as they are.
LEMMA SenderRefused ==
    ASSUME SenderInv, InAssumption, NEW s \in Senders, SenderLimited(s), SenderSlot(s, <<>>),
           passed' = passed
    PROVE  SenderInv'
<1>1. PICK w : w = InWindow(senderQ.ages[s])
  OBVIOUS
<1>2. senderQ.ages[s] \in Seq(Nat)
  BY DEF SenderInv
<1>3. w \in Seq(Nat) /\ InWindow(w) = w /\ InWindow(<<>>) = <<>>
  BY <1>1, <1>2, Windows
<1>4. w # <<>>
  <2>1. Len(w) >= SENDER_MAX /\ SENDER_MAX \in Nat /\ SENDER_MAX >= 1
    BY <1>1 DEF SenderLimited, SenderAges, InAssumption
  <2>2. QED
    BY <1>3, <2>1, EmptySeq
<1>5. s \in ToSet(senderQ.order)
  BY <1>1, <1>3, <1>4 DEF SenderInv
<1>6. senderQ' = SendersWith(s, w)
  <2>1. w \o <<>> = w
    BY <1>3
  <2>2. QED
    BY <1>1, <2>1 DEF SenderSlot, SenderAges
<1>7. Evicted(s) = {}
  BY <1>5 DEF Evicted, Evicting
<1>8. /\ senderQ' \in [order : Seq(Senders), ages : [Senders -> Seq(Nat)]]
      /\ senderQ'.ages[s] = w /\ s \in ToSet(senderQ'.order)
      /\ \A x \in Senders : x # s =>
            /\ senderQ'.ages[x] = senderQ.ages[x]
            /\ x \notin ToSet(senderQ'.order) => senderQ'.ages[x] = <<>>
  BY <1>3, <1>6, <1>7, LookedUp
<1>9. ASSUME NEW x \in Senders
      PROVE  /\ x \notin ToSet(senderQ'.order) => senderQ'.ages[x] = <<>>
             /\ passed'.senders[x] = InWindow(senderQ'.ages[x])
             /\ Len(passed'.senders[x]) <= SENDER_MAX
  <2>1. passed.senders[x] = InWindow(senderQ.ages[x]) /\ Len(passed.senders[x]) <= SENDER_MAX
    BY DEF SenderInv
  <2>2. InWindow(senderQ'.ages[x]) = InWindow(senderQ.ages[x])
    BY <1>1, <1>3, <1>8
  <2>3. QED
    BY <1>8, <2>1, <2>2
<1>10. passed'.senders \in [Senders -> Seq(Nat)]
  BY DEF SenderInv
<1>11. QED
  BY <1>8, <1>9, <1>10 DEF SenderInv, InWindow

\* A message that passes takes a slot, and who is evicted has passed nothing.
LEMMA SenderPasses ==
    ASSUME SenderInv, InAssumption, NEW s \in Senders, ~SenderLimited(s), SenderSlot(s, << 0 >>),
           passed'.senders = [Forgotten(s) EXCEPT ![s] = Append(@, 0)]
    PROVE  SenderInv'
<1>1. PICK w : w = InWindow(senderQ.ages[s])
  OBVIOUS
<1>2. senderQ.ages[s] \in Seq(Nat) /\ SENDER_MAX \in Nat
  BY DEF SenderInv, InAssumption
<1>3. w \in Seq(Nat) /\ InWindow(Append(w, 0)) = Append(w, 0) /\ InWindow(<<>>) = <<>>
  BY <1>1, <1>2, Windows
<1>4. PICK taken : taken = Append(w, 0)
  OBVIOUS
<1>5. taken \in Seq(Nat) /\ Len(taken) = Len(w) + 1 /\ InWindow(taken) = taken
  BY <1>3, <1>4, AppendHas
<1>6. ~(Len(w) >= SENDER_MAX) /\ Len(w) \in Nat
  BY <1>1, <1>3 DEF SenderLimited, SenderAges
<1>7. Len(taken) <= SENDER_MAX
  BY <1>2, <1>5, <1>6
<1>8. senderQ' = SendersWith(s, taken)
  <2>1. w \o << 0 >> = Append(w, 0)
    BY <1>3
  <2>2. QED
    BY <1>1, <1>4, <2>1 DEF SenderSlot, SenderAges
<1>9. /\ senderQ' \in [order : Seq(Senders), ages : [Senders -> Seq(Nat)]]
      /\ senderQ'.ages[s] = taken /\ s \in ToSet(senderQ'.order)
      /\ s \notin Evicted(s)
      /\ \A x \in Senders : x # s =>
            /\ x \in Evicted(s) => senderQ'.ages[x] = <<>>
            /\ x \notin Evicted(s) => senderQ'.ages[x] = senderQ.ages[x]
            /\ x \notin ToSet(senderQ'.order) => senderQ'.ages[x] = <<>>
  BY <1>5, <1>8, LookedUp
<1>10. PICK old : old = passed.senders
  OBVIOUS
<1>11. old \in [Senders -> Seq(Nat)] /\ old[s] = w
  BY <1>1, <1>10 DEF SenderInv
<1>12. PICK left : left = Forgotten(s)
  OBVIOUS
<1>13. left = [x \in Senders |-> IF x \in Evicted(s) THEN <<>> ELSE old[x]]
  BY <1>10, <1>12 DEF Forgotten
<1>14. left \in [Senders -> Seq(Nat)] /\ left[s] = w
  <2>1. <<>> \in Seq(Nat)
    OBVIOUS
  <2>2. QED
    BY <1>9, <1>11, <1>13, <2>1
<1>15. PICK new : new = passed'.senders
  OBVIOUS
<1>16. new = [left EXCEPT ![s] = Append(@, 0)]
  BY <1>12, <1>15
<1>17. /\ new \in [Senders -> Seq(Nat)] /\ new[s] = taken
       /\ \A x \in Senders : x # s => new[x] = left[x]
  BY <1>4, <1>5, <1>14, <1>16
<1>18. ASSUME NEW x \in Senders
       PROVE  /\ x \notin ToSet(senderQ'.order) => senderQ'.ages[x] = <<>>
              /\ new[x] = InWindow(senderQ'.ages[x])
              /\ Len(new[x]) <= SENDER_MAX
  <2>1. CASE x = s
    BY <1>5, <1>7, <1>9, <1>17, <2>1
  <2>2. CASE x # s /\ x \in Evicted(s)
    <3>1. new[x] = <<>> /\ senderQ'.ages[x] = <<>>
      BY <1>9, <1>13, <1>17, <2>2
    <3>2. Len(<<>>) <= SENDER_MAX
      BY <1>2
    <3>3. QED
      BY <1>3, <1>9, <2>2, <3>1, <3>2
  <2>3. CASE x # s /\ x \notin Evicted(s)
    <3>1. new[x] = old[x] /\ senderQ'.ages[x] = senderQ.ages[x]
      BY <1>9, <1>13, <1>17, <2>3
    <3>2. old[x] = InWindow(senderQ.ages[x]) /\ Len(old[x]) <= SENDER_MAX
      BY <1>10 DEF SenderInv
    <3>3. QED
      BY <1>9, <2>3, <3>1, <3>2
  <2>4. QED
    BY <2>1, <2>2, <2>3
<1>19. QED
  BY <1>9, <1>15, <1>17, <1>18 DEF SenderInv, InWindow

\* A window as the clock moves on.
LEMMA WindowTicks ==
    ASSUME NEW q \in Seq(Nat), NEW w, w = InWindow(q), NEW u, u = InWindow(OlderAll(w))
    PROVE  /\ OlderAll(q) \in Seq(Nat) /\ u \in Seq(Nat)
           /\ u = InWindow(OlderAll(q)) /\ Len(u) <= Len(w)
<1>1. w \in Seq(Nat) /\ OlderAll(q) \in Seq(Nat) /\ InWindow(OlderAll(w)) = InWindow(OlderAll(q))
  BY Windows
<1>2. PICK o : o = OlderAll(w)
  OBVIOUS
<1>3. o \in Seq(Nat) /\ WINDOW \in Nat
  BY <1>1, <1>2, Windows, InAssumption
<1>4. Len(o) = Len(w)
  <2>1. o = [i \in 1 .. Len(w) |-> Older(w[i], WINDOW + 1)] /\ Len(w) \in Nat
    BY <1>1, <1>2 DEF OlderAll
  <2>2. DOMAIN o = 1 .. Len(w) /\ DOMAIN o = 1 .. Len(o) /\ Len(o) \in Nat
    BY <1>3, <2>1
  <2>3. QED
    BY <2>1, <2>2
<1>5. PICK k \in 1 .. Len(o) + 1 : Recent(o, WINDOW) = SubSeq(o, k, Len(o))
  BY <1>3, RecentPart
<1>6. IsRest(u, o, k)
  BY <1>2, <1>5 DEF InWindow, IsRest
<1>7. u \in Seq(Nat) /\ Len(u) = Len(o) - (k - 1)
  BY <1>3, <1>6, RestFrom
<1>8. Len(o) \in Nat /\ k >= 1
  BY <1>3
<1>9. QED
  BY <1>1, <1>4, <1>7, <1>8

\* The senders' windows as the clock moves on.
LEMMA SenderTicks ==
    ASSUME SenderInv, InAssumption, InTick
    PROVE  SenderInv'
<1>1. PICK old : old = senderQ.ages
  OBVIOUS
<1>2. PICK kept : kept = passed.senders
  OBVIOUS
<1>3. /\ old \in [Senders -> Seq(Nat)] /\ kept \in [Senders -> Seq(Nat)]
      /\ \A s \in Senders : /\ s \notin ToSet(senderQ.order) => old[s] = <<>>
                            /\ kept[s] = InWindow(old[s]) /\ Len(kept[s]) <= SENDER_MAX
  BY <1>1, <1>2 DEF SenderInv
<1>4. PICK new : new = [s \in Senders |-> OlderAll(old[s])]
  OBVIOUS
<1>5. PICK left : left = [s \in Senders |-> InWindow(OlderAll(kept[s]))]
  OBVIOUS
<1>6. ASSUME NEW s \in Senders
      PROVE  /\ OlderAll(old[s]) \in Seq(Nat) /\ InWindow(OlderAll(kept[s])) \in Seq(Nat)
             /\ InWindow(OlderAll(kept[s])) = InWindow(OlderAll(old[s]))
             /\ Len(InWindow(OlderAll(kept[s]))) <= Len(kept[s])
  <2>1. old[s] \in Seq(Nat) /\ kept[s] = InWindow(old[s])
    BY <1>3
  <2>2. QED
    BY <2>1, WindowTicks
<1>7. new \in [Senders -> Seq(Nat)] /\ left \in [Senders -> Seq(Nat)]
  BY <1>4, <1>5, <1>6
<1>8. senderQ' = [senderQ EXCEPT !.ages = new]
  BY <1>1, <1>4 DEF InTick, SenderAges
<1>9. senderQ'.ages = new /\ senderQ'.order = senderQ.order
      /\ senderQ' \in [order : Seq(Senders), ages : [Senders -> Seq(Nat)]]
  BY <1>7, <1>8 DEF SenderInv
<1>10. passed'.senders = left
  BY <1>2, <1>5 DEF InTick, InWindow
<1>11. OlderAll(<<>>) = <<>>
  <2>1. PICK none \in Seq(Nat) : none = <<>>
    <3>1. <<>> \in Seq(Nat)
      OBVIOUS
    <3>2. QED
      BY <3>1
  <2>2. PICK o : o = OlderAll(none)
    OBVIOUS
  <2>3. o \in Seq(Nat)
    BY <2>2, Windows
  <2>4. o = [i \in DOMAIN none |-> Older(none[i], WINDOW + 1)]
    BY <2>2 DEF OlderAll
  <2>5. DOMAIN none = 1 .. 0
    BY <2>1
  <2>6. DOMAIN o = 1 .. 0 /\ DOMAIN o = 1 .. Len(o) /\ Len(o) \in Nat
    BY <2>3, <2>4, <2>5
  <2>7. Len(o) = 0
    BY <2>6
  <2>8. QED
    BY <2>1, <2>2, <2>3, <2>7, EmptySeq
<1>12. ASSUME NEW s \in Senders
       PROVE  /\ s \notin ToSet(senderQ'.order) => new[s] = <<>>
              /\ left[s] = InWindow(new[s])
              /\ Len(left[s]) <= SENDER_MAX
  <2>1. new[s] = OlderAll(old[s]) /\ left[s] = InWindow(OlderAll(kept[s]))
    BY <1>4, <1>5
  <2>2. Len(left[s]) \in Nat /\ Len(kept[s]) \in Nat /\ SENDER_MAX \in Nat
    BY <1>3, <1>7 DEF InAssumption
  <2>3. Len(left[s]) <= Len(kept[s]) /\ left[s] = InWindow(new[s])
    BY <1>6, <2>1
  <2>4. s \notin ToSet(senderQ'.order) => new[s] = <<>>
    BY <1>3, <1>9, <1>11, <2>1
  <2>5. QED
    BY <1>3, <2>2, <2>3, <2>4
<1>13. QED
  BY <1>7, <1>9, <1>10, <1>12 DEF SenderInv, InWindow


\* A chat's window: a message over its limit leaves it as it is, another takes a slot.
LEMMA ChatMoves ==
    ASSUME ChatInv, InAssumption, NEW g \in Chats, NEW taken,
           \/ taken = <<>> /\ passed'.chats = passed.chats
           \/ /\ taken = << 0 >> /\ ~GroupLimited(g)
              /\ passed'.chats = [passed.chats EXCEPT ![g] = Append(@, 0)],
           GroupSlot(g, taken)
    PROVE  ChatInv'
<1>1. PICK w : w = InWindow(groupQ[g])
  OBVIOUS
<1>2. groupQ[g] \in Seq(Nat) /\ GROUP_MAX \in Nat
  BY DEF ChatInv, InAssumption
<1>3. w \in Seq(Nat) /\ InWindow(w) = w /\ InWindow(Append(w, 0)) = Append(w, 0)
  BY <1>1, <1>2, Windows
<1>4. PICK v : v = w \o taken
  OBVIOUS
<1>5. groupQ' = [groupQ EXCEPT ![g] = v]
  BY <1>1, <1>4 DEF GroupSlot
<1>6. PICK old : old = passed.chats
  OBVIOUS
<1>7. old \in [Chats -> Seq(Nat)] /\ old[g] = w /\ Len(w) <= GROUP_MAX
  BY <1>1, <1>6 DEF ChatInv
<1>8. /\ v \in Seq(Nat) /\ InWindow(v) = v /\ Len(v) <= GROUP_MAX
      /\ passed'.chats = [old EXCEPT ![g] = v]
  <2>1. CASE taken = <<>> /\ passed'.chats = passed.chats
    <3>1. v = w
      BY <1>3, <1>4, <2>1
    <3>2. old = [old EXCEPT ![g] = w]
      BY <1>7
    <3>3. QED
      BY <1>3, <1>6, <1>7, <2>1, <3>1, <3>2
  <2>2. CASE /\ taken = << 0 >> /\ ~GroupLimited(g)
             /\ passed'.chats = [passed.chats EXCEPT ![g] = Append(@, 0)]
    <3>1. v = Append(w, 0)
      BY <1>3, <1>4, <2>2
    <3>2. v \in Seq(Nat) /\ Len(v) = Len(w) + 1
      BY <1>3, <3>1, AppendHas
    <3>3. ~(Len(w) >= GROUP_MAX) /\ Len(w) \in Nat
      BY <1>1, <1>3, <2>2 DEF GroupLimited
    <3>4. Len(v) <= GROUP_MAX
      BY <1>2, <3>2, <3>3
    <3>5. passed'.chats = [old EXCEPT ![g] = v]
      BY <1>6, <1>7, <2>2, <3>1
    <3>6. QED
      BY <1>3, <3>1, <3>2, <3>4, <3>5
  <2>3. QED
    BY <2>1, <2>2
<1>9. groupQ' \in [Chats -> Seq(Nat)] /\ passed'.chats \in [Chats -> Seq(Nat)]
  BY <1>5, <1>7, <1>8 DEF ChatInv
<1>10. ASSUME NEW x \in Chats
       PROVE  passed'.chats[x] = InWindow(groupQ'[x]) /\ Len(passed'.chats[x]) <= GROUP_MAX
  <2>1. CASE x = g
    <3>1. passed'.chats[x] = v
      BY <1>7, <1>8, <2>1
    <3>2. groupQ'[x] = v
      BY <1>5, <2>1 DEF ChatInv
    <3>3. QED
      BY <1>8, <3>1, <3>2
  <2>2. CASE x # g
    <3>1. passed'.chats[x] = passed.chats[x] /\ groupQ'[x] = groupQ[x]
      BY <1>5, <1>6, <1>7, <1>8, <2>2 DEF ChatInv
    <3>2. QED
      BY <3>1 DEF ChatInv
  <2>3. QED
    BY <2>1, <2>2
<1>11. QED
  BY <1>9, <1>10 DEF ChatInv, InWindow

\* The chats' windows as the clock moves on.
LEMMA ChatTicks ==
    ASSUME ChatInv, InAssumption, InTick
    PROVE  ChatInv'
<1>1. PICK old : old = passed.chats
  OBVIOUS
<1>2. /\ old \in [Chats -> Seq(Nat)] /\ groupQ \in [Chats -> Seq(Nat)]
      /\ \A g \in Chats : old[g] = InWindow(groupQ[g]) /\ Len(old[g]) <= GROUP_MAX
  BY <1>1 DEF ChatInv
<1>3. PICK new : new = [g \in Chats |-> InWindow(OlderAll(old[g]))]
  OBVIOUS
<1>4. passed'.chats = new
  BY <1>1, <1>3 DEF InTick, InWindow
<1>5. groupQ' = [g \in Chats |-> OlderAll(groupQ[g])]
  BY DEF InTick
<1>6. ASSUME NEW g \in Chats
      PROVE  /\ OlderAll(groupQ[g]) \in Seq(Nat) /\ InWindow(OlderAll(old[g])) \in Seq(Nat)
             /\ InWindow(OlderAll(old[g])) = InWindow(OlderAll(groupQ[g]))
             /\ Len(InWindow(OlderAll(old[g]))) <= Len(old[g])
  <2>1. groupQ[g] \in Seq(Nat) /\ old[g] = InWindow(groupQ[g])
    BY <1>2
  <2>2. QED
    BY <2>1, WindowTicks
<1>7. groupQ' \in [Chats -> Seq(Nat)] /\ new \in [Chats -> Seq(Nat)]
  BY <1>3, <1>5, <1>6
<1>8. ASSUME NEW g \in Chats
      PROVE  new[g] = InWindow(groupQ'[g]) /\ Len(new[g]) <= GROUP_MAX
  <2>1. groupQ'[g] = OlderAll(groupQ[g]) /\ new[g] = InWindow(OlderAll(old[g]))
    BY <1>3, <1>5
  <2>2. Len(new[g]) \in Nat /\ Len(old[g]) \in Nat /\ GROUP_MAX \in Nat
    BY <1>2, <1>7 DEF InAssumption
  <2>3. Len(new[g]) <= Len(old[g]) /\ new[g] = InWindow(groupQ'[g])
    BY <1>6, <2>1
  <2>4. QED
    BY <1>2, <2>2, <2>3
<1>9. QED
  BY <1>4, <1>7, <1>8 DEF ChatInv, InWindow

-----------------------------------------------------------------------------
(* The duplicate filter. *)

\* What was stored within the time-to-live has its fingerprint, no older than itself, unless
\* that was evicted or lost; and what has a fingerprint was settled, no longer ago, unless
\* storing it failed.
FilterInv ==
    /\ seen \in [order : Seq(Messages), age : [Messages -> Nat]]
    /\ stored \in [Messages -> [copies : Nat, age : Nat]]
    /\ settled \in [Messages -> Nat]
    /\ \A m \in Messages :
          /\ m \notin forgot /\ stored[m].age < DEDUP_TTL =>
                m \in ToSet(seen.order) /\ seen.age[m] <= stored[m].age
          /\ m \notin lost /\ seen.age[m] < DEDUP_TTL => settled[m] <= seen.age[m]

\* Without the first entry of an element, a list keeps all the others.
LEMMA RestHas ==
    ASSUME NEW S, NEW list \in Seq(S), NEW e
    PROVE  /\ RemoveFirst(list, e) \in Seq(S)
           /\ \A x \in ToSet(list) : x # e => x \in ToSet(RemoveFirst(list, e))
<1>1. CASE \A i \in 1 .. Len(list) : list[i] # e
  <2>1. ~ \E i \in 1 .. Len(list) : list[i] = e
    BY <1>1
  <2>2. RemoveFirst(list, e) = list
    BY <2>1 DEF RemoveFirst, SelectInSeq
  <2>3. QED
    BY <2>2
<1>2. CASE \E i \in 1 .. Len(list) : list[i] = e
  <2>1. PICK I : I = {i \in 1 .. Len(list) : list[i] = e}
    OBVIOUS
  <2>2. I \in SUBSET Nat /\ I # {}
    BY <1>2, <2>1
  <2>3. \E n \in I : \A m \in I : n <= m
    BY <2>2, LeastFailing
  <2>4. PICK k : k = Min(I)
    OBVIOUS
  <2>5. k \in I
    BY <2>3, <2>4 DEF Min
  <2>6. k \in 1 .. Len(list) /\ list[k] = e
    BY <2>1, <2>5
  <2>7. RemoveFirst(list, e) = RemoveAt(list, k)
    BY <1>2, <2>1, <2>2, <2>4 DEF RemoveFirst, SelectInSeq
  <2>8. PICK rest : rest = RemoveAt(list, k)
    OBVIOUS
  <2>9. /\ rest \in Seq(S) /\ Len(rest) = Len(list) - 1
        /\ \A j \in 1 .. (Len(list) - 1) : rest[j] = IF j < k THEN list[j] ELSE list[j + 1]
    BY <2>6, <2>8, Cut
  <2>10. ASSUME NEW x \in ToSet(list), x # e PROVE x \in ToSet(rest)
    <3>1. PICK i \in 1 .. Len(list) : x = list[i]
      BY <2>10 DEF ToSet
    <3>2. i # k /\ Len(list) \in Nat /\ k \in Nat /\ i \in Nat
      BY <2>6, <2>10, <3>1
    <3>3. CASE i < k
      <4>1. i \in 1 .. (Len(list) - 1) /\ i \in 1 .. Len(rest)
        BY <2>6, <2>9, <3>1, <3>2, <3>3
      <4>2. rest[i] = x
        BY <2>9, <3>1, <3>3, <4>1
      <4>3. QED
        BY <4>1, <4>2 DEF ToSet
    <3>4. CASE k < i
      <4>1. i - 1 \in 1 .. (Len(list) - 1) /\ i - 1 \in 1 .. Len(rest) /\ (i - 1) + 1 = i /\ ~(i - 1 < k)
        BY <2>6, <2>9, <3>1, <3>2, <3>4
      <4>2. rest[i - 1] = list[(i - 1) + 1]
        BY <2>9, <4>1
      <4>3. rest[i - 1] = x
        BY <3>1, <4>1, <4>2
      <4>4. PICK j \in 1 .. Len(rest) : j = i - 1
        BY <4>1
      <4>5. j \in DOMAIN rest /\ rest[j] = x
        BY <2>9, <4>3, <4>4
      <4>6. QED
        BY <4>5 DEF ToSet
    <3>5. QED
      BY <3>2, <3>3, <3>4
  <2>11. QED
    BY <2>7, <2>8, <2>9, <2>10
<1>3. QED
  BY <1>1, <1>2

\* The fingerprints with that of a message as the last one.
LEMMA Renewed ==
    ASSUME FilterInv, NEW m \in Messages
    PROVE  /\ Fingerprints(m) \in Seq(Messages) /\ Fingerprints(m) # <<>>
           /\ ToSet(seen.order) \cup {m} \subseteq ToSet(Fingerprints(m))
<1>1. PICK order : order = seen.order
  OBVIOUS
<1>2. order \in Seq(Messages)
  BY <1>1 DEF FilterInv
<1>3. PICK others : others = RemoveFirst(order, m)
  OBVIOUS
<1>4. others \in Seq(Messages) /\ \A x \in ToSet(order) : x # m => x \in ToSet(others)
  BY <1>2, <1>3, RestHas
<1>5. PICK all : all = Append(others, m)
  OBVIOUS
<1>6. all \in Seq(Messages) /\ all # <<>> /\ ToSet(all) = ToSet(others) \cup {m}
  BY <1>4, <1>5, AppendHas
<1>7. Fingerprints(m) = all
  BY <1>1, <1>3, <1>5 DEF Fingerprints, Others
<1>8. QED
  BY <1>1, <1>4, <1>6, <1>7

\* A duplicate becomes the most recently used: nothing else changes.
LEMMA FilterTouched ==
    ASSUME FilterInv, NEW m \in Messages, Touch(m), UNCHANGED <<stored, settled, lost, forgot>>
    PROVE  FilterInv'
<1>1. PICK all : all = Fingerprints(m)
  OBVIOUS
<1>2. all \in Seq(Messages) /\ ToSet(seen.order) \subseteq ToSet(all)
  BY <1>1, Renewed
<1>3. seen' = [seen EXCEPT !.order = all]
  BY <1>1 DEF Touch, Fingerprints
<1>4. /\ seen' \in [order : Seq(Messages), age : [Messages -> Nat]]
      /\ seen'.order = all /\ seen'.age = seen.age
  BY <1>2, <1>3 DEF FilterInv
<1>5. ASSUME NEW x \in Messages
      PROVE  /\ x \notin forgot /\ stored[x].age < DEDUP_TTL =>
                   x \in ToSet(all) /\ seen.age[x] <= stored[x].age
             /\ x \notin lost /\ seen.age[x] < DEDUP_TTL => settled[x] <= seen.age[x]
  BY <1>2 DEF FilterInv
<1>6. QED
  BY <1>4, <1>5 DEF FilterInv

\* A new fingerprint, and the one it may have pushed out.
LEMMA Remembered ==
    ASSUME FilterInv, InAssumption, NEW m \in Messages, RememberMsg(m)
    PROVE  /\ seen' \in [order : Seq(Messages), age : [Messages -> Nat]]
           /\ seen'.age[m] \in {0, DEDUP_TTL}
           /\ m \notin forgot' => m \in ToSet(seen'.order) /\ seen'.age[m] = 0
           /\ \A x \in Messages : x # m =>
                 /\ seen'.age[x] \in {seen.age[x], DEDUP_TTL}
                 /\ x \notin forgot' => /\ x \notin forgot /\ seen'.age[x] = seen.age[x]
                                        /\ x \in ToSet(seen.order) => x \in ToSet(seen'.order)
<1>1. PICK all : all = Fingerprints(m)
  OBVIOUS
<1>2. all \in Seq(Messages) /\ all # <<>> /\ ToSet(seen.order) \cup {m} \subseteq ToSet(all)
  BY <1>1, Renewed
<1>3. PICK out : out = Dropped(m)
  OBVIOUS
<1>4. out \in {{}, {Head(all)}}
  BY <1>1, <1>3 DEF Dropped
<1>5. PICK next : next = IF out = {} THEN all ELSE Tail(all)
  OBVIOUS
<1>6. PICK new : new = [x \in Messages |-> IF x \in out THEN DEDUP_TTL ELSE IF x = m THEN 0 ELSE seen.age[x]]
  OBVIOUS
<1>7. seen' = [order |-> next, age |-> new]
  BY <1>1, <1>3, <1>5, <1>6 DEF RememberMsg
<1>8. seen'.order = next /\ seen'.age = new
  BY <1>7
<1>9. next \in Seq(Messages) /\ \A x \in ToSet(all) : x \notin out => x \in ToSet(next)
  <2>1. Tail(all) \in Seq(Messages) /\ \A x \in ToSet(all) : x # Head(all) => x \in ToSet(Tail(all))
    BY <1>2, TailHas
  <2>2. QED
    BY <1>2, <1>4, <1>5, <2>1
<1>10. DEDUP_TTL \in Nat /\ seen.age \in [Messages -> Nat]
  BY DEF InAssumption, FilterInv
<1>11. new \in [Messages -> Nat]
  BY <1>6, <1>10
<1>12. forgot' = (forgot \ {m}) \cup out
  BY <1>3 DEF RememberMsg
<1>13. m \notin forgot' => m \in ToSet(next) /\ new[m] = 0
  BY <1>2, <1>6, <1>9, <1>12
<1>14. ASSUME NEW x \in Messages, x # m
       PROVE  /\ new[x] \in {seen.age[x], DEDUP_TTL}
              /\ x \notin forgot' => /\ x \notin forgot /\ new[x] = seen.age[x]
                                     /\ x \in ToSet(seen.order) => x \in ToSet(next)
  BY <1>2, <1>6, <1>9, <1>12, <1>14
<1>15. new[m] \in {0, DEDUP_TTL}
  BY <1>6
<1>16. QED
  BY <1>7, <1>8, <1>9, <1>11, <1>13, <1>14, <1>15

\* The message is refused with a notice, stored, or lost.
LEMMA FilterDecides ==
    ASSUME FilterInv, InAssumption, NEW m \in Messages, NEW check, RememberMsg(m),
           Refuse(m, check) \/ Accept(m, check) \/ LoseMessage(m, check)
    PROVE  FilterInv'
<1>1. /\ seen' \in [order : Seq(Messages), age : [Messages -> Nat]]
      /\ seen'.age[m] \in {0, DEDUP_TTL}
      /\ m \notin forgot' => m \in ToSet(seen'.order) /\ seen'.age[m] = 0
      /\ \A x \in Messages : x # m =>
            /\ seen'.age[x] \in {seen.age[x], DEDUP_TTL}
            /\ x \notin forgot' => /\ x \notin forgot /\ seen'.age[x] = seen.age[x]
                                   /\ x \in ToSet(seen.order) => x \in ToSet(seen'.order)
  BY Remembered
<1>2. /\ stored \in [Messages -> [copies : Nat, age : Nat]] /\ settled \in [Messages -> Nat]
      /\ DEDUP_TTL \in Nat /\ seen.age \in [Messages -> Nat]
  BY DEF FilterInv, InAssumption
<1>3. /\ stored' \in [Messages -> [copies : Nat, age : Nat]]
      /\ \A x \in Messages : x # m => stored'[x] = stored[x]
  <2>1. CASE stored' = stored
    BY <1>2, <2>1
  <2>2. CASE Accept(m, check)
    <3>1. PICK entry : entry = [stored[m] EXCEPT !.copies = @ + 1, !.age = 0]
      OBVIOUS
    <3>2. PICK kept : kept = [copies |-> stored[m].copies + 1, age |-> 0]
      OBVIOUS
    <3>3. kept \in [copies : Nat, age : Nat]
      <4>1. stored[m].copies \in Nat
        BY <1>2
      <4>2. QED
        BY <3>2, <4>1
    <3>4. stored' = [stored EXCEPT ![m] = kept]
      BY <1>2, <2>2, <3>2 DEF Accept
    <3>5. QED
      BY <1>2, <3>3, <3>4
  <2>3. QED
    BY <2>1, <2>2 DEF Refuse, LoseMessage
<1>4. /\ settled' \in [Messages -> Nat]
      /\ \A x \in Messages : x # m => settled'[x] = settled[x]
      /\ m \notin lost' => settled'[m] = 0
      /\ \A x \in Messages : x # m => (x \in lost' <=> x \in lost)
  <2>1. CASE Refuse(m, check)
    BY <1>2, <2>1 DEF Refuse
  <2>2. CASE Accept(m, check)
    BY <1>2, <2>2 DEF Accept
  <2>3. CASE LoseMessage(m, check)
    BY <1>2, <2>3 DEF LoseMessage
  <2>4. QED
    BY <2>1, <2>2, <2>3
<1>5. ASSUME NEW x \in Messages
      PROVE  /\ x \notin forgot' /\ stored'[x].age < DEDUP_TTL =>
                   x \in ToSet(seen'.order) /\ seen'.age[x] <= stored'[x].age
             /\ x \notin lost' /\ seen'.age[x] < DEDUP_TTL => settled'[x] <= seen'.age[x]
  <2>1. seen'.age[x] \in Nat /\ stored'[x].age \in Nat /\ settled'[x] \in Nat /\ seen.age[x] \in Nat
    BY <1>1, <1>2, <1>3, <1>4
  <2>2. CASE x = m
    BY <1>1, <1>2, <1>4, <2>1, <2>2
  <2>3. CASE x # m
    <3>1. /\ x \notin forgot /\ stored[x].age < DEDUP_TTL =>
                x \in ToSet(seen.order) /\ seen.age[x] <= stored[x].age
          /\ x \notin lost /\ seen.age[x] < DEDUP_TTL => settled[x] <= seen.age[x]
      BY DEF FilterInv
    <3>2. /\ stored'[x] = stored[x] /\ settled'[x] = settled[x] /\ (x \in lost' <=> x \in lost)
          /\ seen'.age[x] \in {seen.age[x], DEDUP_TTL}
      BY <1>1, <1>3, <1>4, <2>3
    <3>3. x \notin forgot' => /\ x \notin forgot /\ seen'.age[x] = seen.age[x]
                              /\ x \in ToSet(seen.order) => x \in ToSet(seen'.order)
      BY <1>1, <2>3
    <3>4. x \notin forgot' /\ stored'[x].age < DEDUP_TTL =>
                x \in ToSet(seen'.order) /\ seen'.age[x] <= stored'[x].age
      BY <3>1, <3>2, <3>3
    <3>5. x \notin lost' /\ seen'.age[x] < DEDUP_TTL => settled'[x] <= seen'.age[x]
      BY <1>2, <2>1, <3>1, <3>2
    <3>6. QED
      BY <3>4, <3>5
  <2>4. QED
    BY <2>2, <2>3
<1>6. QED
  BY <1>1, <1>3, <1>4, <1>5 DEF FilterInv

\* An age grows by one up to its cap.
LEMMA OlderIs ==
    ASSUME NEW old \in Nat, NEW cap \in Nat
    PROVE  Older(old, cap) \in Nat /\ Older(old, cap) = IF old + 1 <= cap THEN old + 1 ELSE cap
<1>1. PICK n : n = IF old + 1 <= cap THEN old + 1 ELSE cap
  OBVIOUS
<1>2. n \in Nat /\ n \in {old + 1, cap} /\ \A y \in {old + 1, cap} : n <= y
  BY <1>1
<1>3. \A z \in {old + 1, cap} : (\A y \in {old + 1, cap} : z <= y) => z = n
  BY <1>1
<1>4. Min({old + 1, cap}) = n
  BY <1>2, <1>3 DEF Min
<1>5. QED
  BY <1>1, <1>2, <1>4 DEF Older

\* Fingerprints, rows and history grow old together.
LEMMA FilterTicks ==
    ASSUME FilterInv, InAssumption, InTick
    PROVE  FilterInv'
<1>1. DEDUP_TTL \in Nat /\ DEDUP_TTL >= 1
  BY DEF InAssumption
<1>2. PICK ages : ages = seen.age
  OBVIOUS
<1>3. PICK new : new = [m \in Messages |-> Older(ages[m], DEDUP_TTL)]
  OBVIOUS
<1>4. /\ ages \in [Messages -> Nat] /\ stored \in [Messages -> [copies : Nat, age : Nat]]
      /\ settled \in [Messages -> Nat]
  BY <1>2 DEF FilterInv
<1>5. \A m \in Messages : ages[m] \in Nat /\ stored[m].age \in Nat /\ settled[m] \in Nat
  BY <1>4
<1>6. new \in [Messages -> Nat]
  BY <1>1, <1>3, <1>5, OlderIs
<1>7. seen' = [seen EXCEPT !.age = new]
  BY <1>2, <1>3 DEF InTick
<1>8. /\ seen' \in [order : Seq(Messages), age : [Messages -> Nat]]
      /\ seen'.order = seen.order /\ seen'.age = new
  BY <1>6, <1>7 DEF FilterInv
<1>9. /\ stored' = [m \in Messages |-> [stored[m] EXCEPT !.age = Older(@, DEDUP_TTL)]]
      /\ settled' = [m \in Messages |-> Older(settled[m], DEDUP_TTL)]
      /\ lost' = lost /\ forgot' = forgot
  BY DEF InTick
<1>10. settled' \in [Messages -> Nat]
  BY <1>1, <1>5, <1>9, OlderIs
<1>11. ASSUME NEW m \in Messages
       PROVE  /\ stored'[m] \in [copies : Nat, age : Nat]
              /\ stored'[m].age = Older(stored[m].age, DEDUP_TTL)
  <2>1. PICK entry \in [copies : Nat, age : Nat] : entry = stored[m]
    BY <1>4
  <2>2. stored'[m] = [entry EXCEPT !.age = Older(entry.age, DEDUP_TTL)]
    BY <1>9, <2>1
  <2>3. Older(entry.age, DEDUP_TTL) \in Nat
    BY <1>1, <2>1, OlderIs
  <2>4. QED
    BY <2>1, <2>2, <2>3
<1>12. stored' \in [Messages -> [copies : Nat, age : Nat]]
  BY <1>9, <1>11
<1>13. ASSUME NEW m \in Messages
       PROVE  /\ m \notin forgot /\ stored'[m].age < DEDUP_TTL =>
                    m \in ToSet(seen.order) /\ new[m] <= stored'[m].age
              /\ m \notin lost /\ new[m] < DEDUP_TTL => settled'[m] <= new[m]
  <2>1. /\ new[m] = IF ages[m] + 1 <= DEDUP_TTL THEN ages[m] + 1 ELSE DEDUP_TTL
        /\ settled'[m] = IF settled[m] + 1 <= DEDUP_TTL THEN settled[m] + 1 ELSE DEDUP_TTL
    BY <1>1, <1>3, <1>5, <1>9, OlderIs
  <2>2. stored'[m].age = IF stored[m].age + 1 <= DEDUP_TTL THEN stored[m].age + 1 ELSE DEDUP_TTL
    BY <1>1, <1>5, <1>11, OlderIs
  <2>3. /\ m \notin forgot /\ stored[m].age < DEDUP_TTL => m \in ToSet(seen.order) /\ ages[m] <= stored[m].age
        /\ m \notin lost /\ ages[m] < DEDUP_TTL => settled[m] <= ages[m]
    BY <1>2 DEF FilterInv
  <2>4. ages[m] \in Nat /\ stored[m].age \in Nat /\ settled[m] \in Nat
    BY <1>5
  <2>5. ASSUME m \notin forgot, stored'[m].age < DEDUP_TTL
        PROVE  m \in ToSet(seen.order) /\ new[m] <= stored'[m].age
    BY <1>1, <2>1, <2>2, <2>3, <2>4, <2>5
  <2>6. ASSUME m \notin lost, new[m] < DEDUP_TTL
        PROVE  settled'[m] <= new[m]
    BY <1>1, <2>1, <2>3, <2>4, <2>6
  <2>7. QED
    BY <2>5, <2>6
<1>14. QED
  BY <1>8, <1>9, <1>10, <1>12, <1>13 DEF FilterInv


-----------------------------------------------------------------------------
(* The immune memory. *)

Rows == [count : Nat, blocked : BOOLEAN, last_seen : Nat]
Tables == [Senders \X Texts -> Rows]

\* One table of threats after another: what was blocked still is.
StillBlocked(rows, new) ==
    new \in Tables /\ \A p \in Senders \X Texts : rows[p].blocked => new[p].blocked

\* Recording a threat, blocking a sender, or both.
LEMMA ThreatsKeep ==
    ASSUME NEW rows \in Tables, NEW s \in Senders, NEW t \in Texts
    PROVE  /\ StillBlocked(rows, rows)
           /\ StillBlocked(rows, Recorded(rows, s, t))
           /\ StillBlocked(rows, RecordThreat(rows, s, t))
           /\ StillBlocked(rows, RecordThreat(Recorded(rows, s, t), s, t))
           /\ StillBlocked(rows, Recorded(Recorded(rows, s, t), s, t))
<1>1. ASSUME NEW old \in Tables PROVE StillBlocked(old, Recorded(old, s, t))
  <2>1. PICK entry \in Rows : entry = old[<<s, t>>]
    BY DEF Tables
  <2>2. PICK new : new = [count |-> entry.count + 1, blocked |-> entry.blocked, last_seen |-> 0]
    OBVIOUS
  <2>3. new \in Rows /\ new.blocked = entry.blocked
    BY <2>2 DEF Rows
  <2>4. Recorded(old, s, t) = [old EXCEPT ![<<s, t>>] = new]
    BY <2>1, <2>2 DEF Recorded, Tables
  <2>5. QED
    BY <2>1, <2>3, <2>4 DEF StillBlocked, Tables
<1>2. ASSUME NEW old \in Tables PROVE StillBlocked(old, Blocked(old, s))
  <2>1. PICK new : new = [p \in Senders \X Texts |->
                            IF p[1] = s /\ old[p].count > 0 THEN [old[p] EXCEPT !.blocked = TRUE] ELSE old[p]]
    OBVIOUS
  <2>2. Blocked(old, s) = new
    BY <2>1 DEF Blocked, Tables
  <2>3. ASSUME NEW p \in Senders \X Texts
        PROVE  new[p] \in Rows /\ (old[p].blocked => new[p].blocked)
    <3>1. PICK entry \in Rows : entry = old[p]
      BY DEF Tables
    <3>2. PICK shut : shut = [entry EXCEPT !.blocked = TRUE]
      OBVIOUS
    <3>3. shut \in Rows /\ shut.blocked = TRUE
      BY <3>2 DEF Rows
    <3>4. new[p] \in {entry, shut}
      BY <2>1, <3>1, <3>2
    <3>5. QED
      BY <3>1, <3>3, <3>4
  <2>4. new \in Tables
    BY <2>1, <2>3 DEF Tables
  <2>5. QED
    BY <2>2, <2>3, <2>4 DEF StillBlocked
<1>3. \A a, b, c : StillBlocked(a, b) /\ StillBlocked(b, c) => StillBlocked(a, c)
  BY DEF StillBlocked
<1>4. ASSUME NEW old \in Tables PROVE StillBlocked(old, RecordThreat(old, s, t))
  <2>1. PICK new : new = Recorded(old, s, t)
    OBVIOUS
  <2>2. StillBlocked(old, new) /\ new \in Tables
    BY <1>1, <2>1 DEF StillBlocked
  <2>3. StillBlocked(new, Blocked(new, s))
    BY <1>2, <2>2
  <2>4. StillBlocked(old, Blocked(new, s))
    BY <1>3, <2>2, <2>3
  <2>5. RecordThreat(old, s, t) \in {new, Blocked(new, s)}
    BY <2>1 DEF RecordThreat
  <2>6. QED
    BY <2>2, <2>4, <2>5
<1>5. PICK first : first = Recorded(rows, s, t)
  OBVIOUS
<1>6. StillBlocked(rows, first) /\ first \in Tables
  BY <1>1, <1>5 DEF StillBlocked
<1>7. StillBlocked(first, RecordThreat(first, s, t)) /\ StillBlocked(first, Recorded(first, s, t))
  BY <1>1, <1>4, <1>6
<1>8. StillBlocked(rows, RecordThreat(first, s, t)) /\ StillBlocked(rows, Recorded(first, s, t))
  BY <1>3, <1>6, <1>7
<1>9. StillBlocked(rows, rows)
  BY DEF StillBlocked
<1>10. QED
  BY <1>4, <1>5, <1>6, <1>8, <1>9

\* Whatever the check comes to, with or without an error.
LEMMA ChecksKeep ==
    ASSUME threats \in Tables, NEW m \in Messages,
           NEW check, check = check_message(m) \/ check \in CheckFaulty(m)
    PROVE  StillBlocked(threats, check.rows)
<1>1. m.sender \in Senders /\ m.text \in Texts
  BY DEF Messages
<1>2. PICK s \in Senders : s = m.sender
  BY <1>1
<1>3. PICK t \in Texts : t = m.text
  BY <1>1
<1>4. PICK once : once = Recorded(threats, s, t)
  OBVIOUS
<1>5. PICK twice : twice = Recorded(once, s, t)
  OBVIOUS
<1>6. PICK known : known = RecordThreat(threats, s, t)
  OBVIOUS
<1>7. PICK counted : counted = RecordThreat(once, s, t)
  OBVIOUS
<1>8. \A rows \in {threats, once, twice, known, counted} : StillBlocked(threats, rows)
  BY <1>4, <1>5, <1>6, <1>7, ThreatsKeep
<1>9. \A v, r : Result(v, r).rows = r
  BY DEF Result
<1>10. Tracked(m) = once
  BY <1>2, <1>3, <1>4 DEF Tracked
<1>11. SpamCheck(once, s, t).rows \in {once, counted} /\ SpamCheck(threats, s, t).rows \in {threats, known}
  BY <1>6, <1>7, <1>9 DEF SpamCheck
<1>12. CASE check = check_message(m)
  <2>1. check_message(m).rows \in {threats, once, known, counted}
    BY <1>2, <1>3, <1>6, <1>9, <1>10, <1>11 DEF check_message
  <2>2. QED
    BY <1>8, <1>12, <2>1
<1>13. CASE check \in CheckFaulty(m)
  <2>1. CASE check \in {Result("safe", threats), Result("immune_check_error", threats)}
    BY <1>8, <1>9, <2>1
  <2>2. CASE check \in {Result("injection", r) : r \in {threats, Recorded(threats, m.sender, m.text)}}
    <3>1. check.rows \in {threats, once}
      BY <1>2, <1>3, <1>4, <1>9, <2>2
    <3>2. QED
      BY <1>8, <3>1
  <2>3. CASE check \in {SpamCheck(threats, m.sender, m.text), Result("safe", Tracked(m))}
    <3>1. check.rows \in {threats, known, once}
      BY <1>2, <1>3, <1>9, <1>10, <1>11, <2>3
    <3>2. QED
      BY <1>8, <3>1
  <2>4. CASE check \in {Result("spam", r) :
                          r \in IF IsSpam(Tracked(m), m.sender, m.text)
                                THEN {Tracked(m), Recorded(Tracked(m), m.sender, m.text)} ELSE {}}
    <3>1. PICK r \in {once, twice} : check = Result("spam", r)
      BY <1>2, <1>3, <1>5, <1>10, <2>4
    <3>2. check.rows \in {once, twice}
      BY <1>9, <3>1
    <3>3. QED
      BY <1>8, <3>2
  <2>5. QED
    BY <1>13, <2>1, <2>2, <2>3, <2>4 DEF CheckFaulty
<1>14. QED
  BY <1>12, <1>13

\* A prune and the clock leave the blocks alone.
LEMMA UpkeepKeeps ==
    ASSUME threats \in Tables, InAssumption, PruneThreats \/ InTick
    PROVE  StillBlocked(threats, threats')
<1>1. DOMAIN threats = Senders \X Texts
  BY DEF Tables
<1>2. NoRow \in Rows
  BY DEF NoRow, Rows, InAssumption
<1>3. CASE PruneThreats
  <2>1. threats' = [p \in Senders \X Texts |-> IF Prunable(threats[p]) THEN NoRow ELSE threats[p]]
    BY <1>1, <1>3 DEF PruneThreats
  <2>2. ASSUME NEW p \in Senders \X Texts
        PROVE  threats'[p] \in Rows /\ (threats[p].blocked => threats'[p].blocked)
    <3>1. threats[p] \in Rows
      BY DEF Tables
    <3>2. CASE Prunable(threats[p])
      BY <1>2, <2>1, <3>2 DEF Prunable
    <3>3. CASE ~Prunable(threats[p])
      BY <2>1, <3>1, <3>3
    <3>4. QED
      BY <3>2, <3>3
  <2>3. threats' \in Tables
    BY <2>1, <2>2 DEF Tables
  <2>4. QED
    BY <2>2, <2>3 DEF StillBlocked
<1>4. CASE InTick
  <2>1. threats' = [p \in Senders \X Texts |-> [threats[p] EXCEPT !.last_seen = Older(@, QUARTER + 1)]]
    BY <1>1, <1>4 DEF InTick
  <2>2. ASSUME NEW p \in Senders \X Texts
        PROVE  threats'[p] \in Rows /\ (threats[p].blocked => threats'[p].blocked)
    <3>1. PICK entry \in Rows : entry = threats[p]
      BY DEF Tables
    <3>2. threats'[p] = [entry EXCEPT !.last_seen = Older(entry.last_seen, QUARTER + 1)]
      BY <2>1, <3>1
    <3>3. entry.last_seen \in Nat /\ QUARTER + 1 \in Nat
      BY DEF Rows, InAssumption
    <3>4. Older(entry.last_seen, QUARTER + 1) \in Nat
      BY <3>3, OlderIs
    <3>5. QED
      BY <3>1, <3>2, <3>4 DEF Rows
  <2>3. threats' \in Tables
    BY <2>1, <2>2 DEF Tables
  <2>4. QED
    BY <2>2, <2>3 DEF StillBlocked
<1>5. QED
  BY <1>3, <1>4

-----------------------------------------------------------------------------
(* Everything a message passes. *)

AdmitInv ==
    /\ SenderInv /\ ChatInv /\ FilterInv
    /\ threats \in Tables
    /\ inBudget \in [deliveries : Nat, faults : Nat]

\* The three action properties, for one step.
AdmitStep ==
    /\ stored' # stored => \A m \in Messages :
          Copies(m)' # Copies(m) /\ m \notin forgot => stored[m].age >= DEDUP_TTL
    /\ inBudget' # inBudget => \A m \in Messages :
          DropDuplicate(m) /\ m \notin lost => settled[m] < DEDUP_TTL
    /\ \A s \in Senders : is_sender_blocked(s) =>
          /\ is_sender_blocked(s)'
          /\ \A m \in Messages : m.sender = s /\ Copies(m)' # Copies(m)
                                    => inBudget'.faults > inBudget.faults

\* When the process starts nothing has passed, and nothing is remembered.
LEMMA AdmitInit ==
    ASSUME InInit, InAssumption
    PROVE  AdmitInv
<1>1. WINDOW \in Nat /\ DEDUP_TTL \in Nat /\ QUARTER \in Nat /\ SENDER_MAX \in Nat /\ GROUP_MAX \in Nat
  BY DEF InAssumption
<1>2. PICK none : none = <<>>
  OBVIOUS
<1>3. none \in Seq(Nat) /\ none \in Seq(Senders) /\ none \in Seq(Messages) /\ Len(none) = 0
  BY <1>2
<1>4. InWindow(none) = none
  BY <1>2, <1>3, Windows
<1>5. senderQ = NoSenders /\ groupQ = NoGroups /\ seen = NoneSeen /\ passed = NonePassed
  BY DEF InInit
<1>6. SenderInv
  <2>1. senderQ.ages = [s \in Senders |-> none] /\ senderQ.order = none
        /\ passed.senders = [s \in Senders |-> none]
    BY <1>2, <1>5 DEF NoSenders, NonePassed
  <2>2. senderQ \in [order : Seq(Senders), ages : [Senders -> Seq(Nat)]]
    BY <1>2, <1>3, <1>5 DEF NoSenders
  <2>3. QED
    BY <1>1, <1>2, <1>3, <1>4, <2>1, <2>2 DEF SenderInv
<1>7. ChatInv
  <2>1. groupQ = [g \in Chats |-> none] /\ passed.chats = [g \in Chats |-> none]
    BY <1>2, <1>5 DEF NoGroups, NonePassed
  <2>2. QED
    BY <1>1, <1>3, <1>4, <2>1 DEF ChatInv
<1>8. FilterInv
  <2>1. seen \in [order : Seq(Messages), age : [Messages -> Nat]]
        /\ \A m \in Messages : seen.age[m] = DEDUP_TTL
    BY <1>1, <1>2, <1>3, <1>5 DEF NoneSeen
  <2>2. stored = [m \in Messages |-> NoStore] /\ settled = [m \in Messages |-> DEDUP_TTL]
    BY DEF InInit
  <2>3. NoStore \in [copies : Nat, age : Nat] /\ NoStore.age = DEDUP_TTL
    BY <1>1 DEF NoStore
  <2>4. QED
    BY <1>1, <2>1, <2>2, <2>3 DEF FilterInv
<1>9. threats \in Tables
  <2>1. NoRow \in Rows
    BY <1>1 DEF NoRow, Rows
  <2>2. threats = [p \in Senders \X Texts |-> NoRow]
    BY DEF InInit
  <2>3. QED
    BY <2>1, <2>2 DEF Tables
<1>10. inBudget \in [deliveries : Nat, faults : Nat]
  BY DEF InInit
<1>11. QED
  BY <1>6, <1>7, <1>8, <1>9, <1>10 DEF AdmitInv

\* A step that stores nothing and unblocks nobody has nothing to answer for but what it drops.
LEMMA NothingStored ==
    ASSUME AdmitInv, StillBlocked(threats, threats'), \A m \in Messages : Copies(m)' = Copies(m)
    PROVE  AdmitStep
<1>1. ASSUME NEW s \in Senders, is_sender_blocked(s) PROVE is_sender_blocked(s)'
  <2>1. PICK t \in Texts : threats[<<s, t>>].blocked
    BY <1>1 DEF is_sender_blocked
  <2>2. threats'[<<s, t>>].blocked
    BY <2>1 DEF StillBlocked
  <2>3. QED
    BY <2>2 DEF is_sender_blocked
<1>2. ASSUME NEW m \in Messages, DropDuplicate(m), m \notin lost PROVE settled[m] < DEDUP_TTL
  <2>1. seen.age[m] < DEDUP_TTL
    BY <1>2 DEF DropDuplicate, SeenRecently
  <2>2. settled[m] <= seen.age[m] /\ settled[m] \in Nat /\ seen.age[m] \in Nat /\ DEDUP_TTL \in Nat
    BY <1>2, <2>1, InAssumption DEF AdmitInv, FilterInv, InAssumption
  <2>3. QED
    BY <2>1, <2>2
<1>3. QED
  BY <1>1, <1>2 DEF AdmitStep

\* A message that passes both limits takes a slot of each.
LEMMA LimitsPassed ==
    ASSUME AdmitInv, InAssumption, NEW m \in Messages, PassLimits(m)
    PROVE  SenderInv' /\ ChatInv'
<1>1. m.sender \in Senders /\ m.chat \in Chats
  BY DEF Messages
<1>2. /\ ~SenderLimited(m.sender) /\ ~GroupLimited(m.chat)
      /\ SenderSlot(m.sender, << 0 >>) /\ GroupSlot(m.chat, << 0 >>)
      /\ passed' = [senders |-> [Forgotten(m.sender) EXCEPT ![m.sender] = Append(@, 0)],
                    chats |-> [passed.chats EXCEPT ![m.chat] = Append(@, 0)]]
  BY DEF PassLimits
<1>3. /\ passed'.senders = [Forgotten(m.sender) EXCEPT ![m.sender] = Append(@, 0)]
      /\ passed'.chats = [passed.chats EXCEPT ![m.chat] = Append(@, 0)]
  BY <1>2
<1>4. SenderInv'
  BY <1>1, <1>2, <1>3, SenderPasses DEF AdmitInv
<1>5. ChatInv'
  BY <1>1, <1>2, <1>3, ChatMoves DEF AdmitInv
<1>6. QED
  BY <1>4, <1>5

\* A message that is admitted: stored only when its fingerprint is not there, and for a
\* blocked sender only by a check that failed.
LEMMA AdmitKeeps ==
    ASSUME AdmitInv, InAssumption, NEW m \in Messages, Admit(m)
    PROVE  AdmitInv' /\ AdmitStep
<1>1. PassLimits(m) /\ ~SeenRecently(m) /\ RememberMsg(m)
  BY DEF Admit
<1>2. inBudget \in [deliveries : Nat, faults : Nat]
  BY DEF AdmitInv
<1>3. PICK check : /\ check = check_message(m) \/ check \in CheckFaulty(m)
                   /\ Refuse(m, check) \/ Accept(m, check) \/ LoseMessage(m, check)
                   /\ inBudget' \in [deliveries : Nat, faults : Nat]
                   /\ check # check_message(m) => inBudget'.faults > inBudget.faults
  <2>1. CASE Spend("deliveries") /\ (Refuse(m, check_message(m)) \/ Accept(m, check_message(m)))
    <3>1. inBudget' \in [deliveries : Nat, faults : Nat]
      BY <1>2, <2>1 DEF Spend
    <3>2. QED
      BY <2>1, <3>1
  <2>2. CASE /\ inBudget' = [deliveries |-> inBudget.deliveries + 1, faults |-> inBudget.faults + 1]
             /\ \/ \E c \in CheckFaulty(m) : Refuse(m, c) \/ Accept(m, c)
                \/ LoseMessage(m, check_message(m))
    <3>1. inBudget' \in [deliveries : Nat, faults : Nat] /\ inBudget'.faults > inBudget.faults
      BY <1>2, <2>2
    <3>2. QED
      BY <2>2, <3>1
  <2>3. QED
    BY <2>1, <2>2 DEF Admit
<1>4. threats' = check.rows
  BY <1>3 DEF Refuse, Accept, LoseMessage
<1>5. StillBlocked(threats, threats')
  BY <1>3, <1>4, ChecksKeep DEF AdmitInv
<1>6. threats' \in Tables
  BY <1>5 DEF StillBlocked
<1>7. FilterInv'
  BY <1>1, <1>3, FilterDecides DEF AdmitInv
<1>8. AdmitInv'
  BY <1>1, <1>3, <1>6, <1>7, LimitsPassed DEF AdmitInv
<1>9. CASE \A x \in Messages : Copies(x)' = Copies(x)
  BY <1>5, <1>8, <1>9, NothingStored
<1>10. CASE \E x \in Messages : Copies(x)' # Copies(x)
  <2>1. Accept(m, check)
    BY <1>3, <1>10 DEF Refuse, LoseMessage, Copies
  <2>2. stored \in [Messages -> [copies : Nat, age : Nat]]
    BY DEF AdmitInv, FilterInv
  <2>3. \A x \in Messages : x # m => Copies(x)' = Copies(x)
    BY <2>1, <2>2 DEF Accept, Copies
  <2>4. m \notin forgot => stored[m].age >= DEDUP_TTL
    <3>1. SUFFICES ASSUME m \notin forgot, ~(stored[m].age >= DEDUP_TTL) PROVE FALSE
      OBVIOUS
    <3>2. stored[m].age \in Nat /\ DEDUP_TTL \in Nat /\ seen.age[m] \in Nat
      BY <2>2 DEF AdmitInv, FilterInv, InAssumption
    <3>3. stored[m].age < DEDUP_TTL
      BY <3>1, <3>2
    <3>4. m \in ToSet(seen.order) /\ seen.age[m] <= stored[m].age
      BY <3>1, <3>3 DEF AdmitInv, FilterInv
    <3>5. SeenRecently(m)
      BY <3>2, <3>3, <3>4 DEF SeenRecently
    <3>6. QED
      BY <1>1, <3>5
  <2>5. ASSUME NEW s \in Senders, is_sender_blocked(s)
        PROVE  /\ is_sender_blocked(s)'
               /\ m.sender = s => inBudget'.faults > inBudget.faults
    <3>1. PICK t \in Texts : threats[<<s, t>>].blocked
      BY <2>5 DEF is_sender_blocked
    <3>2. threats'[<<s, t>>].blocked
      BY <1>5, <3>1 DEF StillBlocked
    <3>3. is_sender_blocked(s)'
      BY <3>2 DEF is_sender_blocked
    <3>4. ASSUME m.sender = s PROVE check # check_message(m)
      <4>1. check_message(m).verdict = "blocked"
        BY <2>5, <3>4 DEF check_message, Result
      <4>2. QED
        BY <2>1, <4>1 DEF Accept
    <3>5. QED
      BY <1>3, <3>3, <3>4
  <2>6. inBudget' # inBudget => \A x \in Messages :
          DropDuplicate(x) /\ x \notin lost => settled[x] < DEDUP_TTL
    <3>1. stored' # stored
      BY <1>10 DEF Copies
    <3>2. QED
      BY <3>1 DEF DropDuplicate
  <2>7. QED
    BY <1>8, <2>3, <2>4, <2>5, <2>6 DEF AdmitStep
<1>11. QED
  BY <1>8, <1>9, <1>10

\* The invariant through every step.
LEMMA AdmitNext ==
    ASSUME AdmitInv, InAssumption, [InNext]_inVars
    PROVE  AdmitInv' /\ AdmitStep
<1>1. threats \in Tables /\ inBudget \in [deliveries : Nat, faults : Nat] /\ StillBlocked(threats, threats)
  BY DEF AdmitInv, StillBlocked
<1>2. ASSUME UNCHANGED inVars PROVE AdmitInv' /\ AdmitStep
  <2>1. UNCHANGED <<senderQ, groupQ, seen, threats, stored, passed, settled, lost, forgot, inBudget>>
    BY <1>2 DEF inVars
  <2>2. SenderInv'
    BY <2>1 DEF AdmitInv, SenderInv, InWindow
  <2>3. ChatInv'
    BY <2>1 DEF AdmitInv, ChatInv, InWindow
  <2>4. FilterInv'
    BY <2>1 DEF AdmitInv, FilterInv
  <2>5. \A m \in Messages : Copies(m)' = Copies(m)
    BY <2>1 DEF Copies
  <2>6. AdmitStep
    BY <1>1, <2>1, <2>5, NothingStored
  <2>7. QED
    BY <1>1, <2>1, <2>2, <2>3, <2>4, <2>6 DEF AdmitInv
<1>3. ASSUME NEW m \in Messages, LimitSender(m) PROVE AdmitInv' /\ AdmitStep
  <2>1. m.sender \in Senders
    BY DEF Messages
  <2>2. SenderInv'
    BY <1>3, <2>1, SenderRefused DEF AdmitInv, LimitSender
  <2>3. UNCHANGED <<groupQ, seen, threats, stored, passed, settled, lost, forgot>>
    BY <1>3 DEF LimitSender
  <2>4. ChatInv' /\ FilterInv'
    BY <2>3 DEF AdmitInv, ChatInv, FilterInv, InWindow
  <2>5. inBudget' \in [deliveries : Nat, faults : Nat]
    BY <1>1, <1>3 DEF LimitSender, Spend
  <2>6. \A x \in Messages : Copies(x)' = Copies(x)
    BY <2>3 DEF Copies
  <2>7. AdmitStep
    BY <1>1, <2>3, <2>6, NothingStored
  <2>8. QED
    BY <1>1, <2>2, <2>3, <2>4, <2>5, <2>7 DEF AdmitInv
<1>4. ASSUME NEW m \in Messages, LimitGroup(m) PROVE AdmitInv' /\ AdmitStep
  <2>1. m.sender \in Senders /\ m.chat \in Chats
    BY DEF Messages
  <2>2. PICK new : new = [Forgotten(m.sender) EXCEPT ![m.sender] = Append(@, 0)]
    OBVIOUS
  <2>3. passed' = [senders |-> new, chats |-> passed.chats]
    BY <1>4, <2>2 DEF LimitGroup
  <2>5. passed'.senders = new /\ passed'.chats = passed.chats
    BY <2>3
  <2>6. SenderInv'
    BY <1>4, <2>1, <2>2, <2>5, SenderPasses DEF AdmitInv, LimitGroup
  <2>7. ChatInv'
    BY <1>4, <2>1, <2>5, ChatMoves DEF AdmitInv, LimitGroup
  <2>8. UNCHANGED <<seen, threats, stored, settled, lost, forgot>>
    BY <1>4 DEF LimitGroup
  <2>9. FilterInv'
    BY <2>8 DEF AdmitInv, FilterInv
  <2>10. inBudget' \in [deliveries : Nat, faults : Nat]
    BY <1>1, <1>4 DEF LimitGroup, Spend
  <2>11. \A x \in Messages : Copies(x)' = Copies(x)
    BY <2>8 DEF Copies
  <2>12. AdmitStep
    BY <1>1, <2>8, <2>11, NothingStored
  <2>13. QED
    BY <1>1, <2>6, <2>7, <2>8, <2>9, <2>10, <2>12 DEF AdmitInv
<1>5. ASSUME NEW m \in Messages, DropDuplicate(m) PROVE AdmitInv' /\ AdmitStep
  <2>1. PassLimits(m) /\ Touch(m) /\ UNCHANGED <<threats, stored, settled, lost, forgot>>
    BY <1>5 DEF DropDuplicate
  <2>2. SenderInv' /\ ChatInv'
    BY <2>1, LimitsPassed
  <2>3. FilterInv'
    BY <2>1, FilterTouched DEF AdmitInv
  <2>4. inBudget' \in [deliveries : Nat, faults : Nat]
    BY <1>1, <1>5 DEF DropDuplicate, Spend
  <2>5. \A x \in Messages : Copies(x)' = Copies(x)
    BY <2>1 DEF Copies
  <2>6. AdmitStep
    BY <1>1, <2>1, <2>5, NothingStored
  <2>7. QED
    BY <1>1, <2>1, <2>2, <2>3, <2>4, <2>6 DEF AdmitInv
<1>6. ASSUME InTick PROVE AdmitInv' /\ AdmitStep
  <2>1. SenderInv' /\ ChatInv' /\ FilterInv'
    BY <1>6, SenderTicks, ChatTicks, FilterTicks DEF AdmitInv
  <2>2. StillBlocked(threats, threats')
    BY <1>1, <1>6, UpkeepKeeps
  <2>3. inBudget' = inBudget
    BY <1>6 DEF InTick
  <2>4. ASSUME NEW m \in Messages PROVE Copies(m)' = Copies(m)
    <3>1. PICK entry \in [copies : Nat, age : Nat] : entry = stored[m]
      BY DEF AdmitInv, FilterInv
    <3>2. stored'[m] = [entry EXCEPT !.age = Older(entry.age, DEDUP_TTL)]
      BY <1>6, <3>1 DEF InTick
    <3>3. stored'[m].copies = entry.copies
      BY <3>2
    <3>4. QED
      BY <3>1, <3>3 DEF Copies
  <2>5. AdmitStep
    BY <2>2, <2>4, NothingStored
  <2>6. QED
    BY <1>1, <2>1, <2>2, <2>3, <2>5 DEF AdmitInv, StillBlocked
<1>7. ASSUME PruneThreats PROVE AdmitInv' /\ AdmitStep
  <2>1. UNCHANGED <<senderQ, groupQ, seen, stored, passed, settled, lost, forgot, inBudget>>
    BY <1>7 DEF PruneThreats, memoryVars
  <2>2. StillBlocked(threats, threats')
    BY <1>1, <1>7, UpkeepKeeps
  <2>3. SenderInv'
    BY <2>1 DEF AdmitInv, SenderInv, InWindow
  <2>4. ChatInv' /\ FilterInv'
    BY <2>1 DEF AdmitInv, ChatInv, FilterInv, InWindow
  <2>5. \A m \in Messages : Copies(m)' = Copies(m)
    BY <2>1 DEF Copies
  <2>6. AdmitStep
    BY <2>2, <2>5, NothingStored
  <2>7. QED
    BY <1>1, <2>1, <2>2, <2>3, <2>4, <2>6 DEF AdmitInv, StillBlocked
<1>8. ASSUME InCrash PROVE AdmitInv' /\ AdmitStep
  <2>1. /\ senderQ' = NoSenders /\ groupQ' = NoGroups /\ seen' = NoneSeen /\ passed' = NonePassed
        /\ forgot' = Messages /\ UNCHANGED <<threats, stored, settled, lost>>
    BY <1>8 DEF InCrash
  <2>2. PICK none : none = <<>>
    OBVIOUS
  <2>3. none \in Seq(Nat) /\ none \in Seq(Senders) /\ none \in Seq(Messages) /\ Len(none) = 0
    BY <2>2
  <2>4. /\ InWindow(none) = none
        /\ DEDUP_TTL \in Nat /\ SENDER_MAX \in Nat /\ GROUP_MAX \in Nat
    BY <2>2, <2>3, Windows DEF InAssumption
  <2>5. SenderInv'
    <3>1. senderQ'.ages = [s \in Senders |-> none] /\ passed'.senders = [s \in Senders |-> none]
      BY <2>1, <2>2 DEF NoSenders, NonePassed
    <3>2. senderQ' \in [order : Seq(Senders), ages : [Senders -> Seq(Nat)]]
      BY <2>1, <2>2, <2>3 DEF NoSenders
    <3>3. QED
      BY <2>2, <2>3, <2>4, <3>1, <3>2 DEF SenderInv, InWindow
  <2>6. ChatInv'
    <3>1. groupQ' = [g \in Chats |-> none] /\ passed'.chats = [g \in Chats |-> none]
      BY <2>1, <2>2 DEF NoGroups, NonePassed
    <3>2. QED
      BY <2>3, <2>4, <3>1 DEF ChatInv, InWindow
  <2>7. FilterInv'
    <3>1. seen' \in [order : Seq(Messages), age : [Messages -> Nat]]
          /\ \A m \in Messages : seen'.age[m] = DEDUP_TTL
      BY <2>1, <2>2, <2>3, <2>4 DEF NoneSeen
    <3>2. /\ stored' \in [Messages -> [copies : Nat, age : Nat]] /\ settled' \in [Messages -> Nat]
      BY <2>1 DEF AdmitInv, FilterInv
    <3>3. QED
      BY <2>1, <2>4, <3>1, <3>2 DEF FilterInv
  <2>8. inBudget' \in [deliveries : Nat, faults : Nat]
    BY <1>1, <1>8 DEF InCrash, Spend
  <2>9. \A m \in Messages : Copies(m)' = Copies(m)
    BY <2>1 DEF Copies
  <2>10. AdmitStep
    BY <1>1, <2>1, <2>9, NothingStored
  <2>11. QED
    BY <1>1, <2>1, <2>5, <2>6, <2>7, <2>8, <2>10 DEF AdmitInv
<1>9. ASSUME NEW m \in Messages, Reject(m) PROVE AdmitInv' /\ AdmitStep
  BY <1>2, <1>9 DEF Reject
<1>10. QED
  BY <1>2, <1>3, <1>4, <1>5, <1>6, <1>7, <1>8, <1>9, AdmitKeeps DEF InNext

\* _on_message with its limiters, its duplicate filter and the immune check: neither window
\* ever lets more through than its maximum, nothing is stored twice within the time-to-live
\* of its fingerprint, what is dropped as a duplicate was dealt with, and a block lasts.
THEOREM AdmissionStaysSound ==
    InSpec => AdmissionSound
<1>1. InInit => AdmitInv
  BY InAssumption, AdmitInit
<1>2. AdmitInv /\ [InNext]_inVars => AdmitInv' /\ AdmitStep
  BY InAssumption, AdmitNext
<1>3. AdmitInv => WindowsHold
  BY DEF AdmitInv, SenderInv, ChatInv, WindowsHold
<1>4. QED
  BY <1>1, <1>2, <1>3, PTL
     DEF InSpec, AdmissionSound, StoredOncePerTtl, DuplicatesBacked, BlockHolds, AdmitStep

=============================================================================
