------------------------- MODULE ContainerRunnerProofs -------------------------
(***************************************************************************)
(* Proofs about ContainerRunner.  The semaphore is counted with its calls: *)
(* a permit is with the semaphore or with a call on its way, and the       *)
(* waiters are exactly the calls that wait (SemInv).  What a call has on   *)
(* record follows from where it is (RecordInv), and so does, as long as    *)
(* Docker answers, what the daemon may be executing for it (DockerInv).    *)
(***************************************************************************)
EXTENDS ContainerRunner, FiniteSetTheorems, SequenceTheorems, TLAPS

\* Nothing raises between the acquire and the try, where the permit is not yet
\* in the care of the finally block.
Prepared(s) == s.faults \cap {"prepare", "log_start"} = {}

Waiting(r) == \E i \in 1..Len(waiters) : waiters[i] = r

SemInv ==
    /\ \A i, j \in 1..Len(waiters) : waiters[i] = waiters[j] => i = j
    /\ \A r \in Runs : pc[r] = "waiting" <=> Waiting(r)
    /\ IsFiniteSet(Holders)
    /\ permits + Cardinality(Holders) <= MAX_CONCURRENT_CONTAINERS
    /\ Prepared(setting) => PermitsConserved

\* The places before `docker run` is started.
Early == {"new", "waiting", "granted", "starting"}

RecordOf(r) ==
    /\ pc[r] \in Early => /\ docker[r] = "none" /\ ~client[r] /\ out[r] = "none"
    /\ pc[r] \in Early \cup {"collecting"} => evo[r] = "none" /\ ~advanced[r]
    /\ out[r] # "none" => ~client[r]
    /\ pc[r] \in {"delivering", "replying"} => out[r] = "valid" /\ evo[r] = "success"
    /\ pc[r] = "replying" => advanced[r]
    /\ replied[r] => advanced[r]
    /\ advanced[r] => out[r] = "valid" /\ evo[r] = "success"

RecordInv == \A r \in Runs : RecordOf(r)

\* Before the first clean-up is through, nothing of this process runs, and what is
\* left of the one before will be removed by it.
BootInv ==
    ~booted => /\ active = {}
               /\ \A r \in Runs : pc[r] \in {"new", "done"} /\ ~client[r]
               /\ cleanup.at = "listing" => cleanup.live = {}
               /\ cleanup.at = "removing" =>
                      \A r \in Runs : docker[r] = "running" => r \in cleanup.victims

\* A container is executed only while its call waits for it or stops it.
DockerOf(r) ==
    /\ client[r] => pc[r] \in {"collecting", "stopping"}
    /\ pc[r] = "stopping" /\ client[r] => docker[r] = "running"
    /\ pc[r] \in {"collecting", "stopping"} /\ docker[r] = "running" => client[r]
    /\ booted /\ docker[r] = "running" => pc[r] \in {"collecting", "stopping", "cancelling"}

DockerInv ==
    /\ shutting => booted
    /\ \A r \in Runs : DockerOf(r)

RunnerInv == TypeOK /\ SemInv /\ RecordInv /\ BootInv /\ (DockerAnswers => DockerInv)

-----------------------------------------------------------------------------
(* Lemmas about sequences and about the semaphore. *)

\* What is left of a sequence without its member at i.
LEMMA RemoveAtFacts ==
    ASSUME NEW S, NEW s \in Seq(S), NEW i \in 1..Len(s)
    PROVE  /\ RemoveAt(s, i) \in Seq(S)
           /\ Len(RemoveAt(s, i)) = Len(s) - 1
           /\ \A k \in 1..(Len(s) - 1) :
                 RemoveAt(s, i)[k] = IF k < i THEN s[k] ELSE s[k + 1]
<1> DEFINE a == SubSeq(s, 1, i - 1)
           b == SubSeq(s, i + 1, Len(s))
<1>1. Len(s) \in Nat
  BY LenProperties
<1>2. /\ a \in Seq(S) /\ Len(a) = i - 1
      /\ \A k \in 1..(i - 1) : a[k] = s[k]
  BY <1>1, SubSeqProperties
<1>3. /\ b \in Seq(S) /\ Len(b) = Len(s) - i
      /\ \A k \in 1..(Len(s) - i) : b[k] = s[k + i]
  BY <1>1, SubSeqProperties
<1> HIDE DEF a, b
<1>4. /\ a \o b \in Seq(S) /\ Len(a \o b) = Len(a) + Len(b)
      /\ \A k \in 1..(Len(a) + Len(b)) :
            (a \o b)[k] = IF k <= Len(a) THEN a[k] ELSE b[k - Len(a)]
  BY <1>2, <1>3, ConcatProperties
<1>5. RemoveAt(s, i) = a \o b
  BY DEF RemoveAt, a, b
<1>6. ASSUME NEW k \in 1..(Len(s) - 1)
      PROVE  (a \o b)[k] = IF k < i THEN s[k] ELSE s[k + 1]
  <2>1. CASE k < i
    BY <1>1, <1>2, <1>3, <1>4, <2>1
  <2>2. CASE ~ (k < i)
    <3>1. (a \o b)[k] = b[k - (i - 1)]
      BY <1>1, <1>2, <1>3, <1>4, <2>2
    <3>2. k - (i - 1) \in 1..(Len(s) - i) /\ (k - (i - 1)) + i = k + 1
      BY <1>1, <2>2
    <3>3. QED
      BY <1>3, <2>2, <3>1, <3>2
  <2>3. QED
    BY <2>1, <2>2
<1>7. Len(a \o b) = Len(s) - 1
  BY <1>1, <1>2, <1>3, <1>4
<1>8. QED
  BY <1>4, <1>5, <1>6, <1>7

\* Steps that neither give a call a permit nor take one from it.
LEMMA SemKept ==
    ASSUME SemInv, UNCHANGED <<permits, waiters, setting>>,
           \A r \in Runs : /\ pc'[r] \in Holding <=> pc[r] \in Holding
                           /\ pc'[r] = "waiting" <=> pc[r] = "waiting"
    PROVE  SemInv'
<1>1. Holders' = Holders
  BY DEF Holders
<1>2. QED
  BY <1>1 DEF SemInv, Waiting, PermitsConserved

\* A call that leaves without giving its permit back.
LEMMA SemLost ==
    ASSUME TypeOK, SemInv, UNCHANGED <<permits, waiters, setting>>, ~Prepared(setting),
           NEW r \in Runs, pc[r] \in Holding, Goto(r, "done")
    PROVE  SemInv'
<1>1. pc \in [Runs -> Places] /\ pc' = [pc EXCEPT ![r] = "done"] /\ permits \in Nat
  BY DEF TypeOK, Goto
<1>2. Holders' = Holders \ {r} /\ r \in Holders
  BY <1>1 DEF Holders, Holding
<1>3. /\ IsFiniteSet(Holders') /\ Cardinality(Holders') = Cardinality(Holders) - 1
      /\ Cardinality(Holders) \in Nat
  BY <1>2, FS_RemoveElement, FS_CardinalityType DEF SemInv
<1>4. permits' + Cardinality(Holders') <= MAX_CONCURRENT_CONTAINERS
  BY <1>1, <1>3, ConstantsAssumption DEF SemInv
<1>5. \A q \in Runs : pc'[q] = "waiting" <=> pc[q] = "waiting"
  BY <1>1 DEF Holding
<1>6. QED
  BY <1>3, <1>4, <1>5 DEF SemInv, Waiting

\* release(): the permit goes to the first waiter, or back to the semaphore.
LEMMA SemReleased ==
    ASSUME TypeOK, SemInv, UNCHANGED setting,
           NEW r \in Runs, pc[r] \in Holding, ReleasePermit([pc EXCEPT ![r] = "done"])
    PROVE  SemInv' /\ permits' \in 0..MAX_CONCURRENT_CONTAINERS /\ waiters' \in Seq(Runs)
                   /\ pc' \in [Runs -> Places]
                   /\ \A q \in Runs : \/ pc'[q] = pc[q]
                                      \/ q = r /\ pc'[q] = "done"
                                      \/ pc[q] = "waiting" /\ pc'[q] = "granted"
<1> DEFINE n == Cardinality(Holders)
<1>0. /\ pc \in [Runs -> Places] /\ permits \in Nat /\ waiters \in Seq(Runs)
      /\ r \in Holders /\ IsFiniteSet(Holders) /\ n \in Nat
      /\ MAX_CONCURRENT_CONTAINERS \in Nat
      /\ permits + n <= MAX_CONCURRENT_CONTAINERS
  BY FS_CardinalityType, ConstantsAssumption DEF TypeOK, Holders, SemInv
<1>1. /\ IsFiniteSet(Holders \ {r}) /\ Cardinality(Holders \ {r}) = n - 1
      /\ n - 1 \in Nat
  <2>1. IsFiniteSet(Holders \ {r}) /\ Cardinality(Holders \ {r}) = n - 1
    BY <1>0, FS_RemoveElement
  <2>2. Cardinality(Holders \ {r}) \in Nat
    BY <2>1, FS_CardinalityType
  <2>3. QED
    BY <2>1, <2>2
<1>2. CASE waiters = <<>>
  <2>1. /\ permits' = permits + 1 /\ waiters' = <<>> /\ pc' = [pc EXCEPT ![r] = "done"]
    BY <1>2 DEF ReleasePermit
  <2>2. Holders' = Holders \ {r}
    BY <1>0, <2>1 DEF Holders, Holding
  <2>3. /\ permits' + Cardinality(Holders') <= MAX_CONCURRENT_CONTAINERS
        /\ permits' \in 0..MAX_CONCURRENT_CONTAINERS
        /\ PermitsConserved => PermitsConserved'
    BY <1>0, <1>1, <2>1, <2>2 DEF PermitsConserved
  <2>4. \A q \in Runs : pc'[q] = "waiting" <=> pc[q] = "waiting"
    BY <1>0, <2>1 DEF Holding, Holders
  <2>5. SemInv'
    BY <1>1, <1>2, <2>1, <2>2, <2>3, <2>4 DEF SemInv, Waiting
  <2>6. pc' \in [Runs -> Places] /\ waiters' \in Seq(Runs)
    BY <1>0, <1>2, <2>1 DEF Places
  <2>7. QED
    BY <1>0, <2>1, <2>3, <2>5, <2>6
<1>3. CASE waiters # <<>>
  <2> DEFINE h == Head(waiters)
  <2>1. /\ pc' = [[pc EXCEPT ![r] = "done"] EXCEPT ![h] = "granted"]
        /\ waiters' = Tail(waiters) /\ permits' = permits
    BY <1>3 DEF ReleasePermit
  <2>2. /\ Len(waiters) \in Nat \ {0} /\ h = waiters[1] /\ h \in Runs
        /\ waiters' \in Seq(Runs) /\ Len(waiters') = Len(waiters) - 1
        /\ \A i \in 1..Len(waiters') : waiters'[i] = waiters[i + 1]
    BY <1>0, <1>3, <2>1, HeadTailProperties, EmptySeq, LenProperties
  <2>3. pc[h] = "waiting" /\ h # r
    BY <1>0, <2>2 DEF SemInv, Waiting, Holders, Holding
  <2>4. /\ pc'[h] = "granted" /\ pc'[r] = "done"
        /\ \A q \in Runs : q # h /\ q # r => pc'[q] = pc[q]
    BY <1>0, <2>1, <2>2, <2>3
  <2>5. Holders' = (Holders \ {r}) \cup {h} /\ h \notin Holders \ {r}
    BY <1>0, <2>2, <2>3, <2>4 DEF Holders, Holding
  <2>6. IsFiniteSet(Holders') /\ Cardinality(Holders') = n
    <3>1. /\ IsFiniteSet((Holders \ {r}) \cup {h})
          /\ Cardinality((Holders \ {r}) \cup {h}) = Cardinality(Holders \ {r}) + 1
      BY <1>1, <2>5, FS_AddElement
    <3>2. QED
      BY <1>0, <1>1, <2>5, <3>1
  <2>7. ASSUME NEW i \in 1..Len(waiters'), NEW j \in 1..Len(waiters'),
               waiters'[i] = waiters'[j]
        PROVE  i = j
    <3>1. /\ i + 1 \in 1..Len(waiters) /\ j + 1 \in 1..Len(waiters)
          /\ waiters[i + 1] = waiters[j + 1]
      BY <2>2, <2>7
    <3>2. i + 1 = j + 1
      BY <3>1 DEF SemInv
    <3>3. QED
      BY <2>2, <3>2
  <2>8. ASSUME NEW q \in Runs PROVE pc'[q] = "waiting" <=> Waiting(q)'
    <3>1. Waiting(q)' <=> Waiting(q) /\ q # h
      <4>1. ASSUME Waiting(q)' PROVE Waiting(q) /\ q # h
        <5>1. PICK i \in 1..Len(waiters') : waiters'[i] = q
          BY <4>1 DEF Waiting
        <5>2. i + 1 \in 1..Len(waiters) /\ waiters[i + 1] = q /\ i + 1 # 1
          BY <2>2, <5>1
        <5>3. 1 \in 1..Len(waiters)
          BY <2>2
        <5>4. QED
          BY <2>2, <5>2, <5>3 DEF Waiting, SemInv
      <4>2. ASSUME Waiting(q), q # h PROVE Waiting(q)'
        <5>1. PICK i \in 1..Len(waiters) : waiters[i] = q
          BY <4>2 DEF Waiting
        <5>2. i # 1 /\ i - 1 \in 1..Len(waiters') /\ (i - 1) + 1 = i
          BY <2>2, <4>2, <5>1
        <5>3. waiters'[i - 1] = q
          BY <2>2, <5>1, <5>2
        <5>4. QED
          BY <5>2, <5>3 DEF Waiting
      <4>3. QED
        BY <4>1, <4>2
    <3>2. pc'[q] = "waiting" <=> pc[q] = "waiting" /\ q # h
      BY <1>0, <2>4 DEF Holders, Holding
    <3>3. QED
      BY <3>1, <3>2 DEF SemInv
  <2>9. SemInv'
    BY <1>0, <2>1, <2>6, <2>7, <2>8 DEF SemInv, PermitsConserved
  <2>10. pc' \in [Runs -> Places]
    BY <1>0, <2>1 DEF Places, Holding
  <2>11. permits' \in 0..MAX_CONCURRENT_CONTAINERS
    BY <1>0, <2>1
  <2>12. QED
    BY <2>2, <2>3, <2>4, <2>9, <2>10, <2>11
<1>4. QED
  BY <1>2, <1>3

\* A call that takes a free permit; one that raises before the try keeps it.
LEMMA SemEntered ==
    ASSUME TypeOK, SemInv, NEW r \in Runs, Enters(r)
    PROVE  SemInv' /\ permits' \in 0..MAX_CONCURRENT_CONTAINERS
<1> DEFINE n == Cardinality(Holders)
<1>0. /\ pc \in [Runs -> Places] /\ permits \in Nat /\ permits > 0
      /\ pc[r] = "new" /\ permits' = permits - 1 /\ UNCHANGED <<waiters, setting>>
      /\ IsFiniteSet(Holders) /\ n \in Nat /\ r \notin Holders
      /\ MAX_CONCURRENT_CONTAINERS \in Nat
      /\ permits + n <= MAX_CONCURRENT_CONTAINERS
  BY FS_CardinalityType, ConstantsAssumption
     DEF TypeOK, Holders, SemInv, Enters, MayCall, Holding, process
<1>1. CASE pc' = [pc EXCEPT ![r] = "starting"]
  <2>1. Holders' = Holders \cup {r}
    BY <1>0, <1>1 DEF Holders, Holding
  <2>2. IsFiniteSet(Holders') /\ Cardinality(Holders') = n + 1
    BY <1>0, <2>1, FS_AddElement
  <2>3. /\ permits' + Cardinality(Holders') <= MAX_CONCURRENT_CONTAINERS
        /\ PermitsConserved => PermitsConserved'
    BY <1>0, <2>2 DEF PermitsConserved
  <2>4. \A q \in Runs : pc'[q] = "waiting" <=> pc[q] = "waiting"
    BY <1>0, <1>1
  <2>5. SemInv'
    BY <1>0, <2>2, <2>3, <2>4 DEF SemInv, Waiting
  <2>6. QED
    BY <1>0, <2>5
<1>2. CASE pc' = [pc EXCEPT ![r] = "done"] /\ ~Prepared(setting)
  <2>1. Holders' = Holders
    BY <1>0, <1>2 DEF Holders, Holding
  <2>2. permits' + Cardinality(Holders') <= MAX_CONCURRENT_CONTAINERS
    BY <1>0, <2>1
  <2>3. \A q \in Runs : pc'[q] = "waiting" <=> pc[q] = "waiting"
    BY <1>0, <1>2
  <2>4. SemInv'
    BY <1>0, <1>2, <2>1, <2>2, <2>3 DEF SemInv, Waiting
  <2>5. QED
    BY <1>0, <2>4
<1>3. QED
  BY <1>1, <1>2 DEF Enters, Prepare, Goto, Prepared

\* A call that finds no permit joins the waiters.
LEMMA SemWaits ==
    ASSUME TypeOK, SemInv, NEW r \in Runs, Waits(r)
    PROVE  SemInv' /\ waiters' \in Seq(Runs)
<1>0. /\ pc \in [Runs -> Places] /\ waiters \in Seq(Runs) /\ Len(waiters) \in Nat
      /\ pc[r] = "new" /\ pc' = [pc EXCEPT ![r] = "waiting"]
      /\ waiters' = Append(waiters, r) /\ UNCHANGED <<permits, setting>>
  BY LenProperties DEF TypeOK, Waits, MayCall, Goto, process
<1>1. /\ Len(waiters') = Len(waiters) + 1 /\ waiters' \in Seq(Runs)
      /\ waiters'[Len(waiters) + 1] = r
      /\ \A i \in 1..Len(waiters) : waiters'[i] = waiters[i]
  BY <1>0, AppendProperties
<1>2. Holders' = Holders
  BY <1>0 DEF Holders, Holding
<1>3. \A i \in 1..Len(waiters) : waiters[i] # r
  BY <1>0 DEF SemInv, Waiting
<1>4. ASSUME NEW i \in 1..Len(waiters'), NEW j \in 1..Len(waiters'), waiters'[i] = waiters'[j]
      PROVE  i = j
  <2>1. CASE i \in 1..Len(waiters) /\ j \in 1..Len(waiters)
    BY <1>1, <1>4, <2>1 DEF SemInv
  <2>2. CASE i = Len(waiters) + 1 \/ j = Len(waiters) + 1
    <3>1. \A k \in 1..Len(waiters') : k # Len(waiters) + 1 => k \in 1..Len(waiters)
      BY <1>0, <1>1
    <3>2. QED
      BY <1>1, <1>3, <1>4, <2>2, <3>1
  <2>3. QED
    BY <1>0, <1>1, <2>1, <2>2
<1>5. ASSUME NEW q \in Runs PROVE pc'[q] = "waiting" <=> Waiting(q)'
  <2>1. CASE q = r
    <3>1. Len(waiters) + 1 \in 1..Len(waiters')
      BY <1>0, <1>1
    <3>2. QED
      BY <1>0, <1>1, <2>1, <3>1 DEF Waiting
  <2>2. CASE q # r
    <3>1. ASSUME Waiting(q)' PROVE Waiting(q)
      <4>1. PICK i \in 1..Len(waiters') : waiters'[i] = q
        BY <3>1 DEF Waiting
      <4>2. i \in 1..Len(waiters)
        BY <1>0, <1>1, <2>2, <4>1
      <4>3. QED
        BY <1>1, <4>1, <4>2 DEF Waiting
    <3>2. ASSUME Waiting(q) PROVE Waiting(q)'
      BY <1>0, <1>1, <3>2 DEF Waiting
    <3>3. QED
      BY <1>0, <2>2, <3>1, <3>2 DEF SemInv
  <2>3. QED
    BY <2>1, <2>2
<1>6. QED
  BY <1>0, <1>1, <1>2, <1>4, <1>5 DEF SemInv, PermitsConserved

\* A waiter that is cancelled leaves the queue, wherever it stands.
LEMMA SemUnwaits ==
    ASSUME TypeOK, SemInv, NEW r \in Runs, CancelWaiting(r)
    PROVE  SemInv' /\ waiters' \in Seq(Runs)
<1>0. /\ pc \in [Runs -> Places] /\ waiters \in Seq(Runs) /\ Len(waiters) \in Nat
      /\ pc[r] = "waiting" /\ pc' = [pc EXCEPT ![r] = "done"]
      /\ UNCHANGED <<permits, setting>>
  BY LenProperties DEF TypeOK, CancelWaiting, Goto, process
<1>1. PICK i \in 1..Len(waiters) : waiters[i] = r /\ waiters' = RemoveAt(waiters, i)
  BY DEF CancelWaiting
<1>2. /\ waiters' \in Seq(Runs) /\ Len(waiters') = Len(waiters) - 1
      /\ \A k \in 1..(Len(waiters) - 1) :
            waiters'[k] = IF k < i THEN waiters[k] ELSE waiters[k + 1]
  BY <1>0, <1>1, RemoveAtFacts
<1> DEFINE old(k) == IF k < i THEN k ELSE k + 1
<1>3. \A k \in 1..Len(waiters') : /\ old(k) \in 1..Len(waiters) /\ old(k) # i
                                  /\ waiters'[k] = waiters[old(k)]
  BY <1>0, <1>2
<1>4. ASSUME NEW k \in 1..Len(waiters'), NEW l \in 1..Len(waiters'), waiters'[k] = waiters'[l]
      PROVE  k = l
  <2>1. old(k) = old(l)
    <3> HIDE DEF old
    <3>1. QED
      BY <1>3, <1>4 DEF SemInv
  <2>2. QED
    BY <1>0, <1>2, <2>1
<1>5. ASSUME NEW q \in Runs PROVE pc'[q] = "waiting" <=> Waiting(q)'
  <2>1. ASSUME Waiting(q)' PROVE Waiting(q) /\ q # r
    <3>1. PICK k \in 1..Len(waiters') : waiters'[k] = q
      BY <2>1 DEF Waiting
    <3> HIDE DEF old
    <3>2. old(k) \in 1..Len(waiters) /\ old(k) # i /\ waiters[old(k)] = q
      BY <1>3, <3>1
    <3>3. QED
      BY <1>1, <3>2 DEF Waiting, SemInv
  <2>2. ASSUME Waiting(q), q # r PROVE Waiting(q)'
    <3>1. PICK k \in 1..Len(waiters) : waiters[k] = q
      BY <2>2 DEF Waiting
    <3>2. k # i
      BY <1>1, <2>2, <3>1
    <3>3. CASE k < i
      <4>1. k \in 1..Len(waiters') /\ waiters'[k] = q
        BY <1>0, <1>2, <3>1, <3>3
      <4>2. QED
        BY <4>1 DEF Waiting
    <3>4. CASE k > i
      <4>1. k - 1 \in 1..Len(waiters') /\ ~ (k - 1 < i) /\ (k - 1) + 1 = k
        BY <1>0, <1>2, <3>4
      <4>2. waiters'[k - 1] = q
        BY <1>2, <3>1, <4>1
      <4>3. QED
        BY <4>1, <4>2 DEF Waiting
    <3>5. QED
      BY <1>0, <3>2, <3>3, <3>4
  <2>3. pc'[q] = "waiting" <=> pc[q] = "waiting" /\ q # r
    BY <1>0
  <2>4. QED
    BY <2>1, <2>2, <2>3 DEF SemInv
<1>6. Holders' = Holders
  BY <1>0 DEF Holders, Holding
<1>7. QED
  BY <1>0, <1>2, <1>4, <1>5, <1>6 DEF SemInv, PermitsConserved

-----------------------------------------------------------------------------
(* Types, and the semaphore in every step. *)

\* The limits of the runner are numbers.
LEMMA Numbers ==
    /\ MAX_CONCURRENT_CONTAINERS \in Nat /\ DOCKER_CIRCUIT_THRESHOLD \in Nat
    /\ DOCKER_HALF_OPEN_SECS \in Nat /\ CrashBound \in Nat
BY ConstantsAssumption

\* The steps of a call that holds its permit and goes on holding it.
HoldingStep(r) ==
    \/ Spawn(r) \/ SpawnFails(r) \/ Collected(r) \/ NoOutput(r) \/ BadJson(r)
    \/ StreamFails(r) \/ OnSuccess(r) \/ OnOutput(r) \/ CallbackFails(r)
    \/ TimesOut(r) \/ Stopped(r) \/ CancelStopped(r) \/ CancelRunning(r) \/ CancelStopping(r)

\* Where such a step leads, and what it leaves alone.
LEMMA HoldingMoves ==
    ASSUME NEW r \in Runs, HoldingStep(r)
    PROVE  /\ pc[r] \in Holding
           /\ \E p \in Holding \ {"granted", "starting"} : Goto(r, p)
           /\ UNCHANGED <<sem, active, process>>
BY DEF HoldingStep, Spawn, SpawnFails, Collected, NoOutput, BadJson, StreamFails, OnSuccess,
       OnOutput, CallbackFails, TimesOut, Stopped, CancelStopped, CancelRunning,
       CancelStopping, Fails, Holding

\* The steps outside of the calls.
WorldStep ==
    \/ \E r \in Runs : DockerStep(r)
    \/ CleanupStep \/ Tick \/ KillAll

\* What happens outside the host process touches none of its own state.
LEMMA WorldMoves ==
    ASSUME WorldStep PROVE UNCHANGED <<pc, sem, active, record, setting, crashes>>
BY DEF WorldStep, DockerStep, DockerCreates, DockerRefuses, AgentExits, CleanupStep,
       CleanupSnapshot, CleanupList, CleanupRemove, CleanupFails, Tick, KillAll, process

\* The steps by what they do to the permits.
LEMMA Steps ==
    ASSUME Next
    PROVE  \/ \E r \in Runs : \/ Refused(r) \/ Waits(r) \/ Enters(r) \/ Resumes(r)
                              \/ HoldingStep(r) \/ CancelWaiting(r) \/ CancelGranted(r)
                              \/ Finish(r)
           \/ WorldStep
           \/ Crash
BY DEF Next, HostStep, Cancel, HoldingStep, WorldStep

\* Every step keeps the permits and the list of those who wait for one.
LEMMA SemNext ==
    ASSUME TypeOK, SemInv, Next PROVE SemInv'
<1>0. pc \in [Runs -> Places]
  BY DEF TypeOK
<1>1. ASSUME NEW r \in Runs, Refused(r) PROVE SemInv'
  <2>1. /\ pc[r] = "new" /\ pc' = [pc EXCEPT ![r] = "done"]
        /\ UNCHANGED <<permits, waiters, setting>>
    BY <1>1 DEF Refused, MayCall, Goto, sem, process
  <2>2. QED
    BY <1>0, <2>1, SemKept DEF Holding
<1>2. ASSUME NEW r \in Runs, Resumes(r) PROVE SemInv'
  <2>1. pc[r] = "granted" /\ pc[r] \in Holding /\ UNCHANGED <<permits, waiters, setting>>
    BY <1>2 DEF Resumes, Holding, sem, process
  <2>2. CASE Goto(r, "starting")
    BY <1>0, <2>1, <2>2, SemKept DEF Goto, Holding
  <2>3. CASE Goto(r, "done") /\ ~Prepared(setting)
    BY <2>1, <2>3, SemLost
  <2>4. QED
    BY <1>2, <2>2, <2>3 DEF Resumes, Prepare, Prepared
<1>3. ASSUME NEW r \in Runs, HoldingStep(r) PROVE SemInv'
  <2>1. PICK p \in Holding \ {"granted", "starting"} : Goto(r, p)
    BY <1>3, HoldingMoves
  <2>2. pc[r] \in Holding /\ UNCHANGED <<permits, waiters, setting>>
    BY <1>3, HoldingMoves DEF sem, process
  <2>3. QED
    BY <1>0, <2>1, <2>2, SemKept DEF Goto, Holding
<1>4. ASSUME NEW r \in Runs, CancelGranted(r) \/ Finish(r) PROVE SemInv'
  <2>1. /\ pc[r] \in Holding /\ ReleasePermit([pc EXCEPT ![r] = "done"])
        /\ UNCHANGED setting
    BY <1>4 DEF CancelGranted, Finish, Holding, process
  <2>2. QED
    BY <2>1, SemReleased
<1>5. CASE WorldStep
  <2>1. UNCHANGED <<pc, permits, waiters, setting>>
    BY <1>5, WorldMoves DEF sem
  <2>2. QED
    BY <2>1, SemKept
<1>6. CASE Crash
  <2>1. /\ pc' = [r \in Runs |-> IF pc[r] = "new" THEN "new" ELSE "done"]
        /\ permits' = MAX_CONCURRENT_CONTAINERS /\ waiters' = <<>>
    BY <1>6 DEF Crash
  <2>2. Holders' = {}
    BY <2>1 DEF Holders, Holding
  <2>3. IsFiniteSet(Holders') /\ Cardinality(Holders') = 0
    BY <2>2, FS_EmptySet
  <2>4. permits' + Cardinality(Holders') = MAX_CONCURRENT_CONTAINERS
    BY <2>1, <2>3, Numbers
  <2>5. Len(waiters') = 0
    BY <2>1
  <2>6. \A r \in Runs : pc'[r] # "waiting" /\ ~Waiting(r)'
    BY <2>1, <2>5 DEF Waiting
  <2>7. permits' + Cardinality(Holders') <= MAX_CONCURRENT_CONTAINERS
    BY <2>4, Numbers
  <2>8. QED
    BY <2>3, <2>4, <2>5, <2>6, <2>7 DEF SemInv, PermitsConserved
<1>7. QED
  BY <1>1, <1>2, <1>3, <1>4, <1>5, <1>6, Steps, SemWaits, SemEntered, SemUnwaits

\* Types, one group of variables at a time.
CircuitType ==
    /\ failures \in [Folders -> Nat]
    /\ age \in [Folders -> 0..DOCKER_HALF_OPEN_SECS]

WorldType ==
    /\ docker \in [Runs -> {"none", "running", "exited"}]
    /\ client \in [Runs -> BOOLEAN]
    /\ out \in [Runs -> Outputs \cup {"none"}]

RecordType ==
    /\ evo \in [Runs -> {"none", "success", "failure"}]
    /\ advanced \in [Runs -> BOOLEAN]
    /\ replied \in [Runs -> BOOLEAN]

\* Every step keeps the types of the circuit breakers.
LEMMA CircuitNext ==
    ASSUME CircuitType, Next PROVE CircuitType'
<1> USE Numbers DEF CircuitType
<1>1. CASE UNCHANGED circuit
  BY <1>1 DEF circuit
<1>2. ASSUME NEW f \in Folders, PassCircuit(f) PROVE CircuitType'
  BY <1>2 DEF PassCircuit
<1>3. ASSUME NEW f \in Folders, RecordDockerSuccess(f) \/ RecordDockerFailure(f)
      PROVE  CircuitType'
  BY <1>3 DEF RecordDockerSuccess, RecordDockerFailure
<1>4. CASE Tick
  <2>1. /\ failures' = failures
        /\ age' = [f \in Folders |-> IF age[f] < DOCKER_HALF_OPEN_SECS
                                     THEN age[f] + 1 ELSE age[f]]
    BY <1>4 DEF Tick
  <2>2. QED
    BY <2>1
<1>5. CASE Crash
  BY <1>5 DEF Crash
<1>6. \A r \in Runs : FolderOf[r] \in Folders
  BY ConstantsAssumption
<1>7. ASSUME NEW r \in Runs, HoldingStep(r) \/ Waits(r) \/ Enters(r)
      PROVE  \/ UNCHANGED circuit
             \/ PassCircuit(FolderOf[r])
             \/ RecordDockerSuccess(FolderOf[r]) \/ RecordDockerFailure(FolderOf[r])
  BY <1>7 DEF HoldingStep, Waits, Enters, Spawn, SpawnFails, Collected, NoOutput, BadJson,
     StreamFails, OnSuccess, OnOutput, CallbackFails, TimesOut, Stopped, CancelStopped,
     CancelRunning, CancelStopping, Fails
<1>8. ASSUME NEW r \in Runs, \/ Refused(r) \/ Resumes(r) \/ CancelWaiting(r)
                             \/ CancelGranted(r) \/ Finish(r)
      PROVE  UNCHANGED circuit
  BY <1>8 DEF Refused, Resumes, CancelWaiting, CancelGranted, Finish
<1>9. WorldStep => UNCHANGED circuit \/ Tick
  BY DEF WorldStep, DockerStep, DockerCreates, DockerRefuses, AgentExits, CleanupStep,
         CleanupSnapshot, CleanupList, CleanupRemove, CleanupFails, KillAll
<1>10. QED
  BY <1>1, <1>2, <1>3, <1>4, <1>5, <1>6, <1>7, <1>8, <1>9, Steps

\* Killing containers keeps the types of what runs outside.
LEMMA KilledType ==
    ASSUME WorldType, NEW STATE victims, NEW s \in {"exited", "none"}, Killed(victims, s)
    PROVE  WorldType'
<1>1. \A r \in Runs : (client[r] /\ ~(r \in victims /\ docker[r] = "running")) \in BOOLEAN
  OBVIOUS
<1>2. client' \in [Runs -> BOOLEAN]
  BY <1>1 DEF Killed
<1>3. docker' \in [Runs -> {"none", "running", "exited"}]
  BY DEF Killed, WorldType
<1>4. out' \in [Runs -> Outputs \cup {"none"}]
  BY DEF Killed, WorldType, Outputs
<1>5. QED
  BY <1>2, <1>3, <1>4 DEF WorldType

\* How the world changes in a step.
LEMMA WorldChanges ==
    ASSUME Next
    PROVE  \/ UNCHANGED world
           \/ \E r \in Runs : \/ Spawn(r) \/ DockerCreates(r) \/ DockerRefuses(r)
                              \/ \E o \in AgentOutputs : AgentExits(r, o)
                              \/ CancelRunning(r)
                              \/ Killed({r}, "exited") \/ Killed({r}, "none")
           \/ Killed(cleanup.victims, "none")
           \/ Killed(active, "exited")
           \/ Crash
<1>1. ASSUME NEW r \in Runs, HoldingStep(r)
      PROVE  \/ UNCHANGED world \/ Spawn(r) \/ CancelRunning(r)
             \/ Killed({r}, "exited") \/ Killed({r}, "none")
  BY <1>1 DEF HoldingStep, SpawnFails, Collected, NoOutput, BadJson, StreamFails, OnSuccess,
     OnOutput, CallbackFails, TimesOut, Stopped, CancelStopped, CancelStopping, StopContainer
<1>2. ASSUME NEW r \in Runs, \/ Refused(r) \/ Waits(r) \/ Enters(r) \/ Resumes(r)
                             \/ CancelWaiting(r) \/ CancelGranted(r)
      PROVE  UNCHANGED world
  BY <1>2 DEF Refused, Waits, Enters, Resumes, CancelWaiting, CancelGranted
<1>3. ASSUME NEW r \in Runs, Finish(r)
      PROVE  UNCHANGED world \/ Killed({r}, "none")
  BY <1>3 DEF Finish
<1>4. ASSUME WorldStep
      PROVE  \/ UNCHANGED world
             \/ \E r \in Runs : \/ DockerCreates(r) \/ DockerRefuses(r)
                                \/ \E o \in AgentOutputs : AgentExits(r, o)
             \/ Killed(cleanup.victims, "none")
             \/ Killed(active, "exited")
  BY <1>4 DEF WorldStep, DockerStep, CleanupStep, CleanupSnapshot, CleanupList,
     CleanupRemove, CleanupFails, KillAll, Tick
<1>5. QED
  BY <1>1, <1>2, <1>3, <1>4, Steps

\* Every step keeps the types of what runs outside the host process.
LEMMA WorldNext ==
    ASSUME WorldType, Next PROVE WorldType'
<1>1. CASE UNCHANGED world
  BY <1>1 DEF world, WorldType
<1>2. ASSUME NEW r \in Runs, Spawn(r) \/ DockerCreates(r) PROVE WorldType'
  <2>1. docker' \in [Runs -> {"none", "running", "exited"}] /\ out' = out
    BY <1>2 DEF WorldType, Spawn, DockerCreates
  <2>2. client' \in [Runs -> BOOLEAN]
    BY <1>2 DEF WorldType, Spawn, DockerCreates
  <2>3. QED
    BY <2>1, <2>2 DEF WorldType
<1>3. ASSUME NEW r \in Runs, DockerRefuses(r) PROVE WorldType'
  BY <1>3 DEF WorldType, DockerRefuses, Outputs
<1>4. ASSUME NEW r \in Runs, NEW o \in AgentOutputs, AgentExits(r, o) PROVE WorldType'
  <2>1. o \in Outputs
    BY ConstantsAssumption DEF Outputs
  <2>2. out' \in [Runs -> Outputs \cup {"none"}]
    BY <1>4, <2>1 DEF WorldType, AgentExits
  <2>3. client' \in [Runs -> BOOLEAN]
    BY <1>4 DEF WorldType, AgentExits
  <2>4. docker' \in [Runs -> {"none", "running", "exited"}]
    BY <1>4 DEF WorldType, AgentExits
  <2>5. QED
    BY <2>2, <2>3, <2>4 DEF WorldType
<1>5. ASSUME NEW r \in Runs, CancelRunning(r) PROVE WorldType'
  <2>1. (client[r] /\ ~setting.posix) \in BOOLEAN
    OBVIOUS
  <2>2. client' \in [Runs -> BOOLEAN]
    BY <1>5, <2>1 DEF WorldType, CancelRunning
  <2>3. QED
    BY <1>5, <2>2 DEF WorldType, CancelRunning
<1>6. CASE Crash
  BY <1>6 DEF WorldType, Crash
<1>7. QED
  BY <1>1, <1>2, <1>3, <1>4, <1>5, <1>6, WorldChanges, KilledType

\* How the record of a run changes in a step.
LEMMA RecordChanges ==
    ASSUME Next
    PROVE  \/ UNCHANGED record
           \/ \E r \in Runs : \/ OnSuccess(r) \/ OnOutput(r) \/ Collected(r)
                              \/ Record(r, "failure") /\ UNCHANGED <<advanced, replied>>
<1>1. ASSUME NEW r \in Runs, HoldingStep(r)
      PROVE  \/ UNCHANGED record \/ OnSuccess(r) \/ OnOutput(r) \/ Collected(r)
             \/ Record(r, "failure") /\ UNCHANGED <<advanced, replied>>
  BY <1>1 DEF HoldingStep, Spawn, SpawnFails, NoOutput, BadJson, StreamFails, CallbackFails,
     TimesOut, Stopped, CancelStopped, CancelRunning, CancelStopping, Fails
<1>2. ASSUME NEW r \in Runs, \/ Refused(r) \/ Waits(r) \/ Enters(r) \/ Resumes(r)
                             \/ CancelWaiting(r) \/ CancelGranted(r) \/ Finish(r)
      PROVE  UNCHANGED record
  BY <1>2 DEF Refused, Waits, Enters, Resumes, CancelWaiting, CancelGranted, Finish
<1>3. Crash => UNCHANGED record
  BY DEF Crash
<1>4. QED
  BY <1>1, <1>2, <1>3, Steps, WorldMoves

\* Every step keeps the types of what is remembered of a call.
LEMMA RecordTypeNext ==
    ASSUME RecordType, Next PROVE RecordType'
<1>1. CASE UNCHANGED record
  BY <1>1 DEF record, RecordType
<1>2. ASSUME NEW r \in Runs, OnSuccess(r) \/ OnOutput(r) PROVE RecordType'
  BY <1>2 DEF RecordType, OnSuccess, OnOutput
<1>3. ASSUME NEW r \in Runs, NEW s \in {"success", "failure"}, Record(r, s),
             UNCHANGED <<advanced, replied>>
      PROVE  RecordType'
  BY <1>3 DEF RecordType, Record
<1>4. QED
  BY <1>1, <1>2, <1>3, RecordChanges DEF Collected

ProcessType ==
    /\ active \subseteq Runs
    /\ cleanup \in [at : {"idle", "listing", "removing"},
                    live : SUBSET Runs, victims : SUBSET Runs]
    /\ booted \in BOOLEAN
    /\ shutting \in BOOLEAN
    /\ crashes \in 0..CrashBound
    /\ setting \in Settings

\* Every step keeps the types of the process, its setting and its registry.
LEMMA ProcessNext ==
    ASSUME ProcessType, Next PROVE ProcessType'
<1>1. CASE UNCHANGED <<active, process>>
  BY <1>1 DEF process, ProcessType
<1>2. ASSUME NEW r \in Runs, Enters(r) \/ Resumes(r) PROVE ProcessType'
  BY <1>2 DEF Enters, Resumes, Prepare, Registers, process, ProcessType
<1>3. ASSUME NEW r \in Runs, Finish(r) PROVE ProcessType'
  BY <1>3 DEF Finish, process, ProcessType
<1>4. CASE CleanupStep
  <2>1. /\ UNCHANGED <<active, shutting, crashes, setting>>
        /\ booted' = TRUE \/ booted' = booted
    BY <1>4 DEF CleanupStep, CleanupSnapshot, CleanupList, CleanupRemove, CleanupFails
  <2>2. cleanup' \in [at : {"idle", "listing", "removing"},
                      live : SUBSET Runs, victims : SUBSET Runs]
    <3>1. active \in SUBSET Runs /\ {r \in Runs : docker[r] # "none"} \ cleanup.live \in SUBSET Runs
      BY DEF ProcessType
    <3>2. QED
      BY <1>4, <3>1 DEF CleanupStep, CleanupSnapshot, CleanupList, CleanupRemove, CleanupFails
  <2>3. booted' \in BOOLEAN
    BY <2>1 DEF ProcessType
  <2>4. QED
    BY <2>1, <2>2, <2>3 DEF ProcessType
<1>5. CASE KillAll
  BY <1>5 DEF KillAll, ProcessType
<1>6. CASE Crash
  <2>1. /\ active' = {} /\ cleanup' = [at |-> "idle", live |-> {}, victims |-> {}]
        /\ booted' = FALSE /\ shutting' = FALSE /\ setting' = setting
    BY <1>6 DEF Crash
  <2>2. crashes' \in 0..CrashBound
    <3>1. crashes \in 0..CrashBound /\ crashes < CrashBound /\ crashes' = crashes + 1
      BY <1>6 DEF Crash, ProcessType
    <3>2. QED
      BY <3>1, Numbers
  <2>3. cleanup' \in [at : {"idle", "listing", "removing"},
                      live : SUBSET Runs, victims : SUBSET Runs]
    BY <2>1
  <2>4. QED
    BY <2>1, <2>2, <2>3 DEF ProcessType
<1>7. ASSUME NEW r \in Runs, \/ Refused(r) \/ Waits(r) \/ CancelWaiting(r) \/ CancelGranted(r)
      PROVE  UNCHANGED <<active, process>>
  BY <1>7 DEF Refused, Waits, CancelWaiting, CancelGranted
<1>8. ASSUME WorldStep, ~CleanupStep, ~KillAll PROVE UNCHANGED <<active, process>>
  BY <1>8 DEF WorldStep, DockerStep, DockerCreates, DockerRefuses, AgentExits, Tick
<1>9. QED
  BY <1>1, <1>2, <1>3, <1>4, <1>5, <1>6, <1>7, <1>8, Steps, HoldingMoves

SemType ==
    /\ pc \in [Runs -> Places]
    /\ permits \in 0..MAX_CONCURRENT_CONTAINERS
    /\ waiters \in Seq(Runs)

\* The type invariant by its parts.
LEMMA TypeParts == TypeOK <=> SemType /\ CircuitType /\ WorldType /\ RecordType /\ ProcessType
BY DEF TypeOK, SemType, CircuitType, WorldType, RecordType, ProcessType

\* Every step keeps the types of the places and of the semaphore.
LEMMA SemTypeNext ==
    ASSUME TypeOK, SemInv, Next PROVE SemType'
<1>0. /\ pc \in [Runs -> Places] /\ permits \in 0..MAX_CONCURRENT_CONTAINERS
      /\ waiters \in Seq(Runs)
  BY DEF TypeOK
<1>1. ASSUME NEW r \in Runs, NEW p \in Places, Goto(r, p) PROVE pc' \in [Runs -> Places]
  BY <1>0, <1>1 DEF Goto
<1>2. /\ \A p \in Holding : p \in Places
      /\ "starting" \in Places /\ "done" \in Places /\ "waiting" \in Places
  BY DEF Holding, Places
<1>3. ASSUME NEW r \in Runs, Refused(r) PROVE SemType'
  <2>1. Goto(r, "done") /\ UNCHANGED sem
    BY <1>3 DEF Refused
  <2>2. QED
    BY <1>0, <1>1, <1>2, <2>1 DEF SemType, sem
<1>4. ASSUME NEW r \in Runs, Waits(r) PROVE SemType'
  <2>1. Goto(r, "waiting") /\ UNCHANGED permits
    BY <1>4 DEF Waits
  <2>2. QED
    BY <1>0, <1>1, <1>2, <1>4, <2>1, SemWaits DEF SemType
<1>5. ASSUME NEW r \in Runs, Enters(r) PROVE SemType'
  <2>1. Goto(r, "starting") \/ Goto(r, "done")
    BY <1>5 DEF Enters, Prepare
  <2>2. UNCHANGED waiters
    BY <1>5 DEF Enters
  <2>3. QED
    BY <1>0, <1>1, <1>2, <1>5, <2>1, <2>2, SemEntered DEF SemType
<1>6. ASSUME NEW r \in Runs, Resumes(r) PROVE SemType'
  <2>1. Goto(r, "starting") \/ Goto(r, "done")
    BY <1>6 DEF Resumes, Prepare
  <2>2. UNCHANGED sem
    BY <1>6 DEF Resumes
  <2>3. QED
    BY <1>0, <1>1, <1>2, <2>1, <2>2 DEF SemType, sem
<1>7. ASSUME NEW r \in Runs, HoldingStep(r) PROVE SemType'
  <2>1. \E p \in Places : Goto(r, p)
    BY <1>2, <1>7, HoldingMoves
  <2>2. UNCHANGED sem
    BY <1>7, HoldingMoves
  <2>3. QED
    BY <1>0, <1>1, <2>1, <2>2 DEF SemType, sem
<1>8. ASSUME NEW r \in Runs, CancelWaiting(r) PROVE SemType'
  <2>1. Goto(r, "done") /\ UNCHANGED permits
    BY <1>8 DEF CancelWaiting
  <2>2. QED
    BY <1>0, <1>1, <1>2, <1>8, <2>1, SemUnwaits DEF SemType
<1>9. ASSUME NEW r \in Runs, CancelGranted(r) \/ Finish(r) PROVE SemType'
  <2>1. /\ pc[r] \in Holding /\ ReleasePermit([pc EXCEPT ![r] = "done"])
        /\ UNCHANGED setting
    BY <1>9 DEF CancelGranted, Finish, Holding, process
  <2>2. QED
    BY <2>1, SemReleased DEF SemType
<1>10. CASE WorldStep
  <2>1. UNCHANGED <<pc, permits, waiters>>
    BY <1>10, WorldMoves DEF sem
  <2>2. QED
    BY <1>0, <2>1 DEF SemType
<1>11. CASE Crash
  <2>1. /\ pc' = [r \in Runs |-> IF pc[r] = "new" THEN "new" ELSE "done"]
        /\ permits' = MAX_CONCURRENT_CONTAINERS /\ waiters' = <<>>
    BY <1>11 DEF Crash
  <2>2. QED
    BY <2>1, Numbers DEF SemType, Places
<1>12. QED
  BY <1>3, <1>4, <1>5, <1>6, <1>7, <1>8, <1>9, <1>10, <1>11, Steps

\* Every step keeps the type invariant.
LEMMA TypeNext == TypeOK /\ SemInv /\ Next => TypeOK'
<1> SUFFICES ASSUME TypeOK, SemInv, Next PROVE TypeOK'
  OBVIOUS
<1>1. CircuitType /\ WorldType /\ RecordType /\ ProcessType
  BY TypeParts
<1>2. CircuitType' /\ WorldType' /\ RecordType' /\ ProcessType'
  BY <1>1, CircuitNext, WorldNext, RecordTypeNext, ProcessNext
<1>3. SemType'
  BY SemTypeNext
<1>4. QED
  BY <1>2, <1>3
     DEF TypeOK, SemType, CircuitType, WorldType, RecordType, ProcessType

-----------------------------------------------------------------------------
(* What is on record of a run. *)

\* The places that say nothing of the record.
Loose == {"done", "stopping", "cancelling", "finishing"}

\* The daemon and the client of a run only lose something.
Shrinks(q) ==
    /\ docker[q] = "none" => docker'[q] = "none"
    /\ client'[q] => client[q]
    /\ out'[q] = out[q] \/ (client[q] /\ ~client'[q])

\* Containers that are killed from outside only lose something.
LEMMA KilledShrinks ==
    ASSUME TypeOK, NEW STATE victims, NEW STATE s, Killed(victims, s), NEW q \in Runs
    PROVE  Shrinks(q)
BY DEF Killed, Shrinks, TypeOK

\* Only `docker run` and the daemon that obeys it add something.
LEMMA WorldShrinks ==
    ASSUME TypeOK, Next, NEW q \in Runs
    PROVE  Shrinks(q) \/ Spawn(q) \/ DockerCreates(q)
<1>1. CASE UNCHANGED world
  BY <1>1 DEF world, Shrinks
<1>2. ASSUME NEW r \in Runs, r # q, Spawn(r) \/ DockerCreates(r) PROVE Shrinks(q)
  BY <1>2 DEF Spawn, DockerCreates, Shrinks, TypeOK
<1>3. ASSUME NEW r \in Runs, DockerRefuses(r) PROVE Shrinks(q)
  BY <1>3 DEF DockerRefuses, Shrinks, TypeOK
<1>4. ASSUME NEW r \in Runs, NEW o \in AgentOutputs, AgentExits(r, o) PROVE Shrinks(q)
  BY <1>4 DEF AgentExits, Shrinks, TypeOK
<1>5. ASSUME NEW r \in Runs, CancelRunning(r) PROVE Shrinks(q)
  BY <1>5 DEF CancelRunning, Shrinks, TypeOK
<1>6. CASE Crash
  BY <1>6 DEF Crash, Shrinks
<1>7. QED
  BY <1>1, <1>2, <1>3, <1>4, <1>5, <1>6, KilledShrinks, WorldChanges

\* Where the record of one run changes: on the way out of the wait, or in a callback.
LEMMA RecordMoves ==
    ASSUME TypeOK, Next, NEW q \in Runs
    PROVE  \/ OnSuccess(q) \/ OnOutput(q) \/ Collected(q)
           \/ /\ advanced'[q] = advanced[q] /\ replied'[q] = replied[q]
              /\ \/ evo'[q] = evo[q]
                 \/ evo[q] = "none" /\ pc'[q] = "finishing"
<1> DEFINE Same == advanced'[q] = advanced[q] /\ replied'[q] = replied[q] /\ evo'[q] = evo[q]
<1>1. CASE UNCHANGED record
  BY <1>1 DEF record
<1>2. ASSUME NEW r \in Runs, r # q, HoldingStep(r) PROVE Same
  BY <1>2 DEF HoldingStep, Spawn, SpawnFails, Collected, NoOutput, BadJson, StreamFails,
     OnSuccess, OnOutput, CallbackFails, TimesOut, Stopped, CancelStopped, CancelRunning,
     CancelStopping, Fails, Record, record, TypeOK
<1>3. ASSUME HoldingStep(q)
      PROVE  \/ UNCHANGED record \/ OnSuccess(q) \/ OnOutput(q) \/ Collected(q)
             \/ Record(q, "failure") /\ Goto(q, "finishing") /\ UNCHANGED <<advanced, replied>>
  BY <1>3 DEF HoldingStep, Spawn, SpawnFails, NoOutput, BadJson, StreamFails, CallbackFails,
     TimesOut, Stopped, CancelStopped, CancelRunning, CancelStopping, Fails
<1>4. CASE Record(q, "failure") /\ Goto(q, "finishing") /\ UNCHANGED <<advanced, replied>>
  BY <1>4 DEF Record, Goto, TypeOK
<1>5. ASSUME NEW r \in Runs, \/ Refused(r) \/ Waits(r) \/ Enters(r) \/ Resumes(r)
                             \/ CancelWaiting(r) \/ CancelGranted(r) \/ Finish(r)
      PROVE  UNCHANGED record
  BY <1>5 DEF Refused, Waits, Enters, Resumes, CancelWaiting, CancelGranted, Finish
<1>6. Crash => UNCHANGED record
  BY DEF Crash
<1>7. QED
  BY <1>1, <1>2, <1>3, <1>4, <1>5, <1>6, Steps, WorldMoves

\* Where the place of one call changes.
LEMMA PlaceMoves ==
    ASSUME TypeOK, SemInv, Next, NEW q \in Runs
    PROVE  \/ Spawn(q) \/ Collected(q) \/ OnSuccess(q) \/ OnOutput(q)
           \/ pc'[q] = pc[q]
           \/ pc[q] \in Early /\ pc'[q] \in Early
           \/ pc'[q] \in Loose
<1>0. pc \in [Runs -> Places]
  BY DEF TypeOK
<1> DEFINE Kept == \/ pc'[q] = pc[q]
                   \/ pc[q] \in Early /\ pc'[q] \in Early
                   \/ pc'[q] \in Loose
<1>1. ASSUME NEW r \in Runs, r # q, HoldingStep(r) PROVE pc'[q] = pc[q]
  BY <1>0, <1>1, HoldingMoves DEF Goto
<1>2. ASSUME HoldingStep(q)
      PROVE  \/ Spawn(q) \/ Collected(q) \/ OnSuccess(q) \/ OnOutput(q)
             \/ \E p \in Loose : Goto(q, p)
  BY <1>2 DEF HoldingStep, SpawnFails, NoOutput, BadJson, StreamFails, CallbackFails,
     TimesOut, Stopped, CancelStopped, CancelRunning, CancelStopping, Fails, Loose
<1>3. ASSUME NEW p \in Loose, Goto(q, p) PROVE Kept
  BY <1>0, <1>3 DEF Goto
<1>4. ASSUME NEW r \in Runs, Refused(r) \/ Waits(r) \/ Enters(r) \/ Resumes(r) \/ CancelWaiting(r)
      PROVE  Kept
  <2>1. /\ pc[r] \in Early
        /\ Goto(r, "done") \/ Goto(r, "waiting") \/ Goto(r, "starting")
    BY <1>4 DEF Refused, Waits, Enters, Resumes, CancelWaiting, Prepare, MayCall, Early
  <2>2. QED
    BY <1>0, <2>1 DEF Goto, Early, Loose
<1>5. ASSUME NEW r \in Runs, CancelGranted(r) \/ Finish(r) PROVE Kept
  <2>1. /\ pc[r] \in Holding /\ ReleasePermit([pc EXCEPT ![r] = "done"])
        /\ UNCHANGED setting
    BY <1>5 DEF CancelGranted, Finish, Holding, process
  <2>2. QED
    BY <2>1, SemReleased DEF Early, Loose
<1>6. WorldStep => Kept
  BY WorldMoves
<1>7. Crash => Kept
  BY DEF Crash, Loose
<1>8. QED
  BY <1>1, <1>2, <1>3, <1>4, <1>5, <1>6, <1>7, Steps

\* RecordInv is inductive.
LEMMA RecordNext ==
    ASSUME TypeOK, SemInv, RecordInv, Next PROVE RecordInv'
<1> SUFFICES ASSUME NEW q \in Runs PROVE RecordOf(q)'
  BY DEF RecordInv
<1>0. RecordOf(q)
  BY DEF RecordInv
<1>1. CASE Spawn(q)
  BY <1>0, <1>1 DEF Spawn, Goto, RecordOf, Early, record, TypeOK
<1>2. CASE DockerCreates(q)
  BY <1>0, <1>2 DEF DockerCreates, RecordOf, record, TypeOK
<1>3. CASE Collected(q)
  BY <1>0, <1>3 DEF Collected, Record, Goto, RecordOf, Early, world, TypeOK
<1>4. CASE OnSuccess(q)
  BY <1>0, <1>4 DEF OnSuccess, Goto, RecordOf, Early, world, TypeOK
<1>5. CASE OnOutput(q)
  BY <1>0, <1>5 DEF OnOutput, Goto, RecordOf, Early, world, TypeOK
<1>6. ASSUME /\ Shrinks(q)
             /\ advanced'[q] = advanced[q] /\ replied'[q] = replied[q]
             /\ evo'[q] = evo[q] \/ (evo[q] = "none" /\ pc'[q] = "finishing")
             /\ \/ pc'[q] = pc[q]
                \/ pc[q] \in Early /\ pc'[q] \in Early
                \/ pc'[q] \in Loose
      PROVE  RecordOf(q)'
  BY <1>0, <1>6 DEF Shrinks, RecordOf, Early, Loose, TypeOK
<1>7. QED
  BY <1>1, <1>2, <1>3, <1>4, <1>5, <1>6, WorldShrinks, RecordMoves, PlaceMoves

-----------------------------------------------------------------------------
(* What the daemon executes. *)

\* Until the first clean-up is through, only the containers of the process before end.
LEMMA BootSteps ==
    ASSUME BootInv, RecordInv, Next, ~booted
    PROVE  \/ Crash
           \/ CleanupStep
           \/ /\ UNCHANGED <<pc, active, cleanup, booted>>
              /\ \A q \in Runs : /\ client'[q] => client[q]
                                 /\ docker'[q] = "running" => docker[q] = "running"
<1> DEFINE Quiet == /\ UNCHANGED <<pc, active, cleanup, booted>>
                    /\ \A q \in Runs : /\ client'[q] => client[q]
                                       /\ docker'[q] = "running" => docker[q] = "running"
<1>1. \A r \in Runs : pc[r] \in {"new", "done"} /\ ~client[r]
  BY DEF BootInv
<1>2. \A r \in Runs : ~HoldingStep(r)
  BY <1>1, HoldingMoves DEF Holding
<1>3. \A r \in Runs : ~ (\/ Refused(r) \/ Waits(r) \/ Enters(r) \/ Resumes(r)
                         \/ CancelWaiting(r) \/ CancelGranted(r) \/ Finish(r))
  BY <1>1 DEF Refused, Waits, Enters, Resumes, CancelWaiting, CancelGranted, Finish, MayCall
<1>4. ASSUME NEW r \in Runs, DockerStep(r) PROVE Quiet
  <2>1. PICK o \in AgentOutputs : AgentExits(r, o)
    BY <1>1, <1>4 DEF DockerStep, DockerCreates, DockerRefuses
  <2>2. /\ docker' = [docker EXCEPT ![r] = "exited"] /\ client' = [client EXCEPT ![r] = FALSE]
        /\ UNCHANGED <<pc, active, process>>
    BY <2>1 DEF AgentExits
  <2>3. QED
    BY <2>2 DEF process
<1>5. Tick => Quiet
  BY DEF Tick, world, process
<1>6. ~KillAll
  BY DEF KillAll
<1>7. QED
  BY <1>2, <1>3, <1>4, <1>5, <1>6, Steps DEF WorldStep

\* BootInv is inductive.
LEMMA BootNext ==
    ASSUME TypeOK, BootInv, RecordInv, Next PROVE BootInv'
<1>1. CASE Crash
  BY <1>1 DEF Crash, BootInv
<1>2. CASE booted /\ ~Crash
  <2>1. ASSUME NEW r \in Runs, \/ Refused(r) \/ Waits(r) \/ Enters(r) \/ Resumes(r)
                               \/ HoldingStep(r) \/ CancelWaiting(r) \/ CancelGranted(r)
                               \/ Finish(r)
        PROVE  UNCHANGED process
    BY <2>1, HoldingMoves DEF Refused, Waits, Enters, Resumes, CancelWaiting, CancelGranted, Finish
  <2>2. WorldStep => booted'
    BY <1>2 DEF WorldStep, DockerStep, DockerCreates, DockerRefuses, AgentExits, CleanupStep,
       CleanupSnapshot, CleanupList, CleanupRemove, CleanupFails, Tick, KillAll, process
  <2>3. booted'
    BY <1>2, <2>1, <2>2, Steps DEF process
  <2>4. QED
    BY <2>3 DEF BootInv
<1>3. CASE ~booted /\ CleanupStep
  <2>0. active = {} /\ \A r \in Runs : pc[r] \in {"new", "done"} /\ ~client[r]
    BY <1>3 DEF BootInv
  <2>1. CASE CleanupSnapshot
    BY <2>0, <2>1 DEF CleanupSnapshot, BootInv, world
  <2>2. CASE CleanupList
    <3>1. /\ cleanup.live = {} /\ cleanup'.at = "removing"
          /\ cleanup'.victims = {r \in Runs : docker[r] # "none"} \ cleanup.live
          /\ UNCHANGED <<pc, active, client, docker>>
      BY <1>3, <2>2 DEF CleanupList, BootInv, world
    <3>2. \A r \in Runs : docker'[r] = "running" => r \in cleanup'.victims
      BY <3>1
    <3>3. QED
      BY <2>0, <3>1, <3>2 DEF BootInv
  <2>3. CASE CleanupRemove \/ CleanupFails
    BY <2>3 DEF CleanupRemove, CleanupFails, BootInv
  <2>4. QED
    BY <1>3, <2>1, <2>2, <2>3 DEF CleanupStep
<1>4. CASE /\ ~booted /\ UNCHANGED <<pc, active, cleanup, booted>>
           /\ \A q \in Runs : /\ client'[q] => client[q]
                              /\ docker'[q] = "running" => docker[q] = "running"
  BY <1>4 DEF BootInv
<1>5. QED
  BY <1>1, <1>2, <1>3, <1>4, BootSteps

\* One call, in a step that is not its own.
Apart(q) ==
    /\ pc'[q] = pc[q] \/ (pc[q] \in Early /\ pc'[q] \in Early)
    /\ \/ docker'[q] = docker[q] /\ client'[q] = client[q]
       \/ docker'[q] # "running" /\ (client'[q] <=> client[q] /\ docker[q] # "running")

\* Of another's container, killing changes nothing but that it stops.
LEMMA KilledApart ==
    ASSUME TypeOK, NEW STATE victims, NEW s \in {"exited", "none"}, Killed(victims, s),
           NEW q \in Runs
    PROVE  \/ docker'[q] = docker[q] /\ client'[q] = client[q]
           \/ docker'[q] # "running" /\ (client'[q] <=> client[q] /\ docker[q] # "running")
BY DEF Killed, TypeOK

\* A step of the call itself, or one of the daemon that concerns it.
Own(q) ==
    \/ Refused(q) \/ Waits(q) \/ Enters(q) \/ Resumes(q) \/ HoldingStep(q)
    \/ CancelWaiting(q) \/ CancelGranted(q) \/ Finish(q) \/ DockerStep(q)

\* Seen from one call, a step is its own, leaves it apart, or is the crash.
LEMMA OwnOrApart ==
    ASSUME TypeOK, SemInv, Next, NEW q \in Runs
    PROVE  Own(q) \/ Apart(q) \/ Crash
<1>0. pc \in [Runs -> Places] /\ client \in [Runs -> BOOLEAN]
      /\ docker \in [Runs -> {"none", "running", "exited"}]
  BY DEF TypeOK
<1> DEFINE W == \/ docker'[q] = docker[q] /\ client'[q] = client[q]
                \/ docker'[q] # "running" /\ (client'[q] <=> client[q] /\ docker[q] # "running")
<1>1. UNCHANGED world => W
  BY DEF world
<1>2. ASSUME NEW r \in Runs, r # q, HoldingStep(r) PROVE Apart(q)
  <2>1. pc'[q] = pc[q]
    BY <1>0, <1>2, HoldingMoves DEF Goto
  <2>2. \/ UNCHANGED world \/ Spawn(r) \/ CancelRunning(r)
        \/ Killed({r}, "exited") \/ Killed({r}, "none")
    BY <1>2 DEF HoldingStep, SpawnFails, Collected, NoOutput, BadJson, StreamFails, OnSuccess,
       OnOutput, CallbackFails, TimesOut, Stopped, CancelStopped, CancelStopping, StopContainer
  <2>3. CASE Spawn(r) \/ CancelRunning(r)
    BY <1>0, <1>2, <2>1, <2>3 DEF Spawn, CancelRunning, Apart
  <2>4. CASE Killed({r}, "exited") \/ Killed({r}, "none")
    BY <2>1, <2>4, KilledApart DEF Apart
  <2>5. QED
    BY <1>1, <2>1, <2>2, <2>3, <2>4 DEF Apart
<1>3. ASSUME NEW r \in Runs, r # q, \/ Refused(r) \/ Waits(r) \/ Enters(r) \/ Resumes(r)
                                    \/ CancelWaiting(r)
      PROVE  Apart(q)
  <2>1. \E p \in Places : Goto(r, p)
    BY <1>3 DEF Refused, Waits, Enters, Resumes, CancelWaiting, Prepare, Places, Holding
  <2>2. UNCHANGED world
    BY <1>3 DEF Refused, Waits, Enters, Resumes, CancelWaiting
  <2>3. QED
    BY <1>0, <1>1, <1>3, <2>1, <2>2 DEF Apart, Goto
<1>4. ASSUME NEW r \in Runs, r # q, CancelGranted(r) \/ Finish(r) PROVE Apart(q)
  <2>1. /\ pc[r] \in Holding /\ ReleasePermit([pc EXCEPT ![r] = "done"])
        /\ UNCHANGED setting
    BY <1>4 DEF CancelGranted, Finish, Holding, process
  <2>2. pc'[q] = pc[q] \/ (pc[q] = "waiting" /\ pc'[q] = "granted")
    BY <1>4, <2>1, SemReleased
  <2>3. UNCHANGED world \/ Killed({r}, "none")
    BY <1>4 DEF CancelGranted, Finish
  <2>4. QED
    BY <1>1, <2>2, <2>3, KilledApart DEF Apart, Early
<1>5. ASSUME NEW r \in Runs, r # q, DockerStep(r) PROVE Apart(q)
  BY <1>0, <1>5 DEF DockerStep, DockerCreates, DockerRefuses, AgentExits, Apart
<1>6. ASSUME CleanupStep \/ Tick \/ KillAll PROVE Apart(q)
  <2>1. UNCHANGED pc
    BY <1>6, WorldMoves DEF WorldStep
  <2>2. UNCHANGED world \/ Killed(cleanup.victims, "none") \/ Killed(active, "exited")
    BY <1>6 DEF CleanupStep, CleanupSnapshot, CleanupList, CleanupRemove, CleanupFails, Tick,
       KillAll
  <2>3. QED
    BY <1>1, <2>1, <2>2, KilledApart DEF Apart
<1>7. QED
  BY <1>2, <1>3, <1>4, <1>5, <1>6, Steps DEF WorldStep, Own

\* How main() gets past its first clean-up, when the clean-up does not fail.
LEMMA Booting ==
    ASSUME TypeOK, BootInv, DockerAnswers, DockerInv, Next
    PROVE  /\ shutting' => booted'
           /\ booted' => booted \/ \A q \in Runs : docker'[q] # "running"
<1>1. ASSUME NEW r \in Runs, \/ Refused(r) \/ Waits(r) \/ Enters(r) \/ Resumes(r)
                             \/ HoldingStep(r) \/ CancelWaiting(r) \/ CancelGranted(r)
                             \/ Finish(r) \/ DockerStep(r)
      PROVE  UNCHANGED process
  BY <1>1, HoldingMoves DEF Refused, Waits, Enters, Resumes, CancelWaiting, CancelGranted,
     Finish, DockerStep, DockerCreates, DockerRefuses, AgentExits
<1>2. CleanupSnapshot \/ CleanupList \/ Tick => UNCHANGED <<booted, shutting>>
  BY DEF CleanupSnapshot, CleanupList, Tick, process
<1>3. ~CleanupFails
  BY DEF CleanupFails, DockerAnswers
<1>4. ASSUME CleanupRemove, ~booted PROVE \A q \in Runs : docker'[q] # "running"
  <2>1. \A q \in Runs : docker[q] = "running" => q \in cleanup.victims
    BY <1>4 DEF CleanupRemove, BootInv
  <2>2. QED
    BY <1>4, <2>1 DEF CleanupRemove, Killed, TypeOK
<1>5. CleanupRemove => booted' = TRUE
  BY DEF CleanupRemove
<1>6. KillAll => booted /\ booted' = booted
  BY DEF KillAll
<1>7. Crash => booted' = FALSE /\ shutting' = FALSE
  BY DEF Crash
<1>8. UNCHANGED <<booted, shutting>> => /\ shutting' => booted'
                                        /\ booted' => booted
  BY DEF DockerInv
<1>9. QED
  BY <1>1, <1>2, <1>3, <1>4, <1>5, <1>6, <1>7, <1>8, Steps DEF WorldStep, CleanupStep, process

\* A step of the call itself leaves no container behind.
LEMMA OwnStep ==
    ASSUME TypeOK, SemInv, RecordInv, DockerAnswers, DockerInv, NEW q \in Runs, Own(q)
    PROVE  DockerOf(q)' /\ UNCHANGED process
<1>0. /\ pc \in [Runs -> Places] /\ client \in [Runs -> BOOLEAN]
      /\ docker \in [Runs -> {"none", "running", "exited"}]
      /\ out \in [Runs -> Outputs \cup {"none"}]
  BY DEF TypeOK
<1>1. /\ RecordOf(q) /\ DockerOf(q)
      /\ setting.posix /\ "slow_docker" \notin setting.faults
      /\ "stream" \notin setting.faults /\ "stop" \notin setting.faults
  BY DEF RecordInv, DockerInv, DockerAnswers
<1>2. CASE Refused(q) \/ Waits(q) \/ Enters(q) \/ Resumes(q) \/ CancelWaiting(q)
  <2>1. /\ pc[q] \in Early /\ UNCHANGED <<world, process>>
        /\ Goto(q, "done") \/ Goto(q, "waiting") \/ Goto(q, "starting")
    BY <1>2 DEF Refused, Waits, Enters, Resumes, CancelWaiting, Prepare, MayCall, Early
  <2>2. docker'[q] = "none" /\ ~client'[q]
    BY <1>1, <2>1 DEF RecordOf, world
  <2>3. QED
    BY <2>1, <2>2 DEF DockerOf
<1>3. CASE Spawn(q)
  BY <1>0, <1>1, <1>3 DEF Spawn, Goto, RecordOf, DockerOf, Early
<1>4. CASE SpawnFails(q)
  BY <1>0, <1>1, <1>4 DEF SpawnFails, Fails, Goto, RecordOf, DockerOf, Early, world
<1>5. CASE Collected(q) \/ NoOutput(q) \/ BadJson(q)
  <2>1. /\ pc[q] = "collecting" /\ out[q] # "none" /\ UNCHANGED <<world, process>>
        /\ Goto(q, "delivering") \/ Goto(q, "finishing")
    BY <1>5 DEF Collected, NoOutput, BadJson
  <2>2. ~client[q] /\ docker[q] # "running"
    BY <1>1, <2>1 DEF RecordOf, DockerOf
  <2>3. QED
    BY <2>1, <2>2 DEF DockerOf, world
<1>6. ~StreamFails(q)
  BY <1>1 DEF StreamFails
<1>7. CASE OnSuccess(q) \/ OnOutput(q) \/ CallbackFails(q)
  <2>1. /\ pc[q] \in {"delivering", "replying"} /\ UNCHANGED <<world, process>>
        /\ Goto(q, "replying") \/ Goto(q, "finishing")
    BY <1>7 DEF OnSuccess, OnOutput, CallbackFails, Fails
  <2>2. ~client[q] /\ (booted => docker[q] # "running")
    BY <1>1, <2>1 DEF DockerOf
  <2>3. pc'[q] \in {"replying", "finishing"} /\ UNCHANGED booted
    BY <1>0, <2>1 DEF Goto, process
  <2>4. QED
    BY <2>1, <2>2, <2>3 DEF DockerOf, world
<1>8. CASE TimesOut(q)
  <2>1. /\ pc'[q] = "stopping" /\ docker[q] = "running" /\ client[q]
        /\ UNCHANGED <<world, process>>
    BY <1>0, <1>1, <1>8 DEF TimesOut, Goto, DockerOf
  <2>2. QED
    BY <2>1 DEF DockerOf, world
<1>9. CASE CancelRunning(q)
  <2>1. ~client'[q]
    BY <1>0, <1>1, <1>9 DEF CancelRunning
  <2>2. pc'[q] = "cancelling" /\ UNCHANGED process
    BY <1>0, <1>9 DEF CancelRunning, Goto
  <2>3. QED
    BY <2>1, <2>2 DEF DockerOf
<1>10. CASE Stopped(q) \/ CancelStopping(q) \/ CancelStopped(q)
  <2>1. /\ pc[q] \in {"stopping", "cancelling"} /\ Goto(q, "finishing") /\ UNCHANGED process
        /\ Killed({q}, "exited") \/ Killed({q}, "none")
    BY <1>1, <1>10 DEF Stopped, CancelStopping, CancelStopped, StopContainer
  <2>2. docker'[q] # "running"
    BY <1>0, <2>1 DEF Killed
  <2>3. client'[q] => client[q] /\ docker[q] # "running"
    BY <2>1 DEF Killed
  <2>4. ~client'[q]
    BY <1>1, <2>1, <2>3 DEF DockerOf
  <2>5. QED
    BY <2>1, <2>2, <2>4 DEF DockerOf
<1>11. CASE CancelGranted(q) \/ Finish(q)
  <2>1. /\ pc[q] \in {"granted", "finishing"} /\ UNCHANGED <<world, process>>
        /\ ReleasePermit([pc EXCEPT ![q] = "done"])
    BY <1>1, <1>11 DEF CancelGranted, Finish
  <2>2. ~client[q] /\ (booted => docker[q] # "running")
    BY <1>1, <2>1 DEF DockerOf
  <2>3. UNCHANGED <<booted, setting>>
    BY <2>1 DEF process
  <2>4. pc'[q] \notin {"collecting", "stopping"}
    <3>1. pc[q] \in Holding
      BY <2>1 DEF Holding
    <3>2. pc'[q] = pc[q] \/ pc'[q] = "done" \/ pc'[q] = "granted"
      BY <2>1, <2>3, <3>1, SemReleased
    <3>3. QED
      BY <2>1, <3>2
  <2>5. QED
    BY <2>1, <2>2, <2>3, <2>4 DEF DockerOf, world
<1>12. CASE DockerCreates(q)
  <2>1. /\ docker'[q] = "running" /\ client[q] /\ client'[q]
        /\ pc'[q] = pc[q] /\ UNCHANGED process
    BY <1>0, <1>12 DEF DockerCreates
  <2>2. QED
    BY <1>1, <2>1 DEF DockerOf
<1>13. CASE DockerRefuses(q) \/ \E o \in AgentOutputs : AgentExits(q, o)
  <2>1. docker'[q] # "running" /\ ~client'[q] /\ UNCHANGED process
    BY <1>0, <1>13 DEF DockerRefuses, AgentExits
  <2>2. QED
    BY <2>1 DEF DockerOf
<1>14. QED
  BY <1>2, <1>3, <1>4, <1>5, <1>6, <1>7, <1>8, <1>9, <1>10, <1>11, <1>12, <1>13
     DEF Own, HoldingStep, DockerStep

\* DockerInv is inductive.
LEMMA DockerNext ==
    ASSUME TypeOK, SemInv, RecordInv, BootInv, DockerAnswers, DockerInv, Next
    PROVE  DockerInv'
<1> SUFFICES ASSUME NEW q \in Runs PROVE DockerOf(q)'
  BY Booting DEF DockerInv
<1>1. CASE Own(q)
  BY <1>1, OwnStep
<1>2. CASE Crash
  BY <1>2 DEF Crash, DockerOf
<1>3. CASE Apart(q)
  <2>1. RecordOf(q) /\ DockerOf(q)
    BY DEF RecordInv, DockerInv
  <2>2. /\ client'[q] => pc'[q] \in {"collecting", "stopping"}
        /\ pc'[q] = "stopping" /\ client'[q] => docker'[q] = "running"
        /\ pc'[q] \in {"collecting", "stopping"} /\ docker'[q] = "running" => client'[q]
    BY <1>3, <2>1 DEF Apart, RecordOf, DockerOf, Early
  <2>3. ASSUME booted', docker'[q] = "running"
        PROVE  pc'[q] \in {"collecting", "stopping", "cancelling"}
    <3>1. booted
      BY <2>3, Booting
    <3>2. docker[q] = "running"
      BY <1>3, <2>3 DEF Apart
    <3>3. pc[q] \in {"collecting", "stopping", "cancelling"}
      BY <2>1, <3>1, <3>2 DEF DockerOf
    <3>4. QED
      BY <1>3, <3>3 DEF Apart, Early
  <2>4. QED
    BY <2>2, <2>3 DEF DockerOf
<1>4. QED
  BY <1>1, <1>2, <1>3, OwnOrApart

-----------------------------------------------------------------------------
(* The invariant, and what it says. *)

\* Initially nothing is held, nothing recorded and nothing executed.
LEMMA RunnerInit == Init => RunnerInv
<1> SUFFICES ASSUME Init PROVE RunnerInv
  OBVIOUS
<1> USE Numbers DEF Init
<1>1. TypeOK
  <2>1. SemType /\ CircuitType
    BY DEF SemType, CircuitType, Places
  <2>2. WorldType /\ RecordType
    BY DEF WorldType, RecordType
  <2>3. cleanup \in [at : {"idle", "listing", "removing"},
                    live : SUBSET Runs, victims : SUBSET Runs]
    OBVIOUS
  <2>4. ProcessType
    <3>1. crashes \in 0..CrashBound
      OBVIOUS
    <3>2. active \subseteq Runs /\ setting \in Settings
      OBVIOUS
    <3>3. booted \in BOOLEAN /\ shutting \in BOOLEAN
      OBVIOUS
    <3> HIDE DEF Init
    <3>4. QED
      BY <2>3, <3>1, <3>2, <3>3 DEF ProcessType
  <2>5. QED
    BY <2>1, <2>2, <2>4, TypeParts
<1>2. SemInv
  <2>1. Holders = {}
    BY DEF Holders, Holding
  <2>2. IsFiniteSet(Holders) /\ Cardinality(Holders) = 0
    BY <2>1, FS_EmptySet
  <2>3. permits + Cardinality(Holders) = MAX_CONCURRENT_CONTAINERS
    BY <2>2
  <2>4. Len(waiters) = 0
    OBVIOUS
  <2>5. \A r \in Runs : pc[r] # "waiting" /\ ~Waiting(r)
    BY <2>4 DEF Waiting
  <2>6. permits + Cardinality(Holders) <= MAX_CONCURRENT_CONTAINERS
    BY <2>3
  <2>7. QED
    BY <2>2, <2>3, <2>4, <2>5, <2>6 DEF SemInv, PermitsConserved
<1>3. RecordInv
  BY DEF RecordInv, RecordOf, Early
<1>4. BootInv
  BY DEF BootInv
<1>5. DockerInv
  BY DEF DockerInv, DockerOf
<1>6. QED
  BY <1>1, <1>2, <1>3, <1>4, <1>5 DEF RunnerInv

\* A step of the program, or none, keeps the invariant.
LEMMA RunnerNext == RunnerInv /\ [Next]_vars => RunnerInv'
<1> SUFFICES ASSUME RunnerInv, [Next]_vars PROVE RunnerInv'
  OBVIOUS
<1>1. CASE Next
  <2>1. TypeOK' /\ SemInv' /\ RecordInv' /\ BootInv'
    BY <1>1, TypeNext, SemNext, RecordNext, BootNext DEF RunnerInv
  <2>2. setting' = setting
    <3>1. ASSUME NEW r \in Runs, \/ Refused(r) \/ Waits(r) \/ Enters(r) \/ Resumes(r)
                                 \/ HoldingStep(r) \/ CancelWaiting(r) \/ CancelGranted(r)
                                 \/ Finish(r)
          PROVE  setting' = setting
      BY <3>1, HoldingMoves DEF Refused, Waits, Enters, Resumes, CancelWaiting, CancelGranted,
         Finish, process
    <3>2. Crash => setting' = setting
      BY DEF Crash
    <3>3. QED
      BY <1>1, <3>1, <3>2, WorldMoves, Steps
  <2>3. DockerAnswers' => DockerAnswers
    BY <2>2 DEF DockerAnswers
  <2>4. DockerAnswers => DockerInv'
    BY <1>1, DockerNext DEF RunnerInv
  <2>5. QED
    BY <2>1, <2>3, <2>4 DEF RunnerInv
<1>2. CASE UNCHANGED vars
  <2>1. Holders' = Holders
    BY <1>2 DEF vars, Holders
  <2>2. SemInv'
    BY <1>2, <2>1 DEF RunnerInv, vars, sem, process, SemInv, Waiting, PermitsConserved
  <2>3. TypeOK'
    BY <1>2 DEF RunnerInv, vars, sem, circuit, world, record, process, TypeOK
  <2>4. RecordInv'
    BY <1>2 DEF RunnerInv, vars, world, record, RecordInv, RecordOf
  <2>5. BootInv'
    BY <1>2 DEF RunnerInv, vars, world, process, BootInv
  <2>6. DockerAnswers' => DockerInv'
    BY <1>2 DEF RunnerInv, vars, world, process, DockerAnswers, DockerInv, DockerOf
  <2>7. QED
    BY <2>2, <2>3, <2>4, <2>5, <2>6 DEF RunnerInv
<1>3. QED
  BY <1>1, <1>2

\* In every setting the semaphore never has more permits out than it was made with, its
\* waiters are the calls that wait, and a call's record agrees with where it is.
THEOREM RunnerInvariant == Spec => []RunnerInv
BY RunnerInit, RunnerNext, PTL DEF Spec

\* run_container_agent keeps its books in every setting in which nothing raises between the
\* acquire and the try: each permit is with a call on its way or with the semaphore, however
\* the call ends, and a reply goes out only after the cursor was advanced, which a success
\* alone does.
THEOREM RunnerStaysSound ==
    ASSUME \A c \in Settings : Prepared(c)
    PROVE  Spec => []RunnerSound
<1>1. RunnerInv => RunnerSound
  <2> SUFFICES ASSUME RunnerInv PROVE RunnerSound
    OBVIOUS
  <2>1. TypeOK /\ SemInv /\ RecordInv
    BY DEF RunnerInv
  <2>2. PermitsConserved
    BY <2>1 DEF TypeOK, SemInv
  <2>3. CursorBeforeReply
    BY <2>1 DEF RecordInv, RecordOf, CursorBeforeReply
  <2>4. QED
    BY <2>1, <2>2, <2>3 DEF RunnerSound
<1>2. QED
  BY <1>1, RunnerInvariant, PTL

\* As long as Docker answers, and however time-outs, cancellations, failed callbacks, crashes
\* and lost permits interleave, the machine never executes more than
\* MAX_CONCURRENT_CONTAINERS containers, and none when the shutdown has ended every call.
THEOREM ContainersStayContained == Spec => []ContainersContained
<1>1. RunnerInv => ContainersContained
  <2> SUFFICES ASSUME RunnerInv, DockerAnswers
               PROVE  ContainersBounded /\ NothingRunsAfterShutdown
    BY DEF ContainersContained
  <2>1. TypeOK /\ SemInv /\ DockerInv
    BY DEF RunnerInv
  <2> DEFINE running == {r \in Runs : docker[r] = "running"}
  <2>2. ASSUME booted PROVE Cardinality(running) <= MAX_CONCURRENT_CONTAINERS
    <3>1. running \subseteq Holders
      BY <2>1, <2>2 DEF DockerInv, DockerOf, Holders, Holding
    <3>2. IsFiniteSet(Holders) /\ permits \in Nat
          /\ permits + Cardinality(Holders) <= MAX_CONCURRENT_CONTAINERS
      BY <2>1 DEF SemInv, TypeOK
    <3>3. IsFiniteSet(running) /\ Cardinality(running) <= Cardinality(Holders)
      BY <3>1, <3>2, FS_Subset
    <3>4. Cardinality(running) \in Nat /\ Cardinality(Holders) \in Nat
      BY <3>2, <3>3, FS_CardinalityType
    <3> HIDE DEF running
    <3>5. QED
      BY <3>2, <3>3, <3>4, Numbers
  <2>3. ContainersBounded
    BY <2>2 DEF ContainersBounded
  <2>4. NothingRunsAfterShutdown
    BY <2>1 DEF DockerInv, DockerOf, NothingRunsAfterShutdown
  <2>5. QED
    BY <2>3, <2>4
<1>2. QED
  BY <1>1, RunnerInvariant, PTL

=============================================================================
